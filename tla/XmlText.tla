------------------------------ MODULE XmlText -------------------------------
(***************************************************************************)
(* The parser of TinyXML, which reads settings.xml.  A text is a sequence  *)
(* of symbols: a mark, a white-space character, or a word, a numeral or    *)
(* the body of a character reference that the parser never cuts.  A        *)
(* pointer into text t is a position: 0 is the null pointer, Len(t) + 1    *)
(* the terminating NUL.                                                    *)
(*                                                                         *)
(* A Parse function returns where it stopped, the document's error and the *)
(* node.  Left out are character encodings, on which no symbol depends,    *)
(* and the rows and columns of nodes and errors, which ftnode never asks   *)
(* for.                                                                    *)
(***************************************************************************)
EXTENDS Integers, Sequences, SequencesExt

White == {" ", "\n", "\t"}

\* The numerals of the texts, with what sscanf("%d") makes of them.
Numeral == ("0" :> 0) @@ ("1" :> 1) @@ ("2" :> 2) @@ ("3333" :> 3333)

\* Bodies of numeric character references; all but "#38" are hexadecimal.
CharRef == ("#x26" :> "&") @@ ("#x3C" :> "<") @@ ("#x20" :> " ")
             @@ ("#x0A" :> "\n") @@ ("#x09" :> "\t") @@ ("#38" :> "&")

Entity == ("amp" :> "&") @@ ("lt" :> "<") @@ ("gt" :> ">") @@ ("quot" :> "\"")
            @@ ("apos" :> "'")

NUL == ""

Marks ==
  White \cup DOMAIN Numeral \cup DOMAIN CharRef
    \cup {NUL, "\r", "<", ">", "/", "=", "\"", "'", "&", ";", "?", "!", "-", ".", ":",
          "[CDATA[", "]"}

IsAlpha(c) == c \notin Marks

\* What ends a name: anything but letters, digits, hyphens, dots and colons.
NameEnds == Marks \ (DOMAIN Numeral \cup {"-", ".", ":"})

-----------------------------------------------------------------------------
(* Moving over the text.                                                   *)

\* p && *p
More(t, p) == p \in DOMAIN t

Ch(t, p) == IF More(t, p) THEN t[p] ELSE NUL

\* The first position from p on with one of the symbols, or that of the NUL.
FindAny(t, p, symbols) ==
  LET found == SelectInSubSeq(t, p, Len(t), LAMBDA c : c \in symbols)
  IN IF found = 0 THEN Len(t) + 1 ELSE found

\* StringEqual, at a position that is not the NUL.
StringEqual(t, p, s) == p + Len(s) - 1 <= Len(t) /\ SubSeq(t, p, p + Len(s) - 1) = s

\* The first position from p on at which s begins, or that of the NUL.
FindText(t, p, s) ==
  LET at == {q \in p .. Len(t) : StringEqual(t, q, s)}
  IN IF at = {} THEN Len(t) + 1 ELSE Min(at)

\* Past the white space from p on; 0 when there is no text.
SkipWhiteSpace(t, p) ==
  LET found == SelectInSubSeq(t, p, Len(t), LAMBDA c : c \notin White)
  IN IF ~More(t, p) THEN 0 ELSE IF found = 0 THEN Len(t) + 1 ELSE found

\* A name and the position after it, which is 0 when no name begins at p.
ReadName(t, p) ==
  LET q == FindAny(t, p, NameEnds)
  IN IF IsAlpha(Ch(t, p)) THEN [p |-> q, name |-> SubSeq(t, p, q - 1)]
                          ELSE [p |-> 0, name |-> <<>>]

\* The character an entity stands for; an unknown one loses its ampersand, and
\* a numeric one without its semicolon is the end of the text.
GetEntity(t, p) ==
  IF Ch(t, p + 1) \in DOMAIN CharRef
    THEN IF Ch(t, p + 2) = ";" THEN [p |-> p + 3, chars |-> <<CharRef[t[p + 1]]>>]
                               ELSE [p |-> 0, chars |-> <<>>]
  ELSE IF Ch(t, p + 1) \in DOMAIN Entity /\ Ch(t, p + 2) = ";"
    THEN [p |-> p + 3, chars |-> <<Entity[t[p + 1]]>>]
  ELSE [p |-> p + 1, chars |-> <<>>]

GetChar(t, p) ==
  IF t[p] = "&" THEN GetEntity(t, p) ELSE [p |-> p + 1, chars |-> <<t[p]>>]

RECURSIVE ReadChars(_, _, _, _, _, _)
\* The loops of ReadText: white says that white space is waiting to be put
\* down as a single space before the next character.
ReadChars(t, p, trim, endTag, text, white) ==
  IF ~More(t, p) \/ StringEqual(t, p, endTag) THEN [p |-> p, text |-> text]
  ELSE IF trim /\ t[p] \in White THEN ReadChars(t, p + 1, trim, endTag, text, TRUE)
  ELSE LET next == GetChar(t, p)
           gap == IF white THEN <<" ">> ELSE <<>>
       IN ReadChars(t, next.p, trim, endTag, text \o gap \o next.chars, FALSE)

\* The text up to endTag and the position after it; 0 at the end of the text.
ReadText(t, p, trim, endTag) ==
  LET read == ReadChars(t, IF trim THEN SkipWhiteSpace(t, p) ELSE p, trim, endTag, <<>>, FALSE)
      past == read.p + Len(endTag)
  IN [p |-> IF More(t, read.p) /\ More(t, past) THEN past ELSE 0, text |-> read.text]

-----------------------------------------------------------------------------
(* What the parser found: the document's first error and whether an        *)
(* assertion has failed; and nodes.                                        *)

Start == [err |-> "none", aborted |-> FALSE]

\* TiXmlDocument::SetError: the first error stays.
SetError(d, e) == IF d.err # "none" THEN d ELSE [d EXCEPT !.err = e]

\* A failed assertion ends the process.
Abort(d) == [d EXCEPT !.aborted = TRUE]

Node(kind, value) == [kind |-> kind, value |-> value, attrs |-> <<>>, kids |-> <<>>]

At(p, d, node) == [p |-> p, d |-> d, node |-> node]

LinkEndChild(node, child) == [node EXCEPT !.kids = Append(@, child)]

-----------------------------------------------------------------------------
(* Nodes without children.                                                 *)

CommentParse(t, p, d) ==
  LET end == FindText(t, p + 4, <<"-", "-", ">">>)
  IN At(IF More(t, end) THEN end + 3 ELSE end, d,
        Node("COMMENT", SubSeq(t, p + 4, end - 1)))

UnknownParse(t, p, d) ==
  LET end == FindAny(t, p + 1, {">"})
  IN At(IF More(t, end) THEN end + 1 ELSE end, d, Node("UNKNOWN", SubSeq(t, p + 1, end - 1)))

CDataParse(t, p, d) ==
  LET endTag == <<"]", "]", ">">>
      end == FindText(t, p + 3, endTag)
  IN At(ReadText(t, end, FALSE, endTag).p, d, Node("CDATA", SubSeq(t, p + 3, end - 1)))

TextParse(t, p, d) ==
  LET read == ReadText(t, p, TRUE, <<"<">>)
  IN At(IF read.p = 0 THEN 0 ELSE read.p - 1, d, Node("TEXT", read.text))

\* The value after '=', in either quotes or in none; ok is false when a bare
\* one ends in a quote.
AttributeValue(t, p) ==
  IF t[p] \in {"'", "\""}
    THEN LET read == ReadText(t, p + 1, FALSE, <<t[p]>>)
         IN [p |-> read.p, text |-> read.text, ok |-> TRUE]
    ELSE LET end == FindAny(t, p, White \cup {"/", ">", "'", "\""})
         IN [p |-> end, text |-> SubSeq(t, p, end - 1), ok |-> Ch(t, end) \notin {"'", "\""}]

\* TiXmlAttribute::Parse at a position that is not white space.  Attributes of
\* a declaration have no document to report to.
AttributeParse(t, p, d, hasDocument) ==
  LET read == ReadName(t, p)
      equals == SkipWhiteSpace(t, read.p)
      quote == SkipWhiteSpace(t, equals + 1)
      Result(q, doc, text) == At(q, doc, [name |-> read.name, value |-> text])
      Failed(text) == Result(0, IF hasDocument THEN SetError(d, "READING_ATTRIBUTES") ELSE d, text)
      Ended(value) == IF value.ok THEN Result(value.p, d, value.text) ELSE Failed(value.text)
  IN IF More(t, read.p) /\ Ch(t, equals) = "=" /\ More(t, quote)
       THEN Ended(AttributeValue(t, quote))
       ELSE Failed(<<>>)

\* Their values are the attrs of a declaration, in this order.
DeclarationParts == <<"version", "encoding", "standalone">>

RECURSIVE DeclarationLoop(_, _, _, _)

\* One part of a declaration, at a position that is not white space.
DeclarationPart(t, q, d, node) ==
  LET part == SelectInSeq(DeclarationParts, LAMBDA w : w = t[q])
      AfterAttribute(attrib) ==
        DeclarationLoop(t, attrib.p, attrib.d, [node EXCEPT !.attrs[part] = attrib.node.value])
  IN IF part # 0 THEN AfterAttribute(AttributeParse(t, q, d, FALSE))
     ELSE DeclarationLoop(t, FindAny(t, q, White \cup {">"}), d, node)

\* Nothing reports a declaration that does not end, and an attribute that does
\* not parse ends it; only white space before the NUL fails an assertion.
DeclarationLoop(t, p, d, node) ==
  IF ~More(t, p) THEN At(0, d, node)
  ELSE IF t[p] = ">" THEN At(p + 1, d, node)
  ELSE IF ~More(t, SkipWhiteSpace(t, p)) THEN At(0, Abort(d), node)
  ELSE DeclarationPart(t, SkipWhiteSpace(t, p), d, node)

DeclarationParse(t, p, d) ==
  DeclarationLoop(t, p + 3, d, [Node("DECLARATION", <<>>) EXCEPT !.attrs = <<<<>>, <<>>, <<>>>>])

-----------------------------------------------------------------------------
(* Elements, and the document.                                             *)

\* TiXmlNode::Identify, at a '<'.
Identify(t, p) ==
  CASE StringEqual(t, p, <<"<", "?", "xml">>)     -> "DECLARATION"
    [] StringEqual(t, p, <<"<", "!", "-", "-">>)  -> "COMMENT"
    [] StringEqual(t, p, <<"<", "!", "[CDATA[">>) -> "CDATA"
    [] IsAlpha(Ch(t, p + 1))                      -> "ELEMENT"
    [] OTHER                                      -> "UNKNOWN"

RECURSIVE NodeParse(_, _, _), ReadTag(_, _, _, _), ReadValue(_, _, _, _)

ElementParse(t, p, d) ==
  LET read == ReadName(t, p + 1)
      node == Node("ELEMENT", read.name)
  IN IF More(t, read.p) THEN ReadTag(t, read.p, d, node)
     ELSE At(0, SetError(d, "FAILED_TO_READ_ELEMENT_NAME"), node)

NodeParse(t, p, d) ==
  LET kind == Identify(t, p)
  IN CASE kind = "DECLARATION" -> DeclarationParse(t, p, d)
       [] kind = "COMMENT"     -> CommentParse(t, p, d)
       [] kind = "CDATA"       -> CDataParse(t, p, d)
       [] kind = "ELEMENT"     -> ElementParse(t, p, d)
       [] OTHER                -> UnknownParse(t, p, d)

\* After the value has been read: </name, white space and >.
EndTag(t, value) ==
  LET endTag == <<"<", "/">> \o value.node.value
      close == SkipWhiteSpace(t, value.p + Len(endTag))
      named == More(t, value.p) /\ StringEqual(t, value.p, endTag)
  IN IF named /\ Ch(t, close) = ">" THEN At(close + 1, value.d, value.node)
     ELSE At(0, SetError(value.d, "READING_END_TAG"), value.node)

\* An attribute joins the node unless it has failed or repeats a name.
TagAttribute(t, attrib, node) ==
  IF More(t, attrib.p) /\ \A i \in DOMAIN node.attrs : node.attrs[i].name # attrib.node.name
    THEN ReadTag(t, attrib.p, attrib.d, [node EXCEPT !.attrs = Append(@, attrib.node)])
    ELSE At(0, SetError(attrib.d, "PARSING_ELEMENT"), node)

\* The loop of TiXmlElement::Parse: one attribute, or the end of the tag.
ReadTag(t, p, d, node) ==
  LET q == SkipWhiteSpace(t, p)
      Failed(e) == At(0, SetError(d, e), node)
  IN CASE ~More(t, q) -> Failed("READING_ATTRIBUTES")
       [] Ch(t, q) = "/" -> IF Ch(t, q + 1) = ">" THEN At(q + 2, d, node) ELSE Failed("PARSING_EMPTY")
       [] Ch(t, q) = ">" -> EndTag(t, ReadValue(t, SkipWhiteSpace(t, q + 1), d, node))
       [] OTHER -> TagAttribute(t, AttributeParse(t, q, d, TRUE), node)

Blank(text) == \A i \in DOMAIN text : text[i] \in White

\* A child is linked even if it has failed; blank text is dropped.
ReadKid(t, child, node) ==
  ReadValue(t, SkipWhiteSpace(t, child.p), child.d,
            IF child.node.kind = "TEXT" /\ Blank(child.node.value) THEN node
            ELSE LinkEndChild(node, child.node))

\* TiXmlElement::ReadValue: p is past the white space, 0 after a failure.
ReadValue(t, p, d, node) ==
  IF ~More(t, p)
    THEN At(p, IF p = 0 THEN SetError(d, "READING_ELEMENT_VALUE") ELSE d, node)
  ELSE IF StringEqual(t, p, <<"<", "/">>) THEN At(p, d, node)
  ELSE ReadKid(t, IF t[p] = "<" THEN NodeParse(t, p, d) ELSE TextParse(t, p, d), node)

RECURSIVE TopLevel(_, _, _, _)
\* The loop of TiXmlDocument::Parse: anything but a '<' ends it in silence.
TopLevel(t, p, d, document) ==
  LET AfterChild(child) ==
        TopLevel(t, SkipWhiteSpace(t, child.p), child.d, LinkEndChild(document, child.node))
  IN IF Ch(t, p) = "<" THEN AfterChild(NodeParse(t, p, d)) ELSE At(p, d, document)

\* TiXmlDocument::Parse: d and the document node.
DocumentParse(t) ==
  LET document == Node("DOCUMENT", <<>>)
      Ended(parsed) ==
        IF parsed.node.kids = <<>> THEN At(0, SetError(Start, "DOCUMENT_EMPTY"), document)
        ELSE parsed
  IN Ended(TopLevel(t, SkipWhiteSpace(t, 1), Start, document))

\* LoadFile's line breaks: CR LF and a CR alone become LF.
Normalized(raw) ==
  SelectSeq([i \in DOMAIN raw |->
               CASE raw[i] = "\r" -> "\n"
                 [] raw[i] = "\n" /\ i > 1 /\ Ch(raw, i - 1) = "\r" -> NUL
                 [] OTHER -> raw[i]],
            LAMBDA c : c # NUL)

LoadFile(raw) == DocumentParse(Normalized(raw))

\* Mistake: only an empty document is an error.
LoadedUnlessEmpty(result) == result.d.err # "DOCUMENT_EMPTY" /\ ~result.d.aborted

\* LoadFile returns true.
Loaded(result) == result.d.err = "none" /\ ~result.d.aborted
=============================================================================
