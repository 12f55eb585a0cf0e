------------------------------ MODULE XmlPrint ------------------------------
(***************************************************************************)
(* How TinyXML writes a tree: Print, which TiXmlDocument::SaveFile uses,   *)
(* and the visitor TiXmlPrinter.  Both are checked against the parser of   *)
(* XmlText: what they write is read back as the same tree.                 *)
(***************************************************************************)
EXTENDS XmlText

\* The entity table, and the references written for control characters.
Escape(c) ==
  CASE c = "&"  -> <<"&", "amp", ";">>
    [] c = "<"  -> <<"&", "lt", ";">>
    [] c = ">"  -> <<"&", "gt", ";">>
    [] c = "\"" -> <<"&", "quot", ";">>
    [] c = "'"  -> <<"&", "apos", ";">>
    [] c = "\n" -> <<"&", "#x0A", ";">>
    [] c = "\t" -> <<"&", "#x09", ";">>
    [] OTHER    -> <<c>>

HexRefs == DOMAIN CharRef \ {"#38"}

\* A literal "&#x" is taken for a reference and goes out unchanged up to the
\* semicolon, or to the last character but one.
PassedThrough(s, i) ==
  i < Len(s) /\ \E j \in 1 .. i :
    /\ s[j] = "&" /\ s[j + 1] \in HexRefs
    /\ \A k \in j .. i : s[k] # ";"

\* Mistake: a quote is not escaped.
EncodeStringQuotes(s) ==
  FlattenSeq([i \in DOMAIN s |->
                IF PassedThrough(s, i) \/ s[i] \in {"\"", "'"} THEN <<s[i]>> ELSE Escape(s[i])])

EncodeString(s) ==
  FlattenSeq([i \in DOMAIN s |-> IF PassedThrough(s, i) THEN <<s[i]>> ELSE Escape(s[i])])

Indent(depth) == [i \in 1 .. 4 * depth |-> " "]

\* TiXmlAttribute::Print: single quotes around a value with double ones.
AttributePrint(a) ==
  LET quote == IF \E i \in DOMAIN a.value : a.value[i] = "\"" THEN <<"'">> ELSE <<"\"">>
  IN EncodeString(a.name) \o <<"=">> \o quote \o EncodeString(a.value) \o quote

DeclarationPrint(node) ==
  LET Part(i) == IF node.attrs[i] = <<>> THEN <<>>
                 ELSE <<DeclarationParts[i], "=", "\"">> \o node.attrs[i] \o <<"\"", " ">>
  IN <<"<", "?", "xml", " ">> \o Part(1) \o Part(2) \o Part(3) \o <<"?", ">">>

\* A comment, an unknown node, a declaration or CDATA without its layout.
Markup(node) ==
  CASE node.kind = "COMMENT" -> <<"<", "!", "-", "-">> \o node.value \o <<"-", "-", ">">>
    [] node.kind = "UNKNOWN" -> <<"<">> \o node.value \o <<">">>
    [] node.kind = "CDATA" -> <<"<", "!", "[CDATA[">> \o node.value \o <<"]", "]", ">">>
    [] node.kind = "DECLARATION" -> DeclarationPrint(node)

OpenTag(node) ==
  <<"<">> \o node.value
    \o FlattenSeq([i \in DOMAIN node.attrs |-> <<" ">> \o AttributePrint(node.attrs[i])])

CloseTag(node) == <<"<", "/">> \o node.value \o <<">">>

IsText(node) == node.kind \in {"TEXT", "CDATA"}

RECURSIVE Printed(_, _)
\* The virtual Print: only text and declarations begin without indentation.
Printed(node, depth) ==
  CASE node.kind = "TEXT" -> EncodeString(node.value)
    [] node.kind = "CDATA" -> <<"\n">> \o Indent(depth) \o Markup(node) \o <<"\n">>
    [] node.kind = "DECLARATION" -> Markup(node)
    [] node.kind \in {"COMMENT", "UNKNOWN"} -> Indent(depth) \o Markup(node)
    [] node.kind = "ELEMENT" ->
         Indent(depth) \o OpenTag(node) \o
         (IF node.kids = <<>> THEN <<" ", "/", ">">>
          ELSE IF Len(node.kids) = 1 /\ IsText(node.kids[1])
            THEN <<">">> \o Printed(node.kids[1], depth + 1) \o CloseTag(node)
          ELSE <<">">>
                 \o FlattenSeq([i \in DOMAIN node.kids |->
                      (IF IsText(node.kids[i]) THEN <<>> ELSE <<"\n">>)
                        \o Printed(node.kids[i], depth + 1)])
                 \o <<"\n">> \o Indent(depth) \o CloseTag(node))
    [] node.kind = "DOCUMENT" ->
         FlattenSeq([i \in DOMAIN node.kids |-> Printed(node.kids[i], depth) \o <<"\n">>])

RECURSIVE Accept(_, _, _)
\* TiXmlPrinter: one node to a line, except for an element whose only child is
\* plain text, which is visited with simpleTextPrint.
Accept(node, depth, simpleTextPrint) ==
  LET line == <<"\n">>
      simple == Len(node.kids) = 1 /\ node.kids[1].kind = "TEXT"
      kids == FlattenSeq([i \in DOMAIN node.kids |->
                Accept(node.kids[i], IF node.kind = "DOCUMENT" THEN depth ELSE depth + 1, simple)])
  IN CASE node.kind = "DOCUMENT" -> kids
       [] node.kind = "ELEMENT" ->
            Indent(depth) \o OpenTag(node) \o
            (IF node.kids = <<>> THEN <<" ", "/", ">">>
             ELSE IF simple THEN <<">">> \o kids \o CloseTag(node)
             ELSE <<">">> \o line \o kids \o Indent(depth) \o CloseTag(node)) \o line
       [] node.kind = "TEXT" ->
            IF simpleTextPrint THEN EncodeString(node.value)
            ELSE Indent(depth) \o EncodeString(node.value) \o line
       [] OTHER -> Indent(depth) \o Markup(node) \o line

-----------------------------------------------------------------------------
(* What the trees say, wherever they were written.                         *)

RECURSIVE Content(_)
\* A tree without the places of its nodes.
Content(node) ==
  [kind  |-> node.kind,
   value |-> node.value,
   attrs |-> IF node.kind # "ELEMENT" THEN node.attrs
             ELSE [i \in DOMAIN node.attrs |-> <<node.attrs[i].name, node.attrs[i].value>>],
   kids  |-> [i \in DOMAIN node.kids |-> Content(node.kids[i])]]

RECURSIVE NodesOf(_)
NodesOf(node) == {node} \cup UNION {NodesOf(node.kids[i]) : i \in DOMAIN node.kids}

\* Text as the parser leaves it: no white space at its ends, no two spaces
\* together, no line breaks.  A reference such as &#x20; makes other text.
Condensed(s) ==
  \A i \in DOMAIN s :
    s[i] \in White => s[i] = " " /\ 1 < i /\ i < Len(s) /\ s[i - 1] # " "

NoReference(s) == \A i \in 1 .. Len(s) - 1 : s[i] = "&" => s[i + 1] \notin HexRefs

\* Trees the printers can write down: they escape nothing in a declaration, they
\* take a literal "&#x" for a reference, and they cannot keep white space.
Printable(document) ==
  \A node \in NodesOf(document) :
    /\ node.kind = "TEXT" => Condensed(node.value) /\ NoReference(node.value)
    /\ node.kind = "ELEMENT" =>
         \A i \in DOMAIN node.attrs : NoReference(node.attrs[i].value)
    /\ node.kind = "DECLARATION" =>
         \A i \in 1 .. 3 : \A k \in DOMAIN node.attrs[i] : node.attrs[i][k] \notin {"&", "\""}
=============================================================================
