---------------------------- MODULE XmlSettings -----------------------------
(***************************************************************************)
(* xml_settings: what the program takes from settings.xml, or how it fails *)
(* to.                                                                     *)
(***************************************************************************)
EXTENDS XmlText, SettingsRecord

\* The strings of a database source besides its name and credentials, which
\* only have to be there.
StringAttributes == {"host", "product", "pwd", "user", "name", "cstr", "iso_lev"}

-----------------------------------------------------------------------------
(* TiXmlElement::Attribute and TiXmlNode::FirstChild.                      *)

Has(elem, name) == \E i \in DOMAIN elem.attrs : elem.attrs[i].name = <<name>>

Attribute(elem, name) ==
  elem.attrs[SelectInSeq(elem.attrs, LAMBDA a : a.name = <<name>>)].value

\* QueryIntValue: an int that was zero stays so when the attribute is missing
\* or does not begin with a numeral.
IntAttribute(elem, name) ==
  LET value == IF Has(elem, name) THEN Attribute(elem, name) ELSE <<>>
      first == Ch(value, SkipWhiteSpace(value, 1))
  IN IF first \in DOMAIN Numeral THEN Numeral[first] ELSE 0

\* FirstChild(value) compares the value of any node, a comment's text too.
FirstChild(node, value) == SelectInSeq(node.kids, LAMBDA k : k.value = value)

-----------------------------------------------------------------------------
(* xml_settings.                                                           *)

IsElement(node) == node.kind = "ELEMENT"

\* The children a loop of xml_settings.cpp visits before it meets one with
\* another name, at which it stops without a word, and whether one of the
\* visited children or the next one is not an element.
Visited(node, name) ==
  LET stop == SelectInSeq(node.kids, LAMBDA k : ~IsElement(k) \/ k.value # <<name>>)
  IN [kids |-> IF stop = 0 THEN node.kids ELSE SubSeq(node.kids, 1, stop - 1),
      null |-> stop # 0 /\ ~IsElement(node.kids[stop])]

\* proc_db_sources_properties: emplace keeps the first value of a name.
Properties(db) ==
  LET kids == Visited(db, "property").kids
      Named(name) == SelectInSeq(kids, LAMBDA k : Attribute(k, "name") = name)
  IN [name \in {Attribute(kids[i], "name") : i \in DOMAIN kids} |->
        Attribute(kids[Named(name)], "value")]

\* How reading one db element ends: null attributes are assigned, those of a
\* property are passed to a constructor, which throws.
DbStatus(db) ==
  LET visited == Visited(db, "property")
  IN IF \E a \in StringAttributes : ~Has(db, a) THEN "crashed"
     ELSE IF \E i \in DOMAIN visited.kids :
               ~Has(visited.kids[i], "name") \/ ~Has(visited.kids[i], "value") THEN "threw"
     ELSE IF visited.null THEN "crashed"
     ELSE "loaded"

DbSource(db) ==
  [id |-> IntAttribute(db, "id"), port |-> IntAttribute(db, "port"),
   product |-> Attribute(db, "product"), isoLevel |-> Attribute(db, "iso_lev"),
   conStr |-> Attribute(db, "cstr"), properties |-> Properties(db)]

\* proc_db_sources
ProcDbSources(s, node) ==
  LET visited == Visited(node, "db")
      failed == SelectInSeq(visited.kids, LAMBDA k : DbStatus(k) # "loaded")
  IN IF failed # 0 THEN Ended(DbStatus(visited.kids[failed]))
     ELSE IF visited.null THEN Ended("crashed")
     ELSE [s EXCEPT !.sources = @ \o [i \in DOMAIN visited.kids |-> DbSource(visited.kids[i])]]

\* proc_end_point
ProcEndPoint(s, node) ==
  IF ~Has(node, "ip") THEN Ended("crashed")
  ELSE [s EXCEPT !.endpoints =
          Append(@, [ip |-> Attribute(node, "ip"), port |-> IntAttribute(node, "port")])]

RECURSIVE LoadItems(_, _)

\* load_item, which goes down into elements it does not know.
LoadItem(s, node) ==
  CASE ~IsElement(node)               -> Ended("crashed")
    [] node.value = <<"dbsources">>   -> ProcDbSources(s, node)
    [] node.value = <<"endpoint">>    -> ProcEndPoint(s, node)
    [] OTHER                          -> LoadItems(s, node.kids)

\* The loops of load and load_item.
LoadItems(s, nodes) ==
  IF nodes = <<>> \/ s.status # "loaded" THEN s
  ELSE LoadItems(LoadItem(s, Head(nodes)), Tail(nodes))

\* load_settings_xml, after LoadFile.
LoadParsed(xml) ==
  LET root == FirstChild(xml.node, <<"ftnode_mw">>)
  IN IF xml.d.aborted THEN Ended("crashed")
     ELSE IF ~Loaded(xml) \/ root = 0 THEN Ended("rejected")
     ELSE LoadItems(Nothing, xml.node.kids[root].kids)

LoadSettings(raw) == LoadParsed(LoadFile(raw))
=============================================================================
