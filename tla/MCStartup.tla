----------------------------- MODULE MCStartup ------------------------------
(***************************************************************************)
(* The files of the run: every text of a few fragments, whole, inside the  *)
(* root element and inside an attribute, and settings in the form of the   *)
(* repository's settings.xml.                                              *)
(***************************************************************************)
EXTENDS SettingsFile

\* Bound: the fragments in a text, and in the body of a settings file.
MaxFragments == 3

\* Anywhere; in an attribute; in an element; outside of the root.
ValueFragments ==
  {<<"\"">>, <<"'">>, <<"&", "amp", ";">>, <<"&">>, <<"#x26">>, <<";">>, <<"w">>, <<"\n">>, <<"\t">>,
   <<"<", "a">>, <<">">>}

AttributeFragments == ValueFragments \cup {<<"&", "quot", ";">>}

BodyFragments ==
  ValueFragments \cup
  {<<"<", "/", "a", ">">>, <<"/", ">">>, <<" ", "b", "=">>, <<"\r">>, <<"<", "!", "-", "-">>,
   <<"-", "-", ">">>, <<"<", "!", "[CDATA[">>, <<"]", "]", ">">>}

Fragments == BodyFragments \cup {<<"<", "?", "xml">>, <<"version", "=">>}

Assembled(fragments, n) ==
  UNION {{FlattenSeq(f) : f \in [1 .. k -> fragments]} : k \in 0 .. n}

InRoot(text) == <<"<", "ftnode_mw", ">">> \o text \o <<"<", "/", "ftnode_mw", ">">>

InAttribute(text) == <<"<", "ftnode_mw", " ", "b", "=", "\"">> \o text \o <<"\"", "/", ">">>

Loose ==
  Assembled(Fragments, MaxFragments)
    \cup {InRoot(t) : t \in Assembled(BodyFragments, MaxFragments)}
    \cup {InAttribute(t) : t \in Assembled(AttributeFragments, MaxFragments)}

-----------------------------------------------------------------------------
\* name="value"
Attr(name, value) == <<" ", name, "=", "\"">> \o value \o <<"\"">>

DbAttrs(product, isoLevel) ==
  Attr("product", <<product>>) \o Attr("name", <<"ftnode">>) \o Attr("user", <<"pg">>)
    \o Attr("pwd", <<"pg">>) \o Attr("port", <<"3333">>) \o Attr("host", <<"h">>)
    \o Attr("cstr", <<"c", "&", "amp", ";">>) \o Attr("iso_lev", <<isoLevel>>)

Db(id, product, isoLevel, body) ==
  <<"<", "db">> \o Attr("id", <<id>>) \o DbAttrs(product, isoLevel)
    \o <<">">> \o body \o <<"<", "/", "db", ">", "\n">>

Property(value) ==
  <<"<", "property">> \o Attr("name", <<"for_upd">>) \o Attr("value", value) \o <<"/", ">", "\n">>

Comment == <<"<", "!", "-", "-", "x", "-", "-", ">">>

GoodDbs ==
  {Db(id, "postgres", "SA_RepeatableRead", Property(<<>>) \o Property(<<"w">>)) :
     id \in {"0", "1", "2"}}

OddDbs ==
  {Db("0", "postgres", "x", <<>>), Db("0", "x", "server_specific", <<>>),
   Db("0", "oracle", "SA_Serializable", <<"<", "property", "/", ">">>),
   Db("0", "oracle", "server_specific", Comment),
   Db("0", "sqlanywhere", "server_specific", <<"<", "a", "/", ">">>),
   <<"<", "db", "/", ">">>, <<"<", "a", "/", ">">>, Comment,
   <<"<", "db">> \o DbAttrs("postgres", "server_specific") \o <<"/", ">">>}

Endpoint(attrs) == <<"<", "endpoint">> \o attrs \o <<"/", ">", "\n">>

GoodEndpoint == Endpoint(Attr("ip", <<"1">>) \o Attr("port", <<"3333">>))

OddEndpoints ==
  {<<"<", "a", ">">> \o Endpoint(Attr("ip", <<"1">>)) \o <<"<", "/", "a", ">">>, Endpoint(<<>>), <<>>}

Declaration == <<"<", "?", "xml">> \o Attr("version", <<"1">>) \o <<"?", ">", "\n">>

File(dbs, endpoint) ==
  Declaration
    \o InRoot(<<"\n", "<", "dbsources", ">", "\n">> \o dbs
                \o <<"<", "/", "dbsources", ">", "\n">> \o endpoint)

SomeDb == CHOOSE d \in GoodDbs : TRUE

Settings ==
  {File(dbs, GoodEndpoint) :
     dbs \in Assembled(GoodDbs, 2) \cup OddDbs \cup {SomeDb \o o : o \in OddDbs}}
    \cup {File(SomeDb, e) : e \in OddEndpoints}

MCTexts == Loose \cup Settings
=============================================================================
