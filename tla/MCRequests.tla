----------------------------- MODULE MCRequests -----------------------------
(***************************************************************************)
(* The messages and tables of the run: every message of semicolons, blanks *)
(* and a word, longer than an unsigned short can count, and requests of    *)
(* statements that the databases know.                                     *)
(***************************************************************************)
EXTENDS Requests

\* Bound: one symbol more than W.
MaxLength == 7

Loose == UNION {[1 .. n -> {";", " ", "x"}] : n \in 0 .. MaxLength}

Select == <<"select", ";">>

Dml == <<"dml", ";">>

MCMessages ==
  Loose \cup {Select, Dml, Dml \o <<" ">> \o Select, Select \o Dml, Dml \o Dml, Select \o Select}

MCChars == {";", " ", "x", "select", "dml", ",", "0", "1", "a", "b"}

MCAccepted == {<<"select">>, <<"dml">>}

Table(types, rows) == [types |-> types, rows |-> rows]

\* Rows in two orders; no rows; two times of one day, one of them twice and the
\* other with a comma at its end; columns that look the same when they are
\* joined, one of them a number; and a null.
MCTables ==
  {Table(<<"other">>, <<<<<<"a">>>>, <<<<"b">>>>>>), Table(<<"other">>, <<<<<<"b">>>>, <<<<"a">>>>>>),
   Table(<<"other">>, <<>>),
   Table(<<"date">>, <<<<<<"1">>>>, <<<<"1">>>>>>), Table(<<"date">>, <<<<<<"1", ",">>>>>>),
   Table(<<"scaled", "other">>, <<<<<<"1">>, <<"a", "b">>>>>>),
   Table(<<"other", "other">>, <<<<<<"1", "a">>, <<"b">>>>>>),
   Table(<<"other", "other">>, <<<<<<"a">>, Null>>>>)}
=============================================================================
