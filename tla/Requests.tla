------------------------------ MODULE Requests ------------------------------
(***************************************************************************)
(* The data of one request: create_request cuts the client's message into  *)
(* statements, every db_executor runs them and hashes the results, the     *)
(* first one to finish answers the client, and verify_request compares.    *)
(* Adjudicator has the transactions around it and takes the comparison for *)
(* exact; this module has what is compared.                                *)
(*                                                                         *)
(* A message is a sequence of symbols; a column's value is Null or a       *)
(* sequence of characters: of a number with decimals the digits without    *)
(* the zeros around them, of a date the day and then the time of day.      *)
(***************************************************************************)
EXTENDS Integers, Sequences, FiniteSets, SequencesExt

CONSTANTS
  Chars,      \* what messages and values are made of
  Messages,   \* what a client may send
  NDb,        \* db_count
  Asynch,     \* the executors whose settings say asynch_hash = "Y"
  Null,       \* the value of a column that has none
  NullSkips,  \* the executors whose || is null as soon as an operand is
  DayDigits,  \* how much of a date the date format of the settings keeps
  NullHash,   \* those whose hash of no rows is null instead of that of ""
  Accepted,   \* the statements that the databases know
  Tables,     \* what a select may find
  Counts,     \* rows that a DML statement may affect
  W,          \* bound: an unsigned short holds the naturals below W
  IntRange    \* bound: an int holds the naturals below IntRange

Dbs == 0 .. NDb - 1

Blank == " "
Semicolon == ";"
Comma == ","
Zero == "0"

ASSUME RequestsAssumption ==
  /\ NDb \in Nat \ {0} /\ W \in Nat \ {0} /\ IntRange \in Nat \ {0}
  /\ Asynch \subseteq Dbs /\ NullHash \subseteq Dbs /\ NullSkips \subseteq Dbs
  /\ Counts \subseteq Nat /\ DayDigits \in Nat
  /\ {Blank, Semicolon, Comma, Zero} \subseteq Chars
  /\ Messages \subseteq Seq(Chars)
  /\ Null \notin Seq(Chars)

Text == Seq(Chars)

Values == Text \cup {Null}

\* The types that the formats of the settings tell apart.
ColumnTypes == {"scaled", "date", "other"}

\* What a column of a type may hold.
OfType(type, value) ==
  /\ type = "scaled" => value # <<>> /\ value[1] # Zero /\ value[Len(value)] # Zero
  /\ type = "date" => Len(value) >= DayDigits

\* A result has the same columns in every row, and at least one.
ASSUME TablesAssumption ==
  \A t \in Tables :
    /\ t.types \in Seq(ColumnTypes) /\ t.types # <<>>
    /\ t.rows \in Seq(Seq(Values))
    /\ \A k \in DOMAIN t.rows :
         /\ Len(t.rows[k]) = Len(t.types)
         /\ \A j \in DOMAIN t.types :
              t.rows[k][j] # Null => OfType(t.types[j], t.rows[k][j])

VARIABLES
  msg,        \* the message
  phase,      \* where process_request is
  grain,      \* grain[d]: v_sg
  at,         \* at[d]: the statement that executor d is at, counted from one
  executor,   \* where execute_sql_grains is
  task,       \* task[d]: the two tasks of a select
  table,      \* table[d][i]: what select i finds at d, in d's snapshot
  cursor,     \* cursor[d]: the rows that cmd_sel has still to fetch
  asked,      \* the futures of executors whose get has returned
  first,      \* who answers: first_done, and NDb while it is false
  results,    \* what the client has been sent
  pass        \* comparator_pass

runVars == <<at, executor, task, table, cursor>>
vars == <<msg, phase, grain, runVars, asked, first, results, pass>>

\* The parts of a hash: whether there is one, of no rows or of rows, and the
\* concatenated columns it was made of, each with its number of occurrences.
NoHash == [of |-> "nothing", rows |-> {}]

NoTable == [types |-> <<>>, rows |-> <<>>]

Idle == [select |-> "none", hash |-> "none"]

-----------------------------------------------------------------------------
(* create_request.                                                         *)

Letters(s, c) == {i \in DOMAIN s : s[i] # c}

\* ltrim, rtrim and trim.
LTrim(s, c) == IF Letters(s, c) = {} THEN <<>> ELSE SubSeq(s, Min(Letters(s, c)), Len(s))
RTrim(s, c) == IF Letters(s, c) = {} THEN <<>> ELSE SubSeq(s, 1, Max(Letters(s, c)))
Trim(s, c) == RTrim(LTrim(s, c), c)

Semicolons(m) == {i \in DOMAIN m : m[i] = Semicolon}

\* std::string::find counts from 0; without a match it is npos, all ones.
FindSemicolon(m, start) ==
  LET found == {i - 1 : i \in Semicolons(m)} \cap (start .. Len(m))
  IN IF found = {} THEN W - 1 ELSE Min(found) % W

\* std::string::substr with a negative length goes to the end.
Substr(s, start, n) ==
  SubSeq(s, start + 1, IF n < 0 \/ start + n > Len(s) THEN Len(s) ELSE start + n)

StatementCnt(m) == Cardinality(Semicolons(m)) % W

\* Mistake: the blank after a semicolon is taken for granted.
NextStartBlank(pos) == (pos + 2) % W

NextStart(pos) == (pos + 1) % W

\* One turn of the loop: sqls so far, and where the next statement starts;
\* substr throws when that is past the end of the message.
NextStatement(m, s) ==
  LET pos == FindSemicolon(m, s.start)
  IN [start |-> NextStart(pos),
      sqls  |-> Append(s.sqls, Trim(Substr(m, s.start, pos - s.start), Blank)),
      threw |-> s.threw \/ s.start > Len(m)]

NoStatements == [start |-> 0, sqls |-> <<>>, threw |-> FALSE]

Split(m) ==
  LET split[i \in 0 .. StatementCnt(m)] ==
        IF i = 0 THEN NoStatements ELSE NextStatement(m, split[i - 1])
  IN split[StatementCnt(m)]

FirstWord(sql) == SubSeq(sql, 1, SelectInSeq(Append(sql, Blank), LAMBDA c : c = Blank) - 1)

\* The constructor of sql_grain.
Grain(sql) ==
  [sql |-> sql, is_select |-> FirstWord(sql) = <<"select">>, rows |-> 0, sql_hash |-> NoHash]

-----------------------------------------------------------------------------
(* The hash of a result.                                                   *)

\* Mistake: the loop ends one column early.
ConcatColumnsShort(types) ==
  FlattenSeq([i \in 1 .. Len(types) - 1 |-> <<[format |-> "plain", column |-> i]>>])

\* generate_concat_columns: the operands of the || of the hash statement, in
\* which column 0 is the literal '0' on both sides of a single column.
ConcatColumns(types) ==
  LET Format(type) ==
        CASE type = "scaled" -> "number" [] type = "date" -> "date" [] OTHER -> "plain"
      columns == [i \in DOMAIN types |-> [format |-> Format(types[i]), column |-> i]]
      zero == <<[format |-> "plain", column |-> 0]>>
  IN IF Len(types) = 1 THEN zero \o columns \o zero ELSE columns

\* A product writes numbers with decimals and dates with zeros of its own.
Written(d, type, value) ==
  IF type \in {"scaled", "date"} THEN value \o [i \in 1 .. d |-> Zero] ELSE value

\* The formats of the settings: the zeros around a number go, and of a date
\* only the day is left ('yyyymmdd').
Formatted(format, text) ==
  CASE format = "number" -> Trim(text, Zero)
    [] format = "date" -> SubSeq(text, 1, DayDigits)
    [] OTHER -> text

\* What a database makes of an operand; where || takes it, null is empty.
Operand(d, t, row, op) ==
  IF op.column = 0 THEN <<Zero>>
  ELSE IF row[op.column] = Null THEN <<>>
  ELSE Formatted(op.format, Written(d, t.types[op.column], row[op.column]))

Concatenated(d, t, row) ==
  LET ops == ConcatColumns(t.types)
  IN FlattenSeq([k \in DOMAIN ops |-> Operand(d, t, row, ops[k])])

HasNull(row) == \E j \in DOMAIN row : row[j] = Null

\* The row's hash is null, and the aggregate passes over it.
Skipped(d, row) == d \in NullSkips /\ HasNull(row)

\* The hash does not depend on the order of the rows: the statement sorts the
\* hashes of the rows.
Hash(d, t) ==
  LET kept == {k \in DOMAIN t.rows : ~Skipped(d, t.rows[k])}
      texts == [k \in kept |-> Concatenated(d, t, t.rows[k])]
      Times(text) == Cardinality({k \in kept : texts[k] = text})
  IN IF kept = {}
       THEN IF d \in NullHash THEN NoHash ELSE [NoHash EXCEPT !.of = "no rows"]
       ELSE [of |-> "rows", rows |-> {<<texts[k], Times(texts[k])>> : k \in kept}]

-----------------------------------------------------------------------------
Init ==
  /\ msg \in Messages
  /\ phase = "received"
  /\ grain = [d \in Dbs |-> <<>>]
  /\ at = [d \in Dbs |-> 1]
  /\ executor = [d \in Dbs |-> "idle"]
  /\ task = [d \in Dbs |-> Idle]
  /\ table = [d \in Dbs |-> <<>>]
  /\ cursor = [d \in Dbs |-> <<>>]
  /\ asked = 0
  /\ first = NDb /\ results = <<>> /\ pass = FALSE

\* Mistake: the statements are given to the first executor only.
AddSqlGrainsToOne(d, sqls) ==
  IF d = 0 THEN [i \in DOMAIN sqls |-> Grain(sqls[i])] ELSE <<>>

AddSqlGrains(d, sqls) == [i \in DOMAIN sqls |-> Grain(sqls[i])]

\* create_request, and the start of the executors.
CreateRequest ==
  LET split == Split(msg)
  IN /\ phase = "received"
     /\ phase' = IF split.threw THEN "threw" ELSE "executing"
     /\ grain' = [d \in Dbs |-> AddSqlGrains(d, split.sqls)]
     /\ table' = [d \in Dbs |-> [i \in DOMAIN split.sqls |-> NoTable]]
     /\ executor' = [d \in Dbs |-> IF split.threw THEN "idle" ELSE "running"]
     /\ UNCHANGED <<msg, at, task, cursor, asked, first, results, pass>>

AtStatement(d) == executor[d] = "running" /\ at[d] \in DOMAIN grain[d]

Known(d) == grain[d][at[d]].sql \in Accepted

\* A select: both tasks at once, or the select first.
StartSelect(d) ==
  /\ AtStatement(d) /\ grain[d][at[d]].is_select
  /\ \E t \in Tables : table' = [table EXCEPT ![d][at[d]] = t]
  /\ task' = [task EXCEPT ![d] =
       [select |-> "running", hash |-> IF d \in Asynch THEN "running" ELSE "none"]]
  /\ executor' = [executor EXCEPT ![d] = "selecting"]
  /\ UNCHANGED <<msg, phase, grain, at, cursor, asked, first, results, pass>>

AfterSelect(d) == IF d \in Asynch THEN task[d].hash ELSE "running"

\* execute_select: cmd_sel is left at the first row.
ExecuteSelect(d) ==
  /\ task[d].select = "running" /\ Known(d)
  /\ cursor' = [cursor EXCEPT ![d] = table[d][at[d]].rows]
  /\ task' = [task EXCEPT ![d] = [select |-> "done", hash |-> AfterSelect(d)]]
  /\ UNCHANGED <<msg, phase, grain, at, executor, table, asked, first, results, pass>>

\* execute_hash_select
ExecuteHashSelect(d) ==
  /\ task[d].hash = "running" /\ Known(d)
  /\ grain' = [grain EXCEPT ![d][at[d]].sql_hash = Hash(d, table[d][at[d]])]
  /\ task' = [task EXCEPT ![d].hash = "done"]
  /\ UNCHANGED <<msg, phase, at, executor, table, cursor, asked, first, results, pass>>

\* The database refuses the select or its hash.
SelectFails(d) ==
  /\ \E which \in {"select", "hash"} :
       /\ task[d][which] = "running"
       /\ task' = [task EXCEPT ![d][which] = "failed"]
  /\ UNCHANGED <<msg, phase, grain, at, executor, table, cursor, asked, first, results, pass>>

\* select_result.get(), or the return of execute_select.
GetSelect(d) ==
  /\ executor[d] = "selecting"
  /\ \/ /\ task[d].select = "done"
        /\ executor' = [executor EXCEPT ![d] = "hashing"]
     \/ /\ task[d].select = "failed"
        /\ executor' = [executor EXCEPT ![d] = "unwinding"]
  /\ UNCHANGED <<msg, phase, grain, at, task, table, cursor, asked, first, results, pass>>

\* hash_result.get(), or the return of execute_hash_select: the next statement,
\* or an exception.
GetHash(d) ==
  /\ executor[d] = "hashing"
  /\ \/ /\ task[d].hash = "done"
        /\ executor' = [executor EXCEPT ![d] = "running"]
        /\ at' = [at EXCEPT ![d] = @ + 1]
        /\ task' = [task EXCEPT ![d] = Idle]
     \/ /\ task[d].hash = "failed"
        /\ executor' = [executor EXCEPT ![d] = "failed"]
        /\ UNCHANGED <<at, task>>
  /\ UNCHANGED <<msg, phase, grain, table, cursor, asked, first, results, pass>>

\* Mistake: a future is given up without waiting for its task.
HashJoinedNot(d) == TRUE

\* The destructor of a future of std::async waits for its task.
HashJoined(d) == task[d].hash # "running"

\* The exception of the select leaves the block of both futures.
Unwind(d) ==
  /\ executor[d] = "unwinding" /\ HashJoined(d)
  /\ executor' = [executor EXCEPT ![d] = "failed"]
  /\ UNCHANGED <<msg, phase, grain, at, task, table, cursor, asked, first, results, pass>>

\* A statement that is not a select: its long count is kept as it is.
ExecuteDml(d) ==
  /\ AtStatement(d) /\ ~grain[d][at[d]].is_select /\ Known(d)
  /\ \E n \in Counts : grain' = [grain EXCEPT ![d][at[d]].rows = n]
  /\ at' = [at EXCEPT ![d] = @ + 1]
  /\ UNCHANGED <<msg, phase, executor, task, table, cursor, asked, first, results, pass>>

DmlFails(d) ==
  /\ AtStatement(d) /\ ~grain[d][at[d]].is_select
  /\ executor' = [executor EXCEPT ![d] = "failed"]
  /\ UNCHANGED <<msg, phase, grain, at, task, table, cursor, asked, first, results, pass>>

-----------------------------------------------------------------------------
(* The answer.                                                             *)

\* get_rows_affected returns an int.
RowsAffected(g) == g.rows % IntRange

\* asString() of a null is empty.
Shown(value) == IF value = Null THEN <<>> ELSE value

\* The columns of a row with commas, less the commas at the end.
RowText(row) == RTrim(FlattenSeq([i \in DOMAIN row |-> Append(Shown(row[i]), Comma)]), Comma)

Lines(rows) == [k \in DOMAIN rows |-> [kind |-> "S", text |-> RowText(rows[k])]]

\* Mistake: the results of the statements without rows are put last.
PrepareClientResultsSorted(grains, rows) ==
  LET dml == SelectSeq(grains, LAMBDA g : ~g.is_select)
  IN Lines(rows) \o [i \in DOMAIN dml |-> [kind |-> "M", text |-> <<ToString(RowsAffected(dml[i]))>>]]

\* prepare_client_results: every select fetches from the one cmd_sel, so the
\* first takes all the rows it has.
PrepareClientResults(grains, rows) ==
  LET select == SelectInSeq(grains, LAMBDA g : g.is_select)
      Of(i) == IF ~grains[i].is_select
                 THEN <<[kind |-> "M", text |-> <<ToString(RowsAffected(grains[i]))>>]>>
               ELSE IF i = select THEN Lines(rows) ELSE <<>>
  IN FlattenSeq([i \in DOMAIN grains |-> Of(i)])

AllExecuted(d) == executor[d] = "running" /\ at[d] > Len(grain[d])

\* reply_to_client_upon_first_done, prepare_client_results and
\* send_results_to_client.
FirstDone(d) ==
  /\ AllExecuted(d) /\ first = NDb
  /\ first' = d
  /\ results' = PrepareClientResults(grain[d], cursor[d])
  /\ cursor' = [cursor EXCEPT ![d] = <<>>]
  /\ executor' = [executor EXCEPT ![d] = "done"]
  /\ UNCHANGED <<msg, phase, grain, at, task, table, asked, pass>>

LaterDone(d) ==
  /\ AllExecuted(d) /\ first # NDb
  /\ executor' = [executor EXCEPT ![d] = "done"]
  /\ UNCHANGED <<msg, phase, grain, at, task, table, cursor, asked, first, results, pass>>

-----------------------------------------------------------------------------
(* The end of execute_request: the executors' futures and verify_request.  *)

Match(g, h) == RowsAffected(g) = RowsAffected(h) /\ g.sql_hash = h.sql_hash

Emptied(g, h) == "no rows" \in {g.sql_hash.of, h.sql_hash.of}

Comparison ==
  \A d, e \in Dbs : \A i \in DOMAIN grain[d] :
    d # e => Match(grain[d][i], grain[e][i]) \/ Emptied(grain[d][i], grain[e][i])

\* The futures are asked one after the other; the first exception goes on.
GetExecutor ==
  /\ phase = "executing" /\ asked < NDb
  /\ \/ /\ executor[asked] = "done"
        /\ asked' = asked + 1
        /\ UNCHANGED phase
     \/ /\ executor[asked] = "failed"
        /\ phase' = "unwinding"
        /\ UNCHANGED asked
  /\ UNCHANGED <<msg, grain, runVars, first, results, pass>>

VerifyRequest ==
  /\ phase = "executing" /\ asked = NDb
  /\ phase' = "verified"
  /\ pass' = Comparison
  /\ UNCHANGED <<msg, grain, runVars, asked, first, results>>

\* The destructors of the futures wait for the other executors; handle_failure
\* and its rollback come next.
RequestFails ==
  /\ phase = "unwinding"
  /\ \A d \in Dbs : executor[d] \in {"done", "failed"}
  /\ phase' = "failed"
  /\ UNCHANGED <<msg, grain, runVars, asked, first, results, pass>>

Next ==
  \/ CreateRequest \/ GetExecutor \/ VerifyRequest \/ RequestFails
  \/ \E d \in Dbs :
       \/ StartSelect(d) \/ ExecuteSelect(d) \/ ExecuteHashSelect(d) \/ SelectFails(d)
       \/ GetSelect(d) \/ GetHash(d) \/ Unwind(d)
       \/ ExecuteDml(d) \/ DmlFails(d) \/ FirstDone(d) \/ LaterDone(d)

Spec == Init /\ [][Next]_vars

-----------------------------------------------------------------------------
TypeOK ==
  /\ phase \in {"received", "threw", "executing", "unwinding", "failed", "verified"}
  /\ \A d \in Dbs : DOMAIN grain[d] = DOMAIN grain[0] /\ DOMAIN table[d] = DOMAIN grain[d]
  /\ \A d \in Dbs : at[d] \in 1 .. Len(grain[d]) + 1
  /\ \A d \in Dbs : executor[d] \in
       {"idle", "running", "selecting", "hashing", "unwinding", "done", "failed"}
  /\ \A d \in Dbs : task[d] \in [{"select", "hash"} -> {"none", "running", "done", "failed"}]
  /\ asked \in 0 .. NDb /\ first \in 0 .. NDb
  /\ \A i \in DOMAIN results : results[i].kind \in {"M", "S"}
  /\ pass \in BOOLEAN

\* The i-th semicolon, and what m has from b to e without the blanks around it.
EndOf(m, i) == CHOOSE p \in Semicolons(m) : Cardinality({q \in Semicolons(m) : q <= p}) = i

BeginOf(m, i) == IF i = 1 THEN 1 ELSE EndOf(m, i - 1) + 1

Between(m, b, e) ==
  LET body == {k \in b .. e : m[k] # Blank}
  IN IF body = {} THEN <<>> ELSE SubSeq(m, Min(body), Max(body))

\* The texts between the semicolons, without the blanks around them.
Statements(m) ==
  [i \in 1 .. Cardinality(Semicolons(m)) |-> Between(m, BeginOf(m, i), EndOf(m, i) - 1)]

Fits(m) == Len(m) <= W /\ Cardinality(Semicolons(m)) < W

\* create_request runs outside of any handler and must not throw, whatever its
\* positions wrap to in a long message; and every executor gets the client's
\* statements as long as positions and count fit into an unsigned short.
SplitCorrect ==
  /\ phase # "threw"
  /\ phase # "received" /\ Fits(msg) =>
       \A d \in Dbs : [i \in DOMAIN grain[d] |-> grain[d][i].sql] = Statements(msg)

\* When the request has been verified or has failed, commit_request or the
\* rollback of handle_failure use every connection: by then no executor is at
\* work and no select or hash of one still runs, in whatever order tasks and
\* executors ended, failed and were waited for.
ConnectionsQuiet ==
  phase \in {"verified", "failed"} =>
    \A d \in Dbs :
      /\ executor[d] \in {"done", "failed"}
      /\ task[d].select # "running" /\ task[d].hash # "running"

\* The rows of a result, each with its number of occurrences.
Occurrences(rows) ==
  {<<rows[k], Cardinality({j \in DOMAIN rows : rows[j] = rows[k]})>> : k \in DOMAIN rows}

SameData(d, e, i) ==
  /\ grain[d][i].rows = grain[e][i].rows
  /\ table[d][i].types = table[e][i].types
  /\ Occurrences(table[d][i].rows) = Occurrences(table[e][i].rows)

\* Two products treat the nulls of a result alike.
NullsAlike(d, e, t) ==
  (d \in NullSkips <=> e \in NullSkips) \/ \A k \in DOMAIN t.rows : ~HasNull(t.rows[k])

\* A result without its times of day.
Days(t) ==
  [k \in DOMAIN t.rows |-> [j \in DOMAIN t.types |->
     IF t.types[j] = "date" THEN SubSeq(t.rows[k][j], 1, DayDigits) ELSE t.rows[k][j]]]

SameToTheDay(d, e, i) ==
  /\ grain[d][i].rows = grain[e][i].rows
  /\ Occurrences(Days(table[d][i])) = Occurrences(Days(table[e][i]))

\* What the comparison can tell apart: counts that fit an int, and results of
\* one column with at least one row and without nulls.
Exact(d, i) ==
  /\ grain[d][i].rows < IntRange
  /\ grain[d][i].is_select =>
       /\ Len(table[d][i].types) = 1 /\ table[d][i].rows # <<>>
       /\ \A k \in DOMAIN table[d][i].rows : ~HasNull(table[d][i].rows[k])

\* The verdict, from hashes of concatenated columns and truncated counts: equal
\* data passes, in whatever order the rows came and however a product writes
\* numbers and dates, unless the products differ about its nulls; and data that
\* differs in more than the time of day fails where the comparison is exact.
VerdictRight ==
  phase = "verified" =>
    LET stmts == DOMAIN grain[0]
    IN /\ (\A d, e \in Dbs : \A i \in stmts :
              SameData(d, e, i) /\ NullsAlike(d, e, table[d][i])) => pass
       /\ \A d, e \in Dbs : \A i \in stmts :
            pass /\ Exact(d, i) /\ Exact(e, i) => SameToTheDay(d, e, i)

\* The columns of a row, separated by commas.
Joint(row) ==
  Shown(row[1]) \o FlattenSeq([i \in 1 .. Len(row) - 1 |-> <<Comma>> \o Shown(row[i + 1])])

\* rtrim takes the commas of empty columns at the end of a row as well, and
\* those at the end of its last column.
EndsInText(row) == Shown(Last(row)) # <<>> /\ Last(Shown(Last(row))) # Comma

\* What the client is sent is what its statements did at the executor that was
\* first, one line for each row or DML statement, in the order of the request,
\* when at most one of them is a select and no row ends in an empty or null
\* column or in a comma.
ResultsDelivered ==
  LET done == grain[first]
      found == table[first]
      Line(i) ==
        IF done[i].is_select
          THEN [k \in DOMAIN found[i].rows |-> [kind |-> "S", text |-> Joint(found[i].rows[k])]]
          ELSE <<[kind |-> "M", text |-> <<ToString(RowsAffected(done[i]))>>]>>
  IN first # NDb
       /\ Cardinality({i \in DOMAIN done : done[i].is_select}) <= 1
       /\ (\A i \in DOMAIN done : \A k \in DOMAIN found[i].rows : EndsInText(found[i].rows[k]))
     => results = FlattenSeq([i \in DOMAIN done |-> Line(i)])
=============================================================================
