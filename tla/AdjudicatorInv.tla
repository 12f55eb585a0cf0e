--------------------------- MODULE AdjudicatorInv ---------------------------
(***************************************************************************)
(* The inductive invariant of Adjudicator, in named parts.  The safety     *)
(* properties of the adjudicator follow from it (AdjudicatorProofs).       *)
(***************************************************************************)
EXTENDS DivRep

\* The holder of mx is in a guarded section; nobody else is inside a loop.
MutexInv ==
  /\ mx # Free => pc[mx] \in {"begin", "commit", "rollback"}
  /\ \A s \in Slots : mx # s => idx[s] = 0

\* Tasks live in "exec" only and have executed what their state says.
TasksOf(s) ==
  \A d \in Dbs :
    /\ pc[s] # "exec" => task[s][d] \notin {"run", "reply"}
    /\ pc[s] = "exec" =>
         /\ Executed(s, d) <= Len(cur[s].stmts)
         /\ task[s][d] \in {"reply", "ok"} => Executed(s, d) = Len(cur[s].stmts)
         /\ \A i \in 1 .. Executed(s, d) : res[s][d][i].kind = cur[s].stmts[i].kind
    /\ pc[s] = "begin" => res[s][d] = <<>>

\* A request is undecided until it ends; only a verified one is committed.
FlagsOf(s) ==
  /\ pc[s] \in {"begin", "exec"} => Undecided(flag[s]) /\ ~flag[s].comparator_pass
  /\ pc[s] = "commit" => cur[s].type = "COMMIT" /\ flag[s].comparator_pass

\* Where the slot's transaction is open.
TxOf(s) ==
  /\ pc[s] = "recv" => /\ OpenEverywhere(s) \/ OpenNowhere(s)
                       /\ msgCnt[s] # 0 => OpenEverywhere(s)
                       /\ ~Undecided(flag[s]) => OpenNowhere(s)
  /\ pc[s] = "begin" => \/ OpenEverywhere(s)
                        \/ \A d \in Dbs : InTx(s, d) <=> d < idx[s]
  /\ pc[s] = "exec" => OpenEverywhere(s)
  /\ pc[s] \in {"commit", "rollback"} => \A d \in Dbs : d < idx[s] => ~InTx(s, d)
  /\ pc[s] \in {"over", "free"} => OpenNowhere(s)
  /\ \A d \in Dbs : ~InTx(s, d) => writes[s][d] = {}

\* The last answer of a slot that waits for a message, and the answers of a
\* request that is not decided yet.
RepliesOf(s) ==
  /\ pc[s] = "recv" /\ replies[s] # <<>> =>
       IF replies[s][Len(replies[s])] = "RESULT" THEN OpenEverywhere(s) ELSE OpenNowhere(s)
  /\ pc[s] \in {"begin", "exec"} =>
       \A i \in 1 .. Len(replies[s]) : replies[s][i] = "RESULT"

\* Rows written at d by the statements of the current request.
Wrote(s, d) ==
  {cur[s].stmts[i].row : i \in {j \in 1 .. Executed(s, d) :
                                  cur[s].stmts[j].kind = "dml" /\ res[s][d][j].rows = 1}}

\* The databases hold the same writes of a slot, but for what the executors
\* of the current request did so far and the commit loop already published.
WritesOf(s) ==
  /\ pc[s] \in {"recv", "begin"} => \A d, e \in Dbs : writes[s][d] = writes[s][e]
  /\ pc[s] = "exec" => \E B \in SUBSET Rows : \A d \in Dbs :
                         writes[s][d] = B \cup Wrote(s, d)
  /\ pc[s] = "commit" => \A d, e \in Dbs :
       idx[s] <= d /\ idx[s] <= e => writes[s][d] = writes[s][e]

\* A verdict stands over grains of equal number and equal DML results.
VerdictOf(s) ==
  flag[s].comparator_pass => \A d, e \in Dbs :
    /\ Len(res[s][d]) = Len(res[s][e])
    /\ \A i \in 1 .. Len(res[s][d]) :
         res[s][d][i].kind = "dml" => res[s][d][i].rows = res[s][e][i].rows

SlotInv(s) ==
  /\ TasksOf(s) /\ FlagsOf(s) /\ TxOf(s) /\ RepliesOf(s)
  /\ WritesOf(s) /\ VerdictOf(s)

\* The commit loop of the holder of mx has passed d.
Passed(d) == mx # Free /\ pc[mx] = "commit" /\ d < idx[mx]

Published(s, d) ==
  IF writes[s][d] = {} THEN log[d] ELSE Append(log[d], [slot |-> s, rows |-> writes[s][d]])

\* All logs are equal, except that the databases the commit loop passed have
\* the transaction the others are about to commit.
LogInv ==
  Intact => \A d, e \in Dbs :
    /\ (Passed(d) <=> Passed(e)) => log[d] = log[e]
    /\ Passed(d) /\ ~Passed(e) => log[d] = Published(mx, e)

\* Snapshots agree; those the begin loop took are of the present logs.
SnapInv ==
  Intact => \A s \in Slots :
    /\ \A d, e \in Dbs : InTx(s, d) /\ InTx(s, e) => snap[s][d] = snap[s][e]
    /\ pc[s] = "begin" => \/ OpenEverywhere(s)
                          \/ \A d \in Dbs : d < idx[s] => snap[s][d] = Len(log[d])

\* The inductive invariant.
IInv ==
  /\ TypeOK
  /\ MutexInv
  /\ \A s \in Slots : SlotInv(s)
  /\ LogInv
  /\ SnapInv

-----------------------------------------------------------------------------
(* What the databases contribute, whatever the adjudicators do: written    *)
(* rows are locked and the first updater of a row wins.                    *)

\* No row has two writers.
LocksInv ==
  \A d \in Dbs : \A s, t \in Slots : s # t => writes[s][d] \cap writes[t][d] = {}

\* A snapshot is a prefix of the log, and nobody has committed since then a
\* version of a row the transaction wrote.
FreshInv ==
  \A d \in Dbs : \A s \in Slots : InTx(s, d) =>
    /\ snap[s][d] <= Len(log[d])
    /\ \A i \in snap[s][d] + 1 .. Len(log[d]) : log[d][i].rows \cap writes[s][d] = {}

DatabaseInv == LocksInv /\ FreshInv

-----------------------------------------------------------------------------
(* The grains of the request being executed, at databases that answer      *)
(* correctly: each is determined by the database's committed versions in   *)
(* the snapshot, by what the transaction had written when the request      *)
(* began, and by the request's statements before it.                       *)

Faithful == Faults \cap {"diverge", "empty"} = {}

\* The committed versions of the row in the snapshot s has at d.
Seen(s, d, row) ==
  {<<i, log[d][i].slot>> : i \in {j \in 1 .. snap[s][d] : row \in log[d][j].rows}}

\* What s has written after n statements of the request, B before the first.
OwnRows(s, B, n) ==
  B \cup {cur[s].stmts[i].row : i \in {j \in 1 .. n : cur[s].stmts[j].kind = "dml"}}

OwnVersion(s, B, n, row) == IF row \in OwnRows(s, B, n) THEN {<<0, s>>} ELSE {}

\* The grain of statement i at d.
Answer(s, d, B, i) ==
  IF cur[s].stmts[i].kind = "dml"
  THEN [kind |-> "dml", rows |-> 1, hash |-> {}]
  ELSE [kind |-> "select", rows |-> 0,
        hash |-> Seen(s, d, cur[s].stmts[i].row)
                   \cup OwnVersion(s, B, i - 1, cur[s].stmts[i].row)]

AnswersFrom(s, B) ==
  \A d \in Dbs :
    /\ writes[s][d] = OwnRows(s, B, Executed(s, d))
    /\ \A i \in 1 .. Executed(s, d) : res[s][d][i] = Answer(s, d, B, i)

AnswersOf(s) == pc[s] = "exec" => \E B \in SUBSET Rows : AnswersFrom(s, B)

AnswersInv == Faithful => \A s \in Slots : AnswersOf(s)
=============================================================================
