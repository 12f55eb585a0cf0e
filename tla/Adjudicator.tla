---------------------------- MODULE Adjudicator -----------------------------
(***************************************************************************)
(* db_adjudicator::process_request and everything it calls, one copy per   *)
(* buffer slot: the transaction protocol of the DivRep controller.  Each   *)
(* slot's pool thread takes a client message, begins, executes, compares,  *)
(* commits or rolls back at every replica; one std::async task per         *)
(* database runs the statements; the static mutex db_adjudicator::mx is    *)
(* shared by all slots.                                                    *)
(*                                                                         *)
(* An exception that leaves process_request is swallowed by                *)
(* thread_pool::wrap_job, which skips make_inactive: the slot is "lost".   *)
(***************************************************************************)
EXTENDS Replicas

CONSTANTS
  Requests,        \* the statement sequences a client may send in one message
  Faults,          \* the kinds of failure the databases may show in this instance
  LockPolicy,      \* what a database does with a write to a locked row
  MsgCntModulus,   \* msg_cnt is an unsigned short: 2^16 in the code
  Free,            \* the value of mx when nobody holds the mutex
  MaxLog           \* bound: no new DML request once a log has this length

Statement == [kind: {"select", "dml"}, row: Rows]

FaultKinds ==
  { "begin",       \* exec_sql throws in start_request
    "execute",     \* a statement fails at one database
    "fetch",       \* prepare_client_results fails
    "diverge",     \* a database answers differently from the others
    "empty",       \* a database loses rows: its select returns nothing
    "commit",      \* SAConnection::Commit throws
    "rollback" }   \* SAConnection::Rollback throws

ASSUME AdjudicatorAssumption ==
  /\ Requests \subseteq Seq(Statement)
  /\ Faults \subseteq FaultKinds
  /\ LockPolicy \in {"wait", "nowait"}
  /\ MsgCntModulus \in Nat \ {0, 1}
  /\ MaxLog \in Nat
  /\ Free \notin Slots

VARIABLES
  pc,        \* where the slot's process_request is
  cur,       \* the client message being processed
  msgCnt,    \* local msg_cnt of process_request
  flag,      \* the logic booleans of db_adjudicator
  mx,        \* holder of the static mutex, or Free
  idx,       \* position of the holder's loop over v_dg
  task,      \* state of each db_executor's asynchronous task
  res,       \* v_sg: results of the statements executed at each database
  replies    \* answers written to the client since its last message was taken

controlVars == <<pc, cur, msgCnt, flag, mx, idx, task, res, replies>>
vars == <<log, snap, writes, pc, cur, msgCnt, flag, mx, idx, task, res, replies>>

Locations == {"free", "recv", "begin", "exec", "commit", "rollback", "over", "lost"}

Message == [type: {"COMMIT", "ROLLBACK", "DISCONNECT", "SOCKET_ERROR", "SQL"},
            stmts: Requests \cup {<<>>}]

Plain(type) == [type |-> type, stmts |-> <<>>]

\* msg is emptied before the loop waits for the next one.
NoMessage == Plain("SQL")

Flags == [committed: BOOLEAN, rolled_back: BOOLEAN, first_done: BOOLEAN,
          verify_completed: BOOLEAN, comparator_pass: BOOLEAN]

NoFlags == [committed |-> FALSE, rolled_back |-> FALSE, first_done |-> FALSE,
            verify_completed |-> FALSE, comparator_pass |-> FALSE]

\* A sql_grain after execution: rows_affected and the hash of a result set.
\* For a select the hash stands for the set of versions it covers, {} being
\* the hash of an empty result; a DML statement leaves its hash "".
Result == [kind: {"select", "dml"}, rows: {0, 1},
           hash: SUBSET ((Nat \cup {-1}) \X Slots)]

Replies == {"RESULT", "FAILURE", "COMMITED", "ROLLED_BACK", "DISCONNECTED"}

TaskStates == {"none", "run", "reply", "ok", "err"}

\* TypeOK: every variable keeps the shape the code gives it; msg_cnt stays
\* within its unsigned short and the loop index within the databases.
TypeOK ==
  /\ ReplicasTypeOK
  /\ pc \in [Slots -> Locations]
  /\ cur \in [Slots -> Message]
  /\ msgCnt \in [Slots -> 0 .. MsgCntModulus - 1]
  /\ flag \in [Slots -> Flags]
  /\ mx \in Slots \cup {Free}
  /\ idx \in [Slots -> 0 .. NDb]
  /\ task \in [Slots -> [Dbs -> TaskStates]]
  /\ res \in [Slots -> [Dbs -> Seq(Result)]]
  /\ replies \in [Slots -> Seq(Replies)]

Init ==
  /\ ReplicasInit
  /\ pc = [s \in Slots |-> "free"]
  /\ cur = [s \in Slots |-> NoMessage]
  /\ msgCnt = [s \in Slots |-> 0]
  /\ flag = [s \in Slots |-> NoFlags]
  /\ mx = Free
  /\ idx = [s \in Slots |-> 0]
  /\ task = [s \in Slots |-> [d \in Dbs |-> "none"]]
  /\ res = [s \in Slots |-> [d \in Dbs |-> <<>>]]
  /\ replies = [s \in Slots |-> <<>>]

-----------------------------------------------------------------------------
(* How a message ends: the assignments and the answer after the rollback   *)
(* (if one was needed) of ROLLBACK, DISCONNECT, SOCKET_ERROR, or of a      *)
(* failed request.                                                         *)

\* Mistake: only a verified request is worth a rollback.
UndecidedIfVerified(f) == ~f.committed /\ ~f.rolled_back /\ f.comparator_pass

Undecided(f) == ~f.committed /\ ~f.rolled_back

AfterRollback(f) ==
  [f EXCEPT !.committed = FALSE, !.rolled_back = TRUE,
            !.verify_completed = FALSE, !.comparator_pass = FALSE]

\* handle_failure also re-arms first_done.
AfterFailure(f) == [AfterRollback(f) EXCEPT !.first_done = FALSE]

Ending(type) ==
  CASE type = "ROLLBACK"     -> [at |-> "recv", reply |-> <<"ROLLED_BACK">>]
    [] type = "DISCONNECT"   -> [at |-> "over", reply |-> <<"DISCONNECTED">>]
    [] type = "SOCKET_ERROR" -> [at |-> "over", reply |-> <<>>]
    [] OTHER                 -> [at |-> "recv", reply |-> <<"FAILURE">>]

\* SOCKET_ERROR returns at once: it leaves the flags as rollback_request did.
FlagsAtEnd(type, f) ==
  CASE type \in {"ROLLBACK", "DISCONNECT"} -> AfterRollback(f)
    [] type = "SOCKET_ERROR"               -> f
    [] OTHER                               -> AfterFailure(f)

\* Mistake: ROLLBACK ends the transaction but the message count goes on.
MsgCntAtEndKeptByRollback(type, n) ==
  IF type \in {"SOCKET_ERROR", "ROLLBACK"} THEN n ELSE 0

MsgCntAtEnd(type, n) == IF type = "SOCKET_ERROR" THEN n ELSE 0

\* Finish message m, whose answers so far are "said", from flags f.
Conclude(s, m, f, said) ==
  /\ pc' = [pc EXCEPT ![s] = Ending(m.type).at]
  /\ cur' = [cur EXCEPT ![s] = NoMessage]
  /\ replies' = [replies EXCEPT ![s] = said \o Ending(m.type).reply]
  /\ flag' = [flag EXCEPT ![s] = FlagsAtEnd(m.type, f)]
  /\ msgCnt' = [msgCnt EXCEPT ![s] = MsgCntAtEnd(m.type, @)]

\* Roll back first, unless the flags say the transaction is already decided.
Abandon(s, m, f, said) ==
  IF Undecided(f)
  THEN /\ pc' = [pc EXCEPT ![s] = "rollback"]
       /\ cur' = [cur EXCEPT ![s] = m]
       /\ replies' = [replies EXCEPT ![s] = said]
       /\ flag' = [flag EXCEPT ![s] = f]
       /\ UNCHANGED msgCnt
  ELSE Conclude(s, m, f, said)

-----------------------------------------------------------------------------
(* The session of a slot.                                                  *)

\* make_active: connect every executor, attach the session, start the job.
\* The flags are those the slot's previous session left behind.
StartSession(s) ==
  /\ pc[s] = "free"
  /\ pc' = [pc EXCEPT ![s] = "recv"]
  /\ msgCnt' = [msgCnt EXCEPT ![s] = 0]
  /\ replies' = [replies EXCEPT ![s] = <<>>]
  /\ UNCHANGED <<replicaVars, cur, flag, mx, idx, task, res>>

\* make_inactive after process_request returned: disconnect every executor.
EndSession(s) ==
  /\ pc[s] = "over"
  /\ pc' = [pc EXCEPT ![s] = "free"]
  /\ DbDisconnect(s)
  /\ UNCHANGED <<cur, msgCnt, flag, mx, idx, task, res, replies>>

-----------------------------------------------------------------------------
(* Taking a client message: the branches of the loop in process_request.   *)

\* COMMIT of a verified request; if the flags disagree the message is
\* dropped without an answer.
ReceiveCommit(s) ==
  /\ pc[s] = "recv"
  /\ flag[s].verify_completed
  /\ replies' = [replies EXCEPT ![s] = <<>>]
  /\ IF Undecided(flag[s]) /\ flag[s].comparator_pass
     THEN /\ pc' = [pc EXCEPT ![s] = "commit"]
          /\ cur' = [cur EXCEPT ![s] = Plain("COMMIT")]
          /\ UNCHANGED msgCnt
     ELSE /\ msgCnt' = [msgCnt EXCEPT ![s] = 0]
          /\ UNCHANGED <<pc, cur>>
  /\ UNCHANGED <<replicaVars, flag, mx, idx, task, res>>

\* ROLLBACK, DISCONNECT and SOCKET_ERROR.
ReceiveEnd(s, type) ==
  /\ pc[s] = "recv"
  /\ Abandon(s, Plain(type), flag[s], <<>>)
  /\ UNCHANGED <<replicaVars, mx, idx, task, res>>

\* Mistake: a new request does not forget that the last one was committed.
NewRequestFlagsKeepCommitted(f) == [NoFlags EXCEPT !.committed = f.committed]

NewRequestFlags(f) == NoFlags

\* Mistake: the counter outgrows its type.
NextMsgCntUnbounded(n) == n + 1

NextMsgCnt(n) == (n + 1) % MsgCntModulus

\* create_request clears the grains and the flags; start_request only for the
\* first message of a transaction.
ReceiveRequest(s, m) ==
  LET cnt == NextMsgCnt(msgCnt[s]) IN
  /\ pc[s] = "recv"
  /\ cur' = [cur EXCEPT ![s] = m]
  /\ msgCnt' = [msgCnt EXCEPT ![s] = cnt]
  /\ flag' = [flag EXCEPT ![s] = NewRequestFlags(@)]
  /\ replies' = [replies EXCEPT ![s] = <<>>]
  /\ res' = [res EXCEPT ![s] = [d \in Dbs |-> <<>>]]
  /\ pc' = [pc EXCEPT ![s] = IF cnt = 1 THEN "begin" ELSE "exec"]
  /\ task' = [task EXCEPT ![s] = [d \in Dbs |-> IF cnt = 1 THEN "none" ELSE "run"]]
  /\ UNCHANGED <<replicaVars, mx, idx>>

ReceiveSQL(s) ==
  \E stmts \in Requests :
    /\ (\E i \in 1 .. Len(stmts) : stmts[i].kind = "dml")
         => \A d \in Dbs : Len(log[d]) < MaxLog
    /\ ReceiveRequest(s, [type |-> "SQL", stmts |-> stmts])

\* A COMMIT with nothing verified falls through to the else branch and is
\* taken for a request without statements.
ReceiveCommitAsSQL(s) ==
  /\ ~flag[s].verify_completed
  /\ ReceiveRequest(s, Plain("COMMIT"))

-----------------------------------------------------------------------------
(* The sections under db_adjudicator::mx: loops over v_dg.                 *)

Lock(s) ==
  /\ pc[s] \in {"begin", "commit", "rollback"}
  /\ mx = Free
  /\ mx' = s
  /\ UNCHANGED <<replicaVars, pc, cur, msgCnt, flag, idx, task, res, replies>>

\* Mistake: the loop runs before the mutex is taken.
InLoopUnguarded(s, at) == pc[s] = at /\ idx[s] < NDb

\* The holder is inside its loop at location "at".
InLoop(s, at) == pc[s] = at /\ mx = s /\ idx[s] < NDb

LoopDone(s, at) == pc[s] = at /\ mx = s /\ idx[s] = NDb

Advance(s) == idx' = [idx EXCEPT ![s] = @ + 1]

\* Mistake: the mutex is locked by hand and not unlocked.
UnlockForgotten(s) ==
  /\ UNCHANGED mx
  /\ idx' = [idx EXCEPT ![s] = 0]

\* lock_guard's destructor; the loop is over.
Unlock(s) ==
  /\ mx' = Free
  /\ idx' = [idx EXCEPT ![s] = 0]

BeginDb(s) ==
  /\ InLoop(s, "begin")
  /\ DbBegin(s, idx[s])
  /\ Advance(s)
  /\ UNCHANGED <<pc, cur, msgCnt, flag, mx, task, res, replies>>

\* lock_guard released; execute_request launches one task per executor.
BeginDone(s) ==
  /\ LoopDone(s, "begin")
  /\ Unlock(s)
  /\ pc' = [pc EXCEPT ![s] = "exec"]
  /\ task' = [task EXCEPT ![s] = [d \in Dbs |-> "run"]]
  /\ UNCHANGED <<replicaVars, cur, msgCnt, flag, res, replies>>

\* The exception leaves process_request: no answer, no rollback.  The failing
\* database may or may not have opened the transaction.
BeginFails(s) ==
  /\ "begin" \in Faults
  /\ InLoop(s, "begin")
  /\ DbBegin(s, idx[s]) \/ UNCHANGED replicaVars
  /\ Unlock(s)
  /\ pc' = [pc EXCEPT ![s] = "lost"]
  /\ UNCHANGED <<cur, msgCnt, flag, task, res, replies>>

CommitDb(s) ==
  /\ InLoop(s, "commit")
  /\ DbCommit(s, idx[s])
  /\ Advance(s)
  /\ UNCHANGED <<pc, cur, msgCnt, flag, mx, task, res, replies>>

AfterCommit(f) ==
  [f EXCEPT !.committed = TRUE, !.rolled_back = FALSE,
            !.verify_completed = FALSE, !.comparator_pass = FALSE]

CommitDone(s) ==
  /\ LoopDone(s, "commit")
  /\ Unlock(s)
  /\ pc' = [pc EXCEPT ![s] = "recv"]
  /\ cur' = [cur EXCEPT ![s] = NoMessage]
  /\ flag' = [flag EXCEPT ![s] = AfterCommit(@)]
  /\ replies' = [replies EXCEPT ![s] = Append(@, "COMMITED")]
  /\ msgCnt' = [msgCnt EXCEPT ![s] = 0]
  /\ UNCHANGED <<replicaVars, task, res>>

\* Commit throws out of process_request.  The database may have committed,
\* rolled back or done neither before it reported the error; the later
\* databases are never reached.
CommitFails(s) ==
  /\ "commit" \in Faults
  /\ InLoop(s, "commit")
  /\ DbCommit(s, idx[s]) \/ DbRollback(s, idx[s]) \/ UNCHANGED replicaVars
  /\ Unlock(s)
  /\ pc' = [pc EXCEPT ![s] = "lost"]
  /\ UNCHANGED <<cur, msgCnt, flag, task, res, replies>>

RollbackDb(s) ==
  /\ InLoop(s, "rollback")
  /\ DbRollback(s, idx[s])
  /\ Advance(s)
  /\ UNCHANGED <<pc, cur, msgCnt, flag, mx, task, res, replies>>

RollbackDone(s) ==
  /\ LoopDone(s, "rollback")
  /\ Unlock(s)
  /\ Conclude(s, cur[s], [flag[s] EXCEPT !.rolled_back = TRUE], replies[s])
  /\ UNCHANGED <<replicaVars, task, res>>

\* Rollback throws: the transaction and its locks may stay open at this
\* database, and do at the later ones.
RollbackFails(s) ==
  /\ "rollback" \in Faults
  /\ InLoop(s, "rollback")
  /\ DbRollback(s, idx[s]) \/ UNCHANGED replicaVars
  /\ Unlock(s)
  /\ pc' = [pc EXCEPT ![s] = "lost"]
  /\ UNCHANGED <<cur, msgCnt, flag, task, res, replies>>

-----------------------------------------------------------------------------
(* The executors' tasks: db_executor::execute_sql_grains at database d.    *)

Executed(s, d) == Len(res[s][d])

Running(s, d) == task[s][d] = "run"

Pending(s, d) == Running(s, d) /\ Executed(s, d) < Len(cur[s].stmts)

NextStatement(s, d) == cur[s].stmts[Executed(s, d) + 1]

Record(s, d, r) == res' = [res EXCEPT ![s][d] = Append(@, r)]

RunSelect(s, d) ==
  /\ Pending(s, d)
  /\ NextStatement(s, d).kind = "select"
  /\ Record(s, d, [kind |-> "select", rows |-> 0,
                   hash |-> Versions(s, d, NextStatement(s, d).row)])
  /\ DbSelect(s, d)
  /\ UNCHANGED <<pc, cur, msgCnt, flag, mx, idx, task, replies>>

RunDml(s, d) ==
  LET row == NextStatement(s, d).row IN
  /\ Pending(s, d)
  /\ NextStatement(s, d).kind = "dml"
  /\ ~Locked(s, d, row)
  /\ ~Stale(s, d, row)
  /\ Record(s, d, [kind |-> "dml", rows |-> 1, hash |-> {}])
  /\ DbWrite(s, d, row)
  /\ UNCHANGED <<pc, cur, msgCnt, flag, mx, idx, task, replies>>

\* At database d the statement of s waits for a row t has written.
WaitsFor(s, t, d) ==
  /\ LockPolicy = "wait"
  /\ Pending(s, d)
  /\ NextStatement(s, d).kind = "dml"
  /\ NextStatement(s, d).row \in writes[t][d]

\* The database refuses the write (a newer version, a lock it does not wait
\* for, a deadlock it sees inside itself) or fails for a reason of its own.
StatementFails(s, d) ==
  /\ Pending(s, d)
  /\ \/ /\ NextStatement(s, d).kind = "dml"
        /\ \/ Stale(s, d, NextStatement(s, d).row)
           \/ LockPolicy = "nowait" /\ Locked(s, d, NextStatement(s, d).row)
           \/ \E t \in Slots \ {s} : WaitsFor(s, t, d) /\ WaitsFor(t, s, d)
     \/ "execute" \in Faults
  /\ task' = [task EXCEPT ![s][d] = "err"]
  /\ DbSelect(s, d)
  /\ UNCHANGED <<pc, cur, msgCnt, flag, mx, idx, res, replies>>

\* A faulty database answers without an error: a DML statement that touched
\* nothing, a select with a wrong result or with no result at all.
StatementDiverges(s, d) ==
  /\ Pending(s, d)
  /\ \/ /\ "diverge" \in Faults
        /\ Record(s, d, [kind |-> NextStatement(s, d).kind, rows |-> 0,
                         hash |-> IF NextStatement(s, d).kind = "select"
                                  THEN {<<-1, s>>} ELSE {}])
     \/ /\ "empty" \in Faults
        /\ NextStatement(s, d).kind = "select"
        /\ Record(s, d, [kind |-> "select", rows |-> 0, hash |-> {}])
  /\ DbSelect(s, d)
  /\ UNCHANGED <<pc, cur, msgCnt, flag, mx, idx, task, replies>>

\* reply_to_client_upon_first_done: the first executor to finish answers.
FirstDone(s, d) ==
  /\ Running(s, d)
  /\ Executed(s, d) = Len(cur[s].stmts)
  /\ mx = Free
  /\ task' = [task EXCEPT ![s][d] = IF flag[s].first_done THEN "ok" ELSE "reply"]
  /\ flag' = [flag EXCEPT ![s].first_done = TRUE]
  /\ UNCHANGED <<replicaVars, pc, cur, msgCnt, mx, idx, res, replies>>

SendResults(s, d) ==
  /\ task[s][d] = "reply"
  /\ task' = [task EXCEPT ![s][d] = "ok"]
  /\ replies' = [replies EXCEPT ![s] = Append(@, "RESULT")]
  /\ UNCHANGED <<replicaVars, pc, cur, msgCnt, flag, mx, idx, res>>

SendFails(s, d) ==
  /\ "fetch" \in Faults
  /\ task[s][d] = "reply"
  /\ task' = [task EXCEPT ![s][d] = "err"]
  /\ UNCHANGED <<replicaVars, pc, cur, msgCnt, flag, mx, idx, res, replies>>

-----------------------------------------------------------------------------
(* execute_request joins every task, then verify_request compares.         *)

\* Mistake: only the hashes are compared.
AcceptedByHash(a, b) == a.hash = b.hash \/ a.hash = {} \/ b.hash = {}

\* A pair of grains verify_request accepts: equal, or one hash is the md5 of
\* the empty string.
Accepted(a, b) ==
  \/ a.rows = b.rows /\ a.hash = b.hash
  \/ a.kind = "select" /\ (a.hash = {} \/ b.hash = {})

\* Mistake: the first database is compared with itself only.
ComparatorPassFirstOnly(s) ==
  \A i \in 1 .. Len(cur[s].stmts) : Accepted(res[s][0][i], res[s][0][i])

ComparatorPass(s) ==
  \A d1, d2 \in Dbs : \A i \in 1 .. Len(cur[s].stmts) :
      Accepted(res[s][d1][i], res[s][d2][i])

AllOk(s) == \A d \in Dbs : task[s][d] = "ok"

\* Mistake: the failure of one executor is handled while the others still run.
JoinedAtFirstError(s) == \E d \in Dbs : task[s][d] = "err"

\* Mistake: an executor that threw never makes its future ready.
JoinedIfOk(s) == AllOk(s)

Joined(s) == \A d \in Dbs : task[s][d] \in {"ok", "err"}

Accept(s) ==
  /\ pc[s] = "exec" /\ AllOk(s) /\ ComparatorPass(s)
  /\ flag' = [flag EXCEPT ![s].verify_completed = TRUE, ![s].comparator_pass = TRUE]
  /\ pc' = [pc EXCEPT ![s] = "recv"]
  /\ cur' = [cur EXCEPT ![s] = NoMessage]
  /\ UNCHANGED <<replicaVars, msgCnt, mx, idx, task, res, replies>>

\* The comparator disagrees: execute_request throws, handle_failure rolls back.
Disagree(s) ==
  /\ pc[s] = "exec" /\ AllOk(s) /\ ~ComparatorPass(s)
  /\ Abandon(s, cur[s], [flag[s] EXCEPT !.verify_completed = TRUE,
                                        !.comparator_pass = FALSE], replies[s])
  /\ UNCHANGED <<replicaVars, mx, idx, task, res>>

\* An executor failed: rethrown by fut.get() once all tasks have finished.
ExecutorFailed(s) ==
  /\ pc[s] = "exec" /\ Joined(s) /\ ~AllOk(s)
  /\ Abandon(s, cur[s], flag[s], replies[s])
  /\ UNCHANGED <<replicaVars, mx, idx, task, res>>

-----------------------------------------------------------------------------
Receive(s) ==
  \/ ReceiveCommit(s)
  \/ \E type \in {"ROLLBACK", "DISCONNECT", "SOCKET_ERROR"} : ReceiveEnd(s, type)
  \/ ReceiveSQL(s)
  \/ ReceiveCommitAsSQL(s)

Critical(s) ==
  \/ BeginDb(s) \/ BeginDone(s)
  \/ CommitDb(s) \/ CommitDone(s)
  \/ RollbackDb(s) \/ RollbackDone(s)

Decide(s) == Accept(s) \/ Disagree(s) \/ ExecutorFailed(s)

Executor(s, d) ==
  \/ RunSelect(s, d) \/ RunDml(s, d) \/ StatementFails(s, d)
  \/ FirstDone(s, d) \/ SendResults(s, d)

Fault(s) ==
  \/ BeginFails(s) \/ CommitFails(s) \/ RollbackFails(s)
  \/ \E d \in Dbs : StatementDiverges(s, d) \/ SendFails(s, d)

Step(s) ==
  \/ StartSession(s) \/ EndSession(s)
  \/ Receive(s)
  \/ Lock(s) \/ Critical(s)
  \/ \E d \in Dbs : Executor(s, d)
  \/ Decide(s)
  \/ Fault(s)

Next == \E s \in Slots : Step(s)

Spec == Init /\ [][Next]_vars

\* Threads run, databases answer; the mutex and a contended executor's turn
\* at it come round.  The client owes nothing: Receive is not fair.
Fairness ==
  \A s \in Slots :
    /\ WF_vars(EndSession(s))
    /\ SF_vars(Lock(s))
    /\ WF_vars(Critical(s))
    /\ WF_vars(Decide(s))
    /\ \A d \in Dbs :
         /\ WF_vars(RunSelect(s, d) \/ RunDml(s, d) \/ StatementFails(s, d))
         /\ SF_vars(FirstDone(s, d))
         /\ WF_vars(SendResults(s, d))

FairSpec == Spec /\ Fairness

-----------------------------------------------------------------------------
(* Safety.                                                                 *)

\* The slot's Commit threw after some databases may already have committed.
CommitBroken(s) ==
  pc[s] = "lost" /\ cur[s].type = "COMMIT" /\ flag[s].comparator_pass

Intact == \A s \in Slots : ~CommitBroken(s)

\* ConsistentSnapshots: as long as no commit broke half-way, the databases a
\* transaction is open at gave it the same snapshot, because start_request
\* and commit_request exclude each other under mx.
ConsistentSnapshots ==
  Intact => \A s \in Slots : \A d, e \in Dbs :
              InTx(s, d) /\ InTx(s, e) => snap[s][d] = snap[s][e]

\* AgreedLogs: outside the critical sections every replica has committed the
\* same transactions in the same order, whatever a statement, a fetch, a
\* begin or a rollback did at a single database.
AgreedLogs ==
  mx = Free /\ Intact => \A d, e \in Dbs : log[d] = log[e]

\* NoFalseAlarm: when the databases answer correctly and all executors
\* succeed, the comparator finds equal results at all of them: verify_request
\* never rolls back a transaction the replicas agree on.
NoFalseAlarm ==
  \A s \in Slots :
    Intact /\ Faults \cap {"diverge", "empty"} = {} /\ pc[s] = "exec" /\ AllOk(s)
      => \A d, e \in Dbs : res[s][d] = res[s][e]

\* NoImplicitBegin: no statement runs outside the transaction start_request
\* opened: msg_cnt restarts exactly when the transaction ended, and a wrapped
\* msg_cnt begins an open transaction again, never a statement before a begin.
NoImplicitBegin == \A s \in Slots : pc[s] = "exec" => OpenEverywhere(s)

\* RepliesTrue: between two messages the last answer tells the client the
\* truth: after a result the transaction is open at every database, after any
\* other answer nothing is left open, written or locked at any of them.
RepliesTrue ==
  \A s \in Slots :
    pc[s] = "recv" /\ replies[s] # <<>> =>
      IF replies[s][Len(replies[s])] = "RESULT"
      THEN OpenEverywhere(s)
      ELSE OpenNowhere(s) /\ \A d \in Dbs : writes[s][d] = {}

\* SessionEndsClean: when process_request returns, by DISCONNECT or because
\* the socket broke, the transaction is rolled back at every database already;
\* disconnecting does not have to abort anything.
SessionEndsClean ==
  \A s \in Slots : pc[s] \in {"over", "free"} => OpenNowhere(s)

\* CommitNeedsMatchingDml: comparator_pass, the licence to commit, stands only
\* over DML results that agree at all databases (db_adjudicator.h).
CommitNeedsMatchingDml ==
  \A s \in Slots : flag[s].comparator_pass =>
    \A d, e \in Dbs : \A i \in 1 .. Len(res[s][d]) :
      res[s][d][i].kind = "dml" => res[s][d][i].rows = res[s][e][i].rows

-----------------------------------------------------------------------------
(* Liveness, under FairSpec.                                               *)

Busy(s) == pc[s] \in {"begin", "exec", "commit", "rollback"}

\* MessageHandled: a message that started work at the databases is answered,
\* or ends the session and gives the slot back.
MessageHandled ==
  \A s \in Slots :
    Busy(s) ~> \/ pc[s] = "recv" /\ replies[s] # <<>>
               \/ pc[s] = "free"

\* MutexReleased: no slot keeps the mutex for ever.
MutexReleased == \A s \in Slots : mx = s ~> mx # s

-----------------------------------------------------------------------------
(* What comments of the code say and the code does not do.                 *)

\* VerdictHasTransaction: comparator_pass is "set when all db_executors have
\* completed execution", so a session that holds it has a transaction open.
VerdictHasTransaction ==
  \A s \in Slots : pc[s] = "recv" /\ flag[s].comparator_pass => OpenEverywhere(s)

\* AnyMismatchRollsBack: "If any single comparison in step 5 fails, rollback
\* immediately": the verdict stands only over results that are all equal.
AnyMismatchRollsBack ==
  \A s \in Slots : flag[s].comparator_pass =>
    \A d, e \in Dbs : res[s][d] = res[s][e]
=============================================================================
