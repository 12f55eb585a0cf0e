----------------------------- MODULE Middleware -----------------------------
(***************************************************************************)
(* The middleware at work: db_service (module DbService) hands sessions to *)
(* slots and pool threads, and the job of a thread is process_request of   *)
(* its slot's db_adjudicator (module Adjudicator).  Each of the two        *)
(* modules leaves the other open: DbService lets a job return or throw at  *)
(* any time, Adjudicator lets a free slot start a session at any time.     *)
(* Here they take these steps together.                                    *)
(***************************************************************************)
EXTENDS Adjudicator

CONSTANTS
  Sessions,        \* the sessions accepted in this instance
  BufferSize,      \* slots of the db_buffer
  PoolSize,        \* threads of the thread_pool
  ServiceFaults,   \* what may fail in db_buffer: "connect", "disconnect"
  None             \* no session, no slot

VARIABLES
  accepted, sessQ, dispatcher, inHand, rq,       \* db_service
  st, slotsFree, active, tcpSess,                \* db_buffer
  jobs, threadsFree, thread,                     \* thread_pool
  reader, gone                                   \* tcp_session

\* An exception leaves process_request when a begin, commit or rollback fails.
JobFaults == IF Faults \cap {"begin", "commit", "rollback"} = {} THEN {} ELSE {"job"}

D == INSTANCE DbService WITH Faults <- ServiceFaults \cup JobFaults

ASSUME MiddlewareAssumption ==
  /\ Slots = 0 .. BufferSize - 1
  /\ BufferSize \in Nat \ {0}
  /\ PoolSize \in Nat \ {0}
  /\ ServiceFaults \subseteq {"connect", "disconnect"}
  /\ None \notin Sessions /\ None \notin Slots

serviceVars == <<accepted, sessQ, dispatcher, inHand, rq, st, slotsFree, active, tcpSess,
                 jobs, threadsFree, thread, reader, gone>>

mwVars == <<vars, serviceVars>>

MwInit == Init /\ D!Init

-----------------------------------------------------------------------------
\* A pool thread starts the job of its slot: process_request begins.
StartJob(t) ==
  /\ D!TakeJob(t)
  /\ StartSession(Head(jobs))

\* get_client_msg gives SOCKET_ERROR only when the session's read has failed.
Take(s) ==
  \/ ReceiveCommit(s) \/ ReceiveSQL(s) \/ ReceiveCommitAsSQL(s)
  \/ \E type \in {"ROLLBACK", "DISCONNECT"} : ReceiveEnd(s, type)
  \/ reader[tcpSess[s]] = "stopped" /\ ReceiveEnd(s, "SOCKET_ERROR")

\* A step of process_request or of the tasks it waits for.
Work(s) ==
  \/ Take(s) \/ Lock(s) \/ Critical(s) \/ Decide(s) \/ Fault(s)
  \/ \E d \in Dbs : Executor(s, d)

RunProcess(t) ==
  /\ thread[t].at = "job" /\ D!BufferAlive
  /\ Work(thread[t].slot)
  /\ UNCHANGED serviceVars

ReturnFromProcess(t) ==
  /\ thread[t].at = "job" /\ pc[thread[t].slot] = "over"
  /\ D!JobReturns(t)
  /\ UNCHANGED vars

\* Mistake: the exception is caught in the job, which goes on to make_inactive.
ThrowCaught(t) ==
  /\ thread[t].at = "job" /\ pc[thread[t].slot] = "lost"
  /\ D!JobReturns(t)
  /\ pc' = [pc EXCEPT ![thread[t].slot] = "over"]
  /\ UNCHANGED <<replicaVars, cur, msgCnt, flag, mx, idx, task, res, replies>>

ThrowFromProcess(t) ==
  /\ thread[t].at = "job" /\ pc[thread[t].slot] = "lost"
  /\ D!JobThrows(t)
  /\ UNCHANGED vars

\* make_inactive, with db_adjudicator::disconnect.
EndJob(t) ==
  /\ D!MakeInactive(t)
  /\ EndSession(thread[t].slot)

\* disconnect throws at one executor: those behind it stay connected, and
\* what is open on their connections stays open.
EndJobFails(t) ==
  LET s == thread[t].slot IN
  /\ D!MakeInactiveFails(t)
  /\ pc[s] = "over"
  /\ pc' = [pc EXCEPT ![s] = "free"]
  /\ \E n \in Dbs :
       /\ snap' = [snap EXCEPT ![s] = [d \in Dbs |-> IF d < n THEN NoTx ELSE snap[s][d]]]
       /\ writes' = [writes EXCEPT ![s] = [d \in Dbs |-> IF d < n THEN {} ELSE writes[s][d]]]
  /\ UNCHANGED <<log, cur, msgCnt, flag, mx, idx, task, res, replies>>

\* What no adjudicator takes part in.
Serve ==
  /\ \/ \E c \in Sessions : D!Accept(c) \/ D!ReadFails(c)
     \/ D!Dispatch \/ D!MakeActiveFails \/ D!Unwind
     \/ \E t \in D!Threads : D!FreeThread(t)
  /\ UNCHANGED vars

MwNext ==
  \/ Serve
  \/ \E t \in D!Threads : \/ StartJob(t) \/ RunProcess(t)
                          \/ ReturnFromProcess(t) \/ ThrowFromProcess(t)
                          \/ EndJob(t) \/ EndJobFails(t)

MwSpec == MwInit /\ [][MwNext]_mwVars

-----------------------------------------------------------------------------
\* NoReentry: process_request is only ever started on an adjudicator whose last
\* one has returned: never while it runs, and never again once an exception
\* left it in the middle of a transaction.
NoReentry == \A i \in 1 .. Len(jobs) : pc[jobs[i]] = "free"

\* FreeSlotsClean: a slot on the free stack has no transaction open and no row
\* locked at any database, even when disconnect threw half-way: a session
\* inherits nothing from the one that had its slot before.
FreeSlotsClean ==
  \A i \in 1 .. Len(st) :
    OpenNowhere(st[i]) /\ \A d \in Dbs : writes[st[i]][d] = {}

\* MutexHolderRuns: the static mutex is held by a slot whose process_request is
\* running: no thread goes on to its next session and leaves it locked.
MutexHolderRuns ==
  mx # Free => \E t \in D!Threads : thread[t].at = "job" /\ thread[t].slot = mx

\* ImplementsAdjudicator: db_service uses its adjudicators as module Adjudicator
\* assumes, and disconnecting only half of the executors makes no difference.
ImplementsAdjudicator == Spec
=============================================================================
