----------------------------- MODULE DbService ------------------------------
(***************************************************************************)
(* db_service::operator() with its threadsafe_queue of accepted sessions,  *)
(* its db_buffer and its thread_pool: a session waits in tcp_sess_q, gets  *)
(* a slot of the buffer, waits for a pool thread, is served by             *)
(* process_request (module Adjudicator) and gives slot and thread back.    *)
(*                                                                         *)
(* process_request is one step here: it returns when the client ends the   *)
(* session, or throws.  Critical sections of db_buffer::mx and             *)
(* thread_pool::mx are atomic; their waits are guards.                     *)
(***************************************************************************)
EXTENDS Integers, Sequences, FiniteSets

CONSTANTS
  Sessions,     \* the sessions accepted in this instance
  BufferSize,   \* slots of the db_buffer: 200
  PoolSize,     \* threads of the thread_pool: 12
  Faults,       \* the kinds of failure in this instance
  None          \* no session, no slot

FaultKinds ==
  { "connect",      \* make_connection throws in make_active
    "job",          \* an exception leaves process_request
    "disconnect" }  \* SAConnection::Disconnect throws in make_inactive

BufferSlots == 0 .. BufferSize - 1
Threads == 1 .. PoolSize

ASSUME DbServiceAssumption ==
  /\ BufferSize \in Nat \ {0}
  /\ PoolSize \in Nat \ {0}
  /\ Faults \subseteq FaultKinds
  /\ None \notin Sessions /\ None \notin BufferSlots

VARIABLES
  accepted,      \* the sessions tcp_acceptor has made
  sessQ,         \* db_service::tcp_sess_q
  dispatcher,    \* where db_service::operator() is
  inHand,        \* its local tcp_sess
  rq,            \* its local rq: the slot it is about to run
  st,            \* db_buffer::st, the stack of free slots
  slotsFree,     \* db_buffer::slots_free
  active,        \* db_adjudicator::active of each slot
  tcpSess,       \* db_adjudicator::tcp_sess of each slot
  jobs,          \* jobs dispatched to the io_service and not started
  threadsFree,   \* thread_pool::threads_free
  thread,        \* what each pool thread does, and for which slot
  reader,        \* each session's asynchronous read
  gone           \* destroyed sessions

bufferVars == <<st, slotsFree, active, tcpSess>>
poolVars == <<jobs, threadsFree, thread>>
vars == <<accepted, sessQ, dispatcher, inHand, rq, st, slotsFree, active, tcpSess,
          jobs, threadsFree, thread, reader, gone>>

TypeOK ==
  /\ accepted \subseteq Sessions
  /\ sessQ \in Seq(Sessions)
  /\ dispatcher \in {"pop", "activate", "run", "thrown", "joining"}
  /\ inHand \in Sessions \cup {None}
  /\ rq \in BufferSlots \cup {None}
  /\ st \in Seq(BufferSlots)
  /\ slotsFree \in 0 .. BufferSize
  /\ active \in [BufferSlots -> BOOLEAN]
  /\ tcpSess \in [BufferSlots -> Sessions \cup {None}]
  /\ jobs \in Seq(BufferSlots)
  /\ threadsFree \in 0 .. PoolSize
  /\ thread \in [Threads -> [at: {"idle", "job", "returned", "unwound"},
                             slot: BufferSlots \cup {None}]]
  /\ reader \in [Sessions -> {"none", "reading", "stopped"}]
  /\ gone \subseteq Sessions

Init ==
  /\ accepted = {} /\ sessQ = <<>>
  /\ dispatcher = "pop" /\ inHand = None /\ rq = None
  /\ st = [i \in 1 .. BufferSize |-> i - 1]
  /\ slotsFree = BufferSize
  /\ active = [s \in BufferSlots |-> FALSE]
  /\ tcpSess = [s \in BufferSlots |-> None]
  /\ jobs = <<>>
  /\ threadsFree = PoolSize
  /\ thread = [t \in Threads |-> [at |-> "idle", slot |-> None]]
  /\ reader = [c \in Sessions |-> "none"]
  /\ gone = {}

-----------------------------------------------------------------------------
(* Sessions: tcp_acceptor makes them, their sockets fail or are closed.    *)

\* Mistake: the queue is a stack, the last session is served first.
QueuedInFront(q, c) == <<c>> \o q

Queued(q, c) == Append(q, c)

\* add_session_to_buffer and db_service::add_request.
Accept(c) ==
  /\ c \notin accepted
  /\ accepted' = accepted \cup {c}
  /\ sessQ' = Queued(sessQ, c)
  /\ UNCHANGED <<dispatcher, inHand, rq, bufferVars, poolVars, reader, gone>>

\* The outstanding async_read_until completes with an error: the client
\* closed, the network failed, or the session's destructor closed the socket.
ReadFails(c) ==
  /\ reader[c] = "reading"
  /\ reader' = [reader EXCEPT ![c] = "stopped"]
  /\ UNCHANGED <<accepted, sessQ, dispatcher, inHand, rq, bufferVars, poolVars, gone>>

-----------------------------------------------------------------------------
(* The dispatcher.                                                         *)

PopSession ==
  /\ dispatcher = "pop" /\ sessQ # <<>>
  /\ inHand' = Head(sessQ)
  /\ sessQ' = Tail(sessQ)
  /\ dispatcher' = "activate"
  /\ UNCHANGED <<accepted, rq, bufferVars, poolVars, reader, gone>>

SlotAvailable == slotsFree > 0

Top == st[Len(st)]

\* Mistake: the slot is read from the stack and left on it.
PoppedForgotten(q) == q

Popped(q) == SubSeq(q, 1, Len(q) - 1)

\* make_active: the slot's previous session is destroyed only now, when the
\* new one replaces it.
MakeActive ==
  /\ dispatcher = "activate" /\ SlotAvailable
  /\ rq' = Top
  /\ st' = Popped(st)
  /\ slotsFree' = slotsFree - 1
  /\ active' = [active EXCEPT ![Top] = TRUE]
  /\ tcpSess' = [tcpSess EXCEPT ![Top] = inHand]
  /\ gone' = gone \cup ({tcpSess[Top]} \ {None})
  /\ reader' = [reader EXCEPT ![inHand] = "reading"]
  /\ inHand' = None
  /\ dispatcher' = "run"
  /\ UNCHANGED <<accepted, sessQ, poolVars>>

\* The slot goes back and the exception leaves operator().
MakeActiveFails ==
  /\ "connect" \in Faults
  /\ dispatcher = "activate" /\ SlotAvailable
  /\ gone' = gone \cup {inHand}
  /\ inHand' = None
  /\ dispatcher' = "thrown"
  /\ UNCHANGED <<accepted, sessQ, rq, bufferVars, poolVars, reader>>

\* Unwinding destroys dbf, with every adjudicator and session, before tp.
Unwind ==
  /\ dispatcher = "thrown"
  /\ dispatcher' = "joining"
  /\ gone' = gone \cup ({tcpSess[s] : s \in BufferSlots} \ {None})
  /\ UNCHANGED <<accepted, sessQ, inHand, rq, bufferVars, poolVars, reader>>

BufferAlive == dispatcher # "joining"

\* Mistake: run_job does not wait for a free thread.
ThreadAvailableUnchecked == threadsFree >= -BufferSize

ThreadAvailable == threadsFree > 0

RunJob ==
  /\ dispatcher = "run" /\ ThreadAvailable
  /\ threadsFree' = threadsFree - 1
  /\ jobs' = Append(jobs, rq)
  /\ rq' = None
  /\ dispatcher' = "pop"
  /\ UNCHANGED <<accepted, sessQ, inHand, bufferVars, thread, reader, gone>>

-----------------------------------------------------------------------------
(* The pool threads: wrap_job around the job of operator().                *)

TakeJob(t) ==
  /\ thread[t].at = "idle" /\ jobs # <<>> /\ BufferAlive
  /\ thread' = [thread EXCEPT ![t] = [at |-> "job", slot |-> Head(jobs)]]
  /\ jobs' = Tail(jobs)
  /\ UNCHANGED <<accepted, sessQ, dispatcher, inHand, rq, bufferVars, threadsFree,
                 reader, gone>>

Goto(t, at) == thread' = [thread EXCEPT ![t].at = at]

\* process_request returns: the client sent DISCONNECT, or its read failed.
JobReturns(t) ==
  /\ thread[t].at = "job" /\ BufferAlive
  /\ Goto(t, "returned")
  /\ UNCHANGED <<accepted, sessQ, dispatcher, inHand, rq, bufferVars, jobs, threadsFree,
                 reader, gone>>

\* wrap_job swallows the exception; nobody calls make_inactive.
JobThrows(t) ==
  /\ "job" \in Faults
  /\ thread[t].at = "job" /\ BufferAlive
  /\ Goto(t, "unwound")
  /\ UNCHANGED <<accepted, sessQ, dispatcher, inHand, rq, bufferVars, jobs, threadsFree,
                 reader, gone>>

\* Mistake: the slot is counted as free and not pushed.
GiveBackUnpushed(s) ==
  /\ active' = [active EXCEPT ![s] = FALSE]
  /\ UNCHANGED <<st, tcpSess>>

GiveBack(s) ==
  /\ st' = Append(st, s)
  /\ active' = [active EXCEPT ![s] = FALSE]
  /\ UNCHANGED tcpSess

\* make_inactive, for an active slot.
MakeInactive(t) ==
  /\ thread[t].at = "returned" /\ BufferAlive
  /\ active[thread[t].slot]
  /\ GiveBack(thread[t].slot)
  /\ slotsFree' = slotsFree + 1
  /\ Goto(t, "unwound")
  /\ UNCHANGED <<accepted, sessQ, dispatcher, inHand, rq, jobs, threadsFree, reader, gone>>

\* Disconnect throws between the push and slots_free++.
MakeInactiveFails(t) ==
  /\ "disconnect" \in Faults
  /\ thread[t].at = "returned" /\ BufferAlive
  /\ active[thread[t].slot]
  /\ GiveBack(thread[t].slot)
  /\ Goto(t, "unwound")
  /\ UNCHANGED <<accepted, sessQ, dispatcher, inHand, rq, slotsFree, jobs, threadsFree,
                 reader, gone>>

\* Mistake: a thread whose job threw is not counted as free again.
FreedForgotten(n) == n

Freed(n) == n + 1

\* The end of wrap_job.
FreeThread(t) ==
  /\ thread[t].at = "unwound"
  /\ thread' = [thread EXCEPT ![t] = [at |-> "idle", slot |-> None]]
  /\ threadsFree' = Freed(threadsFree)
  /\ UNCHANGED <<accepted, sessQ, dispatcher, inHand, rq, bufferVars, jobs, reader, gone>>

-----------------------------------------------------------------------------
Dispatch == PopSession \/ MakeActive \/ RunJob

Pool(t) == TakeJob(t) \/ MakeInactive(t) \/ FreeThread(t)

Fault ==
  \/ MakeActiveFails \/ Unwind
  \/ \E t \in Threads : JobThrows(t) \/ MakeInactiveFails(t)

Next ==
  \/ \E c \in Sessions : Accept(c) \/ ReadFails(c)
  \/ Dispatch
  \/ \E t \in Threads : Pool(t) \/ JobReturns(t)
  \/ Fault

Spec == Init /\ [][Next]_vars

\* The dispatcher and the pool threads run; clients and databases owe nothing.
FairSpec == Spec /\ WF_vars(Dispatch) /\ \A t \in Threads : WF_vars(Pool(t))

-----------------------------------------------------------------------------
(* Properties.                                                             *)

\* The jobs a slot has: dispatched, running, or about to give the slot back.
JobsOf(s) ==
  Cardinality({i \in 1 .. Len(jobs) : jobs[i] = s})
    + Cardinality({t \in Threads : thread[t].at \in {"job", "returned"} /\ thread[t].slot = s})
    + (IF rq = s THEN 1 ELSE 0)

\* SlotOwnership: a slot on the stack of free slots is there once and has no
\* job; a slot that is not has at most one: no two sessions ever share an
\* adjudicator and its connections.
SlotOwnership ==
  /\ \A i, j \in 1 .. Len(st) : st[i] = st[j] => i = j
  /\ \A i \in 1 .. Len(st) : JobsOf(st[i]) = 0
  /\ \A s \in BufferSlots : JobsOf(s) <= 1

\* StackCoversCount: slots_free never promises a slot the stack does not have,
\* so make_active never takes the top of an empty stack.
StackCoversCount == slotsFree <= Len(st)

\* JobsHaveThread: run_job hands over a job only when a thread is there to
\* start it at once: a session that has a slot never waits in the io_service
\* behind the sessions of other clients.
JobsHaveThread ==
  Len(jobs) <= Cardinality({t \in Threads : thread[t].at = "idle"})

\* SessionKept: while the buffer lives, the session a job serves is not
\* destroyed and not replaced by another one under it.
SessionKept ==
  [][\A t \in Threads :
       thread[t].at = "job" /\ thread'[t] = thread[t] /\ BufferAlive'
         => /\ tcpSess'[thread[t].slot] = tcpSess[thread[t].slot]
            /\ tcpSess[thread[t].slot] \notin gone']_vars

\* A slot that can still be given out, now or when its session ends.
Usable == slotsFree > 0 \/ \E s \in BufferSlots : JobsOf(s) > 0

Waits(c) == \E i \in 1 .. Len(sessQ) : sessQ[i] = c

ServedNow(c) == \E t \in Threads : thread[t].at = "job" /\ tcpSess[thread[t].slot] = c

\* Served: provided that clients leave, that some slot is not lost to an
\* exception and that no connection attempt fails, every accepted session is
\* taken up by a pool thread: neither the buffer nor the pool forgets to give
\* a slot or a thread back.
Served ==
  ([](Usable /\ dispatcher # "thrown") /\ \A t \in Threads : []<>(thread[t].at # "job"))
    => \A c \in Sessions : Waits(c) ~> ServedNow(c)

-----------------------------------------------------------------------------
(* The abstract service: module SessionService.                            *)

\* Sessions that have a slot and wait for a thread.
Dispatched == [i \in 1 .. Len(jobs) |-> tcpSess[jobs[i]]]

InDispatch ==
  CASE dispatcher = "activate" -> <<inHand>>
    [] dispatcher = "run" -> <<tcpSess[rq]>>
    [] OTHER -> <<>>

\* The line of waiting sessions: an exception in operator() cuts off those that
\* have no slot, the buffer's destruction those that have no thread.
Line ==
  CASE dispatcher = "joining" -> <<>>
    [] dispatcher = "thrown" -> Dispatched
    [] OTHER -> Dispatched \o (InDispatch \o sessQ)

InJob(t) == thread[t].at \in {"job", "returned"}

Unoccupied == [client |-> None, place |-> None]

Serving ==
  [t \in Threads |->
     IF InJob(t) THEN [client |-> tcpSess[thread[t].slot], place |-> thread[t].slot]
     ELSE Unoccupied]

\* Slots that nobody has.
Leaked ==
  {s \in BufferSlots :
     /\ \A i \in 1 .. Len(st) : st[i] # s
     /\ \A i \in 1 .. Len(jobs) : jobs[i] # s
     /\ rq # s
     /\ \A t \in Threads : ~(InJob(t) /\ thread[t].slot = s)}

Promised == INSTANCE SessionService
              WITH Clients <- Sessions, Places <- BufferSlots, Servers <- Threads,
                   Nobody <- Unoccupied, arrived <- accepted, line <- Line, serving <- Serving, spoiled <- Leaked,
                   open <- dispatcher \notin {"thrown", "joining"}

\* ImplementsService: through queue, buffer, io_service and pool, the sessions
\* are served in the order tcp_acceptor accepted them, each at most once and in
\* a slot of its own, and a slot whose process_request threw is not used again.
ImplementsService == Promised!ServiceSpec

\* HandlerHasSession: "make_inactive is run, which elegantly cleans memory"
\* (db_adjudicator.cpp): a session is destroyed only when its read handler,
\* which uses it, will not run any more.
HandlerHasSession == \A c \in gone : reader[c] # "reading"
=============================================================================
