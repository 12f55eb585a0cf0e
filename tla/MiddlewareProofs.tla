-------------------------- MODULE MiddlewareProofs --------------------------
(***************************************************************************)
(* The composition of db_service and its adjudicators implements both of   *)
(* their modules, and no slot is reused before its process_request is over *)
(* and its transaction gone: for every value of the constants.             *)
(***************************************************************************)
EXTENDS Middleware, AdjudicatorProofs, SequenceTheorems

DP == INSTANCE DbServiceProofs WITH Faults <- ServiceFaults \cup JobFaults

Threads == 1 .. PoolSize

Held(t, s) == thread[t].at \in {"job", "returned"} /\ thread[t].slot = s

In(q, s) == \E i \in 1 .. Len(q) : q[i] = s

\* Where a slot is tells where its process_request is: a slot that is free or
\* on its way to a thread has none, one whose job returned has finished it, and
\* every process_request that runs belongs to a thread.
Glue ==
  /\ \A s \in Slots : In(st, s) \/ In(jobs, s) \/ rq = s => pc[s] = "free"
  /\ \A t \in Threads : thread[t].at = "returned" => pc[thread[t].slot] = "over"
  /\ \A s \in Slots : pc[s] \notin {"free", "lost"} => \E t \in Threads : Held(t, s)

\* What is used here of db_service's invariant.
Owners ==
  /\ DP!TypeOK
  /\ \A t \in Threads : thread[t].at \in {"job", "returned"} => thread[t].slot \in Slots
  /\ \A s \in Slots, t \in Threads : Held(t, s) =>
       /\ ~In(st, s) /\ ~In(jobs, s) /\ rq # s
       /\ \A u \in Threads : Held(u, s) => u = t

-----------------------------------------------------------------------------
(* The service's side.                                                     *)

\* The assumptions of DbService.
LEMMA ServiceAssumption == DP!DbServiceAssumption
  BY MiddlewareAssumption DEF DP!DbServiceAssumption, DP!FaultKinds, DP!BufferSlots, JobFaults

LEMMA SameSlots == DP!BufferSlots = Slots /\ DP!Threads = Threads /\ D!Threads = Threads
  BY MiddlewareAssumption DEF DP!BufferSlots, DP!Threads, D!Threads, Threads

LEMMA OwnersHold ==
  ASSUME DP!IInv
  PROVE  Owners
<1>1. \A t, s : DP!Holds(t, s) <=> Held(t, s)
  BY DEF DP!Holds, Held
<1>2. \A q, s : DP!In(q, s) <=> In(q, s)
  BY DEF DP!In, In
<1>3. DP!TypeOK /\ DP!Hands /\ DP!OwnedOnce
  BY DEF DP!IInv
<1> QED BY <1>1, <1>2, <1>3, SameSlots DEF Owners, DP!Hands, DP!OwnedOnce

LEMMA OwnersHoldNext ==
  ASSUME DP!IInv'
  PROVE  Owners'
<1>1. \A t, s : DP!Holds(t, s)' <=> Held(t, s)'
  BY DEF DP!Holds, Held
<1>2. /\ \A s : DP!In(st, s)' <=> In(st, s)'
      /\ \A s : DP!In(jobs, s)' <=> In(jobs, s)'
  BY DEF DP!In, In
<1>3. DP!TypeOK' /\ DP!Hands' /\ DP!OwnedOnce'
  BY DEF DP!IInv
<1> QED BY <1>1, <1>2, <1>3, SameSlots DEF Owners, DP!Hands, DP!OwnedOnce

\* The actions of the two instances of DbService are the same.
LEMMA SameActions ==
  /\ \A c : D!Accept(c) = DP!Accept(c) /\ D!ReadFails(c) = DP!ReadFails(c)
  /\ D!Dispatch = DP!Dispatch /\ D!MakeActiveFails = DP!MakeActiveFails /\ D!Unwind = DP!Unwind
  /\ \A t : /\ D!TakeJob(t) = DP!TakeJob(t) /\ D!FreeThread(t) = DP!FreeThread(t)
            /\ D!JobReturns(t) = DP!JobReturns(t) /\ D!JobThrows(t) = DP!JobThrows(t)
            /\ D!MakeInactive(t) = DP!MakeInactive(t)
            /\ D!MakeInactiveFails(t) = DP!MakeInactiveFails(t)
<1>1. \A c : D!Accept(c) = DP!Accept(c) /\ D!ReadFails(c) = DP!ReadFails(c)
  BY DEF D!Accept, D!ReadFails, D!Queued, D!bufferVars, D!poolVars,
         DP!Accept, DP!ReadFails, DP!Queued, DP!bufferVars, DP!poolVars
<1>2. D!Dispatch = DP!Dispatch /\ D!MakeActiveFails = DP!MakeActiveFails /\ D!Unwind = DP!Unwind
  BY DEF D!Dispatch, D!PopSession, D!MakeActive, D!RunJob, D!MakeActiveFails, D!Unwind,
         D!SlotAvailable, D!Top, D!Popped, D!ThreadAvailable, D!bufferVars, D!poolVars,
         D!BufferSlots,
         DP!Dispatch, DP!PopSession, DP!MakeActive, DP!RunJob, DP!MakeActiveFails, DP!Unwind,
         DP!SlotAvailable, DP!Top, DP!Popped, DP!ThreadAvailable, DP!bufferVars, DP!poolVars,
         DP!BufferSlots
<1>3. \A t : D!TakeJob(t) = DP!TakeJob(t) /\ D!FreeThread(t) = DP!FreeThread(t)
  BY DEF D!TakeJob, D!FreeThread, D!BufferAlive, D!Freed, D!bufferVars,
         DP!TakeJob, DP!FreeThread, DP!BufferAlive, DP!Freed, DP!bufferVars
<1>4. \A t : D!JobReturns(t) = DP!JobReturns(t) /\ D!JobThrows(t) = DP!JobThrows(t)
  BY DEF D!JobReturns, D!JobThrows, D!BufferAlive, D!Goto, D!bufferVars,
         DP!JobReturns, DP!JobThrows, DP!BufferAlive, DP!Goto, DP!bufferVars
<1>5. \A t : /\ D!MakeInactive(t) = DP!MakeInactive(t)
             /\ D!MakeInactiveFails(t) = DP!MakeInactiveFails(t)
  BY DEF D!MakeInactive, D!MakeInactiveFails, D!BufferAlive, D!Goto, D!GiveBack,
         DP!MakeInactive, DP!MakeInactiveFails, DP!BufferAlive, DP!Goto, DP!GiveBack
<1> QED BY <1>1, <1>2, <1>3, <1>4, <1>5

\* Every step of the composition is a step of db_service, or none.
LEMMA ServiceStep ==
  ASSUME [MwNext]_mwVars
  PROVE  [DP!Next]_(DP!vars)
<1> USE SameActions, SameSlots
<1>1. CASE Serve
  BY <1>1 DEF Serve, DP!Next, DP!Pool, DP!Fault
<1>2. ASSUME NEW t \in Threads, StartJob(t) \/ ReturnFromProcess(t) \/ EndJob(t)
      PROVE  DP!Next
  BY <1>2 DEF StartJob, ReturnFromProcess, EndJob, DP!Next, DP!Pool
<1>3. ASSUME NEW t \in Threads, ThrowFromProcess(t) \/ EndJobFails(t)
      PROVE  DP!Next
  BY <1>3 DEF ThrowFromProcess, EndJobFails, DP!Next, DP!Fault
<1>4. ASSUME UNCHANGED serviceVars PROVE UNCHANGED DP!vars
  BY <1>4 DEF serviceVars, DP!vars
<1> QED BY <1>1, <1>2, <1>3, <1>4 DEF MwNext, mwVars, RunProcess

\* The initial states of the composition are those of db_service.
LEMMA ServiceInit == MwInit => DP!Init
  BY DEF MwInit, D!Init, DP!Init, D!BufferSlots, DP!BufferSlots, D!Threads, DP!Threads

\* The service's invariant holds in the composition.
LEMMA ServiceInvariance == MwSpec => []DP!IInv
<1>1. DP!Spec => []DP!IInv
  BY ServiceAssumption, DP!Invariance
<1>2. [MwNext]_mwVars => [DP!Next]_(DP!vars)
  BY ServiceStep
<1> QED BY <1>1, <1>2, ServiceInit, PTL DEF MwSpec, DP!Spec

-----------------------------------------------------------------------------
(* The adjudicator's side.                                                 *)

LEMMA WorkIsStep ==
  ASSUME NEW s \in Slots, Work(s)
  PROVE  Step(s)
  BY DEF Work, Take, Step, Receive

\* When process_request is over nothing is open at any database, so it makes no
\* difference at which executor disconnect throws.
LEMMA HalfDisconnected ==
  ASSUME IInv, NEW t \in Threads, thread[t].slot \in Slots, EndJobFails(t)
  PROVE  EndSession(thread[t].slot)
<1> DEFINE s == thread[t].slot
<1>1. /\ pc[s] = "over" /\ pc' = [pc EXCEPT ![s] = "free"]
      /\ UNCHANGED <<log, cur, msgCnt, flag, mx, idx, task, res, replies>>
  BY DEF EndJobFails
<1>2. \A d \in Dbs : snap[s][d] = NoTx /\ writes[s][d] = {}
  <2>1. TxOf(s)
    BY DEF IInv, SlotInv
  <2> QED BY <1>1, <2>1 DEF TxOf, OpenNowhere, InTx
<1>3. PICK n \in Dbs :
        /\ snap' = [snap EXCEPT ![s] = [d \in Dbs |-> IF d < n THEN NoTx ELSE snap[s][d]]]
        /\ writes' = [writes EXCEPT ![s] = [d \in Dbs |-> IF d < n THEN {} ELSE writes[s][d]]]
  BY DEF EndJobFails
<1>4. /\ [d \in Dbs |-> IF d < n THEN NoTx ELSE snap[s][d]] = [d \in Dbs |-> NoTx]
      /\ [d \in Dbs |-> IF d < n THEN {} ELSE writes[s][d]] = [d \in Dbs |-> {}]
  BY <1>2
<1> HIDE DEF s
<1>5. DbDisconnect(s)
  BY <1>1, <1>3, <1>4 DEF DbDisconnect
<1> QED BY <1>1, <1>5 DEF EndSession, s

\* Every step of the composition is a step of one adjudicator, or of none.
LEMMA AdjudicatorStep ==
  ASSUME IInv, Owners, [MwNext]_mwVars
  PROVE  [Next]_vars
<1> USE SameActions, SameSlots
<1>1. ASSUME NEW t \in Threads, StartJob(t) PROVE Next
  <2>1. jobs \in Seq(Slots) /\ jobs # <<>>
    BY <1>1 DEF Owners, DP!TypeOK, StartJob, DP!TakeJob
  <2>2. Head(jobs) \in Slots
    BY <2>1, HeadTailProperties
  <2> QED BY <1>1, <2>2 DEF StartJob, Next, Step
<1>2. ASSUME NEW t \in Threads, RunProcess(t) PROVE Next
  <2>1. thread[t].slot \in Slots
    BY <1>2 DEF Owners, RunProcess
  <2> QED BY <1>2, <2>1, WorkIsStep DEF RunProcess, Next
<1>3. ASSUME NEW t \in Threads, EndJob(t) \/ EndJobFails(t) PROVE Next
  <2>1. thread[t].slot \in Slots
    BY <1>3 DEF Owners, EndJob, EndJobFails, DP!MakeInactive, DP!MakeInactiveFails
  <2> QED BY <1>3, <2>1, HalfDisconnected DEF EndJob, Next, Step
<1>4. ASSUME NEW t \in Threads, ReturnFromProcess(t) \/ ThrowFromProcess(t) PROVE UNCHANGED vars
  BY <1>4 DEF ReturnFromProcess, ThrowFromProcess
<1>5. CASE Serve \/ UNCHANGED mwVars
  BY <1>5 DEF Serve, mwVars
<1> QED BY <1>1, <1>2, <1>3, <1>4, <1>5 DEF MwNext

\* db_service uses its adjudicators as their module assumes: whatever holds for
\* every slot that is started and ended at any time holds for the middleware.
THEOREM AdjudicatorImplemented == MwSpec => ImplementsAdjudicator
<1>1. MwInit => Init
  BY DEF MwInit
<1>2. DP!IInv => Owners
  BY OwnersHold
<1>3. Init => IInv
  BY InitIInv
<1>4. IInv /\ Owners /\ [MwNext]_mwVars => [Next]_vars /\ IInv'
  BY AdjudicatorStep, StepIInv
<1> QED BY <1>1, <1>2, <1>3, <1>4, ServiceInvariance, PTL DEF MwSpec, ImplementsAdjudicator, Spec

-----------------------------------------------------------------------------
(* The two sides together.                                                 *)

\* Steps of db_service move slots between stack, dispatcher and jobs only.
LEMMA GlueServe ==
  ASSUME Owners, DP!IInv, Glue, Serve
  PROVE  Glue'
<1> USE SameActions, SameSlots, ServiceAssumption
<1>0. pc' = pc
  BY DEF Serve, vars
<1>1. CASE UNCHANGED <<st, jobs, rq, thread>>
  BY <1>0, <1>1 DEF Glue, In, Held
<1>2. CASE DP!MakeActive
  <2>1. UNCHANGED <<jobs, thread>> /\ rq' = DP!Top /\ st' = DP!Popped(st)
    BY <1>2 DEF DP!MakeActive, DP!poolVars
  <2>2. /\ In(st, DP!Top) /\ DP!Top \in Slots
        /\ \A s \in Slots : In(DP!Popped(st), s) => In(st, s)
    <3>1. st \in Seq(Slots) /\ Len(st) > 0 /\ DP!Distinct(st)
      <4>1. st \in Seq(Slots) /\ slotsFree \in Nat /\ slotsFree > 0 /\ slotsFree <= Len(st)
        BY <1>2 DEF DP!IInv, DP!TypeOK, DP!StackCoversCount, DP!MakeActive, DP!SlotAvailable
      <4> QED BY <4>1, LenProperties DEF DP!IInv, DP!OwnedOnce
    <3>2. /\ st[Len(st)] \in Slots /\ DP!In(st, st[Len(st)])
          /\ \A s : DP!In(DP!Popped(st), s) => DP!In(st, s)
      BY <3>1, DP!PoppedTop
    <3> QED BY <3>2 DEF DP!Top, DP!In, In
  <2> QED BY <1>0, <2>1, <2>2 DEF Glue, In, Held
<1>3. CASE DP!RunJob
  <2>1. UNCHANGED <<st, thread>> /\ jobs' = Append(jobs, rq) /\ rq' = None /\ rq \in Slots
    BY <1>3 DEF DP!RunJob, DP!bufferVars, DP!IInv, DP!TypeOK, DP!Hands
  <2>2. \A s : In(jobs', s) <=> In(jobs, s) \/ s = rq
    <3>1. jobs \in Seq(Slots)
      BY DEF Owners, DP!TypeOK
    <3>2. \A s : DP!In(Append(jobs, rq), s) <=> DP!In(jobs, s) \/ s = rq
      BY <2>1, <3>1, DP!Appended
    <3> QED BY <2>1, <3>2 DEF DP!In, In
  <2>3. None \notin Slots
    BY MiddlewareAssumption
  <2>4. \A s : In(st, s)' <=> In(st, s)
    BY <2>1 DEF In
  <2> QED BY <1>0, <2>1, <2>2, <2>3, <2>4 DEF Glue, Held
<1>4. ASSUME NEW t \in Threads, DP!FreeThread(t) PROVE Glue'
  <2>1. /\ UNCHANGED <<st, jobs, rq>> /\ thread[t].at = "unwound"
        /\ thread' = [thread EXCEPT ![t] = [at |-> "idle", slot |-> None]]
        /\ thread \in [Threads -> [at: {"idle", "job", "returned", "unwound"},
                                   slot: Slots \cup {None}]]
    BY <1>4 DEF DP!FreeThread, DP!bufferVars, Owners, DP!TypeOK
  <2>2. \A u \in Threads, s \in Slots : Held(u, s) => Held(u, s)'
    BY <2>1 DEF Held
  <2>3. \A u \in Threads : thread'[u].at = "returned" => thread'[u] = thread[u]
    BY <2>1
  <2>4. \A s \in Slots : /\ In(st, s)' <=> In(st, s)
                         /\ In(jobs, s)' <=> In(jobs, s)
    BY <2>1 DEF In
  <2> QED BY <1>0, <2>1, <2>2, <2>3, <2>4 DEF Glue
<1>5. CASE \/ \E c \in Sessions : DP!Accept(c) \/ DP!ReadFails(c)
           \/ DP!PopSession \/ DP!MakeActiveFails \/ DP!Unwind
  <2>1. UNCHANGED <<st, jobs, rq, thread>>
    BY <1>5 DEF DP!Accept, DP!ReadFails, DP!PopSession, DP!MakeActiveFails, DP!Unwind,
                DP!bufferVars, DP!poolVars
  <2> QED BY <1>1, <2>1
<1> QED BY <1>2, <1>3, <1>4, <1>5 DEF Serve, DP!Dispatch

\* A step of process_request is in a slot a thread has; all others stay.
LEMMA GlueRun ==
  ASSUME IInv, Owners, Glue, NEW t \in Threads, RunProcess(t)
  PROVE  Glue'
<1> DEFINE s == thread[t].slot
<1>1. thread[t].at = "job" /\ s \in Slots /\ Held(t, s) /\ Work(s)
  BY DEF RunProcess, Owners, Held
<1>2. UNCHANGED <<st, jobs, rq, thread>>
  BY DEF RunProcess, serviceVars
<1>3. \A r \in Slots : r # s => pc'[r] = pc[r]
  <2> HIDE DEF s
  <2> QED BY <1>1, WorkIsStep, Locality DEF IInv, SameSlot
<1>4. \A r \in Slots : In(st, r) \/ In(jobs, r) \/ rq = r => r # s
  BY <1>1 DEF Owners
<1>5. \A u \in Threads : thread[u].at = "returned" =>
        thread[u].slot \in Slots /\ thread[u].slot # s
  BY <1>1 DEF Owners, Held
<1> HIDE DEF s
<1> QED BY <1>1, <1>2, <1>3, <1>4, <1>5 DEF Glue, In, Held

\* A thread starts process_request in a slot where none was.
LEMMA GlueStart ==
  ASSUME IInv, Owners, Owners', Glue, NEW t \in Threads, StartJob(t)
  PROVE  Glue'
<1>0. jobs # <<>> /\ jobs \in Seq(Slots) /\ jobs' = Tail(jobs)
  BY SameActions, SameSlots DEF StartJob, DP!TakeJob, Owners, DP!TypeOK
<1>1. PICK s \in Slots : s = Head(jobs)
  BY <1>0, HeadTailProperties
<1>2. /\ thread' = [thread EXCEPT ![t] = [at |-> "job", slot |-> s]]
      /\ thread \in [Threads -> [at: {"idle", "job", "returned", "unwound"},
                                 slot: Slots \cup {None}]]
      /\ thread[t].at = "idle" /\ UNCHANGED <<st, rq>>
      /\ pc' = [pc EXCEPT ![s] = "recv"] /\ pc \in [Slots -> Locations]
  BY <1>1, SameActions, SameSlots
  DEF StartJob, DP!TakeJob, DP!bufferVars, Owners, DP!TypeOK, StartSession, IInv, TypeOK
<1>3. \A r : In(jobs, r)' => In(jobs, r)
  <2>1. /\ Len(Tail(jobs)) = Len(jobs) - 1 /\ Len(jobs) \in Nat
        /\ \A i \in 1 .. Len(Tail(jobs)) : Tail(jobs)[i] = jobs[i + 1]
    BY <1>0, HeadTailProperties, LenProperties
  <2>2. \A i \in 1 .. Len(Tail(jobs)) : i + 1 \in 1 .. Len(jobs)
    BY <2>1
  <2> QED BY <1>0, <2>1, <2>2 DEF In
<1>4. Held(t, s)' /\ \A u \in Threads, r \in Slots : Held(u, r) => Held(u, r)'
  BY <1>2 DEF Held
<1>5. \A r \in Slots : In(st, r)' \/ In(jobs, r)' \/ rq' = r =>
        r # s /\ (In(st, r) \/ In(jobs, r) \/ rq = r)
  <2>1. ~In(st, s)' /\ ~In(jobs, s)' /\ rq' # s
    BY <1>4 DEF Owners
  <2>2. \A r : In(st, r)' <=> In(st, r)
    BY <1>2 DEF In
  <2> QED BY <1>2, <1>3, <2>1, <2>2
<1>6. \A u \in Threads : thread'[u].at = "returned" =>
        thread'[u] = thread[u] /\ thread[u].slot \in Slots /\ thread[u].slot # s
  <2>1. \A u \in Threads : thread'[u].at = "returned" => u # t /\ thread'[u] = thread[u]
    BY <1>2
  <2>2. \A u \in Threads : Held(u, s)' => u = t
    BY <1>4 DEF Owners
  <2> QED BY <2>1, <2>2 DEF Held, Owners
<1> QED BY <1>2, <1>4, <1>5, <1>6 DEF Glue

\* process_request is over before its job returns, and a slot that an exception
\* left has no thread any more.
LEMMA GlueLeave ==
  ASSUME IInv, Owners, Glue, NEW t \in Threads, ReturnFromProcess(t) \/ ThrowFromProcess(t)
  PROVE  Glue'
<1> DEFINE s == thread[t].slot
<1>1. /\ thread[t].at = "job" /\ UNCHANGED <<pc, st, jobs, rq>>
      /\ thread \in [Threads -> [at: {"idle", "job", "returned", "unwound"},
                                 slot: Slots \cup {None}]]
  BY SameActions, SameSlots DEF ReturnFromProcess, ThrowFromProcess, DP!JobReturns, DP!JobThrows,
     DP!bufferVars, vars, Owners, DP!TypeOK
<1>2. \A r \in Slots : /\ In(st, r)' <=> In(st, r)
                       /\ In(jobs, r)' <=> In(jobs, r)
  BY <1>1 DEF In
<1>3. CASE ReturnFromProcess(t)
  <2>1. thread' = [thread EXCEPT ![t].at = "returned"] /\ pc[s] = "over"
    BY <1>3, SameActions DEF ReturnFromProcess, DP!JobReturns, DP!Goto
  <2>2. \A u \in Threads, r \in Slots : Held(u, r)' <=> Held(u, r)
    BY <1>1, <2>1 DEF Held
  <2>3. \A u \in Threads : thread'[u].slot = thread[u].slot
                           /\ (u # t => thread'[u].at = thread[u].at)
    BY <1>1, <2>1
  <2> QED BY <1>1, <1>2, <2>1, <2>2, <2>3 DEF Glue
<1>4. CASE ThrowFromProcess(t)
  <2>1. thread' = [thread EXCEPT ![t].at = "unwound"] /\ pc[s] = "lost"
    BY <1>4, SameActions DEF ThrowFromProcess, DP!JobThrows, DP!Goto
  <2>2. \A u \in Threads, r \in Slots : Held(u, r) /\ r # s => Held(u, r)'
    BY <1>1, <2>1 DEF Held
  <2>3. \A u \in Threads : thread'[u].at = "returned" => thread'[u] = thread[u]
    BY <1>1, <2>1
  <2> QED BY <1>1, <1>2, <2>1, <2>2, <2>3 DEF Glue
<1> QED BY <1>3, <1>4

\* The slot goes back to the stack when its process_request is over.
LEMMA GlueEnd ==
  ASSUME IInv, Owners, Glue, NEW t \in Threads, EndJob(t) \/ EndJobFails(t)
  PROVE  Glue'
<1> DEFINE s == thread[t].slot
<1>1. /\ thread[t].at = "returned" /\ UNCHANGED <<jobs, rq>> /\ st' = Append(st, s)
      /\ thread' = [thread EXCEPT ![t].at = "unwound"]
      /\ thread \in [Threads -> [at: {"idle", "job", "returned", "unwound"},
                                 slot: Slots \cup {None}]]
      /\ st \in Seq(Slots) /\ s \in Slots /\ Held(t, s)
  BY SameActions, SameSlots DEF EndJob, EndJobFails, DP!MakeInactive, DP!MakeInactiveFails,
     DP!GiveBack, DP!Goto, Owners, DP!TypeOK, Held
<1>2. pc' = [pc EXCEPT ![s] = "free"] /\ pc \in [Slots -> Locations]
  BY DEF EndJob, EndJobFails, EndSession, IInv, TypeOK
<1> HIDE DEF s
<1>3. \A r \in Slots : In(st, r)' => In(st, r) \/ r = s
  <2>1. \A r : DP!In(Append(st, s), r) <=> DP!In(st, r) \/ r = s
    BY <1>1, DP!Appended, ServiceAssumption
  <2> QED BY <1>1, <2>1 DEF DP!In, In
<1>4. \A r \in Slots : In(jobs, r)' <=> In(jobs, r)
  BY <1>1 DEF In
<1>5. \A u \in Threads : thread'[u].at = "returned" =>
        u # t /\ thread'[u] = thread[u] /\ thread[u].slot \in Slots /\ thread[u].slot # s
  <2>1. \A u \in Threads : thread'[u].at = "returned" => u # t /\ thread'[u] = thread[u]
    BY <1>1
  <2>2. \A u \in Threads : Held(u, s) => u = t
    BY <1>1 DEF Owners
  <2> QED BY <2>1, <2>2 DEF Held, Owners
<1>6. \A u \in Threads, r \in Slots : Held(u, r) /\ r # s => Held(u, r)'
  BY <1>1 DEF Held, s
<1> QED BY <1>1, <1>2, <1>3, <1>4, <1>5, <1>6 DEF Glue

\* Nothing is on its way to a thread at first, and no process_request runs.
LEMMA GlueInit == MwInit => Glue
  BY MiddlewareAssumption DEF MwInit, Init, D!Init, D!Threads, Threads, Glue, In, Held

LEMMA GlueStep ==
  ASSUME IInv, DP!IInv, DP!IInv', Glue, [MwNext]_mwVars
  PROVE  Glue'
<1>1. Owners /\ Owners'
  BY OwnersHold, OwnersHoldNext
<1>2. CASE Serve
  BY <1>1, <1>2, GlueServe
<1>3. ASSUME NEW t \in Threads, \/ StartJob(t) \/ RunProcess(t)
                                \/ ReturnFromProcess(t) \/ ThrowFromProcess(t)
                                \/ EndJob(t) \/ EndJobFails(t)
      PROVE  Glue'
  BY <1>1, <1>3, GlueStart, GlueRun, GlueLeave, GlueEnd
<1>4. CASE UNCHANGED mwVars
  BY <1>4 DEF mwVars, vars, serviceVars, Glue, In, Held
<1> QED BY <1>2, <1>3, <1>4, SameSlots DEF MwNext

\* The invariant of the composition: those of its two parts and what binds them.
MwInv == IInv /\ Owners /\ Glue

THEOREM MiddlewareInvariance == MwSpec => []MwInv
<1>1. MwInit => Glue
  BY GlueInit
<1>2. IInv /\ DP!IInv /\ DP!IInv' /\ Glue /\ [MwNext]_mwVars => Glue'
  BY GlueStep
<1>3. DP!IInv => Owners
  BY OwnersHold
<1>4. IInv /\ Owners /\ Glue => MwInv
  BY DEF MwInv
<1>5. Spec => []IInv
  BY Invariance
<1>6. MwSpec => Spec
  BY AdjudicatorImplemented DEF ImplementsAdjudicator
<1> QED BY <1>1, <1>2, <1>3, <1>4, <1>5, <1>6, ServiceInvariance, PTL DEF MwSpec

\* An adjudicator gets its next session only after the last one's
\* process_request has returned, and none after one that threw (make_inactive,
\* wrap_job).
THEOREM NoReentryCorrect == MwSpec => []NoReentry
<1>1. MwInv => NoReentry
  <2> SUFFICES ASSUME MwInv, NEW i \in 1 .. Len(jobs) PROVE pc[jobs[i]] = "free"
    BY DEF NoReentry
  <2>1. jobs[i] \in Slots
    BY SameSlots, ElementOfSeq DEF MwInv, Owners, DP!TypeOK
  <2> QED BY <2>1 DEF MwInv, Glue, In
<1> QED BY <1>1, MiddlewareInvariance, PTL

\* A session inherits no transaction and no lock from the one that had its slot
\* before, even if disconnect threw (process_request, make_inactive).
THEOREM FreeSlotsCleanCorrect == MwSpec => []FreeSlotsClean
<1>1. MwInv => FreeSlotsClean
  <2> SUFFICES ASSUME MwInv, NEW i \in 1 .. Len(st)
               PROVE  OpenNowhere(st[i]) /\ \A d \in Dbs : writes[st[i]][d] = {}
    BY DEF FreeSlotsClean
  <2>1. st[i] \in Slots
    BY SameSlots, ElementOfSeq DEF MwInv, Owners, DP!TypeOK
  <2>2. pc[st[i]] = "free" /\ TxOf(st[i])
    BY <2>1 DEF MwInv, Glue, In, IInv, SlotInv
  <2> QED BY <2>2 DEF TxOf, OpenNowhere
<1> QED BY <1>1, MiddlewareInvariance, PTL

\* The static mutex belongs to a process_request that runs: no thread leaves it
\* locked behind it (lock_guard in start_request, commit_request and
\* rollback_request).
THEOREM MutexHolderRunsCorrect == MwSpec => []MutexHolderRuns
<1>1. MwInv => MutexHolderRuns
  <2> SUFFICES ASSUME MwInv, mx # Free
               PROVE  \E t \in Threads : thread[t].at = "job" /\ thread[t].slot = mx
    BY SameSlots DEF MutexHolderRuns
  <2>1. mx \in Slots /\ pc[mx] \in {"begin", "commit", "rollback"}
    BY DEF MwInv, IInv, TypeOK, MutexInv
  <2>2. PICK t \in Threads : Held(t, mx)
    BY <2>1 DEF MwInv, Glue
  <2>3. thread[t].at # "returned"
    BY <2>1, <2>2 DEF MwInv, Glue, Held
  <2> QED BY <2>2, <2>3 DEF Held
<1> QED BY <1>1, MiddlewareInvariance, PTL
=============================================================================
