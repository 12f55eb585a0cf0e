-------------------------- MODULE DbServiceProofs ---------------------------
(***************************************************************************)
(* No two sessions share a slot, the counters of buffer and pool promise   *)
(* only what is there, a job that is handed over has a thread, and the     *)
(* sessions are served in one line: for any number of sessions, slots and  *)
(* threads and any faults.                                                 *)
(***************************************************************************)
EXTENDS DbService, DataLemmas

In(q, s) == \E i \in 1 .. Len(q) : q[i] = s

Distinct(q) == \A i, j \in 1 .. Len(q) : q[i] = q[j] => i = j

\* Pool thread t will give slot s back, or lose it.
Holds(t, s) == thread[t].at \in {"job", "returned"} /\ thread[t].slot = s

Idle == {t \in Threads : thread[t].at = "idle"}

\* What the dispatcher has in its hands where it is.
Hands ==
  /\ dispatcher = "activate" <=> inHand # None
  /\ dispatcher = "run" <=> rq # None
  /\ \A t \in Threads : thread[t].at \in {"job", "returned"} => thread[t].slot \in BufferSlots

\* A slot is in at most one place: on the stack, with the dispatcher, in a job
\* that nobody has started, or with one thread.
OwnedOnce ==
  /\ Distinct(st) /\ Distinct(jobs)
  /\ \A s \in BufferSlots : In(st, s) => ~In(jobs, s) /\ rq # s
  /\ \A s \in BufferSlots : In(jobs, s) => rq # s
  /\ \A s \in BufferSlots, t \in Threads : Holds(t, s) =>
       /\ ~In(st, s) /\ ~In(jobs, s) /\ rq # s
       /\ \A u \in Threads : Holds(u, s) => u = t

\* threads_free counts the idle threads without those that jobs are waiting for.
ThreadCount == threadsFree + Len(jobs) = Cardinality(Idle)

IInv == TypeOK /\ Hands /\ OwnedOnce /\ StackCoversCount /\ ThreadCount

-----------------------------------------------------------------------------
(* Sequences without repetitions.                                          *)

\* Appending an element that is not there.
LEMMA Appended ==
  ASSUME NEW S, NEW q \in Seq(S), NEW x \in S
  PROVE  /\ Append(q, x) \in Seq(S) /\ Len(Append(q, x)) = Len(q) + 1
         /\ \A s : In(Append(q, x), s) <=> In(q, s) \/ s = x
         /\ Distinct(q) /\ ~In(q, x) => Distinct(Append(q, x))
<1>1. /\ Append(q, x) \in Seq(S) /\ Len(Append(q, x)) = Len(q) + 1
      /\ \A i \in 1 .. Len(q) : Append(q, x)[i] = q[i]
      /\ Append(q, x)[Len(q) + 1] = x /\ Len(q) \in Nat
  BY AppendProperties, LenProperties
<1>2. \A i \in 1 .. Len(q) + 1 : i \in 1 .. Len(q) \/ i = Len(q) + 1
  BY <1>1
<1>3. \A i \in 1 .. Len(q) : i \in 1 .. Len(q) + 1
  BY <1>1
<1>4. Len(q) + 1 \in 1 .. Len(q) + 1
  BY <1>1
<1> QED BY <1>1, <1>2, <1>3, <1>4 DEF In, Distinct

\* Taking the top of the stack.
LEMMA PoppedTop ==
  ASSUME NEW S, NEW q \in Seq(S), Len(q) > 0, Distinct(q)
  PROVE  /\ Popped(q) \in Seq(S) /\ Len(Popped(q)) = Len(q) - 1
         /\ Distinct(Popped(q)) /\ q[Len(q)] \in S /\ In(q, q[Len(q)])
         /\ \A s : In(Popped(q), s) => In(q, s) /\ s # q[Len(q)]
<1>1. Len(q) \in Nat /\ \A i \in 1 .. Len(q) : q[i] \in S
  BY LenProperties, ElementOfSeq
<1>2. \A i \in 1 .. Len(q) - 1 : i \in 1 .. Len(q) /\ i # Len(q)
  BY <1>1
<1>3. Len(q) \in 1 .. Len(q)
  BY <1>1
<1>4. /\ Popped(q) \in Seq(S) /\ Len(Popped(q)) = Len(q) - 1
      /\ \A i \in 1 .. Len(q) - 1 : Popped(q)[i] = q[i]
  <2> DEFINE n == Len(q) - 1
  <2>1. n \in Nat /\ \A i \in 1 .. n : q[i] \in S
    BY <1>1, <1>2
  <2>2. Popped(q) = SubSeq(q, 1, n)
    BY DEF Popped
  <2> HIDE DEF n
  <2>3. /\ SubSeq(q, 1, n) \in Seq(S) /\ Len(SubSeq(q, 1, n)) = n
        /\ \A i \in 1 .. n : SubSeq(q, 1, n)[i] = q[i]
    BY <2>1, SubSeqProperties
  <2>4. n = Len(q) - 1
    BY DEF n
  <2> QED BY <2>2, <2>3, <2>4
<1> QED BY <1>1, <1>2, <1>3, <1>4 DEF In, Distinct

\* What is below the top stays.
LEMMA PoppedKeeps ==
  ASSUME NEW S, NEW q \in Seq(S), Len(q) > 0
  PROVE  \A i \in 1 .. Len(q) - 1 : Popped(q)[i] = q[i]
<1> DEFINE n == Len(q) - 1
<1>1. n \in Nat /\ \A i \in 1 .. n : q[i] \in S
  BY LenProperties, ElementOfSeq
<1>2. Popped(q) = SubSeq(q, 1, n)
  BY DEF Popped
<1> HIDE DEF n
<1>3. \A i \in 1 .. n : SubSeq(q, 1, n)[i] = q[i]
  BY <1>1, SubSeqProperties
<1> QED BY <1>2, <1>3 DEF n

\* Taking the first job.
LEMMA TakenHead ==
  ASSUME NEW S, NEW q \in Seq(S), q # <<>>, Distinct(q)
  PROVE  /\ Tail(q) \in Seq(S) /\ Len(Tail(q)) = Len(q) - 1
         /\ Distinct(Tail(q)) /\ Head(q) \in S /\ In(q, Head(q))
         /\ \A s : In(Tail(q), s) => In(q, s) /\ s # Head(q)
<1>1. /\ Head(q) \in S /\ Tail(q) \in Seq(S) /\ Len(Tail(q)) = Len(q) - 1
      /\ \A i \in 1 .. Len(Tail(q)) : Tail(q)[i] = q[i + 1]
      /\ Head(q) = q[1] /\ Len(q) \in Nat \ {0}
  BY HeadTailProperties, EmptySeq
<1>2. 1 \in 1 .. Len(q) /\ \A i \in 1 .. Len(q) - 1 : i + 1 \in 1 .. Len(q) /\ i + 1 # 1
  BY <1>1
<1>3. \A i, j \in 1 .. Len(q) - 1 : i + 1 = j + 1 => i = j
  BY <1>1
<1> QED BY <1>1, <1>2, <1>3 DEF In, Distinct

\* There are no more slots on the stack than there are slots.
LEMMA DistinctBound ==
  ASSUME NEW q \in Seq(BufferSlots), Distinct(q)
  PROVE  Len(q) <= BufferSize
<1>1. BufferSize \in Nat \ {0} /\ Len(q) \in Nat /\ q \in [1 .. Len(q) -> BufferSlots]
  BY DbServiceAssumption, LenProperties
<1>2. q \in Injection(1 .. Len(q), BufferSlots)
  BY <1>1 DEF Distinct, Injection, IsInjective
<1>3. IsFiniteSet(BufferSlots) /\ Cardinality(BufferSlots) = BufferSize
  <2>1. 0 \in Int /\ BufferSize - 1 \in Int /\ ~(0 > BufferSize - 1) /\ BufferSize - 1 - 0 + 1 = BufferSize
    BY <1>1
  <2> QED BY <2>1, FS_Interval DEF BufferSlots
<1>4. Cardinality(1 .. Len(q)) = Len(q)
  BY <1>1, FS_Interval
<1> QED BY <1>2, <1>3, <1>4, FS_Injection

\* A set of threads is finite and no larger than the pool.
LEMMA ThreadsBound ==
  ASSUME NEW T \in SUBSET Threads
  PROVE  IsFiniteSet(T) /\ Cardinality(T) \in Nat /\ Cardinality(T) <= PoolSize
<1>1. PoolSize \in Nat \ {0}
  BY DbServiceAssumption
<1>2. IsFiniteSet(Threads) /\ Cardinality(Threads) = PoolSize
  BY <1>1, FS_Interval DEF Threads
<1> QED BY <1>2, FS_Subset, FS_CardinalityType

-----------------------------------------------------------------------------
(* The steps.                                                              *)

\* Steps that move no slot and no thread.
LEMMA QuietStep ==
  ASSUME IInv, UNCHANGED <<rq, st, slotsFree, jobs, threadsFree, thread>>
  PROVE  OwnedOnce' /\ StackCoversCount' /\ ThreadCount'
<1>1. Idle' = Idle
  BY DEF Idle
<1>2. \A t \in Threads, s \in BufferSlots : Holds(t, s)' = Holds(t, s)
  BY DEF Holds
<1> QED BY <1>1, <1>2 DEF IInv, OwnedOnce, StackCoversCount, ThreadCount, In, Distinct

LEMMA SessionStep ==
  ASSUME IInv, \/ \E c \in Sessions : Accept(c) \/ ReadFails(c)
               \/ PopSession \/ MakeActiveFails \/ Unwind
  PROVE  IInv'
<1> USE DEF IInv, TypeOK, Hands
<1>1. ASSUME NEW c \in Sessions, Accept(c) PROVE IInv'
  <2>1. Append(sessQ, c) \in Seq(Sessions)
    BY AppendProperties
  <2>2. TypeOK' /\ Hands'
    BY <1>1, <2>1 DEF Accept, Queued, bufferVars, poolVars
  <2> QED BY <1>1, <2>2, QuietStep DEF Accept, bufferVars, poolVars
<1>2. ASSUME NEW c \in Sessions, ReadFails(c) PROVE IInv'
  <2>1. TypeOK' /\ Hands'
    BY <1>2 DEF ReadFails, bufferVars, poolVars
  <2> QED BY <1>2, <2>1, QuietStep DEF ReadFails, bufferVars, poolVars
<1>3. CASE PopSession
  <2>1. Head(sessQ) \in Sessions /\ Tail(sessQ) \in Seq(Sessions)
    BY <1>3, HeadTailProperties DEF PopSession
  <2>2. TypeOK' /\ Hands'
    BY <1>3, <2>1, DbServiceAssumption DEF PopSession, bufferVars, poolVars
  <2> QED BY <1>3, <2>2, QuietStep DEF PopSession, bufferVars, poolVars
<1>4. CASE MakeActiveFails
  <2>1. TypeOK' /\ Hands'
    BY <1>4 DEF MakeActiveFails, bufferVars, poolVars
  <2> QED BY <1>4, <2>1, QuietStep DEF MakeActiveFails, bufferVars, poolVars
<1>5. CASE Unwind
  <2>1. TypeOK' /\ Hands'
    BY <1>5 DEF Unwind, bufferVars, poolVars
  <2> QED BY <1>5, <2>1, QuietStep DEF Unwind, bufferVars, poolVars
<1> QED BY <1>1, <1>2, <1>3, <1>4, <1>5

\* make_active takes the top of a stack that is not empty.
LEMMA MakeActiveStep ==
  ASSUME IInv, MakeActive
  PROVE  IInv'
<1>1. /\ st \in Seq(BufferSlots) /\ Len(st) > 0 /\ Distinct(st) /\ slotsFree \in 1 .. BufferSize
      /\ slotsFree <= Len(st) /\ Len(st) \in Nat
  <2>1. /\ st \in Seq(BufferSlots) /\ slotsFree \in 0 .. BufferSize
        /\ slotsFree > 0 /\ BufferSize \in Nat
    BY DbServiceAssumption DEF IInv, TypeOK, MakeActive, SlotAvailable
  <2>2. slotsFree <= Len(st) /\ Distinct(st)
    BY DEF IInv, OwnedOnce, StackCoversCount
  <2> QED BY <2>1, <2>2, LenProperties
<1>2. /\ Popped(st) \in Seq(BufferSlots) /\ Len(Popped(st)) = Len(st) - 1 /\ Distinct(Popped(st))
      /\ Top \in BufferSlots /\ In(st, Top)
      /\ \A s : In(Popped(st), s) => In(st, s) /\ s # Top
  BY <1>1, PoppedTop DEF Top
<1>3. UNCHANGED <<jobs, threadsFree, thread>> /\ st' = Popped(st) /\ rq' = Top
  BY DEF MakeActive, poolVars
<1>4. TypeOK'
  <2>1. slotsFree' \in 0 .. BufferSize
    BY <1>1, DbServiceAssumption DEF MakeActive
  <2>2. inHand \in Sessions
    BY DEF IInv, TypeOK, Hands, MakeActive
  <2> QED BY <1>2, <2>1, <2>2 DEF IInv, TypeOK, MakeActive, poolVars
<1>5. Hands'
  <2>1. Top # None
    BY <1>2, DbServiceAssumption
  <2> QED BY <2>1 DEF IInv, Hands, MakeActive, poolVars
<1>6. OwnedOnce'
  <2>1. \A t \in Threads, s \in BufferSlots : Holds(t, s)' = Holds(t, s)
    BY <1>3 DEF Holds
  <2>2. \A s : In(jobs, s)' <=> In(jobs, s)
    BY <1>3 DEF In
  <2>3. Distinct(st') /\ Distinct(jobs')
    BY <1>2, <1>3 DEF IInv, OwnedOnce
  <2>4. ~In(jobs, Top) /\ \A t \in Threads : ~Holds(t, Top)
    BY <1>2 DEF IInv, OwnedOnce
  <2> QED BY <1>2, <1>3, <2>1, <2>2, <2>3, <2>4 DEF IInv, OwnedOnce
<1>7. StackCoversCount'
  BY <1>1, <1>2, <1>3 DEF StackCoversCount, MakeActive
<1>8. ThreadCount'
  BY <1>3 DEF IInv, ThreadCount, Idle
<1> QED BY <1>4, <1>5, <1>6, <1>7, <1>8 DEF IInv

\* run_job hands the slot over.
LEMMA RunJobStep ==
  ASSUME IInv, RunJob
  PROVE  IInv'
<1>1. /\ rq \in BufferSlots /\ jobs \in Seq(BufferSlots)
      /\ rq # None /\ ~In(jobs, rq) /\ Distinct(jobs)
      /\ rq' = None /\ jobs' = Append(jobs, rq) /\ UNCHANGED <<st, slotsFree, thread>>
  BY DEF IInv, TypeOK, Hands, OwnedOnce, RunJob, bufferVars
<1>2. /\ jobs' \in Seq(BufferSlots) /\ Len(jobs') = Len(jobs) + 1 /\ Distinct(jobs')
      /\ \A s : In(jobs', s) <=> In(jobs, s) \/ s = rq
  BY <1>1, Appended
<1>3. threadsFree \in 1 .. PoolSize /\ threadsFree' = threadsFree - 1 /\ PoolSize \in Nat
      /\ Len(jobs) \in Nat
  BY <1>1, LenProperties, DbServiceAssumption DEF IInv, TypeOK, RunJob, ThreadAvailable
<1>4. TypeOK' /\ Hands'
  <2>1. threadsFree' \in 0 .. PoolSize
    BY <1>3
  <2> QED BY <1>1, <1>2, <2>1 DEF IInv, TypeOK, Hands, RunJob, bufferVars
<1>5. OwnedOnce'
  <2>1. \A t \in Threads, s \in BufferSlots : Holds(t, s)' = Holds(t, s)
    BY <1>1 DEF Holds
  <2>2. \A s : In(st, s)' <=> In(st, s)
    BY <1>1 DEF In
  <2>3. None \notin BufferSlots /\ Distinct(st')
    BY <1>1, DbServiceAssumption DEF IInv, OwnedOnce
  <2> QED BY <1>1, <1>2, <2>1, <2>2, <2>3 DEF IInv, OwnedOnce
<1>6. StackCoversCount' /\ ThreadCount'
  BY <1>1, <1>2, <1>3 DEF IInv, StackCoversCount, ThreadCount, Idle
<1> QED BY <1>4, <1>5, <1>6 DEF IInv

\* An idle thread takes the first job.
LEMMA TakeJobStep ==
  ASSUME IInv, NEW t \in Threads, TakeJob(t)
  PROVE  IInv'
<1>1. /\ jobs \in Seq(BufferSlots) /\ jobs # <<>> /\ Distinct(jobs) /\ jobs' = Tail(jobs)
      /\ thread' = [thread EXCEPT ![t] = [at |-> "job", slot |-> Head(jobs)]]
      /\ UNCHANGED <<rq, st, slotsFree, threadsFree, dispatcher, inHand>> /\ thread[t].at = "idle"
  BY DEF IInv, TypeOK, OwnedOnce, TakeJob, bufferVars
<1>2. /\ jobs' \in Seq(BufferSlots) /\ Len(jobs') = Len(jobs) - 1 /\ Distinct(jobs')
      /\ Head(jobs) \in BufferSlots /\ In(jobs, Head(jobs))
      /\ \A s : In(jobs', s) => In(jobs, s) /\ s # Head(jobs)
  BY <1>1, TakenHead
<1>3. TypeOK' /\ Hands'
  BY <1>1, <1>2 DEF IInv, TypeOK, Hands, TakeJob, bufferVars
<1>4. OwnedOnce'
  <2>1. \A u \in Threads, s \in BufferSlots :
          Holds(u, s)' <=> IF u = t THEN s = Head(jobs) ELSE Holds(u, s)
    BY <1>1 DEF Holds, IInv, TypeOK
  <2>2. \A s : In(st, s)' <=> In(st, s)
    BY <1>1 DEF In
  <2>3. /\ ~In(st, Head(jobs)) /\ rq # Head(jobs) /\ Distinct(st')
        /\ \A u \in Threads : ~Holds(u, Head(jobs))
    BY <1>1, <1>2 DEF IInv, OwnedOnce
  <2> QED BY <1>1, <1>2, <2>1, <2>2, <2>3 DEF IInv, OwnedOnce
<1>5. ThreadCount'
  <2>1. Idle' = Idle \ {t} /\ t \in Idle
    BY <1>1 DEF Idle, IInv, TypeOK
  <2>2. IsFiniteSet(Idle) /\ Cardinality(Idle) \in Nat
    BY ThreadsBound DEF Idle
  <2>3. Cardinality(Idle') = Cardinality(Idle) - 1
    BY <2>1, <2>2, FS_RemoveElement
  <2>4. Len(jobs) \in Nat /\ threadsFree \in Nat
    BY <1>1, LenProperties DEF IInv, TypeOK
  <2> QED BY <1>1, <1>2, <2>2, <2>3, <2>4 DEF IInv, ThreadCount
<1>6. StackCoversCount'
  BY <1>1 DEF IInv, StackCoversCount
<1> QED BY <1>3, <1>4, <1>5, <1>6 DEF IInv

\* A job returns, or throws and loses its slot.
LEMMA JobEndsStep ==
  ASSUME IInv, NEW t \in Threads, JobReturns(t) \/ JobThrows(t)
  PROVE  IInv'
<1>1. PICK at \in {"returned", "unwound"} : thread' = [thread EXCEPT ![t].at = at]
  BY DEF JobReturns, JobThrows, Goto
<1>2. /\ UNCHANGED <<rq, st, slotsFree, jobs, threadsFree, dispatcher, inHand>>
      /\ thread[t].at = "job"
  BY DEF JobReturns, JobThrows, bufferVars
<1>3. TypeOK' /\ Hands'
  BY <1>1, <1>2 DEF IInv, TypeOK, Hands, JobReturns, JobThrows, bufferVars
<1>4. OwnedOnce'
  <2>1. \A u \in Threads, s \in BufferSlots : Holds(u, s)' => Holds(u, s)
    BY <1>1, <1>2 DEF Holds, IInv, TypeOK
  <2>2. \A s : (In(st, s)' <=> In(st, s)) /\ (In(jobs, s)' <=> In(jobs, s))
    BY <1>2 DEF In
  <2> QED BY <1>2, <2>1, <2>2 DEF IInv, OwnedOnce
<1>5. StackCoversCount' /\ ThreadCount'
  <2>1. Idle' = Idle
    BY <1>1, <1>2 DEF Idle, IInv, TypeOK
  <2> QED BY <1>2, <2>1 DEF IInv, StackCoversCount, ThreadCount
<1> QED BY <1>3, <1>4, <1>5 DEF IInv

\* make_inactive pushes the slot, and counts it unless Disconnect throws.
LEMMA MakeInactiveStep ==
  ASSUME IInv, NEW t \in Threads, MakeInactive(t) \/ MakeInactiveFails(t)
  PROVE  IInv'
<1> DEFINE s == thread[t].slot
<1>1. /\ st' = Append(st, s) /\ thread[t].at = "returned" /\ s \in BufferSlots /\ Holds(t, s)
      /\ thread' = [thread EXCEPT ![t].at = "unwound"]
      /\ UNCHANGED <<rq, jobs, threadsFree, dispatcher, inHand>>
      /\ slotsFree' \in {slotsFree, slotsFree + 1}
  BY DEF IInv, Hands, Holds, MakeInactive, MakeInactiveFails, GiveBack, Goto
<1>2. st \in Seq(BufferSlots) /\ Distinct(st) /\ ~In(st, s) /\ ~In(jobs, s) /\ rq # s
      /\ \A u \in Threads : Holds(u, s) => u = t
  BY <1>1 DEF IInv, TypeOK, OwnedOnce
<1> HIDE DEF s
<1>3. /\ st' \in Seq(BufferSlots) /\ Len(st') = Len(st) + 1 /\ Distinct(st')
      /\ \A r : In(st', r) <=> In(st, r) \/ r = s
  BY <1>1, <1>2, Appended
<1>4. slotsFree \in Nat /\ Len(st) \in Nat /\ slotsFree <= Len(st)
  BY <1>2, LenProperties DEF IInv, TypeOK, StackCoversCount
<1>5. StackCoversCount'
  BY <1>1, <1>3, <1>4 DEF StackCoversCount
<1>6. TypeOK' /\ Hands'
  <2>1. slotsFree' \in 0 .. BufferSize
    <3>1. Len(st') <= BufferSize /\ BufferSize \in Nat
      BY <1>3, DistinctBound, DbServiceAssumption
    <3> QED BY <3>1, <1>1, <1>3, <1>4, <1>5 DEF StackCoversCount
  <2>2. active' \in [BufferSlots -> BOOLEAN] /\ UNCHANGED <<tcpSess, accepted, sessQ, reader, gone>>
    BY DEF IInv, TypeOK, MakeInactive, MakeInactiveFails, GiveBack
  <2> QED BY <1>1, <1>3, <2>1, <2>2 DEF IInv, TypeOK, Hands
<1>7. OwnedOnce'
  <2>1. \A u \in Threads, r \in BufferSlots : Holds(u, r)' <=> Holds(u, r) /\ u # t
    BY <1>1 DEF Holds, IInv, TypeOK
  <2>2. \A r : In(jobs, r)' <=> In(jobs, r)
    BY <1>1 DEF In
  <2>3. Distinct(jobs')
    BY <1>1 DEF IInv, OwnedOnce
  <2> QED BY <1>1, <1>2, <1>3, <2>1, <2>2, <2>3 DEF IInv, OwnedOnce
<1>8. ThreadCount'
  <2>1. Idle' = Idle
    BY <1>1 DEF Idle, IInv, TypeOK
  <2> QED BY <1>1, <2>1 DEF IInv, ThreadCount
<1> QED BY <1>5, <1>6, <1>7, <1>8 DEF IInv

\* The end of wrap_job makes the thread idle and counts it.
LEMMA FreeThreadStep ==
  ASSUME IInv, NEW t \in Threads, FreeThread(t)
  PROVE  IInv'
<1>1. /\ thread' = [thread EXCEPT ![t] = [at |-> "idle", slot |-> None]]
      /\ thread[t].at = "unwound" /\ threadsFree' = threadsFree + 1
      /\ UNCHANGED <<rq, st, slotsFree, jobs, dispatcher, inHand>>
  BY DEF FreeThread, Freed, bufferVars
<1>2. ThreadCount' /\ threadsFree' \in 0 .. PoolSize
  <2>1. Idle' = Idle \cup {t} /\ t \notin Idle
    BY <1>1 DEF Idle, IInv, TypeOK
  <2>2. IsFiniteSet(Idle) /\ Cardinality(Idle) \in Nat
    BY ThreadsBound DEF Idle
  <2>3. Cardinality(Idle') = Cardinality(Idle) + 1
    BY <2>1, <2>2, FS_AddElement
  <2>4. Len(jobs) \in Nat /\ threadsFree \in Nat /\ PoolSize \in Nat
    BY LenProperties, DbServiceAssumption DEF IInv, TypeOK
  <2>5. Cardinality(Idle') <= PoolSize
    <3>1. Idle' \in SUBSET Threads
      BY DEF Idle
    <3> QED BY <3>1, ThreadsBound
  <2> QED BY <1>1, <2>2, <2>3, <2>4, <2>5 DEF IInv, ThreadCount
<1>3. TypeOK' /\ Hands'
  BY <1>1, <1>2 DEF IInv, TypeOK, Hands, FreeThread, bufferVars
<1>4. OwnedOnce'
  <2>1. \A u \in Threads, s \in BufferSlots : Holds(u, s)' => Holds(u, s)
    BY <1>1 DEF Holds, IInv, TypeOK
  <2>2. \A s : (In(st, s)' <=> In(st, s)) /\ (In(jobs, s)' <=> In(jobs, s))
    BY <1>1 DEF In
  <2> QED BY <1>1, <2>1, <2>2 DEF IInv, OwnedOnce
<1>5. StackCoversCount'
  BY <1>1 DEF IInv, StackCoversCount
<1> QED BY <1>2, <1>3, <1>4, <1>5 DEF IInv

-----------------------------------------------------------------------------
(* The theorems.                                                           *)

\* All slots are on the stack and all threads idle at first.
LEMMA InitInv == Init => IInv
<1> SUFFICES ASSUME Init PROVE IInv
  OBVIOUS
<1>0. BufferSize \in Nat \ {0} /\ PoolSize \in Nat \ {0} /\ None \notin BufferSlots
  BY DbServiceAssumption
<1>1. /\ st \in Seq(BufferSlots) /\ Len(st) = BufferSize
      /\ \A i \in 1 .. BufferSize : st[i] = i - 1
  <2>1. \A i \in 1 .. BufferSize : i - 1 \in BufferSlots
    BY <1>0 DEF BufferSlots
  <2>2. st = [i \in 1 .. BufferSize |-> i - 1]
    BY DEF Init
  <2> QED BY <1>0, <2>1, <2>2
<1>2. /\ jobs = <<>> /\ jobs \in Seq(BufferSlots) /\ sessQ \in Seq(Sessions) /\ Len(jobs) = 0
      /\ rq = None /\ \A t \in Threads : thread[t].at = "idle"
  BY DEF Init
<1>3. TypeOK
  <2>1. slotsFree \in 0 .. BufferSize /\ threadsFree \in 0 .. PoolSize
    BY <1>0 DEF Init
  <2> QED BY <1>1, <1>2, <2>1 DEF Init, TypeOK
<1>4. Hands
  BY <1>2 DEF Init, Hands
<1>5. OwnedOnce
  <2>1. Distinct(st)
    BY <1>0, <1>1 DEF Distinct
  <2>2. Distinct(jobs) /\ \A s : ~In(jobs, s)
    BY <1>2 DEF Distinct, In
  <2>3. \A t \in Threads, s \in BufferSlots : ~Holds(t, s)
    BY <1>2 DEF Holds
  <2> QED BY <1>0, <1>2, <2>1, <2>2, <2>3 DEF OwnedOnce
<1>6. StackCoversCount
  BY <1>0, <1>1 DEF Init, StackCoversCount
<1>7. ThreadCount
  <2>1. Idle = 1 .. PoolSize
    BY <1>2 DEF Idle, Threads
  <2>2. Cardinality(Idle) = PoolSize
    BY <1>0, <2>1, FS_Interval
  <2> QED BY <1>0, <1>2, <2>2 DEF Init, ThreadCount
<1> QED BY <1>3, <1>4, <1>5, <1>6, <1>7 DEF IInv

\* Every slot is in one place, and the counters are covered by what they count.
THEOREM Invariance == Spec => []IInv
<1>1. IInv /\ [Next]_vars => IInv'
  <2> SUFFICES ASSUME IInv, [Next]_vars PROVE IInv'
    OBVIOUS
  <2>1. ASSUME NEW c \in Sessions, Accept(c) \/ ReadFails(c) PROVE IInv'
    BY <2>1, SessionStep
  <2>2. CASE PopSession \/ MakeActiveFails \/ Unwind
    BY <2>2, SessionStep
  <2>3. CASE MakeActive \/ RunJob
    BY <2>3, MakeActiveStep, RunJobStep
  <2>4. ASSUME NEW t \in Threads, Pool(t) PROVE IInv'
    BY <2>4, TakeJobStep, MakeInactiveStep, FreeThreadStep DEF Pool
  <2>5. ASSUME NEW t \in Threads, JobReturns(t) \/ JobThrows(t) \/ MakeInactiveFails(t)
        PROVE  IInv'
    BY <2>5, JobEndsStep, MakeInactiveStep
  <2>6. CASE UNCHANGED vars
    <3>1. TypeOK' /\ Hands'
      BY <2>6 DEF IInv, TypeOK, Hands, vars
    <3> QED BY <2>6, <3>1, QuietStep DEF IInv, vars
  <2> QED BY <2>1, <2>2, <2>3, <2>4, <2>5, <2>6 DEF Next, Dispatch, Fault
<1> QED BY <1>1, InitInv, PTL DEF Spec

\* Type correctness: slots_free and threads_free stay within buffer and pool.
THEOREM TypeCorrect == Spec => []TypeOK
<1>1. IInv => TypeOK
  BY DEF IInv
<1> QED BY <1>1, Invariance, PTL

\* slots_free never exceeds the stack: make_active finds a slot on it.
THEOREM StackCoversCountCorrect == Spec => []StackCoversCount
<1>1. IInv => StackCoversCount
  BY DEF IInv
<1> QED BY <1>1, Invariance, PTL

\* run_job hands over a job only when an idle thread is there for it.
THEOREM JobsHaveThreadCorrect == Spec => []JobsHaveThread
<1>1. IInv => JobsHaveThread
  <2> SUFFICES ASSUME IInv PROVE JobsHaveThread
    OBVIOUS
  <2>1. threadsFree \in Nat /\ Len(jobs) \in Nat
    BY LenProperties, DbServiceAssumption DEF IInv, TypeOK
  <2> QED BY <2>1 DEF IInv, ThreadCount, JobsHaveThread, Idle
<1> QED BY <1>1, Invariance, PTL

\* A set of at most one element has a cardinality of 0 or 1.
LEMMA AtMostOne ==
  ASSUME NEW T, \A x, y \in T : x = y
  PROVE  Cardinality(T) = IF T = {} THEN 0 ELSE 1
<1>1. CASE T = {}
  BY <1>1, FS_EmptySet
<1>2. ASSUME NEW x \in T PROVE Cardinality(T) = 1
  <2>1. T = {x}
    BY <1>2
  <2> QED BY <2>1, FS_Singleton
<1> QED BY <1>1, <1>2

\* The three places a job of a slot can be in, counted.
LEMMA JobsCounted ==
  ASSUME IInv, NEW s \in BufferSlots
  PROVE  JobsOf(s) = IF In(jobs, s) \/ rq = s \/ \E t \in Threads : Holds(t, s) THEN 1 ELSE 0
<1> DEFINE queued == {i \in 1 .. Len(jobs) : jobs[i] = s}
           held == {t \in Threads : thread[t].at \in {"job", "returned"} /\ thread[t].slot = s}
<1>1. /\ \A i, j \in queued : i = j
      /\ queued = {} <=> ~In(jobs, s)
  BY DEF IInv, OwnedOnce, Distinct, In
<1>2. /\ \A t, u \in held : t = u
      /\ held = {} <=> ~\E t \in Threads : Holds(t, s)
  BY DEF IInv, OwnedOnce, Holds
<1>3. JobsOf(s) = Cardinality(queued) + Cardinality(held) + (IF rq = s THEN 1 ELSE 0)
  BY DEF JobsOf
<1> HIDE DEF queued, held
<1>4. /\ Cardinality(queued) = IF queued = {} THEN 0 ELSE 1
      /\ Cardinality(held) = IF held = {} THEN 0 ELSE 1
  BY <1>1, <1>2, AtMostOne
<1>5. /\ In(jobs, s) => rq # s /\ \A t \in Threads : ~Holds(t, s)
      /\ rq = s => \A t \in Threads : ~Holds(t, s)
  BY DEF IInv, OwnedOnce
<1> QED BY <1>1, <1>2, <1>3, <1>4, <1>5

\* No two sessions share an adjudicator: a free slot has no job, another one has
\* at most one (make_active, make_inactive, run_job).
THEOREM SlotOwnershipCorrect == Spec => []SlotOwnership
<1>1. IInv => SlotOwnership
  <2> SUFFICES ASSUME IInv PROVE SlotOwnership
    OBVIOUS
  <2>1. \A i \in 1 .. Len(st) : st[i] \in BufferSlots /\ In(st, st[i])
    BY ElementOfSeq DEF IInv, TypeOK, In
  <2>2. \A s \in BufferSlots : In(st, s) =>
          ~(In(jobs, s) \/ rq = s \/ \E t \in Threads : Holds(t, s))
    BY DEF IInv, OwnedOnce
  <2>3. \A i \in 1 .. Len(st) : JobsOf(st[i]) = 0
    BY <2>1, <2>2, JobsCounted
  <2>4. \A s \in BufferSlots : JobsOf(s) <= 1
    BY JobsCounted
  <2>5. Distinct(st)
    BY DEF IInv, OwnedOnce
  <2> QED BY <2>3, <2>4, <2>5 DEF SlotOwnership, Distinct
<1> QED BY <1>1, Invariance, PTL

-----------------------------------------------------------------------------
(* The life of a session.                                                  *)

sessionsVars == <<accepted, sessQ, inHand, tcpSess, gone>>

\* A session is in one place, the queue, the dispatcher's hand or one slot, and
\* none of them holds one that is gone, but for the slots of a buffer that is.
SessInv ==
  /\ gone \subseteq accepted
  /\ Distinct(sessQ)
  /\ \A c : In(sessQ, c) =>
       c \in accepted \ gone /\ c # inHand /\ \A s \in BufferSlots : tcpSess[s] # c
  /\ inHand # None => inHand \in accepted \ gone /\ \A s \in BufferSlots : tcpSess[s] # inHand
  /\ \A s \in BufferSlots : tcpSess[s] # None =>
       /\ tcpSess[s] \in accepted
       /\ dispatcher # "joining" => tcpSess[s] \notin gone
       /\ \A r \in BufferSlots : tcpSess[r] = tcpSess[s] => r = s

LEMMA SessInit == Init => SessInv
<1> SUFFICES ASSUME Init PROVE SessInv
  OBVIOUS
<1>1. Distinct(sessQ) /\ \A c : ~In(sessQ, c)
  BY DEF Init, Distinct, In
<1> QED BY <1>1 DEF Init, SessInv

\* make_active moves a session into a slot that no job has, and destroys the
\* one that was there.
LEMMA SessMakeActive ==
  ASSUME IInv, SessInv, MakeActive
  PROVE  /\ SessInv'
         /\ \A t \in Threads : thread[t].at = "job" => thread[t].slot # rq'
<1>1. rq' \in BufferSlots /\ \A t \in Threads : ~Holds(t, rq')
  <2>1. st \in Seq(BufferSlots) /\ Len(st) > 0 /\ Distinct(st)
    <3>1. st \in Seq(BufferSlots) /\ slotsFree \in Nat /\ slotsFree > 0 /\ slotsFree <= Len(st)
      BY DEF IInv, TypeOK, StackCoversCount, MakeActive, SlotAvailable
    <3> QED BY <3>1, LenProperties DEF IInv, OwnedOnce
  <2>2. Top \in BufferSlots /\ In(st, Top)
    BY <2>1, PoppedTop DEF Top
  <2> QED BY <2>2 DEF IInv, OwnedOnce, MakeActive
<1>2. /\ inHand \in accepted \ gone /\ inHand # None /\ inHand' = None
      /\ \A s \in BufferSlots : tcpSess[s] # inHand
      /\ tcpSess' = [tcpSess EXCEPT ![rq'] = inHand]
      /\ gone' = gone \cup ({tcpSess[rq']} \ {None})
      /\ dispatcher # "joining" /\ UNCHANGED <<accepted, sessQ>>
      /\ tcpSess \in [BufferSlots -> Sessions \cup {None}] /\ accepted \subseteq Sessions
  BY DEF IInv, TypeOK, Hands, SessInv, MakeActive
<1>3. None \notin Sessions
  BY DbServiceAssumption
<1>4. \A c : In(sessQ, c)' <=> In(sessQ, c)
  BY <1>2 DEF In
<1>5. \A s \in BufferSlots : tcpSess'[s] = IF s = rq' THEN inHand ELSE tcpSess[s]
  BY <1>1, <1>2
<1>6. SessInv'
  <2>1. gone' \subseteq accepted'
    BY <1>1, <1>2 DEF SessInv
  <2>2. Distinct(sessQ')
    BY <1>2 DEF SessInv
  <2>3. \A c : In(sessQ, c)' =>
          c \in accepted' \ gone' /\ c # inHand' /\ \A s \in BufferSlots : tcpSess'[s] # c
    BY <1>1, <1>2, <1>3, <1>4, <1>5 DEF SessInv
  <2>4. \A s \in BufferSlots : tcpSess'[s] # None =>
          /\ tcpSess'[s] \in accepted'
          /\ tcpSess'[s] \notin gone'
          /\ \A r \in BufferSlots : tcpSess'[r] = tcpSess'[s] => r = s
    BY <1>1, <1>2, <1>5 DEF SessInv
  <2> QED BY <1>2, <2>1, <2>2, <2>3, <2>4 DEF SessInv
<1>7. \A t \in Threads : thread[t].at = "job" => thread[t].slot # rq'
  BY <1>1 DEF Holds
<1> QED BY <1>6, <1>7

LEMMA SessStep ==
  ASSUME IInv, SessInv, [Next]_vars
  PROVE  SessInv'
<1> USE DbServiceAssumption
<1>1. ASSUME NEW c \in Sessions, Accept(c) PROVE SessInv'
  <2>1. sessQ \in Seq(Sessions) /\ c \notin accepted /\ ~In(sessQ, c)
    BY <1>1 DEF IInv, TypeOK, SessInv, Accept
  <2>2. /\ \A d : In(sessQ, d)' <=> In(sessQ, d) \/ d = c
        /\ Distinct(sessQ')
    <3>1. /\ \A d : In(Append(sessQ, c), d) <=> In(sessQ, d) \/ d = c
          /\ Distinct(Append(sessQ, c))
      BY <2>1, Appended DEF SessInv
    <3> QED BY <1>1, <3>1 DEF Accept, Queued, In
  <2>3. /\ accepted' = accepted \cup {c} /\ c # None
        /\ UNCHANGED <<inHand, tcpSess, gone, dispatcher>>
    BY <1>1 DEF Accept, bufferVars
  <2> QED BY <2>1, <2>2, <2>3 DEF SessInv
<1>2. CASE PopSession
  <2>1. sessQ \in Seq(Sessions) /\ sessQ # <<>> /\ Distinct(sessQ)
    BY <1>2 DEF IInv, TypeOK, SessInv, PopSession
  <2>2. /\ Distinct(sessQ') /\ In(sessQ, inHand') /\ inHand' \in Sessions
        /\ \A c : In(sessQ, c)' => In(sessQ, c) /\ c # inHand'
    <3>1. /\ Distinct(Tail(sessQ)) /\ Head(sessQ) \in Sessions /\ In(sessQ, Head(sessQ))
          /\ \A c : In(Tail(sessQ), c) => In(sessQ, c) /\ c # Head(sessQ)
      BY <2>1, TakenHead
    <3> QED BY <1>2, <3>1 DEF PopSession, In
  <2>3. UNCHANGED <<accepted, tcpSess, gone>> /\ dispatcher # "joining"
    BY <1>2 DEF PopSession, bufferVars
  <2> QED BY <2>2, <2>3 DEF SessInv
<1>3. CASE MakeActive
  BY <1>3, SessMakeActive
<1>4. CASE MakeActiveFails
  <2>1. /\ inHand # None /\ inHand' = None /\ gone' = gone \cup {inHand}
        /\ UNCHANGED <<accepted, sessQ, tcpSess>> /\ dispatcher # "joining"
    BY <1>4 DEF IInv, Hands, MakeActiveFails, bufferVars
  <2>2. \A c : In(sessQ, c)' <=> In(sessQ, c)
    BY <2>1 DEF In
  <2>3. \A c : In(sessQ, c) => c \in Sessions
    BY DEF SessInv, IInv, TypeOK
  <2> QED BY <2>1, <2>2, <2>3 DEF SessInv
<1>5. CASE Unwind
  <2>1. /\ gone' = gone \cup ({tcpSess[s] : s \in BufferSlots} \ {None}) /\ dispatcher' = "joining"
        /\ UNCHANGED <<accepted, sessQ, tcpSess, inHand>> /\ inHand = None
    BY <1>5 DEF IInv, Hands, Unwind, bufferVars
  <2>2. \A c : In(sessQ, c)' <=> In(sessQ, c)
    BY <2>1 DEF In
  <2> QED BY <2>1, <2>2 DEF SessInv
<1>6. CASE UNCHANGED sessionsVars /\ (dispatcher' = "joining" <=> dispatcher = "joining")
  <2>1. \A c : In(sessQ, c)' <=> In(sessQ, c)
    BY <1>6 DEF In, sessionsVars
  <2> QED BY <1>6, <2>1 DEF SessInv, sessionsVars
<1>7. ASSUME \/ RunJob \/ \E c \in Sessions : ReadFails(c)
             \/ \E t \in Threads : Pool(t) \/ JobReturns(t) \/ JobThrows(t) \/ MakeInactiveFails(t)
             \/ UNCHANGED vars
      PROVE  UNCHANGED sessionsVars /\ (dispatcher' = "joining" <=> dispatcher = "joining")
  BY <1>7 DEF RunJob, ReadFails, Pool, TakeJob, MakeInactive, FreeThread, JobReturns, JobThrows,
              MakeInactiveFails, GiveBack, vars, bufferVars, sessionsVars
<1> QED BY <1>1, <1>2, <1>3, <1>4, <1>5, <1>6, <1>7 DEF Next, Dispatch, Fault

\* The session a job serves is neither destroyed nor replaced under it, as long
\* as the buffer lives (make_active, start_session).
THEOREM SessionKeptCorrect == Spec => SessionKept
<1> DEFINE Kept == \A t \in Threads :
             thread[t].at = "job" /\ thread'[t] = thread[t] /\ BufferAlive'
               => /\ tcpSess'[thread[t].slot] = tcpSess[thread[t].slot]
                  /\ tcpSess[thread[t].slot] \notin gone'
<1>1. SessInv /\ IInv /\ [Next]_vars => SessInv'
  BY SessStep
<1>2. IInv /\ SessInv /\ [Next]_vars => [Kept]_vars
  <2> SUFFICES ASSUME IInv, SessInv, Next, NEW t \in Threads, thread[t].at = "job", BufferAlive'
               PROVE  /\ tcpSess'[thread[t].slot] = tcpSess[thread[t].slot]
                      /\ tcpSess[thread[t].slot] \notin gone'
    OBVIOUS
  <2>1. thread[t].slot \in BufferSlots /\ gone \subseteq Sessions /\ None \notin Sessions
    BY DbServiceAssumption DEF IInv, TypeOK, Hands
  <2>2. CASE MakeActive
    <3>1. thread[t].slot # rq' /\ rq' \in BufferSlots
      <4>1. Top \in BufferSlots
        <5>1. st \in Seq(BufferSlots) /\ Len(st) > 0 /\ Distinct(st)
          BY <2>2, LenProperties DEF IInv, TypeOK, OwnedOnce, StackCoversCount, MakeActive,
                                     SlotAvailable
        <5> QED BY <5>1, PoppedTop DEF Top
      <4> QED BY <2>2, <4>1, SessMakeActive DEF MakeActive
    <3>2. tcpSess'[thread[t].slot] = tcpSess[thread[t].slot]
      BY <2>1, <2>2, <3>1 DEF MakeActive, IInv, TypeOK
    <3>3. gone' = gone \cup ({tcpSess[rq']} \ {None}) /\ dispatcher # "joining"
      BY <2>2 DEF MakeActive
    <3> QED BY <2>1, <3>1, <3>2, <3>3 DEF SessInv
  <2>3. CASE MakeActiveFails
    BY <2>1, <2>3 DEF MakeActiveFails, bufferVars, SessInv, IInv, Hands
  <2>4. CASE UNCHANGED <<tcpSess, gone>> /\ dispatcher # "joining"
    BY <2>1, <2>4 DEF SessInv
  <2>5. CASE dispatcher = "joining"
    BY <2>5 DEF Next, BufferAlive, Accept, ReadFails, Dispatch, PopSession, MakeActive, RunJob,
                Pool, TakeJob, MakeInactive, FreeThread, JobReturns, JobThrows, MakeInactiveFails,
                Fault, MakeActiveFails, Unwind
  <2>6. MakeActive \/ MakeActiveFails \/ Unwind \/ UNCHANGED <<tcpSess, gone>>
    BY DEF Next, Accept, ReadFails, Dispatch, PopSession, RunJob, Pool, TakeJob, MakeInactive,
           FreeThread, JobReturns, JobThrows, MakeInactiveFails, GiveBack, Fault, bufferVars
  <2>7. ~Unwind
    BY DEF Unwind, BufferAlive
  <2> QED BY <2>2, <2>3, <2>4, <2>5, <2>6, <2>7
<1> QED BY <1>1, <1>2, Invariance, SessInit, PTL DEF Spec, SessionKept
-----------------------------------------------------------------------------
(* The abstract service.                                                   *)

Riders == Sessions \cup {None}

\* The parts of the line are sequences of sessions.
LEMMA LineTypes ==
  ASSUME IInv
  PROVE  /\ Dispatched \in Seq(Riders) /\ Len(Dispatched) = Len(jobs) /\ Len(jobs) \in Nat
         /\ \A i \in 1 .. Len(jobs) : Dispatched[i] = tcpSess[jobs[i]] /\ jobs[i] \in BufferSlots
         /\ InDispatch \in Seq(Riders) /\ sessQ \in Seq(Riders)
         /\ InDispatch \o sessQ \in Seq(Riders)
<1>1. /\ jobs \in Seq(BufferSlots) /\ tcpSess \in [BufferSlots -> Riders] /\ sessQ \in Seq(Sessions)
      /\ inHand \in Riders /\ (dispatcher = "run" => rq \in BufferSlots)
  BY DEF IInv, TypeOK, Hands, Riders
<1>2. Len(jobs) \in Nat /\ \A i \in 1 .. Len(jobs) : jobs[i] \in BufferSlots
  BY <1>1, LenProperties, ElementOfSeq
<1>3. \A i \in 1 .. Len(jobs) : tcpSess[jobs[i]] \in Riders
  BY <1>1, <1>2
<1>4. /\ Dispatched \in Seq(Riders) /\ Len(Dispatched) = Len(jobs)
      /\ \A i \in 1 .. Len(jobs) : Dispatched[i] = tcpSess[jobs[i]]
  BY <1>2, <1>3 DEF Dispatched
<1>5. InDispatch \in Seq(Riders)
  <2>1. dispatcher = "run" => tcpSess[rq] \in Riders
    BY <1>1
  <2>2. dispatcher = "run" => <<tcpSess[rq]>> \in Seq(Riders)
    BY <2>1
  <2>3. <<inHand>> \in Seq(Riders) /\ <<>> \in Seq(Riders)
    BY <1>1
  <2> QED BY <2>2, <2>3 DEF InDispatch
<1>6. sessQ \in Seq(Riders)
  BY <1>1, SeqMonotonic DEF Riders
<1> QED BY <1>2, <1>4, <1>5, <1>6, ConcatProperties

\* The dispatched sessions change only with the jobs.
LEMMA SameDispatched ==
  ASSUME IInv, jobs' = jobs, \A i \in 1 .. Len(jobs) : tcpSess'[jobs[i]] = tcpSess[jobs[i]]
  PROVE  Dispatched' = Dispatched
  BY DEF Dispatched

\* A slot is leaked that is in none of the places of OwnedOnce.
Owned(s) == In(st, s) \/ In(jobs, s) \/ rq = s \/ \E t \in Threads : Holds(t, s)

LEMMA LeakedIs ==
  Leaked = {s \in BufferSlots : ~Owned(s)} /\ Leaked' = {s \in BufferSlots : ~Owned(s)'}
  BY DEF Leaked, InJob, In, Holds, Owned

\* Steps of which the abstract service sees no server and no place.
LEMMA SameServers ==
  ASSUME UNCHANGED <<rq, st, jobs, tcpSess>>,
         \A t \in Threads : /\ InJob(t)' = InJob(t)
                            /\ InJob(t) => thread'[t].slot = thread[t].slot
  PROVE  Serving' = Serving /\ Leaked' = Leaked
<1>1. Serving' = Serving
  BY DEF Serving
<1>2. Leaked' = Leaked
  BY DEF Leaked
<1> QED BY <1>1, <1>2

\* A slot that is dispatched or in somebody's hands has no server.
LEMMA PlaceFree ==
  ASSUME IInv, NEW s \in BufferSlots, \A t \in Threads : ~Holds(t, s)
  PROVE  ~Promised!InUse(s)
<1> SUFFICES ASSUME NEW t \in Threads, Serving[t] # Unoccupied, Serving[t].place = s
             PROVE  FALSE
  BY DEF Promised!InUse
<1>1. InJob(t) /\ thread[t].slot = s
  BY DEF Serving
<1> QED BY <1>1 DEF InJob, Holds

\* Sessions arrive and move on, up to the slot that is dispatched: the line
\* grows at its end only and keeps its order.
LEMMA LineStep ==
  ASSUME IInv, \/ \E c \in Sessions : Accept(c)
               \/ PopSession \/ MakeActive \/ RunJob
  PROVE  [Promised!ServiceNext]_(Promised!serviceVars)
<1> USE LineTypes DEF Promised!ServiceNext, Promised!serviceVars
<1>1. ASSUME NEW c \in Sessions, Accept(c) PROVE Promised!Arrive(c)
  <2>1. /\ UNCHANGED <<rq, st, jobs, tcpSess, thread, dispatcher, inHand>> /\ c \notin accepted
        /\ sessQ' = Append(sessQ, c) /\ accepted' = accepted \cup {c} /\ c \in Riders
    BY <1>1 DEF Accept, Queued, bufferVars, poolVars, Riders
  <2>2. Serving' = Serving /\ Leaked' = Leaked
    BY <2>1, SameServers DEF InJob
  <2>3. Dispatched' = Dispatched /\ InDispatch' = InDispatch
    BY <2>1 DEF Dispatched, InDispatch
  <2>4. Dispatched \o (InDispatch \o Append(sessQ, c))
          = Append(Dispatched \o (InDispatch \o sessQ), c)
    <3>1. InDispatch \o Append(sessQ, c) = Append(InDispatch \o sessQ, c)
      BY <2>1, AppendConcat
    <3>2. Dispatched \o Append(InDispatch \o sessQ, c) = Append(Dispatched \o (InDispatch \o sessQ), c)
      BY <2>1, AppendConcat
    <3> QED BY <3>1, <3>2
  <2>5. Line' = IF dispatcher \notin {"thrown", "joining"} THEN Append(Line, c) ELSE Line
    BY <2>1, <2>3, <2>4 DEF Line
  <2> QED BY <2>1, <2>2, <2>5 DEF Promised!Arrive
<1>2. CASE PopSession
  <2>1. /\ UNCHANGED <<rq, st, jobs, tcpSess, thread, accepted>> /\ sessQ # <<>>
        /\ dispatcher = "pop" /\ dispatcher' = "activate"
        /\ inHand' = Head(sessQ) /\ sessQ' = Tail(sessQ)
    BY <1>2 DEF PopSession, bufferVars, poolVars
  <2>2. Serving' = Serving /\ Leaked' = Leaked
    BY <2>1, SameServers DEF InJob
  <2>3. <<Head(sessQ)>> \o Tail(sessQ) = <<>> \o sessQ
    <3>1. Append(<<>>, Head(sessQ)) \o Tail(sessQ) = <<>> \o sessQ
      BY <2>1, Handover, EmptySeq
    <3>2. Append(<<>>, Head(sessQ)) = <<Head(sessQ)>>
      OBVIOUS
    <3> QED BY <3>1, <3>2
  <2>4. Dispatched' = Dispatched
    BY <2>1 DEF Dispatched
  <2>5. InDispatch = <<>> /\ InDispatch' = <<Head(sessQ)>>
    BY <2>1 DEF InDispatch
  <2>6. Line' = Line
    BY <2>1, <2>3, <2>4, <2>5 DEF Line
  <2> QED BY <2>1, <2>2, <2>6
<1>3. CASE MakeActive
  <2>1. rq' \in BufferSlots /\ In(st, rq') /\ rq' = Top /\ st' = Popped(st) /\ Len(st) > 0
    <3>1. st \in Seq(BufferSlots) /\ Len(st) > 0 /\ Distinct(st)
      <4>1. st \in Seq(BufferSlots) /\ slotsFree \in Nat /\ slotsFree > 0 /\ slotsFree <= Len(st)
        BY <1>3 DEF IInv, TypeOK, StackCoversCount, MakeActive, SlotAvailable
      <4> QED BY <4>1, LenProperties DEF IInv, OwnedOnce
    <3>2. Top \in BufferSlots /\ In(st, Top)
      BY <3>1, PoppedTop DEF Top
    <3> QED BY <1>3, <3>1, <3>2 DEF MakeActive
  <2>2. /\ UNCHANGED <<jobs, thread, sessQ, accepted>> /\ rq = None
        /\ dispatcher = "activate" /\ dispatcher' = "run"
        /\ tcpSess' = [tcpSess EXCEPT ![rq'] = inHand]
        /\ tcpSess \in [BufferSlots -> Sessions \cup {None}]
    BY <1>3 DEF MakeActive, poolVars, IInv, Hands, TypeOK
  <2>3. ~In(jobs, rq') /\ \A t \in Threads : ~Holds(t, rq')
    BY <2>1 DEF IInv, OwnedOnce
  <2>4. Dispatched' = Dispatched
    <3>1. \A i \in 1 .. Len(jobs) : jobs[i] \in BufferSlots /\ jobs[i] # rq'
      BY <2>3 DEF In
    <3> QED BY <2>2, <3>1, SameDispatched
  <2>5. InDispatch' = InDispatch
    BY <2>1, <2>2 DEF InDispatch
  <2>6. Line' = Line
    BY <2>2, <2>4, <2>5 DEF Line
  <2>7. Serving' = Serving
    <3>1. \A t \in Threads : InJob(t) => thread[t].slot \in BufferSlots /\ thread[t].slot # rq'
      BY <2>3 DEF InJob, Holds, IInv, Hands
    <3>2. \A t \in Threads : InJob(t) => tcpSess'[thread[t].slot] = tcpSess[thread[t].slot]
      BY <2>2, <3>1
    <3> QED BY <2>2, <3>2 DEF Serving, InJob
  <2>8. Leaked' = Leaked
    <3>1. \A s \in BufferSlots : In(st, s) <=> In(st, s)' \/ s = rq'
      <4>1. st \in Seq(BufferSlots) /\ Distinct(st) /\ Len(st) \in Nat
        BY LenProperties DEF IInv, TypeOK, OwnedOnce
      <4>2. \A s : In(Popped(st), s) => In(st, s)
        BY <2>1, <4>1, PoppedTop
      <4>3. ASSUME NEW s \in BufferSlots, In(st, s), s # Top PROVE In(Popped(st), s)
        <5>1. PICK i \in 1 .. Len(st) : st[i] = s
          BY <4>3 DEF In
        <5>2. i \in 1 .. Len(st) - 1
          BY <4>1, <4>3, <5>1 DEF Top
        <5>3. Popped(st)[i] = s /\ Len(Popped(st)) = Len(st) - 1
          BY <4>1, <5>1, <5>2, PoppedKeeps, PoppedTop, <2>1
        <5> QED BY <5>2, <5>3 DEF In
      <4> QED BY <2>1, <4>2, <4>3 DEF In
    <3>2. \A s : In(jobs, s)' = In(jobs, s)
      BY <2>2 DEF In
    <3>3. \A t \in Threads, s \in BufferSlots : Holds(t, s)' = Holds(t, s)
      BY <2>2 DEF Holds
    <3>4. \A s \in BufferSlots : rq # s
      BY <2>2, DbServiceAssumption
    <3> QED BY <3>1, <3>2, <3>3, <3>4, LeakedIs DEF Owned
  <2> QED BY <2>2, <2>6, <2>7, <2>8
<1>4. CASE RunJob
  <2>1. /\ UNCHANGED <<st, tcpSess, thread, accepted, sessQ>> /\ rq \in BufferSlots /\ rq' = None
        /\ jobs' = Append(jobs, rq) /\ dispatcher = "run" /\ dispatcher' = "pop"
        /\ jobs \in Seq(BufferSlots) /\ tcpSess[rq] \in Riders
    BY <1>4 DEF RunJob, bufferVars, IInv, TypeOK, Hands, Riders
  <2> DEFINE c == tcpSess[rq]
  <2>2. Dispatched' = Append(Dispatched, c)
    <3>1. /\ Len(Append(jobs, rq)) = Len(jobs) + 1 /\ Append(jobs, rq)[Len(jobs) + 1] = rq
          /\ \A i \in 1 .. Len(jobs) : Append(jobs, rq)[i] = jobs[i]
      BY <2>1, AppendProperties
    <3>2. Dispatched' = [i \in 1 .. Len(jobs) + 1 |-> tcpSess[Append(jobs, rq)[i]]]
      BY <2>1, <3>1 DEF Dispatched
    <3>3. /\ Append(Dispatched, c) \in Seq(Riders) /\ Len(Append(Dispatched, c)) = Len(jobs) + 1
          /\ \A i \in 1 .. Len(jobs) : Append(Dispatched, c)[i] = tcpSess[jobs[i]]
          /\ Append(Dispatched, c)[Len(jobs) + 1] = c
      BY <2>1, AppendProperties
    <3> DEFINE d == [i \in 1 .. Len(jobs) + 1 |-> tcpSess[Append(jobs, rq)[i]]]
    <3>4. \A i \in 1 .. Len(jobs) + 1 : i \in 1 .. Len(jobs) \/ i = Len(jobs) + 1
      OBVIOUS
    <3>5. \A i \in 1 .. Len(jobs) + 1 : d[i] = Append(Dispatched, c)[i] /\ d[i] \in Riders
      <4>1. \A i \in 1 .. Len(jobs) : Append(Dispatched, c)[i] = d[i] /\ d[i] \in Riders
        <5>1. \A i \in 1 .. Len(jobs) : d[i] = tcpSess[jobs[i]] /\ tcpSess[jobs[i]] \in Riders
          BY <3>1, ElementOfSeq
        <5> QED BY <3>3, <5>1
      <4>2. d[Len(jobs) + 1] = c
        BY <3>1
      <4> QED BY <2>1, <3>3, <3>4, <4>1, <4>2
    <3>6. d \in Seq(Riders) /\ Len(d) = Len(jobs) + 1
      BY <3>5
    <3> HIDE DEF d, c
    <3>7. d = Append(Dispatched, c)
      BY <3>3, <3>5, <3>6, SeqEqual
    <3> QED BY <3>2, <3>7 DEF d
  <2>3. InDispatch = <<c>> /\ InDispatch' = <<>> /\ <<c>> \in Seq(Riders)
    BY <2>1 DEF InDispatch
  <2> HIDE DEF c
  <2>4. Append(Dispatched, c) \o (<<>> \o sessQ) = Dispatched \o (<<c>> \o sessQ)
    <3>1. Append(Dispatched, c) = Dispatched \o <<c>> /\ <<>> \o sessQ = sessQ
      BY <2>1, AppendIsConcat, ConcatEmptySeq DEF c
    <3>2. (Dispatched \o <<c>>) \o sessQ = Dispatched \o (<<c>> \o sessQ)
      BY <2>3, ConcatAssociative
    <3> QED BY <3>1, <3>2
  <2>5. Line' = Line
    BY <2>1, <2>2, <2>3, <2>4 DEF Line
  <2>6. Serving' = Serving
    BY <2>1 DEF Serving, InJob
  <2>7. Leaked' = Leaked
    <3>1. \A s \in BufferSlots : In(jobs, s)' <=> In(jobs, s) \/ s = rq
      <4>1. \A s : In(Append(jobs, rq), s) <=> In(jobs, s) \/ s = rq
        BY <2>1, Appended
      <4> QED BY <2>1, <4>1 DEF In
    <3>2. \A s : In(st, s)' = In(st, s)
      BY <2>1 DEF In
    <3>3. \A t \in Threads, s \in BufferSlots : Holds(t, s)' = Holds(t, s)
      BY <2>1 DEF Holds
    <3>4. \A s \in BufferSlots : rq' # s
      BY <2>1, DbServiceAssumption
    <3> QED BY <3>1, <3>2, <3>3, <3>4, LeakedIs DEF Owned
  <2> QED BY <2>1, <2>5, <2>6, <2>7
<1> QED BY <1>1, <1>2, <1>3, <1>4

\* The line is what its parts say, in the order of the dispatcher's states.
LEMMA LineParts ==
  ASSUME IInv
  PROVE  /\ Line \in Seq(Riders)
         /\ BufferAlive => \E q \in Seq(Riders) :
              /\ Line = Dispatched \o q
              /\ dispatcher = "thrown" => q = <<>>
              /\ dispatcher # "thrown" => q = InDispatch \o sessQ
<1> USE LineTypes
<1>1. Dispatched \o <<>> = Dispatched /\ <<>> \in Seq(Riders)
  BY ConcatEmptySeq
<1>2. Dispatched \o (InDispatch \o sessQ) \in Seq(Riders)
  BY ConcatProperties
<1> QED BY <1>1, <1>2 DEF Line, BufferAlive

\* A failed connection attempt cuts the line behind the dispatched sessions,
\* the buffer's destruction empties it.
LEMMA CloseStep ==
  ASSUME IInv, MakeActiveFails \/ Unwind
  PROVE  Promised!Close
<1> USE LineTypes, LineParts
<1>0. /\ UNCHANGED <<rq, st, jobs, tcpSess, thread, accepted>> /\ BufferAlive
      /\ dispatcher' \in {"thrown", "joining"}
  BY DEF MakeActiveFails, Unwind, bufferVars, poolVars, BufferAlive
<1>1. Serving' = Serving /\ Leaked' = Leaked
  BY <1>0, SameServers DEF InJob
<1>2. Dispatched' = Dispatched
  BY <1>0 DEF Dispatched
<1>3. PICK q \in Seq(Riders) : Line = Dispatched \o q
  BY <1>0
<1>4. \E n \in 0 .. Len(Line) : Line' = SubSeq(Line, 1, n)
  <2>0. Len(q) \in Nat /\ Len(Line) = Len(Dispatched) + Len(q) /\ Len(Dispatched) \in Nat
    BY <1>3, LenProperties, ConcatProperties
  <2>1. CASE dispatcher' = "joining"
    <3>1. Line' = <<>>
      BY <2>1 DEF Line
    <3>2. SubSeq(Line, 1, 0) = <<>> /\ 0 \in 0 .. Len(Line)
      BY <2>0
    <3> QED BY <3>1, <3>2
  <2>2. CASE dispatcher' = "thrown"
    <3>1. Line' = Dispatched
      BY <1>2, <2>2 DEF Line
    <3>2. Dispatched \o SubSeq(q, 1, 0) = SubSeq(Line, 1, Len(Dispatched) + 0)
      BY <1>3, <2>0, PrefixBehind
    <3>3. SubSeq(q, 1, 0) = <<>> /\ Dispatched \o <<>> = Dispatched
      BY <2>0, ConcatEmptySeq
    <3>4. Len(Dispatched) + 0 \in 0 .. Len(Line)
      BY <2>0
    <3> QED BY <3>1, <3>2, <3>3, <3>4
  <2> QED BY <1>0, <2>1, <2>2
<1> QED BY <1>0, <1>1, <1>4 DEF Promised!Close

\* A thread takes the first job: it serves the first of the line, in a slot
\* that nobody else has.
LEMMA ServeStep ==
  ASSUME IInv, NEW t \in Threads, TakeJob(t)
  PROVE  Promised!Serve(t, Head(jobs)) /\ Head(jobs) \in BufferSlots
<1> USE LineTypes
<1> DEFINE s == Head(jobs)
<1>1. /\ UNCHANGED <<rq, st, tcpSess, accepted, sessQ, dispatcher, inHand>> /\ BufferAlive
      /\ jobs # <<>> /\ jobs' = Tail(jobs) /\ thread[t].at = "idle"
      /\ thread' = [thread EXCEPT ![t] = [at |-> "job", slot |-> s]]
      /\ jobs \in Seq(BufferSlots) /\ Distinct(jobs)
      /\ thread \in [Threads -> [at: {"idle", "job", "returned", "unwound"},
                                 slot: BufferSlots \cup {None}]]
  BY DEF TakeJob, bufferVars, IInv, OwnedOnce, TypeOK
<1>2. s \in BufferSlots /\ In(jobs, s) /\ \A r : In(Tail(jobs), r) => In(jobs, r) /\ r # s
  BY <1>1, TakenHead
<1>3. /\ s = jobs[1] /\ Len(jobs) \in Nat \ {0} /\ Len(Tail(jobs)) = Len(jobs) - 1
      /\ \A i \in 1 .. Len(Tail(jobs)) : Tail(jobs)[i] = jobs[i + 1]
  BY <1>1, HeadTailProperties, EmptySeq
<1> HIDE DEF s
<1>4. /\ Dispatched # <<>> /\ Head(Dispatched) = tcpSess[s]
      /\ Dispatched' = Tail(Dispatched)
  <2>1. Dispatched # <<>> /\ Head(Dispatched) = tcpSess[s]
    BY <1>3, HeadTailProperties, EmptySeq
  <2>2. /\ Tail(Dispatched) \in Seq(Riders) /\ Len(Tail(Dispatched)) = Len(jobs) - 1
        /\ \A i \in 1 .. Len(jobs) - 1 : Tail(Dispatched)[i] = Dispatched[i + 1]
    BY <2>1, HeadTailProperties
  <2>3. \A i \in 1 .. Len(jobs) - 1 : i + 1 \in 1 .. Len(jobs)
    BY <1>3
  <2>4. \A i \in 1 .. Len(jobs) - 1 :
          Tail(Dispatched)[i] = tcpSess[Tail(jobs)[i]] /\ Tail(Dispatched)[i] \in Riders
    <3>1. \A i \in 1 .. Len(jobs) - 1 : Tail(Dispatched)[i] \in Riders
      BY <2>2, ElementOfSeq
    <3> QED BY <1>3, <2>2, <2>3, <3>1
  <2> DEFINE d == [i \in 1 .. Len(jobs) - 1 |-> tcpSess[Tail(jobs)[i]]]
             n == Len(jobs) - 1
  <2>5. Dispatched' = d
    BY <1>1, <1>3 DEF Dispatched
  <2>6. n \in Nat /\ d \in Seq(Riders) /\ Len(d) = n
    BY <1>3, <2>4
  <2>7. \A i \in 1 .. n : d[i] = Tail(Dispatched)[i]
    BY <2>4
  <2>8. Len(Tail(Dispatched)) = n
    BY <2>2
  <2> HIDE DEF d, n
  <2>9. d = Tail(Dispatched)
    BY <2>2, <2>6, <2>7, <2>8, SeqEqual
  <2> QED BY <2>1, <2>5, <2>9
<1>5. Line # <<>> /\ Head(Line) = tcpSess[s] /\ Line' = Tail(Line)
  <2>1. PICK q \in Seq(Riders) : /\ Line = Dispatched \o q
                                 /\ dispatcher = "thrown" => q = <<>>
                                 /\ dispatcher # "thrown" => q = InDispatch \o sessQ
    BY <1>1, LineParts
  <2>2. Line # <<>> /\ Head(Line) = tcpSess[s] /\ Tail(Line) = Tail(Dispatched) \o q
    BY <1>4, <2>1, FirstOfConcat
  <2>3. Line' = Tail(Dispatched) \o q
    <3>1. InDispatch' = InDispatch
      BY <1>1 DEF InDispatch
    <3>2. CASE dispatcher = "thrown"
      <4>1. Tail(Dispatched) \in Seq(Riders)
        BY <1>4, HeadTailProperties
      <4>2. Tail(Dispatched) \o <<>> = Tail(Dispatched)
        BY <4>1, ConcatEmptySeq
      <4>3. Line' = Dispatched'
        BY <1>1, <3>2 DEF Line
      <4> QED BY <1>4, <2>1, <3>2, <4>2, <4>3
    <3>3. CASE dispatcher # "thrown"
      <4>1. Line' = Dispatched' \o (InDispatch' \o sessQ')
        BY <1>1, <3>3 DEF Line, BufferAlive
      <4> QED BY <1>1, <1>4, <2>1, <3>1, <3>3, <4>1
    <3> QED BY <3>2, <3>3
  <2> QED BY <2>2, <2>3
<1>6. s \notin Leaked /\ ~Promised!InUse(s)
  <2>1. \A u \in Threads : ~Holds(u, s)
    BY <1>2 DEF IInv, OwnedOnce
  <2> QED BY <1>2, <2>1, PlaceFree, LeakedIs DEF Owned
<1>7. /\ Serving[t] = Unoccupied
      /\ Serving' = [Serving EXCEPT ![t] = [client |-> tcpSess[s], place |-> s]]
  BY <1>1 DEF Serving, InJob
<1>8. Leaked' = Leaked
  <2>1. \A r \in BufferSlots : Owned(r)' <=> Owned(r)
    <3>1. \A u \in Threads, r \in BufferSlots : Holds(u, r)' <=> Holds(u, r) \/ (u = t /\ r = s)
      BY <1>1 DEF Holds
    <3>2. \A r \in BufferSlots : In(jobs, r) <=> In(jobs, r)' \/ r = s
      <4>1. ASSUME NEW r \in BufferSlots, In(jobs, r), r # s PROVE In(Tail(jobs), r)
        <5>1. PICK i \in 1 .. Len(jobs) : jobs[i] = r
          BY <4>1 DEF In
        <5>2. i - 1 \in 1 .. Len(Tail(jobs)) /\ i - 1 + 1 = i
          BY <1>3, <4>1, <5>1
        <5>3. Tail(jobs)[i - 1] = r
          BY <1>3, <5>1, <5>2
        <5> QED BY <5>2, <5>3 DEF In
      <4> QED BY <1>1, <1>2, <4>1 DEF In
    <3>3. \A r : In(st, r)' = In(st, r)
      BY <1>1 DEF In
    <3> QED BY <1>1, <3>1, <3>2, <3>3 DEF Owned
  <2> QED BY <2>1, LeakedIs
<1>9. Line' = Tail(Line) /\ UNCHANGED <<accepted, dispatcher>>
  BY <1>1, <1>5
<1> QED BY <1>2, <1>5, <1>6, <1>7, <1>8, <1>9 DEF Promised!Serve, s

\* A job that ends leaves its slot on the stack, or with nobody if it threw.
LEMMA ServerStep ==
  ASSUME IInv, NEW t \in Threads,
         JobReturns(t) \/ JobThrows(t) \/ MakeInactive(t) \/ MakeInactiveFails(t) \/ FreeThread(t)
  PROVE  [Promised!ServiceNext]_(Promised!serviceVars)
<1> USE DEF Promised!ServiceNext, Promised!serviceVars
<1>1. /\ UNCHANGED <<rq, jobs, tcpSess, accepted, sessQ, dispatcher, inHand>>
      /\ thread \in [Threads -> [at: {"idle", "job", "returned", "unwound"},
                                 slot: BufferSlots \cup {None}]]
  BY DEF JobReturns, JobThrows, MakeInactive, MakeInactiveFails, FreeThread, GiveBack, bufferVars,
         IInv, TypeOK
<1>2. Line' = Line
  BY <1>1 DEF Line, Dispatched, InDispatch
<1>3. \A s : In(jobs, s)' = In(jobs, s)
  BY <1>1 DEF In
<1>4. CASE JobReturns(t) \/ FreeThread(t)
  <2>1. st' = st /\ \A u \in Threads : /\ InJob(u)' = InJob(u)
                                       /\ InJob(u) => thread'[u].slot = thread[u].slot
    BY <1>1, <1>4 DEF JobReturns, FreeThread, Goto, InJob, bufferVars
  <2>2. Serving' = Serving /\ Leaked' = Leaked
    BY <1>1, <2>1, SameServers
  <2> QED BY <1>1, <1>2, <2>2
<1> DEFINE s == thread[t].slot
<1>5. CASE JobThrows(t) \/ MakeInactive(t) \/ MakeInactiveFails(t)
  <2>1. /\ InJob(t) /\ Holds(t, s) /\ s \in BufferSlots
        /\ thread' = [thread EXCEPT ![t].at = "unwound"]
    BY <1>5 DEF JobThrows, MakeInactive, MakeInactiveFails, Goto, InJob, Holds, IInv, Hands
  <2>2. /\ Serving[t] = [client |-> tcpSess[s], place |-> s]
        /\ Serving[t] # Unoccupied
    <3>1. s # None
      BY <2>1, DbServiceAssumption
    <3> QED BY <2>1, <3>1 DEF Serving, Unoccupied
  <2>3. Serving' = [Serving EXCEPT ![t] = Unoccupied]
    BY <1>1, <2>1 DEF Serving, InJob
  <2>4. \A u \in Threads, r \in BufferSlots : Holds(u, r)' <=> Holds(u, r) /\ u # t
    BY <1>1, <2>1 DEF Holds
  <2>5. ~In(st, s) /\ ~In(jobs, s) /\ rq # s /\ \A u \in Threads : Holds(u, s) => u = t
    BY <2>1 DEF IInv, OwnedOnce
  <2>6. \A r \in BufferSlots : Holds(t, r) => r = s
    BY DEF Holds
  <2> HIDE DEF s
  <2>7. CASE JobThrows(t)
    <3>1. \A r : In(st, r)' = In(st, r)
      BY <2>7 DEF JobThrows, bufferVars, In
    <3>2. \A r \in BufferSlots : ~Owned(r)' <=> ~Owned(r) \/ r = s
      BY <1>1, <1>3, <2>1, <2>4, <2>5, <2>6, <3>1 DEF Owned
    <3>3. Leaked' = Leaked \cup {s}
      BY <2>1, <3>2, LeakedIs
    <3>4. Serving[t].place = s
      BY <2>2
    <3>5. Promised!Fail(t)
      BY <1>1, <1>2, <2>2, <2>3, <3>3, <3>4 DEF Promised!Fail
    <3> QED BY <3>5
  <2>8. CASE MakeInactive(t) \/ MakeInactiveFails(t)
    <3>1. \A r : In(st, r)' <=> In(st, r) \/ r = s
      <4>1. st \in Seq(BufferSlots) /\ st' = Append(st, s)
        BY <2>8 DEF MakeInactive, MakeInactiveFails, GiveBack, IInv, TypeOK, s
      <4>2. \A r : In(Append(st, s), r) <=> In(st, r) \/ r = s
        BY <2>1, <4>1, Appended
      <4> QED BY <4>1, <4>2 DEF In
    <3>2. \A r \in BufferSlots : Owned(r)' <=> Owned(r)
      BY <1>1, <1>3, <2>1, <2>4, <2>5, <2>6, <3>1 DEF Owned
    <3>3. Leaked' = Leaked
      BY <3>2, LeakedIs
    <3> QED BY <1>1, <1>2, <2>2, <2>3, <3>3 DEF Promised!Leave
  <2> QED BY <1>5, <2>7, <2>8
<1> QED BY <1>4, <1>5

\* Between tcp_acceptor and process_request, db_service is one line of sessions:
\* first come, first served, each once and in a slot of its own, and no slot
\* again whose job threw (add_request, operator(), make_active, run_job).
THEOREM ServiceImplemented == Spec => ImplementsService
<1> USE DEF Promised!ServiceNext, Promised!serviceVars
<1>1. Init => Promised!ServiceInit
  <2> SUFFICES ASSUME Init PROVE Promised!ServiceInit
    OBVIOUS
  <2>0. IInv /\ jobs = <<>> /\ sessQ = <<>> /\ dispatcher = "pop" /\ accepted = {}
    BY InitInv DEF Init
  <2>1. Line = <<>>
    <3>1. Dispatched = <<>> /\ InDispatch = <<>> /\ <<>> \o <<>> = <<>>
      BY <2>0, LineTypes, EmptySeq DEF InDispatch
    <3> QED BY <2>0, <3>1 DEF Line
  <2>2. Serving = [t \in Threads |-> Unoccupied]
    BY DEF Init, Serving, InJob
  <2>3. Leaked = {}
    <3>1. /\ BufferSize \in Nat
          /\ st = [i \in 1 .. BufferSize |-> i - 1]
      BY DbServiceAssumption DEF Init
    <3>2. Len(st) = BufferSize
      BY <3>1
    <3>3. \A s \in BufferSlots : s + 1 \in 1 .. BufferSize /\ s + 1 - 1 = s
      BY <3>1 DEF BufferSlots
    <3>4. \A s \in BufferSlots : st[s + 1] = s
      <4>1. \A i \in 1 .. BufferSize : st[i] = i - 1
        BY <3>1
      <4>2. ASSUME NEW s \in BufferSlots PROVE st[s + 1] = s
        <5> DEFINE i == s + 1
        <5>1. i \in 1 .. BufferSize /\ i - 1 = s
          BY <3>1 DEF BufferSlots
        <5> HIDE DEF i
        <5>2. st[i] = s
          BY <4>1, <5>1
        <5> QED BY <5>2 DEF i
      <4> QED BY <4>2
    <3>5. \A s \in BufferSlots : In(st, s)
      BY <3>2, <3>3, <3>4 DEF In
    <3> QED BY <3>5, LeakedIs DEF Owned
  <2> QED BY <2>0, <2>1, <2>2, <2>3 DEF Promised!ServiceInit
<1>2. IInv /\ [Next]_vars => [Promised!ServiceNext]_(Promised!serviceVars)
  <2> SUFFICES ASSUME IInv, [Next]_vars
               PROVE  [Promised!ServiceNext]_(Promised!serviceVars)
    OBVIOUS
  <2>1. CASE PopSession \/ MakeActive \/ RunJob \/ \E c \in Sessions : Accept(c)
    BY <2>1, LineStep
  <2>2. CASE MakeActiveFails \/ Unwind
    BY <2>2, CloseStep
  <2>3. ASSUME NEW t \in Threads, TakeJob(t)
        PROVE  [Promised!ServiceNext]_(Promised!serviceVars)
    BY <2>3, ServeStep
  <2>4. ASSUME NEW t \in Threads,
               \/ JobReturns(t) \/ JobThrows(t) \/ MakeInactive(t) \/ MakeInactiveFails(t)
               \/ FreeThread(t)
        PROVE  [Promised!ServiceNext]_(Promised!serviceVars)
    BY <2>4, ServerStep
  <2>5. CASE UNCHANGED vars \/ \E c \in Sessions : ReadFails(c)
    <3>1. UNCHANGED <<rq, st, jobs, tcpSess, thread, accepted, sessQ, dispatcher, inHand>>
      BY <2>5 DEF ReadFails, bufferVars, poolVars, vars
    <3>2. Serving' = Serving /\ Leaked' = Leaked
      BY <3>1, SameServers DEF InJob
    <3>3. Line' = Line
      BY <3>1 DEF Line, Dispatched, InDispatch
    <3> QED BY <3>1, <3>2, <3>3
  <2> QED BY <2>1, <2>2, <2>3, <2>4, <2>5 DEF Next, Dispatch, Pool, Fault
<1> QED BY <1>1, <1>2, Invariance, PTL DEF Spec, ImplementsService, Promised!ServiceSpec
=============================================================================
