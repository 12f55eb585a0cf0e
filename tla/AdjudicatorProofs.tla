------------------------- MODULE AdjudicatorProofs --------------------------
(***************************************************************************)
(* Type correctness and the safety properties of Adjudicator hold for      *)
(* every set of slots and rows, every number of databases, every set of    *)
(* requests, all kinds of faults, both lock policies and every width of    *)
(* msg_cnt: IInv is an inductive invariant and implies them.               *)
(***************************************************************************)
EXTENDS AdjudicatorInv, TLAPS

-----------------------------------------------------------------------------
(* Type correctness.                                                       *)

LEMMA InitTypeOK == Init => TypeOK
  BY ReplicasAssumption, AdjudicatorAssumption
  DEF Init, ReplicasInit, TypeOK, ReplicasTypeOK, NoMessage, Plain, Message, NoFlags,
         Flags, Locations, TaskStates, Result, Replies, Dbs, NoTx, CommitRecord

LEMMA SnapshotType ==
  ASSUME ReplicasTypeOK, NEW s \in Slots, NEW d \in Dbs
  PROVE  Snapshot(s, d) \in Nat
  BY DEF Snapshot, InTx, ReplicasTypeOK

\* The operations of a replica keep the types of the replicas.
LEMMA ReplicaTypes ==
  ASSUME ReplicasTypeOK, NEW s \in Slots, NEW d \in Dbs,
         \/ DbBegin(s, d) \/ DbSelect(s, d)
         \/ \E row \in Rows : DbWrite(s, d, row)
         \/ DbCommit(s, d) \/ DbRollback(s, d)
         \/ DbDisconnect(s) \/ UNCHANGED replicaVars
  PROVE  ReplicasTypeOK'
<1> USE DEF ReplicasTypeOK
<1>0. Snapshot(s, d) \in Nat
  BY SnapshotType
<1>1. CASE DbBegin(s, d) \/ DbSelect(s, d)
  <2>1. snap' = [snap EXCEPT ![s] = [snap[s] EXCEPT ![d] = Snapshot(s, d)]]
    BY <1>1 DEF DbBegin, DbSelect
  <2>2. [snap[s] EXCEPT ![d] = Snapshot(s, d)] \in [Dbs -> Nat \cup {NoTx}]
    BY <1>0
  <2>3. UNCHANGED <<log, writes>>
    BY <1>1 DEF DbBegin, DbSelect
  <2> QED BY <2>1, <2>2, <2>3
<1>2. CASE \E row \in Rows : DbWrite(s, d, row)
  BY <1>0, <1>2 DEF DbWrite
<1>3. CASE DbCommit(s, d)
  <2>1. [slot |-> s, rows |-> writes[s][d]] \in CommitRecord
    BY DEF CommitRecord
  <2>2. log' \in [Dbs -> Seq(CommitRecord)]
    BY <1>3, <2>1 DEF DbCommit
  <2> QED BY <1>3, <2>2 DEF DbCommit
<1>4. CASE DbRollback(s, d)
  BY <1>4 DEF DbRollback
<1>5. CASE DbDisconnect(s)
  BY <1>5 DEF DbDisconnect
<1>6. CASE UNCHANGED replicaVars
  BY <1>6 DEF replicaVars
<1> QED BY <1>1, <1>2, <1>3, <1>4, <1>5, <1>6

\* The actions of a step, spelled out.
LEMMA StepCases ==
  ASSUME NEW s \in Slots, Step(s)
  PROVE  \/ StartSession(s) \/ EndSession(s)
         \/ ReceiveCommit(s)
         \/ \E type \in {"ROLLBACK", "DISCONNECT", "SOCKET_ERROR"} : ReceiveEnd(s, type)
         \/ \E m \in Message : m.type \in {"SQL", "COMMIT"} /\ ReceiveRequest(s, m)
         \/ Lock(s)
         \/ BeginDb(s) \/ BeginDone(s) \/ BeginFails(s)
         \/ CommitDb(s) \/ CommitDone(s) \/ CommitFails(s)
         \/ RollbackDb(s) \/ RollbackDone(s) \/ RollbackFails(s)
         \/ \E d \in Dbs : \/ RunSelect(s, d) \/ RunDml(s, d)
                           \/ StatementFails(s, d) \/ StatementDiverges(s, d)
                           \/ FirstDone(s, d) \/ SendResults(s, d) \/ SendFails(s, d)
         \/ Accept(s) \/ Disagree(s) \/ ExecutorFailed(s)
<1>1. ASSUME ReceiveSQL(s)
      PROVE  \E m \in Message : m.type \in {"SQL", "COMMIT"} /\ ReceiveRequest(s, m)
  BY <1>1 DEF ReceiveSQL, Message
<1>2. ASSUME ReceiveCommitAsSQL(s)
      PROVE  \E m \in Message : m.type \in {"SQL", "COMMIT"} /\ ReceiveRequest(s, m)
  BY <1>2 DEF ReceiveCommitAsSQL, Plain, Message
<1> QED
  BY <1>1, <1>2 DEF Step, Receive, Critical, Executor, Decide, Fault

\* The answers and the locations a message can end with.
LEMMA EndingTypes ==
  ASSUME NEW type
  PROVE  /\ Ending(type).at \in {"recv", "over"}
         /\ Ending(type).reply \in
              {<<"ROLLED_BACK">>, <<"DISCONNECTED">>, <<>>, <<"FAILURE">>}
         /\ Ending(type).reply = <<>> => Ending(type).at = "over"
         /\ Ending(type).reply \in Seq(Replies)
<1>1. Ending(type) \in {[at |-> "recv", reply |-> <<"ROLLED_BACK">>],
                        [at |-> "over", reply |-> <<"DISCONNECTED">>],
                        [at |-> "over", reply |-> <<>>],
                        [at |-> "recv", reply |-> <<"FAILURE">>]}
  BY DEF Ending
<1>2. /\ Ending(type).at \in {"recv", "over"}
      /\ Ending(type).reply \in
              {<<"ROLLED_BACK">>, <<"DISCONNECTED">>, <<>>, <<"FAILURE">>}
      /\ Ending(type).reply = <<>> => Ending(type).at = "over"
  BY <1>1
<1>3. {<<"ROLLED_BACK">>, <<"DISCONNECTED">>, <<>>, <<"FAILURE">>} \subseteq Seq(Replies)
  BY DEF Replies
<1> QED BY <1>2, <1>3

LEMMA FlagTypes ==
  ASSUME NEW f \in Flags, NEW type
  PROVE  /\ FlagsAtEnd(type, f) \in Flags
         /\ AfterCommit(f) \in Flags
         /\ [f EXCEPT !.rolled_back = TRUE] \in Flags
         /\ [f EXCEPT !.first_done = TRUE] \in Flags
         /\ NoFlags \in Flags
  BY DEF FlagsAtEnd, AfterRollback, AfterFailure, AfterCommit, NoFlags, Flags

\* Concluding or abandoning a message keeps the types of the slot's control.
ControlTypes ==
  /\ pc \in [Slots -> Locations]
  /\ cur \in [Slots -> Message]
  /\ msgCnt \in [Slots -> 0 .. MsgCntModulus - 1]
  /\ flag \in [Slots -> Flags]
  /\ replies \in [Slots -> Seq(Replies)]

LEMMA PlainTypes == \A type \in {"COMMIT", "ROLLBACK", "DISCONNECT", "SOCKET_ERROR", "SQL"} :
                      Plain(type) \in Message
  BY DEF Plain, Message

LEMMA ConcludeTypes ==
  ASSUME ControlTypes, NEW s \in Slots, NEW m, NEW f \in Flags, NEW said \in Seq(Replies),
         Conclude(s, m, f, said)
  PROVE  ControlTypes'
<1> USE DEF ControlTypes
<1>1. pc' \in [Slots -> Locations]
  BY EndingTypes DEF Conclude, Locations
<1>2. said \o Ending(m.type).reply \in Seq(Replies)
  BY EndingTypes
<1>3. replies' \in [Slots -> Seq(Replies)]
  BY <1>2 DEF Conclude
<1>4. flag' \in [Slots -> Flags]
  BY FlagTypes DEF Conclude
<1>5. NoMessage \in Message
  BY PlainTypes DEF NoMessage
<1>6. cur' \in [Slots -> Message]
  BY <1>5 DEF Conclude
<1>7. MsgCntAtEnd(m.type, msgCnt[s]) \in 0 .. MsgCntModulus - 1
  BY AdjudicatorAssumption DEF MsgCntAtEnd
<1>8. msgCnt' \in [Slots -> 0 .. MsgCntModulus - 1]
  BY <1>7 DEF Conclude
<1> QED BY <1>1, <1>3, <1>4, <1>6, <1>8

LEMMA AbandonTypes ==
  ASSUME ControlTypes, NEW s \in Slots, NEW m \in Message, NEW f \in Flags,
         NEW said \in Seq(Replies), Abandon(s, m, f, said)
  PROVE  ControlTypes'
<1>1. CASE Undecided(f)
  <2>1. "rollback" \in Locations
    BY DEF Locations
  <2> QED BY <1>1, <2>1 DEF Abandon, ControlTypes
<1>2. CASE ~Undecided(f)
  BY <1>2, ConcludeTypes DEF Abandon
<1> QED BY <1>1, <1>2

\* A request's statements are statements.
LEMMA StatementTypes == ASSUME NEW m \in Message PROVE m.stmts \in Seq(Statement)
<1>1. m.stmts \in Requests \cup {<<>>}
  BY DEF Message
<1>2. Requests \subseteq Seq(Statement) /\ <<>> \in Seq(Statement)
  BY AdjudicatorAssumption
<1> QED BY <1>1, <1>2

\* A statement that ran leaves a well-formed grain behind.
LEMMA RunTypes ==
  ASSUME TypeOK, NEW s \in Slots, NEW d \in Dbs,
         RunSelect(s, d) \/ RunDml(s, d) \/ StatementDiverges(s, d)
  PROVE  ReplicasTypeOK' /\ res' \in [Slots -> [Dbs -> Seq(Result)]]
<1> DEFINE st == NextStatement(s, d)
<1>1. Pending(s, d)
  BY DEF RunSelect, RunDml, StatementDiverges
<1>2. st \in Statement
  <2>1. Executed(s, d) + 1 \in 1 .. Len(cur[s].stmts)
    BY <1>1 DEF Pending, Executed, TypeOK
  <2> QED BY <2>1, StatementTypes DEF NextStatement, TypeOK
<1>3. ReplicasTypeOK'
  BY <1>2, ReplicaTypes DEF RunSelect, RunDml, StatementDiverges, Statement, TypeOK
<1>4. \A row \in Rows : Versions(s, d, row) \in SUBSET ((Nat \cup {-1}) \X Slots)
  <2>1. ASSUME NEW i \in 1 .. Len(log[d]) PROVE log[d][i].slot \in Slots
    <3>1. log[d] \in Seq(CommitRecord)
      BY DEF TypeOK, ReplicasTypeOK
    <3>2. log[d][i] \in CommitRecord
      BY <3>1
    <3> QED BY <3>2 DEF CommitRecord
  <2>2. \A i \in 1 .. Snapshot(s, d) : i \in Nat
    <3>1. Snapshot(s, d) \in Nat
      BY SnapshotType DEF TypeOK
    <3> QED BY <3>1
  <2>3. ASSUME NEW i \in 1 .. Snapshot(s, d), i <= Len(log[d])
        PROVE  <<i, log[d][i].slot>> \in (Nat \cup {-1}) \X Slots
    <3>1. i \in 1 .. Len(log[d])
      BY <2>3 DEF TypeOK, ReplicasTypeOK
    <3> QED BY <2>1, <2>2, <3>1
  <2>4. <<0, s>> \in (Nat \cup {-1}) \X Slots
    OBVIOUS
  <2> QED BY <2>3, <2>4 DEF Versions
<1>5. \E r \in Result : Record(s, d, r)
  BY <1>2, <1>4 DEF RunSelect, RunDml, StatementDiverges, Statement, Result
<1>6. PICK r \in Result : Record(s, d, r)
  BY <1>5
<1>7. Append(res[s][d], r) \in Seq(Result)
  BY DEF TypeOK
<1> QED BY <1>3, <1>6, <1>7 DEF Record, TypeOK

LEMMA StepTypeOK == ASSUME TypeOK, NEW s \in Slots, Step(s) PROVE TypeOK'
<1> USE DEF TypeOK
<1>a. "recv" \in Locations /\ "free" \in Locations /\ "over" \in Locations
      /\ "begin" \in Locations /\ "exec" \in Locations /\ "commit" \in Locations
      /\ "rollback" \in Locations /\ "lost" \in Locations
  BY DEF Locations
<1>b. <<>> \in Seq(Replies) /\ \A r \in Seq(Replies) : /\ Append(r, "RESULT") \in Seq(Replies)
                                                       /\ Append(r, "COMMITED") \in Seq(Replies)
  BY DEF Replies
<1>c. UNCHANGED replicaVars => ReplicasTypeOK'
  BY DEF ReplicasTypeOK, replicaVars
<1>d. ControlTypes
  BY DEF ControlTypes
<1>e. NoMessage \in Message /\ Plain("COMMIT") \in Message
  BY PlainTypes DEF NoMessage
<1>f. \A d \in Dbs : idx[s] = d => d + 1 \in 0 .. NDb
  BY ReplicasAssumption DEF Dbs
<1>g. 0 \in 0 .. MsgCntModulus - 1 /\ 0 \in 0 .. NDb /\ 0 \in Dbs
  BY ReplicasAssumption, AdjudicatorAssumption DEF Dbs
<1>1. CASE StartSession(s)
  BY <1>1, <1>a, <1>b, <1>c, <1>g DEF StartSession
<1>2. CASE EndSession(s)
  <2>1. ReplicasTypeOK'
    BY <1>2, <1>g, ReplicaTypes DEF EndSession
  <2> QED BY <1>2, <1>a, <2>1 DEF EndSession
<1>3. CASE ReceiveCommit(s)
  BY <1>3, <1>a, <1>b, <1>c, <1>e, <1>g DEF ReceiveCommit
<1>4. ASSUME NEW type \in {"ROLLBACK", "DISCONNECT", "SOCKET_ERROR"}, ReceiveEnd(s, type)
      PROVE  TypeOK'
  <2>1. ControlTypes'
    BY <1>4, <1>b, <1>d, AbandonTypes, PlainTypes DEF ReceiveEnd
  <2> QED BY <1>4, <1>c, <2>1 DEF ReceiveEnd, ControlTypes
<1>5. ASSUME NEW m \in Message, ReceiveRequest(s, m) PROVE TypeOK'
  <2>1. NextMsgCnt(msgCnt[s]) \in 0 .. MsgCntModulus - 1
    BY AdjudicatorAssumption DEF NextMsgCnt
  <2>2. NewRequestFlags(flag[s]) \in Flags
    BY DEF NewRequestFlags, NoFlags, Flags
  <2>3. [d \in Dbs |-> <<>>] \in [Dbs -> Seq(Result)]
    OBVIOUS
  <2>4. \A b \in BOOLEAN : [d \in Dbs |-> IF b THEN "none" ELSE "run"] \in [Dbs -> TaskStates]
    BY DEF TaskStates
  <2>5. UNCHANGED <<replicaVars, mx, idx>>
    BY <1>5 DEF ReceiveRequest
  <2>6. ControlTypes'
    BY <1>5, <1>a, <1>b, <2>1, <2>2 DEF ReceiveRequest, ControlTypes
  <2>7. res' \in [Slots -> [Dbs -> Seq(Result)]] /\ task' \in [Slots -> [Dbs -> TaskStates]]
    BY <1>5, <2>3, <2>4 DEF ReceiveRequest
  <2> QED BY <1>c, <2>5, <2>6, <2>7 DEF ControlTypes
<1>6. CASE Lock(s)
  BY <1>6, <1>c DEF Lock
<1>7. CASE BeginDb(s) \/ CommitDb(s) \/ RollbackDb(s)
  <2>1. idx[s] \in Dbs
    BY <1>7, ReplicasAssumption DEF BeginDb, CommitDb, RollbackDb, InLoop, Dbs
  <2>2. ReplicasTypeOK'
    BY <1>7, <2>1, ReplicaTypes DEF BeginDb, CommitDb, RollbackDb
  <2>3. idx' \in [Slots -> 0 .. NDb]
    BY <1>7, <1>f, <2>1 DEF BeginDb, CommitDb, RollbackDb, Advance
  <2> QED BY <1>7, <2>2, <2>3 DEF BeginDb, CommitDb, RollbackDb
<1>8. CASE BeginDone(s)
  <2>1. [d \in Dbs |-> "run"] \in [Dbs -> TaskStates]
    BY DEF TaskStates
  <2> QED BY <1>8, <1>a, <1>c, <1>g, <2>1 DEF BeginDone, Unlock
<1>9. CASE CommitDone(s)
  <2>1. AfterCommit(flag[s]) \in Flags
    BY FlagTypes
  <2> QED BY <1>9, <1>a, <1>b, <1>c, <1>e, <1>g, <2>1 DEF CommitDone, Unlock
<1>10. CASE RollbackDone(s)
  <2>1. ControlTypes'
    BY <1>10, <1>d, ConcludeTypes, FlagTypes DEF RollbackDone
  <2> QED BY <1>10, <1>c, <1>g, <2>1 DEF RollbackDone, Unlock, ControlTypes
<1>11. CASE BeginFails(s) \/ CommitFails(s) \/ RollbackFails(s)
  <2>1. idx[s] \in Dbs
    BY <1>11, ReplicasAssumption DEF BeginFails, CommitFails, RollbackFails, InLoop, Dbs
  <2>2. ReplicasTypeOK'
    BY <1>11, <2>1, ReplicaTypes DEF BeginFails, CommitFails, RollbackFails
  <2> QED BY <1>11, <1>a, <1>g, <2>2 DEF BeginFails, CommitFails, RollbackFails, Unlock
<1>12. ASSUME NEW d \in Dbs, RunSelect(s, d) \/ RunDml(s, d) \/ StatementDiverges(s, d)
       PROVE  TypeOK'
  <2>1. ReplicasTypeOK'
    BY <1>12, RunTypes
  <2>2. res' \in [Slots -> [Dbs -> Seq(Result)]]
    BY <1>12, RunTypes
  <2> QED BY <1>12, <2>1, <2>2 DEF RunSelect, RunDml, StatementDiverges
<1>13. ASSUME NEW d \in Dbs, StatementFails(s, d) PROVE TypeOK'
  <2>1. ReplicasTypeOK'
    BY <1>13, ReplicaTypes DEF StatementFails
  <2>2. [task[s] EXCEPT ![d] = "err"] \in [Dbs -> TaskStates]
    BY DEF TaskStates
  <2> QED BY <1>13, <2>1, <2>2 DEF StatementFails
<1>14. ASSUME NEW d \in Dbs, FirstDone(s, d) \/ SendResults(s, d) \/ SendFails(s, d)
       PROVE  TypeOK'
  <2>1. \A x \in {"err", "ok", "reply"} : [task[s] EXCEPT ![d] = x] \in [Dbs -> TaskStates]
    BY DEF TaskStates
  <2>2. task' \in [Slots -> [Dbs -> TaskStates]]
    BY <1>14, <2>1 DEF FirstDone, SendResults, SendFails
  <2>3. CASE FirstDone(s, d)
    <3>1. flag' = [flag EXCEPT ![s] = [flag[s] EXCEPT !.first_done = TRUE]]
      BY <2>3 DEF FirstDone
    <3>2. flag' \in [Slots -> Flags]
      BY <3>1, FlagTypes
    <3> QED BY <1>c, <2>2, <2>3, <3>2 DEF FirstDone
  <2>4. CASE SendResults(s, d)
    BY <1>b, <1>c, <2>2, <2>4 DEF SendResults
  <2>5. CASE SendFails(s, d)
    BY <1>c, <2>2, <2>5 DEF SendFails
  <2> QED BY <1>14, <2>3, <2>4, <2>5
<1>15. CASE Accept(s)
  <2>1. flag' \in [Slots -> Flags]
    BY <1>15 DEF Accept, Flags
  <2> QED BY <1>15, <1>a, <1>c, <1>e, <2>1 DEF Accept
<1>16. CASE Disagree(s) \/ ExecutorFailed(s)
  <2>1. [flag[s] EXCEPT !.verify_completed = TRUE, !.comparator_pass = FALSE] \in Flags
    BY DEF Flags
  <2>2. ControlTypes'
    BY <1>16, <1>d, <2>1, AbandonTypes DEF Disagree, ExecutorFailed
  <2> QED BY <1>16, <1>c, <2>2 DEF Disagree, ExecutorFailed, ControlTypes
<1> QED
  BY StepCases, <1>1, <1>2, <1>3, <1>4, <1>5, <1>6, <1>7, <1>8, <1>9, <1>10, <1>11,
     <1>12, <1>13, <1>14, <1>15, <1>16

\* The parameters and state always have their types.
THEOREM TypeCorrect == Spec => []TypeOK
<1>1. Init => TypeOK
  BY InitTypeOK
<1>2. TypeOK /\ [Next]_vars => TypeOK'
  <2> SUFFICES ASSUME TypeOK, [Next]_vars PROVE TypeOK'
    OBVIOUS
  <2>1. CASE Next
    BY <2>1, StepTypeOK DEF Next
  <2>2. CASE UNCHANGED vars
    BY <2>2 DEF vars, TypeOK, ReplicasTypeOK
  <2> QED BY <2>1, <2>2
<1> QED BY <1>1, <1>2, PTL DEF Spec

-----------------------------------------------------------------------------
(* A step of one slot leaves the others' state alone.                      *)

SameSlot(t) ==
  /\ pc'[t] = pc[t] /\ cur'[t] = cur[t] /\ msgCnt'[t] = msgCnt[t]
  /\ flag'[t] = flag[t] /\ idx'[t] = idx[t] /\ task'[t] = task[t]
  /\ res'[t] = res[t] /\ replies'[t] = replies[t]
  /\ snap'[t] = snap[t] /\ writes'[t] = writes[t]

LEMMA ReplicaLocality ==
  ASSUME ReplicasTypeOK, NEW s \in Slots, NEW d, NEW t \in Slots \ {s},
         \/ DbBegin(s, d) \/ DbSelect(s, d)
         \/ \E row : DbWrite(s, d, row)
         \/ DbCommit(s, d) \/ DbRollback(s, d)
         \/ DbDisconnect(s) \/ UNCHANGED replicaVars
  PROVE  snap'[t] = snap[t] /\ writes'[t] = writes[t]
  BY DEF ReplicasTypeOK, DbBegin, DbSelect, DbWrite, DbCommit, DbRollback, DbDisconnect,
         replicaVars

LEMMA ConcludeLocality ==
  ASSUME ControlTypes, NEW s \in Slots, NEW t \in Slots \ {s}, NEW m, NEW f, NEW said,
         Conclude(s, m, f, said) \/ Abandon(s, m, f, said)
  PROVE  /\ pc'[t] = pc[t] /\ cur'[t] = cur[t] /\ msgCnt'[t] = msgCnt[t]
         /\ flag'[t] = flag[t] /\ replies'[t] = replies[t]
<1>1. CASE Conclude(s, m, f, said)
  BY <1>1 DEF Conclude, ControlTypes
<1>2. CASE Abandon(s, m, f, said) /\ Undecided(f)
  BY <1>2 DEF Abandon, ControlTypes
<1>3. CASE Abandon(s, m, f, said) /\ ~Undecided(f)
  BY <1>1, <1>3 DEF Abandon
<1> QED BY <1>1, <1>2, <1>3

LEMMA Locality ==
  ASSUME TypeOK, NEW s \in Slots, Step(s), NEW t \in Slots \ {s}
  PROVE  SameSlot(t)
<1> USE DEF SameSlot
<1>a. ControlTypes /\ ReplicasTypeOK
  BY DEF TypeOK, ControlTypes
<1>b. /\ idx \in [Slots -> 0 .. NDb] /\ task \in [Slots -> [Dbs -> TaskStates]]
      /\ res \in [Slots -> [Dbs -> Seq(Result)]]
  BY DEF TypeOK
<1>1. CASE StartSession(s) \/ EndSession(s)
  BY <1>1, <1>a, ReplicaLocality DEF StartSession, EndSession, ControlTypes
<1>2. CASE ReceiveCommit(s)
  BY <1>2, <1>a, ReplicaLocality DEF ReceiveCommit, ControlTypes
<1>3. CASE \E type \in {"ROLLBACK", "DISCONNECT", "SOCKET_ERROR"} : ReceiveEnd(s, type)
  BY <1>3, <1>a, ReplicaLocality, ConcludeLocality DEF ReceiveEnd
<1>4. CASE \E m \in Message : ReceiveRequest(s, m)
  BY <1>4, <1>a, <1>b, ReplicaLocality DEF ReceiveRequest, ControlTypes
<1>5. CASE Lock(s)
  BY <1>5, <1>a, ReplicaLocality DEF Lock
<1>6. CASE BeginDb(s) \/ CommitDb(s) \/ RollbackDb(s)
  BY <1>6, <1>a, <1>b, ReplicaLocality DEF BeginDb, CommitDb, RollbackDb, Advance
<1>7. CASE BeginDone(s) \/ CommitDone(s)
  BY <1>7, <1>a, <1>b, ReplicaLocality DEF BeginDone, CommitDone, Unlock, ControlTypes
<1>8. CASE RollbackDone(s)
  BY <1>8, <1>a, <1>b, ReplicaLocality, ConcludeLocality DEF RollbackDone, Unlock
<1>9. CASE BeginFails(s) \/ CommitFails(s) \/ RollbackFails(s)
  BY <1>9, <1>a, <1>b, ReplicaLocality
  DEF BeginFails, CommitFails, RollbackFails, Unlock, ControlTypes
<1>10. CASE \E d \in Dbs : RunSelect(s, d) \/ RunDml(s, d) \/ StatementDiverges(s, d)
  BY <1>10, <1>a, <1>b, ReplicaLocality
  DEF RunSelect, RunDml, StatementDiverges, Record, ControlTypes
<1>11. CASE \E d \in Dbs : \/ StatementFails(s, d) \/ FirstDone(s, d)
                           \/ SendResults(s, d) \/ SendFails(s, d)
  BY <1>11, <1>a, <1>b, ReplicaLocality
  DEF StatementFails, FirstDone, SendResults, SendFails, ControlTypes
<1>12. CASE Accept(s)
  BY <1>12, <1>a, ReplicaLocality DEF Accept, ControlTypes
<1>13. CASE Disagree(s) \/ ExecutorFailed(s)
  BY <1>13, <1>a, ReplicaLocality, ConcludeLocality DEF Disagree, ExecutorFailed
<1> QED
  BY StepCases, <1>1, <1>2, <1>3, <1>4, <1>5, <1>6, <1>7, <1>8, <1>9, <1>10, <1>11,
     <1>12, <1>13

LEMMA SameSlotInv ==
  ASSUME NEW t \in Slots, SameSlot(t), SlotInv(t)
  PROVE  SlotInv(t)'
<1> USE DEF SlotInv, SameSlot
<1>1. TasksOf(t)'
  BY DEF TasksOf, Executed
<1>2. FlagsOf(t)'
  BY DEF FlagsOf
<1>3. TxOf(t)'
  BY DEF TxOf, OpenEverywhere, OpenNowhere, InTx
<1>4. RepliesOf(t)'
  BY DEF RepliesOf, OpenEverywhere, OpenNowhere, InTx
<1>5. WritesOf(t)'
  <2>1. \A d \in Dbs : Wrote(t, d)' = Wrote(t, d) /\ writes'[t][d] = writes[t][d]
    BY DEF Wrote, Executed
  <2> QED BY <2>1 DEF WritesOf
<1>6. VerdictOf(t)'
  BY DEF VerdictOf
<1> QED BY <1>1, <1>2, <1>3, <1>4, <1>5, <1>6

-----------------------------------------------------------------------------
(* The mutex: its holder stays in a guarded section until it unlocks.      *)

LEMMA ConcludePc ==
  ASSUME ControlTypes, NEW s \in Slots, NEW m, NEW f, NEW said,
         Conclude(s, m, f, said) \/ Abandon(s, m, f, said)
  PROVE  pc'[s] \in {"recv", "over", "rollback"}
  BY EndingTypes DEF Conclude, Abandon, ControlTypes

LEMMA MutexStep ==
  ASSUME TypeOK, MutexInv, NEW s \in Slots, Step(s)
  PROVE  MutexInv'
<1>a. ControlTypes /\ idx \in [Slots -> 0 .. NDb] /\ mx \in Slots \cup {Free}
  BY DEF TypeOK, ControlTypes
<1>b. \A t \in Slots \ {s} : pc'[t] = pc[t] /\ idx'[t] = idx[t]
  BY Locality DEF SameSlot
<1>1. CASE \/ mx = s /\ mx' = s /\ pc'[s] = pc[s]
           \/ mx = Free /\ mx' = s /\ pc'[s] \in {"begin", "commit", "rollback"}
  BY <1>1, <1>a, <1>b, AdjudicatorAssumption DEF MutexInv
<1>2. CASE mx' = Free /\ idx'[s] = 0 /\ mx = s
  BY <1>2, <1>a, <1>b, AdjudicatorAssumption DEF MutexInv
<1>3. CASE mx # s /\ mx' = mx /\ idx'[s] = idx[s]
  BY <1>3, <1>a, <1>b, AdjudicatorAssumption DEF MutexInv
<1>4. CASE \/ StartSession(s) \/ EndSession(s) \/ ReceiveCommit(s)
           \/ \E type \in {"ROLLBACK", "DISCONNECT", "SOCKET_ERROR"} : ReceiveEnd(s, type)
           \/ \E m \in Message : ReceiveRequest(s, m)
           \/ Accept(s) \/ Disagree(s) \/ ExecutorFailed(s)
  <2>1. pc[s] \in {"free", "over", "recv", "exec"} /\ mx' = mx /\ idx'[s] = idx[s]
    BY <1>4 DEF StartSession, EndSession, ReceiveCommit, ReceiveEnd, ReceiveRequest,
                Accept, Disagree, ExecutorFailed
  <2>2. mx # s
    BY <2>1, AdjudicatorAssumption DEF MutexInv
  <2> QED BY <1>3, <2>1, <2>2
<1>5. CASE Lock(s)
  BY <1>1, <1>5 DEF Lock
<1>6. CASE BeginDb(s) \/ CommitDb(s) \/ RollbackDb(s)
  BY <1>1, <1>6 DEF BeginDb, CommitDb, RollbackDb, InLoop
<1>7. CASE \/ BeginDone(s) \/ CommitDone(s) \/ RollbackDone(s)
           \/ BeginFails(s) \/ CommitFails(s) \/ RollbackFails(s)
  <2>1. mx = s /\ Unlock(s)
    BY <1>7 DEF BeginDone, CommitDone, RollbackDone, BeginFails, CommitFails,
                RollbackFails, InLoop, LoopDone
  <2> QED BY <1>2, <1>a, <2>1 DEF Unlock
<1>8. CASE \E d \in Dbs : \/ RunSelect(s, d) \/ RunDml(s, d) \/ StatementDiverges(s, d)
                          \/ StatementFails(s, d) \/ FirstDone(s, d)
                          \/ SendResults(s, d) \/ SendFails(s, d)
  <2>1. UNCHANGED <<pc, mx, idx>>
    BY <1>8 DEF RunSelect, RunDml, StatementDiverges, StatementFails, FirstDone,
                SendResults, SendFails
  <2> QED BY <2>1 DEF MutexInv
<1> QED BY StepCases, <1>4, <1>5, <1>6, <1>7, <1>8

-----------------------------------------------------------------------------
(* The state of the slot that takes the step.                              *)

\* Neither the grains nor the transaction of the slot change.
SameWork(s) ==
  /\ task'[s] = task[s] /\ res'[s] = res[s]
  /\ snap'[s] = snap[s] /\ writes'[s] = writes[s]

LEMMA SessionSlot ==
  ASSUME TypeOK, NEW s \in Slots, SlotInv(s), StartSession(s) \/ EndSession(s)
  PROVE  SlotInv(s)'
<1> USE DEF SlotInv
<1>1. CASE StartSession(s)
  <2>1. /\ pc'[s] = "recv" /\ msgCnt'[s] = 0 /\ replies'[s] = <<>>
        /\ SameWork(s) /\ flag' = flag /\ OpenNowhere(s)
    BY <1>1 DEF StartSession, SameWork, TypeOK, replicaVars, TxOf
  <2>2. \A d \in Dbs : ~InTx(s, d)' /\ writes'[s][d] = {}
    BY <2>1 DEF TxOf, OpenNowhere, InTx, SameWork
  <2>3. TasksOf(s)' /\ FlagsOf(s)' /\ VerdictOf(s)'
    BY <1>1, <2>1 DEF StartSession, TasksOf, FlagsOf, VerdictOf, SameWork
  <2>4. TxOf(s)' /\ RepliesOf(s)' /\ WritesOf(s)'
    BY <2>1, <2>2 DEF TxOf, RepliesOf, WritesOf, OpenNowhere
  <2> QED BY <2>3, <2>4
<1>2. CASE EndSession(s)
  <2>1. pc'[s] = "free" /\ UNCHANGED <<flag, task, res>>
    BY <1>2 DEF EndSession, TypeOK
  <2>2. \A d \in Dbs : ~InTx(s, d)' /\ writes'[s][d] = {}
    BY <1>2 DEF EndSession, DbDisconnect, TypeOK, ReplicasTypeOK, InTx
  <2>3. TasksOf(s)' /\ FlagsOf(s)' /\ VerdictOf(s)'
    BY <1>2, <2>1 DEF EndSession, TasksOf, FlagsOf, VerdictOf
  <2>4. TxOf(s)'
    BY <2>1, <2>2 DEF TxOf, OpenNowhere
  <2>5. RepliesOf(s)' /\ WritesOf(s)'
    BY <2>1 DEF RepliesOf, WritesOf
  <2> QED BY <2>3, <2>4, <2>5
<1> QED BY <1>1, <1>2

LEMMA ReceiveCommitSlot ==
  ASSUME TypeOK, MutexInv, NEW s \in Slots, SlotInv(s), ReceiveCommit(s)
  PROVE  SlotInv(s)'
<1> USE DEF SlotInv
<1>1. /\ pc[s] = "recv" /\ SameWork(s) /\ UNCHANGED <<flag, idx>>
      /\ replies'[s] = <<>> /\ \A d \in Dbs : InTx(s, d)' = InTx(s, d)
  BY DEF ReceiveCommit, SameWork, TypeOK, replicaVars, InTx
<1>2. \/ /\ pc'[s] = "commit" /\ cur'[s].type = "COMMIT" /\ flag[s].comparator_pass
      \/ pc'[s] = "recv" /\ msgCnt'[s] = 0
  BY DEF ReceiveCommit, TypeOK, Plain
<1>3. idx[s] = 0
  BY <1>1, AdjudicatorAssumption DEF MutexInv
<1>4. TasksOf(s)' /\ VerdictOf(s)' /\ FlagsOf(s)'
  BY <1>1, <1>2 DEF TasksOf, FlagsOf, VerdictOf, SameWork
<1>5. TxOf(s)'
  BY <1>1, <1>2, <1>3 DEF TxOf, SameWork, OpenNowhere, OpenEverywhere, Dbs
<1>6. RepliesOf(s)' /\ WritesOf(s)'
  BY <1>1, <1>2 DEF RepliesOf, WritesOf, SameWork
<1> QED BY <1>4, <1>5, <1>6

\* What concluding a message makes of the slot, once its transaction is
\* closed everywhere.
LEMMA ConcludeSlot ==
  ASSUME ControlTypes, NEW s \in Slots, NEW m, NEW f \in Flags, NEW said \in Seq(Replies),
         Conclude(s, m, f, said),
         \A d \in Dbs : task'[s][d] \notin {"run", "reply"},
         \A d \in Dbs : ~InTx(s, d)' /\ writes'[s][d] = {},
         m.type = "SOCKET_ERROR" =>
           res'[s] = res[s] /\ f.comparator_pass = flag[s].comparator_pass,
         VerdictOf(s)
  PROVE  SlotInv(s)'
<1>1. pc'[s] \in {"recv", "over"} /\ pc'[s] = Ending(m.type).at
  BY EndingTypes DEF Conclude, ControlTypes
<1>2. flag'[s] = FlagsAtEnd(m.type, f)
  BY DEF Conclude, ControlTypes
<1>3. pc'[s] = "recv" => msgCnt'[s] = 0
  BY <1>1 DEF Conclude, ControlTypes, MsgCntAtEnd, Ending
<1>4. VerdictOf(s)'
  <2>1. CASE m.type = "SOCKET_ERROR"
    BY <1>2, <2>1 DEF FlagsAtEnd, VerdictOf
  <2>2. CASE m.type # "SOCKET_ERROR"
    BY <1>2, <2>2 DEF FlagsAtEnd, AfterRollback, AfterFailure, VerdictOf, Flags
  <2> QED BY <2>1, <2>2
<1>5. pc'[s] = "recv" => replies'[s][Len(replies'[s])] # "RESULT"
  <2>1. /\ replies'[s] = said \o Ending(m.type).reply
        /\ pc'[s] = "recv" => Ending(m.type).reply \in {<<"ROLLED_BACK">>, <<"FAILURE">>}
    BY <1>1 DEF Conclude, ControlTypes, Ending
  <2>2. \A r \in {"ROLLED_BACK", "FAILURE"} :
          (said \o <<r>>)[Len(said \o <<r>>)] = r
    BY DEF Replies
  <2> QED BY <2>1, <2>2
<1>6. TasksOf(s)' /\ FlagsOf(s)'
  BY <1>1 DEF TasksOf, FlagsOf
<1>7. TxOf(s)' /\ RepliesOf(s)' /\ WritesOf(s)'
  BY <1>1, <1>3, <1>5 DEF TxOf, RepliesOf, WritesOf, OpenNowhere
<1> QED BY <1>4, <1>6, <1>7 DEF SlotInv

\* What abandoning a message makes of the slot: the rollback is still to come.
LEMMA AbandonSlot ==
  ASSUME ControlTypes, NEW s \in Slots, SlotInv(s), NEW m \in Message, NEW f \in Flags,
         NEW said \in Seq(Replies), Abandon(s, m, f, said),
         SameWork(s), idx'[s] = 0,
         \A d \in Dbs : task[s][d] \notin {"run", "reply"},
         Undecided(f) \/ OpenNowhere(s),
         f.comparator_pass => flag[s].comparator_pass,
         m.type = "SOCKET_ERROR" /\ ~Undecided(f) => f = flag[s]
  PROVE  SlotInv(s)'
<1> USE DEF SlotInv
<1>1. CASE Undecided(f)
  <2>1. pc'[s] = "rollback" /\ flag'[s] = f
    BY <1>1 DEF Abandon, ControlTypes
  <2>2. TasksOf(s)' /\ FlagsOf(s)' /\ VerdictOf(s)'
    BY <2>1 DEF TasksOf, FlagsOf, VerdictOf, SameWork
  <2>3. TxOf(s)' /\ RepliesOf(s)' /\ WritesOf(s)'
    BY <2>1 DEF TxOf, RepliesOf, WritesOf, SameWork, InTx, Dbs
  <2> QED BY <2>2, <2>3
<1>2. CASE ~Undecided(f)
  <2>1. \A d \in Dbs : ~InTx(s, d)' /\ writes'[s][d] = {}
    BY <1>2 DEF OpenNowhere, InTx, SameWork, TxOf
  <2>2. Conclude(s, m, f, said)
    BY <1>2 DEF Abandon
  <2>3. \A d \in Dbs : task'[s][d] \notin {"run", "reply"}
    BY DEF SameWork
  <2>4. m.type = "SOCKET_ERROR" =>
           res'[s] = res[s] /\ f.comparator_pass = flag[s].comparator_pass
    BY <1>2 DEF SameWork
  <2> QED BY <2>1, <2>2, <2>3, <2>4, ConcludeSlot
<1> QED BY <1>1, <1>2

LEMMA ReceiveEndSlot ==
  ASSUME TypeOK, MutexInv, NEW s \in Slots, SlotInv(s),
         NEW type \in {"ROLLBACK", "DISCONNECT", "SOCKET_ERROR"}, ReceiveEnd(s, type)
  PROVE  SlotInv(s)'
<1>1. /\ pc[s] = "recv" /\ SameWork(s) /\ idx' = idx
      /\ Abandon(s, Plain(type), flag[s], <<>>)
  BY DEF ReceiveEnd, SameWork, replicaVars
<1>2. idx'[s] = 0
  BY <1>1, AdjudicatorAssumption DEF MutexInv
<1>3. Undecided(flag[s]) \/ OpenNowhere(s)
  BY <1>1 DEF SlotInv, TxOf
<1>4. \A d \in Dbs : task[s][d] \notin {"run", "reply"}
  BY <1>1 DEF SlotInv, TasksOf
<1>5. ControlTypes /\ flag[s] \in Flags /\ <<>> \in Seq(Replies) /\ Plain(type) \in Message
  BY PlainTypes DEF TypeOK, ControlTypes
<1> QED BY <1>1, <1>2, <1>3, <1>4, <1>5, AbandonSlot

LEMMA ReceiveRequestSlot ==
  ASSUME TypeOK, MutexInv, NEW s \in Slots, SlotInv(s), NEW m \in Message,
         ReceiveRequest(s, m)
  PROVE  SlotInv(s)'
<1> DEFINE cnt == NextMsgCnt(msgCnt[s])
<1>1. /\ pc[s] = "recv" /\ pc'[s] = IF cnt = 1 THEN "begin" ELSE "exec"
      /\ cur'[s] = m /\ flag'[s] = NoFlags /\ replies'[s] = <<>>
      /\ res'[s] = [d \in Dbs |-> <<>>]
      /\ task'[s] = [d \in Dbs |-> IF cnt = 1 THEN "none" ELSE "run"]
      /\ UNCHANGED <<replicaVars, mx, idx>>
  BY DEF ReceiveRequest, TypeOK, NewRequestFlags
<1>2. idx'[s] = 0
  BY <1>1, AdjudicatorAssumption DEF MutexInv
<1>3. cnt # 1 => OpenEverywhere(s)
  <2>1. 1 % MsgCntModulus = 1
    BY AdjudicatorAssumption
  <2>2. cnt # 1 => msgCnt[s] # 0
    BY <2>1 DEF NextMsgCnt, TypeOK
  <2> QED BY <1>1, <2>2 DEF SlotInv, TxOf
<1>4. \A d \in Dbs : InTx(s, d)' = InTx(s, d) /\ writes'[s][d] = writes[s][d]
  BY <1>1 DEF InTx, replicaVars
<1>5. m.stmts \in Seq(Statement)
  BY StatementTypes
<1>6. TasksOf(s)'
  BY <1>1, <1>5 DEF TasksOf, Executed
<1>7. FlagsOf(s)' /\ VerdictOf(s)'
  BY <1>1 DEF FlagsOf, VerdictOf, NoFlags, Undecided
<1>8. TxOf(s)'
  BY <1>1, <1>2, <1>3, <1>4 DEF SlotInv, TxOf, OpenEverywhere, OpenNowhere, Dbs
<1>9. RepliesOf(s)'
  BY <1>1 DEF RepliesOf
<1>10. WritesOf(s)'
  <2>1. \A d \in Dbs : Wrote(s, d)' = {}
    BY <1>1 DEF Wrote, Executed
  <2>2. \A d, e \in Dbs : writes[s][d] = writes[s][e]
    BY <1>1 DEF SlotInv, WritesOf
  <2>3. \E B \in SUBSET Rows : \A d \in Dbs : writes'[s][d] = B
    <3>1. 0 \in Dbs
      BY ReplicasAssumption DEF Dbs
    <3>2. writes[s][0] \in SUBSET Rows /\ \A d \in Dbs : writes'[s][d] = writes[s][0]
      BY <1>4, <2>2, <3>1 DEF TypeOK, ReplicasTypeOK
    <3> QED BY <3>2
  <2> QED BY <1>1, <1>4, <2>1, <2>2, <2>3 DEF WritesOf
<1> QED BY <1>6, <1>7, <1>8, <1>9, <1>10 DEF SlotInv

LEMMA BeginSlot ==
  ASSUME TypeOK, MutexInv, NEW s \in Slots, SlotInv(s), BeginDb(s) \/ BeginDone(s)
  PROVE  SlotInv(s)'
<1> USE DEF SlotInv
<1>1. CASE BeginDb(s)
  <2>1. /\ pc[s] = "begin" /\ idx[s] \in Dbs /\ idx'[s] = idx[s] + 1
        /\ UNCHANGED <<pc, cur, msgCnt, flag, task, res, replies>>
    BY <1>1, ReplicasAssumption DEF BeginDb, InLoop, Advance, TypeOK, Dbs
  <2>2. /\ snap'[s][idx[s]] # NoTx /\ UNCHANGED writes
        /\ \A d \in Dbs : d # idx[s] => snap'[s][d] = snap[s][d]
    <3>1. Snapshot(s, idx[s]) \in Nat
      BY <2>1, SnapshotType DEF TypeOK
    <3>2. snap' = [snap EXCEPT ![s][idx[s]] = Snapshot(s, idx[s])] /\ UNCHANGED writes
      BY <1>1 DEF BeginDb, DbBegin
    <3> QED BY <2>1, <3>1, <3>2 DEF InTx, NoTx, TypeOK, ReplicasTypeOK
  <2>3. \A d \in Dbs : InTx(s, d)' <=> InTx(s, d) \/ d = idx[s]
    BY <2>2 DEF InTx
  <2>4. TasksOf(s)' /\ FlagsOf(s)' /\ VerdictOf(s)'
    BY <2>1 DEF TasksOf, FlagsOf, VerdictOf
  <2>5. TxOf(s)'
    BY <2>1, <2>2, <2>3, ReplicasAssumption DEF TxOf, OpenEverywhere, Dbs
  <2>6. RepliesOf(s)' /\ WritesOf(s)'
    BY <2>1, <2>2 DEF RepliesOf, WritesOf
  <2> QED BY <2>4, <2>5, <2>6
<1>2. CASE BeginDone(s)
  <2>1. /\ pc[s] = "begin" /\ pc'[s] = "exec" /\ idx[s] = NDb
        /\ task'[s] = [d \in Dbs |-> "run"]
        /\ UNCHANGED <<replicaVars, cur, msgCnt, flag, res, replies>>
    BY <1>2 DEF BeginDone, LoopDone, TypeOK
  <2>2. OpenEverywhere(s) /\ OpenEverywhere(s)'
    BY <2>1, ReplicasAssumption DEF TxOf, OpenEverywhere, InTx, replicaVars, Dbs
  <2>3. \A d \in Dbs : Executed(s, d)' = 0
    BY <2>1 DEF Executed, TasksOf
  <2>4. cur[s].stmts \in Seq(Statement)
    BY StatementTypes DEF TypeOK
  <2>5. TasksOf(s)' /\ FlagsOf(s)' /\ VerdictOf(s)'
    BY <2>1, <2>3, <2>4 DEF TasksOf, FlagsOf, VerdictOf
  <2>6. TxOf(s)'
    BY <2>1, <2>2 DEF TxOf, InTx, replicaVars
  <2>7. RepliesOf(s)'
    BY <2>1 DEF RepliesOf
  <2>8. WritesOf(s)'
    <3>1. \A d \in Dbs : Wrote(s, d)' = {}
      BY <2>3 DEF Wrote
    <3>2. \A d, e \in Dbs : writes'[s][d] = writes'[s][e]
      BY <2>1 DEF WritesOf, replicaVars
    <3>3. 0 \in Dbs
      BY ReplicasAssumption DEF Dbs
    <3>4. writes' = writes
      BY <2>1 DEF replicaVars
    <3>5. writes'[s][0] \in SUBSET Rows
      BY <3>3, <3>4 DEF TypeOK, ReplicasTypeOK
    <3> QED BY <2>1, <3>1, <3>2, <3>3, <3>5 DEF WritesOf
  <2> QED BY <2>5, <2>6, <2>7, <2>8
<1> QED BY <1>1, <1>2

LEMMA CommitSlot ==
  ASSUME TypeOK, MutexInv, NEW s \in Slots, SlotInv(s), CommitDb(s) \/ CommitDone(s)
  PROVE  SlotInv(s)'
<1> USE DEF SlotInv
<1>1. CASE CommitDb(s)
  <2>1. /\ pc[s] = "commit" /\ idx[s] \in Dbs /\ idx'[s] = idx[s] + 1
        /\ UNCHANGED <<pc, cur, msgCnt, flag, task, res, replies>>
    BY <1>1, ReplicasAssumption DEF CommitDb, InLoop, Advance, TypeOK, Dbs
  <2>2. \A d \in Dbs : IF d = idx[s] THEN ~InTx(s, d)' /\ writes'[s][d] = {}
                       ELSE snap'[s][d] = snap[s][d] /\ writes'[s][d] = writes[s][d]
    BY <1>1, <2>1 DEF CommitDb, DbCommit, InTx, TypeOK, ReplicasTypeOK
  <2>3. TasksOf(s)' /\ FlagsOf(s)' /\ VerdictOf(s)'
    BY <2>1 DEF TasksOf, FlagsOf, VerdictOf
  <2>4. TxOf(s)'
    BY <2>1, <2>2 DEF TxOf, InTx, Dbs
  <2>5. RepliesOf(s)' /\ WritesOf(s)'
    BY <2>1, <2>2 DEF RepliesOf, WritesOf, Dbs
  <2> QED BY <2>3, <2>4, <2>5
<1>2. CASE CommitDone(s)
  <2>1. /\ pc[s] = "commit" /\ idx[s] = NDb /\ pc'[s] = "recv" /\ msgCnt'[s] = 0
        /\ flag'[s] = AfterCommit(flag[s]) /\ replies'[s] = Append(replies[s], "COMMITED")
        /\ UNCHANGED <<replicaVars, task, res>>
    BY <1>2 DEF CommitDone, LoopDone, TypeOK
  <2>2. \A d \in Dbs : ~InTx(s, d)' /\ writes'[s][d] = {}
    BY <2>1, ReplicasAssumption DEF TxOf, InTx, replicaVars, Dbs
  <2>3. TasksOf(s)' /\ FlagsOf(s)' /\ VerdictOf(s)'
    BY <2>1 DEF TasksOf, FlagsOf, VerdictOf, AfterCommit, TypeOK, Flags
  <2>4. replies'[s][Len(replies'[s])] = "COMMITED"
    BY <2>1 DEF TypeOK
  <2>5. TxOf(s)' /\ RepliesOf(s)' /\ WritesOf(s)'
    BY <2>1, <2>2, <2>4 DEF TxOf, RepliesOf, WritesOf, OpenNowhere
  <2> QED BY <2>3, <2>5
<1> QED BY <1>1, <1>2

LEMMA RollbackSlot ==
  ASSUME TypeOK, MutexInv, NEW s \in Slots, SlotInv(s), RollbackDb(s) \/ RollbackDone(s)
  PROVE  SlotInv(s)'
<1>1. CASE RollbackDb(s)
  <2> USE DEF SlotInv
  <2>1. /\ pc[s] = "rollback" /\ idx[s] \in Dbs /\ idx'[s] = idx[s] + 1
        /\ UNCHANGED <<pc, cur, msgCnt, flag, task, res, replies>>
    BY <1>1, ReplicasAssumption DEF RollbackDb, InLoop, Advance, TypeOK, Dbs
  <2>2. \A d \in Dbs : IF d = idx[s] THEN ~InTx(s, d)' /\ writes'[s][d] = {}
                       ELSE snap'[s][d] = snap[s][d] /\ writes'[s][d] = writes[s][d]
    BY <1>1, <2>1 DEF RollbackDb, DbRollback, InTx, TypeOK, ReplicasTypeOK
  <2>3. TasksOf(s)' /\ FlagsOf(s)' /\ VerdictOf(s)'
    BY <2>1 DEF TasksOf, FlagsOf, VerdictOf
  <2>4. TxOf(s)' /\ RepliesOf(s)' /\ WritesOf(s)'
    BY <2>1, <2>2 DEF TxOf, InTx, RepliesOf, WritesOf, Dbs
  <2> QED BY <2>3, <2>4
<1>2. CASE RollbackDone(s)
  <2> DEFINE f == [flag[s] EXCEPT !.rolled_back = TRUE]
  <2>1. /\ pc[s] = "rollback" /\ idx[s] = NDb /\ UNCHANGED <<replicaVars, task, res>>
        /\ Conclude(s, cur[s], f, replies[s])
    BY <1>2 DEF RollbackDone, LoopDone
  <2>2. \A d \in Dbs : ~InTx(s, d)' /\ writes'[s][d] = {}
    BY <2>1, ReplicasAssumption DEF SlotInv, TxOf, InTx, replicaVars, Dbs
  <2>3. \A d \in Dbs : task'[s][d] \notin {"run", "reply"}
    BY <2>1 DEF SlotInv, TasksOf
  <2>4. f \in Flags /\ f.comparator_pass = flag[s].comparator_pass
    BY DEF TypeOK, Flags
  <2>5. ControlTypes /\ replies[s] \in Seq(Replies) /\ VerdictOf(s) /\ res'[s] = res[s]
    BY <2>1 DEF TypeOK, ControlTypes, SlotInv
  <2> HIDE DEF f
  <2> QED BY <2>1, <2>2, <2>3, <2>4, <2>5, ConcludeSlot
<1> QED BY <1>1, <1>2

LEMMA LostSlot ==
  ASSUME TypeOK, MutexInv, NEW s \in Slots, SlotInv(s),
         BeginFails(s) \/ CommitFails(s) \/ RollbackFails(s)
  PROVE  SlotInv(s)'
<1> USE DEF SlotInv
<1>1. /\ pc'[s] = "lost" /\ UNCHANGED <<flag, task, res>> /\ idx[s] \in Dbs
      /\ pc[s] \in {"begin", "commit", "rollback"}
  BY ReplicasAssumption DEF BeginFails, CommitFails, RollbackFails, InLoop, TypeOK, Dbs
<1>2. \A d \in Dbs : ~InTx(s, d)' => writes'[s][d] = {}
  <2>1. CASE BeginFails(s)
    <3>1. Snapshot(s, idx[s]) \in Nat
      BY <1>1, SnapshotType DEF TypeOK
    <3> QED
      BY <1>1, <2>1, <3>1
      DEF BeginFails, DbBegin, TxOf, InTx, NoTx, TypeOK, ReplicasTypeOK, replicaVars
  <2>2. CASE CommitFails(s) \/ RollbackFails(s)
    <3>1. \A d \in Dbs : ~InTx(s, d) => writes[s][d] = {}
      BY <2>2 DEF CommitFails, RollbackFails, InLoop, TxOf
    <3>2. CASE UNCHANGED replicaVars
      BY <3>1, <3>2 DEF replicaVars, InTx
    <3>3. CASE DbCommit(s, idx[s]) \/ DbRollback(s, idx[s])
      <4>1. /\ snap' = [snap EXCEPT ![s][idx[s]] = NoTx]
            /\ writes' = [writes EXCEPT ![s][idx[s]] = {}]
        BY <3>3 DEF DbCommit, DbRollback
      <4> QED BY <1>1, <3>1, <4>1 DEF InTx, TypeOK, ReplicasTypeOK
    <3> QED BY <2>2, <3>2, <3>3 DEF CommitFails, RollbackFails
  <2> QED BY <2>1, <2>2
<1>3. TasksOf(s)' /\ FlagsOf(s)' /\ VerdictOf(s)'
  BY <1>1 DEF TasksOf, FlagsOf, VerdictOf
<1>4. TxOf(s)' /\ RepliesOf(s)' /\ WritesOf(s)'
  BY <1>1, <1>2 DEF TxOf, RepliesOf, WritesOf
<1> QED BY <1>3, <1>4

\* An executor records the result r of its next statement, which changes a
\* row if and only if r says so.
LEMMA RecordSlot ==
  ASSUME TypeOK, NEW s \in Slots, SlotInv(s), NEW d \in Dbs, Pending(s, d), NEW r,
         r.kind = NextStatement(s, d).kind, Record(s, d, r),
         UNCHANGED <<pc, cur, msgCnt, flag, idx, task, replies>>,
         \A e \in Dbs : InTx(s, e) => InTx(s, e)',
         \A e \in Dbs : writes'[s][e] =
           writes[s][e] \cup (IF e = d /\ r.kind = "dml" /\ r.rows = 1
                              THEN {NextStatement(s, d).row} ELSE {})
  PROVE  SlotInv(s)'
<1> USE DEF SlotInv
<1> DEFINE n == Executed(s, d)
<1>1. pc[s] = "exec" /\ task[s][d] = "run" /\ OpenEverywhere(s)
  BY DEF TasksOf, TxOf, Pending, Running
<1>2. /\ cur[s].stmts \in Seq(Statement) /\ n \in Nat /\ n < Len(cur[s].stmts)
      /\ res[s][d] \in Seq(Result)
  BY StatementTypes DEF TypeOK, Pending, Executed
<1>3. \A e \in Dbs : e # d => res'[s][e] = res[s][e]
  BY DEF Record, TypeOK
<1>4. res'[s][d] = Append(res[s][d], r)
  BY DEF Record, TypeOK
<1>5. /\ Executed(s, d)' = n + 1 /\ res'[s][d][n + 1] = r
      /\ \A i \in 1 .. n : res'[s][d][i] = res[s][d][i]
  BY <1>2, <1>4 DEF Executed
<1>6. TasksOf(s)'
  <2>1. \A e \in Dbs : e # d => Executed(s, e)' = Executed(s, e)
    BY <1>3 DEF Executed
  <2>2. r.kind = cur[s].stmts[n + 1].kind
    BY DEF NextStatement
  <2>3. \A i \in 1 .. n : res[s][d][i].kind = cur[s].stmts[i].kind
    BY <1>1 DEF TasksOf
  <2>4. \A i \in 1 .. n + 1 : res'[s][d][i].kind = cur[s].stmts[i].kind
    <3> SUFFICES ASSUME NEW i \in 1 .. n + 1
                 PROVE  res'[s][d][i].kind = cur[s].stmts[i].kind
      OBVIOUS
    <3> HIDE DEF n
    <3>1. CASE i = n + 1
      BY <1>5, <2>2, <3>1
    <3>2. CASE i \in 1 .. n
      BY <1>5, <2>3, <3>2
    <3> QED BY <1>2, <3>1, <3>2
  <2>5. Executed(s, d)' <= Len(cur[s].stmts)
    BY <1>2, <1>5
  <2>6. \A i \in 1 .. Executed(s, d)' : res'[s][d][i].kind = cur[s].stmts[i].kind
    BY <1>5, <2>4
  <2> HIDE DEF n
  <2> SUFFICES ASSUME NEW e \in Dbs
               PROVE  /\ Executed(s, e)' <= Len(cur[s].stmts)
                      /\ task[s][e] \in {"reply", "ok"} => Executed(s, e)' = Len(cur[s].stmts)
                      /\ \A i \in 1 .. Executed(s, e)' :
                           res'[s][e][i].kind = cur[s].stmts[i].kind
    BY <1>1 DEF TasksOf
  <2>7. CASE e = d
    BY <1>1, <2>5, <2>6, <2>7
  <2>8. CASE e # d
    BY <1>1, <1>3, <2>1, <2>8 DEF TasksOf
  <2> QED BY <2>7, <2>8
<1>7. FlagsOf(s)' /\ VerdictOf(s)' /\ RepliesOf(s)'
  BY <1>1 DEF FlagsOf, VerdictOf, RepliesOf
<1>8. TxOf(s)'
  BY <1>1 DEF TxOf, OpenEverywhere
<1>9. WritesOf(s)'
  <2>1. PICK B \in SUBSET Rows : \A e \in Dbs : writes[s][e] = B \cup Wrote(s, e)
    BY <1>1 DEF WritesOf
  <2>2. \A e \in Dbs : e # d => Wrote(s, e)' = Wrote(s, e)
    BY <1>3 DEF Wrote, Executed
  <2>3. Wrote(s, d)' = Wrote(s, d) \cup (IF r.kind = "dml" /\ r.rows = 1
                                        THEN {NextStatement(s, d).row} ELSE {})
    <3> DEFINE W(i, q) == cur[s].stmts[i].kind = "dml" /\ q[i].rows = 1
    <3>1. Wrote(s, d)' = {cur[s].stmts[i].row : i \in {j \in 1 .. n + 1 : W(j, res'[s][d])}}
      BY <1>5 DEF Wrote
    <3>2. Wrote(s, d) = {cur[s].stmts[i].row : i \in {j \in 1 .. n : W(j, res[s][d])}}
      BY DEF Wrote
    <3>3. {j \in 1 .. n + 1 : W(j, res'[s][d])} =
            {j \in 1 .. n : W(j, res[s][d])} \cup
            (IF r.kind = "dml" /\ r.rows = 1 THEN {n + 1} ELSE {})
      <4>1. W(n + 1, res'[s][d]) <=> r.kind = "dml" /\ r.rows = 1
        BY <1>5 DEF NextStatement
      <4>2. \A i \in 1 .. n : W(i, res'[s][d]) <=> W(i, res[s][d])
        BY <1>5
      <4> HIDE DEF W, n
      <4> QED BY <1>2, <4>1, <4>2
    <3>4. NextStatement(s, d).row = cur[s].stmts[n + 1].row
      BY DEF NextStatement
    <3> HIDE DEF W, n
    <3> QED BY <3>1, <3>2, <3>3, <3>4
  <2>4. \A e \in Dbs : writes'[s][e] = B \cup Wrote(s, e)'
    BY <2>1, <2>2, <2>3
  <2> QED BY <1>1, <2>4 DEF WritesOf
<1> QED BY <1>6, <1>7, <1>8, <1>9

LEMMA RunSlot ==
  ASSUME TypeOK, NEW s \in Slots, SlotInv(s), NEW d \in Dbs,
         RunSelect(s, d) \/ RunDml(s, d) \/ StatementDiverges(s, d)
  PROVE  SlotInv(s)'
<1>1. \A e \in Dbs : InTx(s, e) => InTx(s, e)'
  <2>1. Snapshot(s, d) \in Nat
    BY SnapshotType DEF TypeOK
  <2>2. snap' = [snap EXCEPT ![s][d] = Snapshot(s, d)]
    BY DEF RunSelect, RunDml, StatementDiverges, DbSelect, DbBegin, DbWrite
  <2> QED BY <2>1, <2>2 DEF InTx, NoTx, TypeOK, ReplicasTypeOK
<1>2. /\ Pending(s, d)
      /\ UNCHANGED <<pc, cur, msgCnt, flag, idx, task, replies>>
  BY DEF RunSelect, RunDml, StatementDiverges
<1>3. CASE RunSelect(s, d)
  <2> DEFINE r == [kind |-> "select", rows |-> 0,
                   hash |-> Versions(s, d, NextStatement(s, d).row)]
  <2>1. r.kind = NextStatement(s, d).kind /\ Record(s, d, r) /\ r.kind # "dml"
    BY <1>3 DEF RunSelect
  <2>2. writes' = writes
    BY <1>3 DEF RunSelect, DbSelect, DbBegin
  <2> HIDE DEF r
  <2> QED BY <1>1, <1>2, <2>1, <2>2, RecordSlot
<1>4. CASE RunDml(s, d)
  <2> DEFINE r == [kind |-> "dml", rows |-> 1, hash |-> {}]
  <2>1. /\ r.kind = NextStatement(s, d).kind /\ Record(s, d, r)
        /\ r.kind = "dml" /\ r.rows = 1
    BY <1>4 DEF RunDml
  <2>2. \A e \in Dbs : writes'[s][e] =
          writes[s][e] \cup (IF e = d THEN {NextStatement(s, d).row} ELSE {})
    BY <1>4 DEF RunDml, DbWrite, TypeOK, ReplicasTypeOK
  <2> HIDE DEF r
  <2> QED BY <1>1, <1>2, <2>1, <2>2, RecordSlot
<1>5. CASE StatementDiverges(s, d)
  <2>1. PICK r : r.kind = NextStatement(s, d).kind /\ Record(s, d, r) /\ r.rows = 0
    BY <1>5 DEF StatementDiverges
  <2>2. writes' = writes
    BY <1>5 DEF StatementDiverges, DbSelect, DbBegin
  <2> QED BY <1>1, <1>2, <2>1, <2>2, RecordSlot
<1> QED BY <1>3, <1>4, <1>5

\* The steps of a task that execute nothing.
LEMMA TaskSlot ==
  ASSUME TypeOK, NEW s \in Slots, SlotInv(s), NEW d \in Dbs,
         \/ StatementFails(s, d) \/ FirstDone(s, d)
         \/ SendResults(s, d) \/ SendFails(s, d)
  PROVE  SlotInv(s)'
<1> USE DEF SlotInv
<1>1. /\ task[s][d] \in {"run", "reply"} /\ UNCHANGED <<pc, cur, msgCnt, idx, res, writes>>
      /\ \A e \in Dbs : e # d => task'[s][e] = task[s][e]
      /\ task'[s][d] \in {"reply", "ok"} => Executed(s, d) = Len(cur[s].stmts)
      /\ \E b \in BOOLEAN : flag'[s] = [flag[s] EXCEPT !.first_done = b]
      /\ replies'[s] \in {replies[s], Append(replies[s], "RESULT")}
  <2>1. CASE StatementFails(s, d)
    BY <2>1 DEF StatementFails, DbSelect, DbBegin, Pending, Running, TypeOK, Flags
  <2>2. CASE FirstDone(s, d)
    BY <2>2 DEF FirstDone, Running, TypeOK, replicaVars
  <2>3. CASE SendResults(s, d) \/ SendFails(s, d)
    <3>1. Executed(s, d) = Len(cur[s].stmts)
      BY <2>3 DEF SendResults, SendFails, TasksOf
    <3> QED BY <2>3, <3>1 DEF SendResults, SendFails, TypeOK, replicaVars, Flags
  <2> QED BY <2>1, <2>2, <2>3
<1>2. pc[s] = "exec" /\ OpenEverywhere(s) /\ Undecided(flag[s]) /\ ~flag[s].comparator_pass
  BY <1>1 DEF TasksOf, TxOf, FlagsOf
<1>3. \A e \in Dbs : InTx(s, e)'
  <2>1. CASE StatementFails(s, d)
    <3>1. Snapshot(s, d) \in Nat
      BY SnapshotType DEF TypeOK
    <3> QED BY <1>2, <2>1, <3>1 DEF StatementFails, DbSelect, DbBegin, InTx, NoTx,
                                    OpenEverywhere, TypeOK, ReplicasTypeOK
  <2>2. CASE FirstDone(s, d) \/ SendResults(s, d) \/ SendFails(s, d)
    BY <1>2, <2>2 DEF FirstDone, SendResults, SendFails, InTx, OpenEverywhere, replicaVars
  <2> QED BY <2>1, <2>2
<1>4. FlagsOf(s)' /\ VerdictOf(s)'
  <2>1. Undecided(flag[s])' /\ ~flag'[s].comparator_pass
    BY <1>1, <1>2 DEF Undecided, TypeOK, Flags
  <2> QED BY <1>1, <1>2, <2>1 DEF FlagsOf, VerdictOf
<1>5. TasksOf(s)'
  BY <1>1, <1>2 DEF TasksOf, Executed
<1>6. TxOf(s)'
  BY <1>1, <1>2, <1>3 DEF TxOf, OpenEverywhere
<1>7. RepliesOf(s)'
  <2>1. replies[s] \in Seq(Replies) /\ \A i \in 1 .. Len(replies[s]) : replies[s][i] = "RESULT"
    BY <1>2 DEF RepliesOf, TypeOK
  <2>2. \A i \in 1 .. Len(replies'[s]) : replies'[s][i] = "RESULT"
    BY <1>1, <2>1
  <2> QED BY <1>1, <1>2, <2>2 DEF RepliesOf
<1>8. WritesOf(s)'
  <2>1. \A e \in Dbs : Wrote(s, e)' = Wrote(s, e)
    BY <1>1 DEF Wrote, Executed
  <2> QED BY <1>1, <1>2, <2>1 DEF WritesOf
<1> QED BY <1>4, <1>5, <1>6, <1>7, <1>8

LEMMA AcceptSlot ==
  ASSUME TypeOK, NEW s \in Slots, SlotInv(s), Accept(s)
  PROVE  SlotInv(s)'
<1> USE DEF SlotInv
<1>1. /\ pc[s] = "exec" /\ pc'[s] = "recv" /\ AllOk(s) /\ ComparatorPass(s)
      /\ flag'[s] = [flag[s] EXCEPT !.verify_completed = TRUE, !.comparator_pass = TRUE]
      /\ UNCHANGED <<replicaVars, msgCnt, task, res, replies>>
  BY DEF Accept, TypeOK
<1>2. \A d \in Dbs : /\ InTx(s, d) /\ InTx(s, d)' /\ writes'[s][d] = writes[s][d]
                     /\ Executed(s, d) = Len(cur[s].stmts)
                     /\ \A i \in 1 .. Executed(s, d) :
                          res[s][d][i].kind = cur[s].stmts[i].kind
  BY <1>1 DEF TxOf, OpenEverywhere, InTx, replicaVars, AllOk, TasksOf
<1>3. Undecided(flag'[s])
  BY <1>1 DEF FlagsOf, Undecided, TypeOK, Flags
<1>4. \A d, e \in Dbs : \A i \in 1 .. Len(cur[s].stmts) :
        cur[s].stmts[i].kind = "dml" => res[s][d][i].rows = res[s][e][i].rows
  BY <1>1, <1>2 DEF ComparatorPass, Accepted
<1>5. TasksOf(s)' /\ FlagsOf(s)'
  BY <1>1 DEF TasksOf, FlagsOf, AllOk
<1>6. VerdictOf(s)'
  BY <1>1, <1>2, <1>4 DEF VerdictOf, Executed
<1>7. TxOf(s)'
  BY <1>1, <1>2, <1>3 DEF TxOf, OpenEverywhere
<1>8. RepliesOf(s)'
  <2>1. replies[s] \in Seq(Replies) /\ \A i \in 1 .. Len(replies[s]) : replies[s][i] = "RESULT"
    BY <1>1 DEF RepliesOf, TypeOK
  <2>2. replies[s] # <<>> => replies[s][Len(replies[s])] = "RESULT"
    BY <2>1
  <2> QED BY <1>1, <1>2, <2>2 DEF RepliesOf, OpenEverywhere
<1>9. WritesOf(s)'
  <2>1. \A d, e \in Dbs : Wrote(s, d) = Wrote(s, e)
    <3> SUFFICES ASSUME NEW d \in Dbs, NEW e \in Dbs PROVE Wrote(s, d) = Wrote(s, e)
      OBVIOUS
    <3> DEFINE N == 1 .. Len(cur[s].stmts)
               D(a) == {j \in N : cur[s].stmts[j].kind = "dml" /\ res[s][a][j].rows = 1}
    <3>1. \A a \in Dbs : Wrote(s, a) = {cur[s].stmts[i].row : i \in D(a)}
      BY <1>2 DEF Wrote
    <3>2. D(d) = D(e)
      BY <1>4
    <3> HIDE DEF D
    <3> QED BY <3>1, <3>2
  <2>2. \A d, e \in Dbs : writes[s][d] = writes[s][e]
    BY <1>1, <2>1 DEF WritesOf
  <2> QED BY <1>1, <1>2, <2>2 DEF WritesOf
<1> QED BY <1>5, <1>6, <1>7, <1>8, <1>9

LEMMA RejectSlot ==
  ASSUME TypeOK, MutexInv, NEW s \in Slots, SlotInv(s), Disagree(s) \/ ExecutorFailed(s)
  PROVE  SlotInv(s)'
<1>1. PICK f \in Flags :
        /\ pc[s] = "exec" /\ SameWork(s) /\ idx' = idx
        /\ Joined(s) /\ Abandon(s, cur[s], f, replies[s])
        /\ f.comparator_pass => flag[s].comparator_pass
        /\ Undecided(flag[s]) => Undecided(f)
  <2>1. CASE Disagree(s)
    <3> DEFINE f == [flag[s] EXCEPT !.verify_completed = TRUE, !.comparator_pass = FALSE]
    <3>1. f \in Flags /\ ~f.comparator_pass /\ (Undecided(flag[s]) => Undecided(f))
      BY DEF TypeOK, Flags, Undecided
    <3>2. /\ Abandon(s, cur[s], f, replies[s]) /\ AllOk(s) /\ pc[s] = "exec"
          /\ SameWork(s) /\ idx' = idx
      BY <2>1 DEF Disagree, SameWork, replicaVars
    <3>3. Joined(s)
      BY <3>2 DEF AllOk, Joined
    <3> HIDE DEF f
    <3> QED BY <3>1, <3>2, <3>3
  <2>2. CASE ExecutorFailed(s)
    <3>1. flag[s] \in Flags
      BY DEF TypeOK
    <3> QED BY <2>2, <3>1 DEF ExecutorFailed, SameWork, replicaVars
  <2> QED BY <2>1, <2>2
<1>2. idx'[s] = 0
  BY <1>1, AdjudicatorAssumption DEF MutexInv
<1>3. Undecided(f) /\ ~f.comparator_pass
  BY <1>1 DEF SlotInv, FlagsOf
<1>4. \A d \in Dbs : task[s][d] \notin {"run", "reply"}
  BY <1>1 DEF Joined
<1>5. ControlTypes /\ cur[s] \in Message /\ replies[s] \in Seq(Replies)
  BY DEF TypeOK, ControlTypes
<1> QED BY <1>1, <1>2, <1>3, <1>4, <1>5, AbandonSlot

LEMMA SlotStep ==
  ASSUME TypeOK, MutexInv, NEW s \in Slots, SlotInv(s), Step(s)
  PROVE  SlotInv(s)'
<1>1. CASE Lock(s)
  <2>1. SameSlot(s)
    BY <1>1 DEF Lock, SameSlot, replicaVars
  <2> QED BY <2>1, SameSlotInv
<1> QED
  BY StepCases, <1>1, SessionSlot, ReceiveCommitSlot, ReceiveEndSlot, ReceiveRequestSlot,
     BeginSlot, CommitSlot, RollbackSlot, LostSlot, RunSlot, TaskSlot, AcceptSlot, RejectSlot

-----------------------------------------------------------------------------
(* The logs and the snapshots.                                             *)

\* A broken commit stays broken: its slot takes no further step.
LEMMA IntactStep ==
  ASSUME TypeOK, NEW s \in Slots, SlotInv(s), Step(s), Intact'
  PROVE  Intact
<1>1. pc[s] # "lost"
  <2>1. SlotInv(s) => \A d \in Dbs : task[s][d] \in {"run", "reply"} => pc[s] = "exec"
    BY DEF SlotInv, TasksOf
  <2> QED
    BY <2>1, StepCases
    DEF StartSession, EndSession, ReceiveCommit, ReceiveEnd, ReceiveRequest, Lock,
        BeginDb, BeginDone, CommitDb, CommitDone, RollbackDb, RollbackDone,
        BeginFails, CommitFails, RollbackFails, InLoop, LoopDone,
        RunSelect, RunDml, StatementDiverges, StatementFails, Pending, Running,
        FirstDone, SendResults, SendFails, Accept, Disagree, ExecutorFailed
<1>2. \A t \in Slots \ {s} : CommitBroken(t) => CommitBroken(t)'
  BY Locality DEF CommitBroken, SameSlot
<1> QED BY <1>1, <1>2 DEF Intact, CommitBroken

\* Only the commit loop writes a log; every other step leaves them alone and
\* either leaves the mutex and its holder alone or has no database passed.
LEMMA LogSteps ==
  ASSUME TypeOK, MutexInv, NEW s \in Slots, SlotInv(s), Step(s)
  PROVE  \/ CommitDb(s) \/ CommitDone(s) \/ CommitFails(s)
         \/ /\ log' = log
            /\ \/ mx # s /\ mx' = mx
               \/ \A d \in Dbs : ~Passed(d) /\ ~Passed(d)'
<1>1. CASE \/ StartSession(s) \/ EndSession(s) \/ ReceiveCommit(s)
           \/ \E type \in {"ROLLBACK", "DISCONNECT", "SOCKET_ERROR"} : ReceiveEnd(s, type)
           \/ \E m \in Message : m.type \in {"SQL", "COMMIT"} /\ ReceiveRequest(s, m)
           \/ Accept(s) \/ Disagree(s) \/ ExecutorFailed(s)
  <2>1. pc[s] \in {"free", "over", "recv", "exec"} /\ mx' = mx /\ log' = log
    BY <1>1 DEF StartSession, EndSession, ReceiveCommit, ReceiveEnd, ReceiveRequest,
                Accept, Disagree, ExecutorFailed, DbDisconnect, replicaVars
  <2>2. mx # s
    BY <2>1, AdjudicatorAssumption DEF MutexInv
  <2> QED BY <2>1, <2>2
<1>2. CASE Lock(s)
  <2>1. log' = log /\ mx = Free /\ mx' = s /\ idx' = idx /\ idx[s] = 0
    BY <1>2, AdjudicatorAssumption DEF Lock, MutexInv, replicaVars
  <2> QED BY <2>1 DEF Passed, Dbs
<1>3. CASE BeginDb(s) \/ RollbackDb(s)
  <2>1. log' = log /\ mx = s /\ mx' = s /\ pc[s] # "commit" /\ pc' = pc
    BY <1>3 DEF BeginDb, RollbackDb, InLoop, DbBegin, DbRollback
  <2> QED BY <2>1 DEF Passed
<1>4. CASE BeginDone(s) \/ BeginFails(s) \/ RollbackDone(s) \/ RollbackFails(s)
  <2>1. log' = log /\ mx = s /\ mx' = Free /\ pc[s] # "commit"
    BY <1>4 DEF BeginDone, BeginFails, RollbackDone, RollbackFails, InLoop, LoopDone,
                Unlock, DbBegin, DbRollback, replicaVars
  <2> QED BY <2>1 DEF Passed
<1>5. CASE \E d \in Dbs : \/ RunSelect(s, d) \/ RunDml(s, d)
                          \/ StatementFails(s, d) \/ StatementDiverges(s, d)
                          \/ FirstDone(s, d) \/ SendResults(s, d) \/ SendFails(s, d)
  <2>1. log' = log /\ mx' = mx
    BY <1>5 DEF RunSelect, RunDml, StatementFails, StatementDiverges, FirstDone, SendResults,
                SendFails, DbSelect, DbBegin, DbWrite, replicaVars
  <2>2. pc[s] = "exec"
    BY <1>5 DEF RunSelect, RunDml, StatementFails, StatementDiverges, Pending, Running,
                FirstDone, SendResults, SendFails, SlotInv, TasksOf
  <2>3. mx # s
    BY <2>2, AdjudicatorAssumption DEF MutexInv
  <2> QED BY <2>1, <2>3
<1> QED BY StepCases, <1>1, <1>2, <1>3, <1>4, <1>5

LEMMA LogStep ==
  ASSUME TypeOK, MutexInv, NEW s \in Slots, \A t \in Slots : SlotInv(t), LogInv, Step(s)
  PROVE  LogInv'
<1> SUFFICES ASSUME Intact', NEW d \in Dbs, NEW e \in Dbs
             PROVE  /\ (Passed(d)' <=> Passed(e)') => log'[d] = log'[e]
                    /\ Passed(d)' /\ ~Passed(e)' => log'[d] = Published(mx, e)'
  BY DEF LogInv
<1>1. Intact
  BY IntactStep
<1>2. \A a, b \in Dbs : /\ (Passed(a) <=> Passed(b)) => log[a] = log[b]
                        /\ Passed(a) /\ ~Passed(b) => log[a] = Published(mx, b)
  BY <1>1 DEF LogInv
<1>3. mx \in Slots \cup {Free}
  BY DEF TypeOK
<1>4. CASE CommitDb(s)
  <2> DEFINE k == idx[s]
  <2>1. /\ mx = s /\ mx' = s /\ pc[s] = "commit" /\ pc'[s] = "commit"
        /\ k \in Dbs /\ idx'[s] = k + 1 /\ s # Free
    BY <1>4, ReplicasAssumption, AdjudicatorAssumption
    DEF CommitDb, InLoop, Advance, TypeOK, Dbs
  <2>2. \A a \in Dbs : (Passed(a) <=> a < k) /\ (Passed(a)' <=> a <= k)
    BY <2>1 DEF Passed, Dbs
  <2>3. /\ log'[k] = Published(s, k)
        /\ \A a \in Dbs : a # k => log'[a] = log[a] /\ writes'[s][a] = writes[s][a]
    BY <1>4, <2>1 DEF CommitDb, DbCommit, Published, TypeOK, ReplicasTypeOK
  <2>4. \A a \in Dbs : k < a => writes[s][a] = writes[s][k] /\ log[a] = log[k]
    <3>1. \A a \in Dbs : k < a => writes[s][a] = writes[s][k]
      BY <2>1 DEF SlotInv, WritesOf, Dbs
    <3>2. \A a \in Dbs : k < a => log[a] = log[k]
      <4> SUFFICES ASSUME NEW a \in Dbs, k < a PROVE log[a] = log[k]
        OBVIOUS
      <4>1. ~Passed(a) /\ ~Passed(k)
        BY <2>1, <2>2 DEF Dbs
      <4> QED BY <1>2, <2>1, <4>1
    <3> QED BY <3>1, <3>2
  <2>5. \A a \in Dbs : a <= k => log'[a] = Published(s, k)
    <3> SUFFICES ASSUME NEW a \in Dbs, a <= k PROVE log'[a] = Published(s, k)
      OBVIOUS
    <3>1. CASE a = k
      BY <2>3, <3>1
    <3>2. CASE a # k
      <4>1. Passed(a) /\ ~Passed(k)
        BY <2>1, <2>2, <3>2 DEF Dbs
      <4> QED BY <1>2, <2>1, <2>3, <3>2, <4>1
    <3> QED BY <3>1, <3>2
  <2>6. \A a \in Dbs : k < a => Published(mx, a)' = Published(s, k)
    <3> SUFFICES ASSUME NEW a \in Dbs, k < a PROVE Published(mx, a)' = Published(s, k)
      OBVIOUS
    <3>1. a # k
      BY <2>1 DEF Dbs
    <3>2. writes'[s][a] = writes[s][k] /\ log'[a] = log[k]
      BY <2>3, <2>4, <3>1
    <3> QED BY <2>1, <3>2 DEF Published
  <2>7. \A a \in Dbs : k < a => log'[a] = log[k]
    <3> SUFFICES ASSUME NEW a \in Dbs, k < a PROVE log'[a] = log[k]
      OBVIOUS
    <3>1. a # k
      BY <2>1 DEF Dbs
    <3> QED BY <2>3, <2>4, <3>1
  <2>8. \A a \in Dbs : a <= k \/ k < a
    BY <2>1 DEF Dbs
  <2>9. \A a \in Dbs : ~(a <= k /\ k < a)
    BY <2>1 DEF Dbs
  <2> HIDE DEF k
  <2> QED BY <2>2, <2>5, <2>6, <2>7, <2>8, <2>9
<1>5. CASE CommitDone(s)
  <2>1. /\ mx = s /\ pc[s] = "commit" /\ idx[s] = NDb /\ s # Free
        /\ mx' = Free /\ log' = log
    BY <1>5, AdjudicatorAssumption DEF CommitDone, LoopDone, Unlock, replicaVars
  <2>2. \A a \in Dbs : Passed(a) /\ ~Passed(a)'
    BY <2>1, ReplicasAssumption DEF Passed, Dbs
  <2> QED BY <1>2, <2>1, <2>2
<1>6. CASE CommitFails(s)
  <2>1. CommitBroken(s)'
    BY <1>6 DEF CommitFails, InLoop, CommitBroken, TypeOK, SlotInv, FlagsOf
  <2> QED BY <2>1 DEF Intact
<1>7. CASE log' = log /\ mx # s /\ mx' = mx
  <2>1. CASE mx = Free
    BY <1>2, <1>7, <2>1 DEF Passed
  <2>2. CASE mx # Free
    <3>1. mx \in Slots \ {s}
      BY <1>3, <1>7, <2>2
    <3>2. pc'[mx] = pc[mx] /\ idx'[mx] = idx[mx] /\ writes'[mx] = writes[mx]
      BY <3>1, Locality DEF SameSlot
    <3>3. \A a \in Dbs : (Passed(a)' <=> Passed(a)) /\ Published(mx, a)' = Published(mx, a)
      BY <1>7, <3>2 DEF Passed, Published
    <3> QED BY <1>2, <1>7, <3>3
  <2> QED BY <2>1, <2>2
<1>8. CASE log' = log /\ \A a \in Dbs : ~Passed(a) /\ ~Passed(a)'
  BY <1>2, <1>8
<1> QED BY LogSteps, <1>4, <1>5, <1>6, <1>7, <1>8

\* What a step does to the snapshots of its slot: it keeps them, or it closes
\* the transaction at some databases, or it belongs to the begin loop.
LEMMA SnapSteps ==
  ASSUME TypeOK, MutexInv, NEW s \in Slots, SlotInv(s), Step(s)
  PROVE  \/ BeginDb(s) \/ BeginFails(s)
         \/ snap'[s] = snap[s] /\ pc'[s] = pc[s] /\ idx'[s] = idx[s]
         \/ /\ \A d \in Dbs : InTx(s, d)' => snap'[s][d] = snap[s][d]
            /\ pc'[s] = "begin" => idx'[s] = 0
<1>1. CASE \/ StartSession(s) \/ ReceiveCommit(s)
           \/ BeginDone(s) \/ CommitDone(s) \/ Accept(s)
  BY <1>1 DEF StartSession, ReceiveCommit, BeginDone, CommitDone, Accept, TypeOK, replicaVars
<1>2. CASE EndSession(s)
  BY <1>2 DEF EndSession, DbDisconnect, InTx, TypeOK, ReplicasTypeOK
<1>3. CASE \/ \E type \in {"ROLLBACK", "DISCONNECT", "SOCKET_ERROR"} : ReceiveEnd(s, type)
           \/ RollbackDone(s) \/ Disagree(s) \/ ExecutorFailed(s)
  <2>1. ControlTypes
    BY DEF TypeOK, ControlTypes
  <2>2. snap' = snap /\ pc'[s] \in {"recv", "over", "rollback"}
    BY <1>3, <2>1, ConcludePc
    DEF ReceiveEnd, RollbackDone, Disagree, ExecutorFailed, replicaVars
  <2> QED BY <2>2
<1>4. CASE \E m \in Message : m.type \in {"SQL", "COMMIT"} /\ ReceiveRequest(s, m)
  <2>1. snap' = snap /\ idx'[s] = idx[s] /\ idx[s] = 0
    BY <1>4, AdjudicatorAssumption DEF ReceiveRequest, MutexInv, replicaVars
  <2> QED BY <2>1
<1>5. CASE Lock(s)
  BY <1>5 DEF Lock, replicaVars
<1>6. CASE CommitDb(s) \/ CommitFails(s) \/ RollbackDb(s) \/ RollbackFails(s)
  <2>1. /\ snap' = snap \/ snap' = [snap EXCEPT ![s][idx[s]] = NoTx]
        /\ pc'[s] # "begin"
    BY <1>6 DEF CommitDb, CommitFails, RollbackDb, RollbackFails, DbCommit, DbRollback,
                InLoop, TypeOK, replicaVars
  <2>2. \A d \in Dbs : snap'[s][d] = snap[s][d] \/ snap'[s][d] = NoTx
    BY <2>1 DEF TypeOK, ReplicasTypeOK
  <2> QED BY <2>1, <2>2 DEF InTx
<1>7. CASE \E d \in Dbs : \/ RunSelect(s, d) \/ RunDml(s, d)
                          \/ StatementFails(s, d) \/ StatementDiverges(s, d)
  <2>1. PICK d \in Dbs : /\ snap' = [snap EXCEPT ![s][d] = Snapshot(s, d)]
                         /\ pc' = pc /\ idx' = idx /\ Running(s, d)
    BY <1>7 DEF RunSelect, RunDml, StatementFails, StatementDiverges, Pending,
                DbSelect, DbBegin, DbWrite
  <2>2. Snapshot(s, d) = snap[s][d]
    BY <2>1 DEF Running, SlotInv, TasksOf, TxOf, OpenEverywhere, Snapshot
  <2>3. snap' = snap
    BY <2>1, <2>2 DEF TypeOK, ReplicasTypeOK
  <2> QED BY <2>1, <2>3
<1>8. CASE \E d \in Dbs : FirstDone(s, d) \/ SendResults(s, d) \/ SendFails(s, d)
  BY <1>8 DEF FirstDone, SendResults, SendFails, replicaVars
<1> QED BY StepCases, <1>1, <1>2, <1>3, <1>4, <1>5, <1>6, <1>7, <1>8

LEMMA SnapStep ==
  ASSUME TypeOK, MutexInv, NEW s \in Slots, \A t \in Slots : SlotInv(t),
         LogInv, SnapInv, Step(s)
  PROVE  SnapInv'
<1> SUFFICES ASSUME Intact', NEW t \in Slots
             PROVE  /\ \A d, e \in Dbs : InTx(t, d)' /\ InTx(t, e)' => snap'[t][d] = snap'[t][e]
                    /\ pc'[t] = "begin" => \/ OpenEverywhere(t)'
                                           \/ \A d \in Dbs : d < idx'[t] => snap'[t][d] = Len(log'[d])
  BY DEF SnapInv
<1>1. Intact
  BY IntactStep
<1>2. /\ \A d, e \in Dbs : InTx(t, d) /\ InTx(t, e) => snap[t][d] = snap[t][e]
      /\ pc[t] = "begin" => \/ OpenEverywhere(t)
                            \/ \A d \in Dbs : d < idx[t] => snap[t][d] = Len(log[d])
  BY <1>1 DEF SnapInv
<1>3. CASE snap'[t] = snap[t] /\ pc'[t] = pc[t] /\ idx'[t] = idx[t]
  <2>1. log' = log \/ idx[t] = 0 \/ pc[t] # "begin"
    <3>1. CASE mx # t
      BY <3>1 DEF MutexInv
    <3>2. CASE mx = t
      <4>1. CASE CommitDb(s) \/ CommitDone(s) \/ CommitFails(s)
        BY <3>2, <4>1 DEF CommitDb, CommitDone, CommitFails, InLoop, LoopDone
      <4> QED BY <4>1, LogSteps
    <3> QED BY <3>1, <3>2
  <2>2. CASE idx[t] = 0
    BY <1>2, <1>3, <2>2 DEF InTx, Dbs
  <2>3. CASE log' = log \/ pc[t] # "begin"
    BY <1>2, <1>3, <2>3 DEF InTx, OpenEverywhere
  <2> QED BY <2>1, <2>2, <2>3
<1>4. CASE t # s
  BY <1>3, <1>4, Locality DEF SameSlot
<1>5. CASE t = s /\ (BeginDb(s) \/ BeginFails(s))
  <2> DEFINE k == idx[s]
  <2>1. /\ mx = s /\ pc[s] = "begin" /\ k \in Dbs /\ s # Free
        /\ BeginDb(s) \/ pc'[s] = "lost"
        /\ BeginDb(s) => idx'[s] = k + 1
        /\ log' = log
        /\ \/ BeginFails(s) /\ snap' = snap
           \/ snap' = [snap EXCEPT ![s][k] = Snapshot(s, k)]
    BY <1>5, ReplicasAssumption, AdjudicatorAssumption
    DEF BeginDb, BeginFails, InLoop, Advance, DbBegin, TypeOK, Dbs, replicaVars
  <2>2. CASE BeginFails(s) /\ snap' = snap
    BY <1>2, <1>5, <2>1, <2>2 DEF InTx, BeginFails, TypeOK
  <2>3. CASE snap' = [snap EXCEPT ![s][k] = Snapshot(s, k)]
    <3>1. /\ snap'[s][k] = Snapshot(s, k)
          /\ \A d \in Dbs : d # k => snap'[s][d] = snap[s][d]
      BY <2>1, <2>3 DEF TypeOK, ReplicasTypeOK
    <3>2. CASE OpenEverywhere(s)
      <4>1. Snapshot(s, k) = snap[s][k]
        BY <2>1, <3>2 DEF Snapshot, OpenEverywhere
      <4>2. \A d \in Dbs : snap'[s][d] = snap[s][d]
        BY <3>1, <4>1
      <4> QED BY <1>2, <1>5, <3>2, <4>2 DEF InTx, OpenEverywhere
    <3>3. CASE ~OpenEverywhere(s)
      <4>1. \A d \in Dbs : InTx(s, d) <=> d < k
        BY <2>1, <3>3 DEF SlotInv, TxOf
      <4>2. \A d \in Dbs : d < k => snap[s][d] = Len(log[d])
        BY <1>2, <1>5, <2>1, <3>3
      <4>3. snap'[s][k] = Len(log[k])
        BY <2>1, <3>1, <4>1 DEF Snapshot, Dbs
      <4>4. \A d \in Dbs : d <= k => snap'[s][d] = Len(log[d])
        <5> SUFFICES ASSUME NEW d \in Dbs, d <= k PROVE snap'[s][d] = Len(log[d])
          OBVIOUS
        <5>1. CASE d = k
          BY <4>3, <5>1
        <5>2. CASE d # k
          BY <2>1, <3>1, <4>2, <5>2 DEF Dbs
        <5> QED BY <5>1, <5>2
      <4>5. \A d \in Dbs : InTx(s, d)' => d <= k
        <5> SUFFICES ASSUME NEW d \in Dbs, InTx(s, d)', d # k PROVE d <= k
          BY <2>1 DEF Dbs
        <5> QED BY <2>1, <3>1, <4>1 DEF InTx, Dbs
      <4>6. \A d, e \in Dbs : log[d] = log[e]
        BY <1>1, <2>1 DEF LogInv, Passed
      <4>7. \A d, e \in Dbs : InTx(s, d)' /\ InTx(s, e)' => snap'[s][d] = snap'[s][e]
        <5> SUFFICES ASSUME NEW d \in Dbs, NEW e \in Dbs, InTx(s, d)', InTx(s, e)'
                     PROVE  snap'[s][d] = snap'[s][e]
          OBVIOUS
        <5>1. snap'[s][d] = Len(log[d]) /\ snap'[s][e] = Len(log[e])
          BY <4>4, <4>5
        <5> QED BY <4>6, <5>1
      <4>8. pc'[s] = "begin" => \A d \in Dbs : d < idx'[s] => snap'[s][d] = Len(log'[d])
        <5> SUFFICES ASSUME pc'[s] = "begin", NEW d \in Dbs, d < idx'[s]
                     PROVE  snap'[s][d] = Len(log'[d])
          OBVIOUS
        <5>1. d <= k
          BY <2>1 DEF Dbs
        <5> QED BY <2>1, <4>4, <5>1
      <4> QED BY <1>5, <4>7, <4>8
    <3> QED BY <3>2, <3>3
  <2> QED BY <2>1, <2>2, <2>3
<1>6. CASE /\ t = s
           /\ pc'[s] = "begin" => idx'[s] = 0
           /\ \A d \in Dbs : InTx(s, d)' => snap'[s][d] = snap[s][d]
  <2>1. \A d, e \in Dbs : InTx(s, d)' /\ InTx(s, e)' => snap'[s][d] = snap'[s][e]
    BY <1>2, <1>6 DEF InTx
  <2>2. pc'[s] = "begin" => \A d \in Dbs : ~(d < idx'[s])
    BY <1>6 DEF Dbs
  <2> QED BY <1>6, <2>1, <2>2
<1> QED BY SnapSteps, <1>3, <1>4, <1>5, <1>6

-----------------------------------------------------------------------------
(* The inductive invariant.                                                *)

LEMMA InitIInv == Init => IInv
<1> SUFFICES ASSUME Init PROVE IInv
  OBVIOUS
<1>1. TypeOK
  BY InitTypeOK
<1>2. /\ mx = Free /\ \A s \in Slots : idx[s] = 0
      /\ \A s \in Slots : pc[s] = "free"
      /\ \A s \in Slots : OpenNowhere(s) /\ flag[s] = NoFlags
      /\ \A s \in Slots : \A d \in Dbs : task[s][d] = "none" /\ writes[s][d] = {}
      /\ \A d \in Dbs : log[d] = <<>>
  BY DEF Init, ReplicasInit, OpenNowhere, InTx
<1>3. MutexInv
  BY <1>2 DEF MutexInv
<1>4. ASSUME NEW s \in Slots PROVE SlotInv(s)
  <2>1. TasksOf(s) /\ FlagsOf(s) /\ VerdictOf(s)
    BY <1>2 DEF TasksOf, FlagsOf, VerdictOf, NoFlags
  <2>2. TxOf(s) /\ RepliesOf(s) /\ WritesOf(s)
    BY <1>2 DEF TxOf, RepliesOf, WritesOf
  <2> QED BY <2>1, <2>2 DEF SlotInv
<1>5. LogInv
  BY <1>2 DEF LogInv, Passed
<1>6. SnapInv
  BY <1>2 DEF SnapInv, OpenNowhere
<1> QED BY <1>1, <1>3, <1>4, <1>5, <1>6 DEF IInv

LEMMA StepIInv == IInv /\ [Next]_vars => IInv'
<1> SUFFICES ASSUME IInv, [Next]_vars PROVE IInv'
  OBVIOUS
<1>1. CASE Next
  <2>1. PICK s \in Slots : Step(s)
    BY <1>1 DEF Next
  <2>2. TypeOK /\ MutexInv /\ (\A t \in Slots : SlotInv(t)) /\ LogInv /\ SnapInv
    BY DEF IInv
  <2>3. TypeOK'
    BY <2>1, <2>2, StepTypeOK
  <2>4. MutexInv'
    BY <2>1, <2>2, MutexStep
  <2>5. ASSUME NEW t \in Slots PROVE SlotInv(t)'
    <3>1. CASE t = s
      BY <2>1, <2>2, <3>1, SlotStep
    <3>2. CASE t # s
      BY <2>1, <2>2, <3>2, Locality, SameSlotInv
    <3> QED BY <3>1, <3>2
  <2>6. LogInv' /\ SnapInv'
    BY <2>1, <2>2, LogStep, SnapStep
  <2> QED BY <2>3, <2>4, <2>5, <2>6 DEF IInv
<1>2. CASE UNCHANGED vars
  <2>1. \A t \in Slots : SameSlot(t)
    BY <1>2 DEF vars, SameSlot
  <2>2. TypeOK'
    BY <1>2 DEF IInv, TypeOK, ReplicasTypeOK, vars
  <2>3. MutexInv'
    BY <1>2 DEF IInv, MutexInv, vars
  <2>4. ASSUME NEW t \in Slots PROVE SlotInv(t)'
    BY <2>1, SameSlotInv DEF IInv
  <2>5. LogInv' /\ SnapInv'
    BY <1>2 DEF IInv, LogInv, SnapInv, Intact, CommitBroken, Passed, Published, InTx,
                OpenEverywhere, vars
  <2> QED BY <2>2, <2>3, <2>4, <2>5 DEF IInv
<1> QED BY <1>1, <1>2

\* Invariance: IInv holds in every reachable state, for any number of slots,
\* databases and rows and any set of requests and faults.
THEOREM Invariance == Spec => []IInv
<1>1. Init => IInv
  BY InitIInv
<1>2. IInv /\ [Next]_vars => IInv'
  BY StepIInv
<1> QED BY <1>1, <1>2, PTL DEF Spec

-----------------------------------------------------------------------------
(* The safety properties.                                                  *)

\* AgreedLogsCorrect: unless a Commit failed half-way, all replicas have
\* committed the same transactions in the same order whenever nobody holds
\* db_adjudicator::mx.
THEOREM AgreedLogsCorrect == Spec => []AgreedLogs
<1>1. IInv => AgreedLogs
  BY DEF IInv, LogInv, Passed, AgreedLogs
<1> QED BY <1>1, Invariance, PTL

\* ConsistentSnapshotsCorrect: start_request gives a transaction the same
\* snapshot at all databases, and it stays the same.
THEOREM ConsistentSnapshotsCorrect == Spec => []ConsistentSnapshots
<1>1. IInv => ConsistentSnapshots
  BY DEF IInv, SnapInv, ConsistentSnapshots
<1> QED BY <1>1, Invariance, PTL

\* NoImplicitBeginCorrect: msg_cnt never lets execute_request run statements
\* outside a transaction that start_request opened everywhere.
THEOREM NoImplicitBeginCorrect == Spec => []NoImplicitBegin
<1>1. IInv => NoImplicitBegin
  BY DEF IInv, SlotInv, TxOf, NoImplicitBegin
<1> QED BY <1>1, Invariance, PTL

\* RepliesTrueCorrect: the last answer sent to a client agrees with what the
\* databases hold of its transaction.
THEOREM RepliesTrueCorrect == Spec => []RepliesTrue
<1>1. IInv => RepliesTrue
  <2> SUFFICES ASSUME IInv, NEW s \in Slots, pc[s] = "recv", replies[s] # <<>>
               PROVE  IF replies[s][Len(replies[s])] = "RESULT"
                      THEN OpenEverywhere(s)
                      ELSE OpenNowhere(s) /\ \A d \in Dbs : writes[s][d] = {}
    BY DEF RepliesTrue
  <2>1. IF replies[s][Len(replies[s])] = "RESULT" THEN OpenEverywhere(s) ELSE OpenNowhere(s)
    BY DEF IInv, SlotInv, RepliesOf
  <2>2. OpenNowhere(s) => \A d \in Dbs : writes[s][d] = {}
    BY DEF IInv, SlotInv, TxOf, OpenNowhere
  <2> QED BY <2>1, <2>2
<1> QED BY <1>1, Invariance, PTL

\* SessionEndsCleanCorrect: when process_request returns, no database has a
\* transaction of the slot open any more.
THEOREM SessionEndsCleanCorrect == Spec => []SessionEndsClean
<1>1. IInv => SessionEndsClean
  BY DEF IInv, SlotInv, TxOf, SessionEndsClean
<1> QED BY <1>1, Invariance, PTL

\* CommitNeedsMatchingDmlCorrect: verify_request's verdict, the licence to
\* commit, stands only over DML statements that changed equally many rows at
\* all databases.
THEOREM CommitNeedsMatchingDmlCorrect == Spec => []CommitNeedsMatchingDml
<1>1. IInv => CommitNeedsMatchingDml
  BY DEF IInv, SlotInv, VerdictOf, CommitNeedsMatchingDml
<1> QED BY <1>1, Invariance, PTL
=============================================================================
