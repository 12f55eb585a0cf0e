---------------------------- MODULE DivRepProofs -----------------------------
(***************************************************************************)
(* The replicas implement one database under snapshot isolation, and the   *)
(* comparator raises no false alarm, for every value of the constants.     *)
(*                                                                         *)
(* Both rest on IInv and on what the databases contribute: DatabaseInv,    *)
(* which the operations of a single replica preserve by themselves.        *)
(***************************************************************************)
EXTENDS AdjudicatorProofs

-----------------------------------------------------------------------------
(* What a step of a slot does to the databases.                            *)

MayWrite(s, d, row) == InTx(s, d) /\ ~Locked(s, d, row) /\ ~Stale(s, d, row)

DatabaseStep(s) ==
  \/ UNCHANGED replicaVars
  \/ \E d \in Dbs : \/ DbBegin(s, d) \/ DbCommit(s, d) \/ DbRollback(s, d)
                    \/ \E row \in Rows : MayWrite(s, d, row) /\ DbWrite(s, d, row)
  \/ DbDisconnect(s)

\* The row of the statement a task executes next.
LEMMA NextRow ==
  ASSUME TypeOK, NEW s \in Slots, NEW d \in Dbs, Pending(s, d)
  PROVE  NextStatement(s, d) \in Statement
<1>1. cur[s].stmts \in Seq(Statement) /\ Executed(s, d) \in Nat
  BY StatementTypes DEF TypeOK, Executed
<1> QED BY <1>1 DEF Pending, NextStatement

LEMMA StepAtDatabases ==
  ASSUME TypeOK, NEW s \in Slots, SlotInv(s), Step(s)
  PROVE  DatabaseStep(s)
<1> USE DEF DatabaseStep
<1>1. CASE \/ StartSession(s) \/ ReceiveCommit(s)
           \/ \E type \in {"ROLLBACK", "DISCONNECT", "SOCKET_ERROR"} : ReceiveEnd(s, type)
           \/ \E m \in Message : ReceiveRequest(s, m)
           \/ Lock(s) \/ BeginDone(s) \/ CommitDone(s) \/ RollbackDone(s)
           \/ \E d \in Dbs : FirstDone(s, d) \/ SendResults(s, d) \/ SendFails(s, d)
           \/ Accept(s) \/ Disagree(s) \/ ExecutorFailed(s)
  BY <1>1 DEF StartSession, ReceiveCommit, ReceiveEnd, ReceiveRequest, Lock, BeginDone,
              CommitDone, RollbackDone, FirstDone, SendResults, SendFails, Accept,
              Disagree, ExecutorFailed
<1>2. CASE EndSession(s)
  BY <1>2 DEF EndSession
<1>3. CASE \/ BeginDb(s) \/ CommitDb(s) \/ RollbackDb(s)
           \/ BeginFails(s) \/ CommitFails(s) \/ RollbackFails(s)
  <2>1. idx[s] \in Dbs
    BY <1>3, ReplicasAssumption
    DEF BeginDb, CommitDb, RollbackDb, BeginFails, CommitFails, RollbackFails, InLoop,
        TypeOK, Dbs
  <2> QED
    BY <1>3, <2>1 DEF BeginDb, CommitDb, RollbackDb, BeginFails, CommitFails, RollbackFails
<1>4. CASE \E d \in Dbs : RunSelect(s, d) \/ StatementFails(s, d) \/ StatementDiverges(s, d)
  BY <1>4 DEF RunSelect, StatementFails, StatementDiverges, DbSelect
<1>5. CASE \E d \in Dbs : RunDml(s, d)
  <2>1. PICK d \in Dbs : RunDml(s, d)
    BY <1>5
  <2>2. NextStatement(s, d).row \in Rows
    BY <2>1, NextRow DEF RunDml, Statement
  <2>3. InTx(s, d)
    BY <2>1 DEF RunDml, Pending, Running, SlotInv, TasksOf, TxOf, OpenEverywhere
  <2> QED BY <2>1, <2>2, <2>3 DEF RunDml, MayWrite
<1> QED BY StepCases, <1>1, <1>2, <1>3, <1>4, <1>5

\* A log only grows.
LEMMA LogGrows ==
  ASSUME ReplicasTypeOK, NEW s \in Slots, DatabaseStep(s), NEW d \in Dbs
  PROVE  \/ log'[d] = log[d]
         \/ /\ InTx(s, d) \/ writes[s][d] # {}
            /\ DbCommit(s, d)
            /\ log'[d] = Append(log[d], [slot |-> s, rows |-> writes[s][d]])
  BY DEF DatabaseStep, ReplicasTypeOK, replicaVars, DbBegin, DbCommit, DbRollback, DbWrite,
         DbDisconnect

LEMMA LogPrefix ==
  ASSUME ReplicasTypeOK, NEW s \in Slots, DatabaseStep(s), NEW d \in Dbs
  PROVE  /\ Len(log[d]) <= Len(log'[d])
         /\ \A i \in 1 .. Len(log[d]) : log'[d][i] = log[d][i]
<1>1. log[d] \in Seq(CommitRecord) /\ [slot |-> s, rows |-> writes[s][d]] \in CommitRecord
  BY DEF ReplicasTypeOK, CommitRecord
<1>2. CASE log'[d] = log[d]
  BY <1>1, <1>2
<1>3. CASE log'[d] = Append(log[d], [slot |-> s, rows |-> writes[s][d]])
  BY <1>1, <1>3
<1> QED BY <1>2, <1>3, LogGrows

-----------------------------------------------------------------------------
(* The databases: locks and first updaters.                                *)

\* Whoever writes a row nobody else has written keeps the locks exclusive.
LEMMA LocksStep ==
  ASSUME ReplicasTypeOK, LocksInv, NEW s \in Slots, DatabaseStep(s)
  PROVE  LocksInv'
<1>1. \A t \in Slots \ {s} : writes'[t] = writes[t]
  BY ReplicaLocality DEF DatabaseStep
<1>2. ASSUME NEW d \in Dbs, NEW t \in Slots \ {s}
      PROVE  writes'[s][d] \cap writes'[t][d] = {}
  <2>1. writes[s][d] \cap writes[t][d] = {}
    BY DEF LocksInv
  <2>2. CASE UNCHANGED replicaVars \/ DbDisconnect(s)
    BY <1>1, <2>1, <2>2 DEF ReplicasTypeOK, replicaVars, DbDisconnect
  <2>3. ASSUME NEW e \in Dbs, DbBegin(s, e) \/ DbCommit(s, e) \/ DbRollback(s, e)
        PROVE  writes'[s][d] \cap writes'[t][d] = {}
    <3>1. writes' = writes \/ writes' = [writes EXCEPT ![s][e] = {}]
      BY <2>3 DEF DbBegin, DbCommit, DbRollback
    <3>2. writes'[s][d] = writes[s][d] \/ writes'[s][d] = {}
      BY <3>1 DEF ReplicasTypeOK
    <3> QED BY <1>1, <2>1, <3>2
  <2>4. ASSUME NEW e \in Dbs, NEW row \in Rows, MayWrite(s, e, row), DbWrite(s, e, row)
        PROVE  writes'[s][d] \cap writes'[t][d] = {}
    <3>1. row \notin writes[t][e]
      BY <2>4 DEF MayWrite, Locked
    <3>2. writes'[s][d] = IF d = e THEN writes[s][d] \cup {row} ELSE writes[s][d]
      BY <2>4 DEF DbWrite, ReplicasTypeOK
    <3> QED BY <1>1, <2>1, <3>1, <3>2
  <2> QED BY <2>2, <2>3, <2>4 DEF DatabaseStep
<1>3. ASSUME NEW d \in Dbs, NEW t \in Slots, NEW u \in Slots, t # u
      PROVE  writes'[t][d] \cap writes'[u][d] = {}
  <2>1. CASE t # s /\ u # s
    BY <1>1, <1>3, <2>1 DEF LocksInv
  <2>2. CASE t = s
    BY <1>2, <1>3, <2>2
  <2>3. CASE u = s
    BY <1>2, <1>3, <2>3
  <2> QED BY <2>1, <2>2, <2>3
<1> QED BY <1>3 DEF LocksInv

\* A transaction's writes stay fresh: it writes no row with a newer version,
\* and nobody commits a row it holds the lock of.
LEMMA FreshStep ==
  ASSUME ReplicasTypeOK, LocksInv, FreshInv, NEW s \in Slots, DatabaseStep(s)
  PROVE  FreshInv'
<1> SUFFICES ASSUME NEW d \in Dbs, NEW t \in Slots, InTx(t, d)'
             PROVE  /\ snap'[t][d] <= Len(log'[d])
                    /\ \A i \in snap'[t][d] + 1 .. Len(log'[d]) :
                         log'[d][i].rows \cap writes'[t][d] = {}
  BY DEF FreshInv
<1>1. log[d] \in Seq(CommitRecord) /\ [slot |-> s, rows |-> writes[s][d]] \in CommitRecord
  BY DEF ReplicasTypeOK, CommitRecord
<1>2. CASE t # s
  <2>1. snap'[t] = snap[t] /\ writes'[t] = writes[t]
    BY <1>2, ReplicaLocality DEF DatabaseStep
  <2>2. /\ snap[t][d] <= Len(log[d]) /\ snap[t][d] \in Nat
        /\ \A i \in snap[t][d] + 1 .. Len(log[d]) : log[d][i].rows \cap writes[t][d] = {}
    BY <2>1 DEF FreshInv, InTx, ReplicasTypeOK
  <2>3. CASE log'[d] = log[d]
    BY <2>1, <2>2, <2>3
  <2>4. CASE log'[d] = Append(log[d], [slot |-> s, rows |-> writes[s][d]])
    <3>1. writes[s][d] \cap writes[t][d] = {}
      BY <1>2 DEF LocksInv
    <3>2. Len(log'[d]) = Len(log[d]) + 1 /\ log'[d][Len(log[d]) + 1].rows = writes[s][d]
      BY <1>1, <2>4
    <3>3. \A i \in 1 .. Len(log[d]) : log'[d][i] = log[d][i]
      BY <1>1, <2>4
    <3>4. Len(log[d]) \in Nat
      BY <1>1
    <3>5. ASSUME NEW i \in snap[t][d] + 1 .. Len(log[d]) + 1
          PROVE  log'[d][i].rows \cap writes[t][d] = {}
      <4>1. CASE i = Len(log[d]) + 1
        BY <3>1, <3>2, <4>1
      <4>2. CASE i # Len(log[d]) + 1
        <5>1. i \in snap[t][d] + 1 .. Len(log[d]) /\ i \in 1 .. Len(log[d])
          BY <2>2, <3>4, <4>2
        <5> QED BY <2>2, <3>3, <5>1
      <4> QED BY <4>1, <4>2
    <3> QED BY <2>1, <2>2, <3>2, <3>4, <3>5
  <2> QED BY <2>3, <2>4, LogGrows
<1>3. CASE t = s
  <2>1. CASE log'[d] = log[d] /\ snap'[s][d] = snap[s][d] /\ writes'[s][d] = writes[s][d]
    BY <1>3, <2>1 DEF FreshInv, InTx
  <2>2. CASE /\ log'[d] = log[d] /\ snap'[s][d] = Snapshot(s, d)
             /\ writes'[s][d] = writes[s][d]
    <3>1. CASE InTx(s, d)
      BY <2>1, <2>2, <3>1 DEF Snapshot
    <3>2. CASE ~InTx(s, d)
      BY <1>1, <1>3, <2>2, <3>2 DEF Snapshot
    <3> QED BY <3>1, <3>2
  <2>3. ASSUME NEW row \in Rows, MayWrite(s, d, row), log'[d] = log[d],
               snap'[s][d] = Snapshot(s, d), writes'[s][d] = writes[s][d] \cup {row}
        PROVE  /\ snap'[t][d] <= Len(log'[d])
               /\ \A i \in snap'[t][d] + 1 .. Len(log'[d]) :
                    log'[d][i].rows \cap writes'[t][d] = {}
    <3>1. snap'[s][d] = snap[s][d]
      BY <2>3 DEF MayWrite, Snapshot
    <3>2. \A i \in snap[s][d] + 1 .. Len(log[d]) : row \notin log[d][i].rows
      BY <2>3 DEF MayWrite, Stale, Snapshot
    <3>3. /\ snap[s][d] <= Len(log[d])
          /\ \A i \in snap[s][d] + 1 .. Len(log[d]) : log[d][i].rows \cap writes[s][d] = {}
      BY <2>3 DEF MayWrite, FreshInv
    <3> QED BY <1>3, <2>3, <3>1, <3>2, <3>3
  <2>4. CASE snap'[s][d] = NoTx
    BY <1>3, <2>4 DEF InTx
  <2> DEFINE Kept == log'[d] = log[d] /\ snap'[s][d] = snap[s][d] /\ writes'[s][d] = writes[s][d]
             Opened == log'[d] = log[d] /\ snap'[s][d] = Snapshot(s, d) /\ writes'[s][d] = writes[s][d]
             Written == \E row \in Rows : /\ MayWrite(s, d, row) /\ log'[d] = log[d]
                                          /\ snap'[s][d] = Snapshot(s, d)
                                          /\ writes'[s][d] = writes[s][d] \cup {row}
  <2>5. Kept \/ Opened \/ Written \/ snap'[s][d] = NoTx
    <3>1. CASE UNCHANGED replicaVars \/ DbDisconnect(s)
      BY <3>1 DEF replicaVars, DbDisconnect, ReplicasTypeOK
    <3>2. ASSUME NEW e \in Dbs, DbBegin(s, e) \/ DbCommit(s, e) \/ DbRollback(s, e)
          PROVE  Kept \/ Opened \/ snap'[s][d] = NoTx
      BY <3>2 DEF DbBegin, DbCommit, DbRollback, ReplicasTypeOK
    <3>3. ASSUME NEW e \in Dbs, NEW row \in Rows, MayWrite(s, e, row), DbWrite(s, e, row)
          PROVE  Kept \/ Written
      <4>1. CASE e = d
        BY <3>3, <4>1 DEF DbWrite, ReplicasTypeOK
      <4>2. CASE e # d
        BY <3>3, <4>2 DEF DbWrite, ReplicasTypeOK
      <4> QED BY <4>1, <4>2
    <3> QED BY <3>1, <3>2, <3>3 DEF DatabaseStep
  <2> QED BY <2>1, <2>2, <2>3, <2>4, <2>5
<1> QED BY <1>2, <1>3
-----------------------------------------------------------------------------
LEMMA InitDatabaseInv == Init => DatabaseInv
<1> SUFFICES ASSUME Init PROVE DatabaseInv
  OBVIOUS
<1>1. \A s \in Slots : \A d \in Dbs : ~InTx(s, d) /\ writes[s][d] = {}
  BY DEF Init, ReplicasInit, InTx
<1> QED BY <1>1 DEF DatabaseInv, LocksInv, FreshInv

LEMMA StepDatabaseInv == IInv /\ DatabaseInv /\ [Next]_vars => DatabaseInv'
<1> SUFFICES ASSUME IInv, DatabaseInv, [Next]_vars PROVE DatabaseInv'
  OBVIOUS
<1>1. CASE Next
  <2>1. PICK s \in Slots : Step(s)
    BY <1>1 DEF Next
  <2>2. DatabaseStep(s)
    BY <2>1, StepAtDatabases DEF IInv
  <2> QED BY <2>2, LocksStep, FreshStep DEF IInv, TypeOK, DatabaseInv
<1>2. CASE UNCHANGED vars
  BY <1>2 DEF DatabaseInv, LocksInv, FreshInv, InTx, vars
<1> QED BY <1>1, <1>2

\* FirstUpdaterWins: at every database, whatever fails, a row has one writer
\* at a time, and no transaction writes a row of which a version was committed
\* since its snapshot.
THEOREM FirstUpdaterWins == Spec => []DatabaseInv
<1> QED BY Invariance, InitDatabaseInv, StepDatabaseInv, PTL DEF Spec

-----------------------------------------------------------------------------
(* The refinement.                                                         *)

\* While no commit broke half-way, the abstract state is that of the last
\* database of the loops over v_dg.
MappingDefined ==
  /\ OneHistory = log[LastDb]
  /\ OneSnapshot = [s \in Slots |-> snap[s][LastDb]]

LEMMA LastDbType == LastDb \in Dbs
  BY ReplicasAssumption DEF LastDb, Dbs

LEMMA Mapping == IInv /\ Intact => MappingDefined
<1> SUFFICES ASSUME IInv, Intact PROVE MappingDefined
  OBVIOUS
<1>1. ASSUME NEW d \in Dbs PROVE Continues(d)
  <2>1. log[LastDb] \in Seq(CommitRecord)
    BY LastDbType DEF IInv, TypeOK, ReplicasTypeOK
  <2>2. CASE log[d] = log[LastDb]
    BY <2>1, <2>2 DEF Continues
  <2>3. CASE log[d] # log[LastDb]
    <3>1. ~(Passed(d) <=> Passed(LastDb))
      BY <2>3, LastDbType DEF IInv, LogInv
    <3>2. Passed(LastDb) => Passed(d)
      BY LastDbType, ReplicasAssumption DEF Passed, LastDb, Dbs, IInv, TypeOK
    <3>3. mx \in Slots /\ log[d] = Published(mx, LastDb)
      BY <3>1, <3>2, LastDbType DEF IInv, LogInv, Passed, TypeOK
    <3>4. log[d] = Append(log[LastDb], [slot |-> mx, rows |-> writes[mx][LastDb]])
      BY <2>3, <3>3 DEF Published
    <3>5. [slot |-> mx, rows |-> writes[mx][LastDb]] \in CommitRecord
      BY <3>3, LastDbType DEF IInv, TypeOK, ReplicasTypeOK, CommitRecord
    <3> QED BY <2>1, <3>4, <3>5 DEF Continues
  <2> QED BY <2>2, <2>3
<1>2. OneHistory = log[LastDb]
  BY <1>1 DEF OneHistory
<1>3. \A s \in Slots : \A d \in Dbs :
        InTx(s, d) /\ InTx(s, LastDb) => snap[s][d] = snap[s][LastDb]
  BY LastDbType DEF IInv, SnapInv
<1>4. OneSnapshot = [s \in Slots |-> snap[s][LastDb]]
  BY <1>3 DEF OneSnapshot
<1> QED BY <1>2, <1>4 DEF MappingDefined

\* What a step does at the last database is a step of OneCopy: the commit of
\* a transaction whose writes are fresh is a first committer's.
LEMMA StepAtLastDb ==
  ASSUME ReplicasTypeOK, FreshInv, NEW s \in Slots, DatabaseStep(s),
         ~InTx(s, LastDb) => writes[s][LastDb] = {},
         MappingDefined, MappingDefined'
  PROVE  [Abstract!OneCopyNext]_(Abstract!onecopyVars)
<1> DEFINE x == OneSnapshot
           h == OneHistory
<1>1. x = [t \in Slots |-> snap[t][LastDb]] /\ h = log[LastDb]
  BY DEF MappingDefined
<1>2. x' = [t \in Slots |-> snap'[t][LastDb]] /\ h' = log'[LastDb]
  BY DEF MappingDefined
<1>3. \A t \in Slots \ {s} : snap'[t] = snap[t]
  BY ReplicaLocality DEF DatabaseStep
<1>4. x' = [x EXCEPT ![s] = snap'[s][LastDb]]
  BY <1>1, <1>2, <1>3
<1>5. LastDb \in Dbs
  BY LastDbType
<1>6. CASE log'[LastDb] = log[LastDb] /\ snap'[s][LastDb] = snap[s][LastDb]
  <2>1. h' = h /\ x' = x
    BY <1>1, <1>2, <1>4, <1>6
  <2> QED BY <2>1 DEF Abstract!onecopyVars
<1>7. CASE log'[LastDb] = log[LastDb] /\ snap'[s][LastDb] = Snapshot(s, LastDb)
  <2>1. CASE InTx(s, LastDb)
    BY <1>6, <1>7, <2>1 DEF Snapshot
  <2>2. CASE ~InTx(s, LastDb)
    <3>1. x[s] = -1 /\ x' = [x EXCEPT ![s] = Len(h)] /\ h' = h
      BY <1>1, <1>2, <1>4, <1>7, <2>2 DEF InTx, NoTx, Snapshot
    <3>2. Abstract!Open(s)
      BY <3>1 DEF Abstract!Open, Abstract!Idle
    <3> QED BY <3>2 DEF Abstract!OneCopyNext
  <2> QED BY <2>1, <2>2
<1>8. CASE log'[LastDb] = log[LastDb] /\ snap'[s][LastDb] = NoTx
  <2>1. CASE InTx(s, LastDb)
    <3>1. x[s] # -1 /\ x' = [x EXCEPT ![s] = -1] /\ h' = h
      BY <1>1, <1>2, <1>4, <1>8, <2>1 DEF InTx, NoTx
    <3>2. Abstract!Abort(s)
      BY <3>1 DEF Abstract!Abort, Abstract!Idle
    <3> QED BY <3>2 DEF Abstract!OneCopyNext
  <2>2. CASE ~InTx(s, LastDb)
    BY <1>6, <1>8, <2>2 DEF InTx
  <2> QED BY <2>1, <2>2
<1>9. CASE log'[LastDb] # log[LastDb]
  <2> DEFINE w == writes[s][LastDb]
  <2>1. /\ DbCommit(s, LastDb) /\ InTx(s, LastDb)
        /\ log'[LastDb] = Append(log[LastDb], [slot |-> s, rows |-> w])
    BY <1>5, <1>9, LogGrows
  <2>2. w \in (SUBSET Rows) \ {{}}
    <3>1. w = {} => log'[LastDb] = log[LastDb]
      BY <1>5, <2>1 DEF DbCommit, ReplicasTypeOK
    <3>2. w \in SUBSET Rows
      BY <1>5 DEF ReplicasTypeOK
    <3> HIDE DEF w
    <3>3. w # {}
      BY <1>9, <3>1, Zenon
    <3> QED BY <3>2, <3>3
  <2>3. snap'[s][LastDb] = NoTx
    BY <1>5, <2>1 DEF DbCommit, ReplicasTypeOK
  <2>4. \A i \in snap[s][LastDb] + 1 .. Len(log[LastDb]) : log[LastDb][i].rows \cap w = {}
    BY <1>5, <2>1 DEF FreshInv
  <2>5. /\ x[s] # -1 /\ x' = [x EXCEPT ![s] = -1]
        /\ h' = Append(h, [slot |-> s, rows |-> w])
        /\ \A i \in x[s] + 1 .. Len(h) : h[i].rows \cap w = {}
    BY <1>1, <1>2, <1>4, <2>1, <2>3, <2>4 DEF InTx, NoTx
  <2> HIDE DEF w
  <2>6. Abstract!CommitRows(s, w)
    BY <2>5 DEF Abstract!CommitRows, Abstract!FirstCommitter, Abstract!Idle
  <2> QED BY <2>2, <2>6 DEF Abstract!OneCopyNext
<1>10. \/ snap'[s][LastDb] \in {snap[s][LastDb], Snapshot(s, LastDb), NoTx}
  <2>1. CASE UNCHANGED replicaVars \/ DbDisconnect(s)
    BY <1>5, <2>1 DEF replicaVars, DbDisconnect, ReplicasTypeOK
  <2>2. CASE \E d \in Dbs : \/ DbBegin(s, d) \/ DbCommit(s, d) \/ DbRollback(s, d)
                            \/ \E row \in Rows : DbWrite(s, d, row)
    <3>1. PICK d \in Dbs : snap' = [snap EXCEPT ![s][d] = Snapshot(s, d)]
                            \/ snap' = [snap EXCEPT ![s][d] = NoTx]
      BY <2>2 DEF DbBegin, DbCommit, DbRollback, DbWrite
    <3> QED BY <1>5, <3>1 DEF ReplicasTypeOK
  <2> QED BY <2>1, <2>2 DEF DatabaseStep
<1> QED BY <1>6, <1>7, <1>8, <1>9, <1>10

LEMMA RefinementStep ==
  IInv /\ Intact /\ DatabaseInv /\ MappingDefined /\ MappingDefined' /\ [Next]_vars
    => [Abstract!OneCopyNext]_(Abstract!onecopyVars)
<1> SUFFICES ASSUME IInv, DatabaseInv, MappingDefined, MappingDefined', [Next]_vars
             PROVE  [Abstract!OneCopyNext]_(Abstract!onecopyVars)
  OBVIOUS
<1>1. CASE Next
  <2>1. PICK s \in Slots : Step(s)
    BY <1>1 DEF Next
  <2>2. DatabaseStep(s)
    BY <2>1, StepAtDatabases DEF IInv
  <2>3. ~InTx(s, LastDb) => writes[s][LastDb] = {}
    BY LastDbType DEF IInv, SlotInv, TxOf
  <2> QED BY <2>2, <2>3, StepAtLastDb DEF IInv, TypeOK, DatabaseInv
<1>2. CASE UNCHANGED vars
  <2>1. log' = log /\ snap' = snap
    BY <1>2 DEF vars
  <2>2. OneHistory' = OneHistory /\ OneSnapshot' = OneSnapshot
    BY <2>1 DEF MappingDefined
  <2> QED BY <2>2 DEF Abstract!onecopyVars
<1> QED BY <1>1, <1>2

LEMMA InitRefinement == Init => Abstract!OneCopyInit
<1> SUFFICES ASSUME Init PROVE Abstract!OneCopyInit
  OBVIOUS
<1>1. \A d \in Dbs : log[d] = <<>>
  BY DEF Init, ReplicasInit
<1>2. \A s \in Slots : \A d \in Dbs : snap[s][d] = -1
  BY DEF Init, ReplicasInit, NoTx
<1>3. OneHistory = <<>>
  BY <1>1, LastDbType DEF OneHistory, Continues
<1>4. OneSnapshot = [s \in Slots |-> -1]
  BY <1>2, LastDbType DEF OneSnapshot, InTx, NoTx
<1> QED BY <1>3, <1>4 DEF Abstract!OneCopyInit, Abstract!Idle

\* OneCopyWhileIntact: as long as no SAConnection::Commit failed half-way
\* through commit_request, the replicas look to their clients like one
\* database under snapshot isolation, whatever else fails.
THEOREM OneCopyWhileIntact == Spec /\ []Intact => ImplementsOneCopy
<1>1. IInv /\ Intact => MappingDefined
  BY Mapping
<1>2. Init => Abstract!OneCopyInit
  BY InitRefinement
<1>3. IInv /\ Intact /\ DatabaseInv /\ MappingDefined /\ MappingDefined' /\ [Next]_vars
        => [Abstract!OneCopyNext]_(Abstract!onecopyVars)
  BY RefinementStep
<1> QED
  BY <1>1, <1>2, <1>3, Invariance, FirstUpdaterWins, PTL
  DEF Spec, ImplementsOneCopy, Abstract!OneCopySpec

\* A request that failed, and one that was lost while it did not commit, has
\* no verdict that licenses a COMMIT.
NoBreak ==
  \A s \in Slots : pc[s] \in {"rollback", "lost"} /\ cur[s].type = "COMMIT"
                    => ~flag[s].comparator_pass

LEMMA NoBreakStep ==
  ASSUME "commit" \notin Faults, IInv, NoBreak, [Next]_vars
  PROVE  NoBreak'
<1> SUFFICES ASSUME NEW t \in Slots, pc'[t] \in {"rollback", "lost"}, cur'[t].type = "COMMIT"
             PROVE  ~flag'[t].comparator_pass
  BY DEF NoBreak
<1>1. CASE pc'[t] = pc[t] /\ cur'[t] = cur[t] /\ flag'[t] = flag[t]
  BY <1>1 DEF NoBreak
<1>2. ASSUME Step(t) PROVE ~flag'[t].comparator_pass
  <2>1. ControlTypes /\ FlagsOf(t) /\ TasksOf(t)
    BY DEF IInv, TypeOK, ControlTypes, SlotInv
  <2>2. CASE \/ StartSession(t) \/ EndSession(t) \/ ReceiveCommit(t)
             \/ \E m \in Message : ReceiveRequest(t, m)
             \/ BeginDb(t) \/ BeginDone(t) \/ CommitDb(t) \/ CommitDone(t)
             \/ RollbackDone(t) \/ Accept(t)
    <3>1. pc'[t] \notin {"rollback", "lost"}
      BY <2>1, <2>2, EndingTypes
      DEF StartSession, EndSession, ReceiveCommit, ReceiveRequest, BeginDb, BeginDone,
          CommitDb, CommitDone, RollbackDone, Accept, InLoop, LoopDone, Conclude, ControlTypes
    <3> QED BY <3>1
  <2>3. CASE \E type \in {"ROLLBACK", "DISCONNECT", "SOCKET_ERROR"} : ReceiveEnd(t, type)
    <3>1. PICK type \in {"ROLLBACK", "DISCONNECT", "SOCKET_ERROR"} :
                 Abandon(t, Plain(type), flag[t], <<>>)
      BY <2>3 DEF ReceiveEnd
    <3>2. CASE Undecided(flag[t])
      BY <2>1, <3>1, <3>2 DEF Abandon, ControlTypes, Plain
    <3>3. CASE ~Undecided(flag[t])
      <4>1. pc'[t] \in {"recv", "over"}
        BY <2>1, <3>1, <3>3, EndingTypes DEF Abandon, Conclude, ControlTypes
      <4> QED BY <4>1
    <3> QED BY <3>2, <3>3
  <2>4. CASE Lock(t) \/ RollbackDb(t)
    BY <1>1, <2>4 DEF Lock, RollbackDb
  <2>5. CASE BeginFails(t) \/ RollbackFails(t)
    BY <2>1, <2>5 DEF BeginFails, RollbackFails, InLoop, FlagsOf, NoBreak
  <2>6. CASE \E d \in Dbs : \/ RunSelect(t, d) \/ RunDml(t, d)
                            \/ StatementFails(t, d) \/ StatementDiverges(t, d)
                            \/ FirstDone(t, d) \/ SendResults(t, d) \/ SendFails(t, d)
    <3>1. pc'[t] = pc[t] /\ pc[t] = "exec"
      BY <2>1, <2>6
      DEF RunSelect, RunDml, StatementFails, StatementDiverges, FirstDone, SendResults,
          SendFails, Pending, Running, TasksOf
    <3> QED BY <3>1
  <2>7. CASE Disagree(t) \/ ExecutorFailed(t)
    <3>1. PICK f \in Flags : ~f.comparator_pass /\ Abandon(t, cur[t], f, replies[t])
      BY <2>1, <2>7 DEF Disagree, ExecutorFailed, FlagsOf, ControlTypes, Flags
    <3>2. CASE Undecided(f)
      BY <2>1, <3>1, <3>2 DEF Abandon, ControlTypes
    <3>3. CASE ~Undecided(f)
      <4>1. pc'[t] \in {"recv", "over"}
        BY <2>1, <3>1, <3>3, EndingTypes DEF Abandon, Conclude, ControlTypes
      <4> QED BY <4>1
    <3> QED BY <3>2, <3>3
  <2>8. ~CommitFails(t)
    BY DEF CommitFails
  <2> QED BY <1>2, StepCases, <2>2, <2>3, <2>4, <2>5, <2>6, <2>7, <2>8
<1>3. CASE UNCHANGED vars
  BY <1>1, <1>3 DEF vars
<1>4. CASE Next
  <2>1. PICK s \in Slots : Step(s)
    BY <1>4 DEF Next
  <2>2. CASE s = t
    BY <1>2, <2>1, <2>2
  <2>3. CASE s # t
    BY <1>1, <2>1, <2>3, Locality DEF IInv, SameSlot
  <2> QED BY <2>2, <2>3
<1> QED BY <1>3, <1>4

\* OneCopyImplemented: where Commit does not fail at a single replica, the
\* replicas implement one database under snapshot isolation, although a begin,
\* a statement, a fetch or a rollback may fail anywhere and a database may
\* answer differently from the others.
THEOREM OneCopyImplemented ==
  ASSUME "commit" \notin Faults
  PROVE  Spec => ImplementsOneCopy
<1>1. Init => NoBreak
  BY DEF Init, NoBreak
<1>2. IInv /\ NoBreak /\ [Next]_vars => NoBreak'
  BY NoBreakStep
<1>3. NoBreak => Intact
  BY DEF NoBreak, Intact, CommitBroken
<1> QED BY <1>1, <1>2, <1>3, Invariance, OneCopyWhileIntact, PTL DEF Spec
-----------------------------------------------------------------------------
(* The comparator's verdict at databases that answer correctly.            *)

\* A snapshot covers the same versions as long as its transaction is open.
LEMMA SeenStable ==
  ASSUME ReplicasTypeOK, FreshInv, NEW s \in Slots, DatabaseStep(s), NEW t \in Slots,
         NEW d \in Dbs, InTx(t, d), snap'[t][d] = snap[t][d], NEW row
  PROVE  Seen(t, d, row)' = Seen(t, d, row)
<1>1. snap[t][d] \in Nat /\ snap[t][d] <= Len(log[d]) /\ Len(log[d]) \in Nat
  BY DEF ReplicasTypeOK, InTx, FreshInv
<1>2. \A i \in 1 .. snap[t][d] : log'[d][i] = log[d][i]
  BY <1>1, LogPrefix
<1> QED BY <1>2 DEF Seen

\* What a select returns are the versions its snapshot covers and the
\* transaction's own write.
LEMMA VersionsSeen ==
  ASSUME ReplicasTypeOK, FreshInv, NEW s \in Slots, NEW d \in Dbs, InTx(s, d), NEW row
  PROVE  Versions(s, d, row) =
           Seen(s, d, row) \cup (IF row \in writes[s][d] THEN {<<0, s>>} ELSE {})
<1>1. /\ snap[s][d] \in Nat /\ snap[s][d] <= Len(log[d]) /\ Len(log[d]) \in Nat
      /\ Snapshot(s, d) = snap[s][d]
  BY DEF ReplicasTypeOK, InTx, FreshInv, Snapshot
<1>2. {j \in 1 .. Snapshot(s, d) : j <= Len(log[d]) /\ row \in log[d][j].rows} =
        {j \in 1 .. snap[s][d] : row \in log[d][j].rows}
  BY <1>1
<1> QED BY <1>2 DEF Versions, Seen

\* A slot whose request, grains, snapshots and writes a step leaves alone.
LEMMA AnswersKept ==
  ASSUME ReplicasTypeOK, FreshInv, NEW s \in Slots, DatabaseStep(s), NEW t \in Slots,
         SlotInv(t), AnswersOf(t), pc'[t] = pc[t], cur'[t] = cur[t], res'[t] = res[t],
         snap'[t] = snap[t], writes'[t] = writes[t]
  PROVE  AnswersOf(t)'
<1> SUFFICES ASSUME pc[t] = "exec" PROVE \E B \in SUBSET Rows : AnswersFrom(t, B)'
  BY DEF AnswersOf
<1>1. PICK B \in SUBSET Rows : AnswersFrom(t, B)
  BY DEF AnswersOf
<1>2. \A d \in Dbs : InTx(t, d)
  BY DEF SlotInv, TxOf, OpenEverywhere
<1>3. \A n : OwnRows(t, B, n)' = OwnRows(t, B, n)
  BY DEF OwnRows
<1>4. \A d \in Dbs : Executed(t, d)' = Executed(t, d)
  BY DEF Executed
<1>6. \A d \in Dbs : \A i : Answer(t, d, B, i)' = Answer(t, d, B, i)
  <2> SUFFICES ASSUME NEW d \in Dbs, NEW i PROVE Answer(t, d, B, i)' = Answer(t, d, B, i)
    OBVIOUS
  <2>1. Seen(t, d, cur[t].stmts[i].row)' = Seen(t, d, cur[t].stmts[i].row)
    BY <1>2, SeenStable
  <2>2. \A row : OwnVersion(t, B, i - 1, row)' = OwnVersion(t, B, i - 1, row)
    BY <1>3 DEF OwnVersion
  <2> QED BY <2>1, <2>2 DEF Answer
<1>7. AnswersFrom(t, B)'
  BY <1>1, <1>3, <1>4, <1>6 DEF AnswersFrom
<1> QED BY <1>7

\* A request begins without grains, over the same writes at every database.
LEMMA AnswersBegin ==
  ASSUME TypeOK, NEW s \in Slots, \A d \in Dbs : res'[s][d] = <<>>,
         \A d, e \in Dbs : writes[s][d] = writes[s][e], writes' = writes
  PROVE  AnswersOf(s)'
<1>1. PICK B \in SUBSET Rows : B = writes[s][LastDb]
  BY LastDbType DEF TypeOK, ReplicasTypeOK
<1>2. \A d \in Dbs : writes'[s][d] = B
  BY <1>1, LastDbType
<1>3. \A d \in Dbs : Executed(s, d)' = 0
  BY DEF Executed
<1>4. OwnRows(s, B, 0)' = B
  BY DEF OwnRows
<1>5. AnswersFrom(s, B)'
  BY <1>2, <1>3, <1>4 DEF AnswersFrom, OwnRows
<1> QED BY <1>5 DEF AnswersOf

\* A faithful database adds the grain its statement determines.
LEMMA AnswersRun ==
  ASSUME TypeOK, DatabaseInv, NEW s \in Slots, SlotInv(s), AnswersOf(s), NEW d \in Dbs,
         RunSelect(s, d) \/ RunDml(s, d)
  PROVE  AnswersOf(s)'
<1> DEFINE n == Executed(s, d)
           row == cur[s].stmts[n + 1].row
<1>1. /\ pc[s] = "exec" /\ OpenEverywhere(s) /\ Pending(s, d)
      /\ UNCHANGED <<pc, cur>>
  BY DEF RunSelect, RunDml, Pending, Running, SlotInv, TasksOf, TxOf
<1>2. /\ cur[s].stmts \in Seq(Statement) /\ n \in Nat /\ n < Len(cur[s].stmts)
      /\ res[s][d] \in Seq(Result)
  BY <1>1, StatementTypes DEF TypeOK, Pending, Executed
<1>3. PICK B \in SUBSET Rows : AnswersFrom(s, B)
  BY <1>1 DEF AnswersOf
<1>4. NextStatement(s, d) = cur[s].stmts[n + 1]
  BY DEF NextStatement
<1>5. Snapshot(s, d) = snap[s][d]
  BY <1>1 DEF Snapshot, OpenEverywhere
<1>6. snap' = snap /\ log' = log
  BY <1>5 DEF RunSelect, RunDml, DbSelect, DbBegin, DbWrite, TypeOK, ReplicasTypeOK
<1>7. Record(s, d, Answer(s, d, B, n + 1))
  <2>1. CASE RunDml(s, d)
    BY <1>4, <2>1 DEF RunDml, Answer
  <2>2. CASE RunSelect(s, d)
    <3>1. writes[s][d] = OwnRows(s, B, n)
      BY <1>3 DEF AnswersFrom
    <3>2. Versions(s, d, row) =
            Seen(s, d, row) \cup (IF row \in writes[s][d] THEN {<<0, s>>} ELSE {})
      BY <1>1, VersionsSeen DEF OpenEverywhere, TypeOK, DatabaseInv
    <3>3. n + 1 - 1 = n
      BY <1>2
    <3>4. cur[s].stmts[n + 1].kind # "dml"
      BY <1>4, <2>2 DEF RunSelect
    <3>5. Record(s, d, [kind |-> "select", rows |-> 0, hash |-> Versions(s, d, row)])
      BY <1>4, <2>2 DEF RunSelect
    <3> HIDE DEF n
    <3>6. Answer(s, d, B, n + 1) =
            [kind |-> "select", rows |-> 0,
             hash |-> Seen(s, d, row) \cup OwnVersion(s, B, n + 1 - 1, row)]
      BY <1>2, <3>3, <3>4 DEF Answer
    <3>7. Versions(s, d, row) = Seen(s, d, row) \cup OwnVersion(s, B, n, row)
      BY <3>1, <3>2 DEF OwnVersion
    <3> HIDE DEF row
    <3> QED BY <3>3, <3>5, <3>6, <3>7
  <2> QED BY <2>1, <2>2
<1> DEFINE r == Answer(s, d, B, n + 1)
<1>8. /\ \A e \in Dbs : e # d => res'[s][e] = res[s][e]
      /\ res'[s][d] = Append(res[s][d], r)
  BY <1>7 DEF Record, TypeOK
<1> HIDE DEF r
<1>9. /\ Executed(s, d)' = n + 1 /\ res'[s][d][n + 1] = r
      /\ \A i \in 1 .. n : res'[s][d][i] = res[s][d][i]
  BY <1>2, <1>8 DEF Executed
<1>10. \A e \in Dbs : \A i : Answer(s, e, B, i)' = Answer(s, e, B, i)
  <2>1. \A m, x : OwnVersion(s, B, m, x)' = OwnVersion(s, B, m, x)
    BY <1>1 DEF OwnVersion, OwnRows
  <2>2. \A e \in Dbs : \A x : Seen(s, e, x)' = Seen(s, e, x)
    BY <1>6 DEF Seen
  <2> QED BY <1>1, <2>1, <2>2 DEF Answer
<1>11. OwnRows(s, B, n + 1) =
         OwnRows(s, B, n) \cup (IF cur[s].stmts[n + 1].kind = "dml" THEN {row} ELSE {})
  <2> DEFINE D(m) == {j \in 1 .. m : cur[s].stmts[j].kind = "dml"}
  <2>1. D(n + 1) = D(n) \cup (IF cur[s].stmts[n + 1].kind = "dml" THEN {n + 1} ELSE {})
    <3> HIDE DEF n
    <3> QED BY <1>2
  <2>2. \A m : OwnRows(s, B, m) = B \cup {cur[s].stmts[i].row : i \in D(m)}
    BY DEF OwnRows
  <2> HIDE DEF D, n
  <2> QED BY <2>1, <2>2
<1>12. writes'[s][d] = OwnRows(s, B, n + 1)
  <2>1. writes[s][d] = OwnRows(s, B, n)
    BY <1>3 DEF AnswersFrom
  <2>2. CASE RunDml(s, d)
    <3>1. cur[s].stmts[n + 1].kind = "dml" /\ DbWrite(s, d, row)
      BY <1>4, <2>2 DEF RunDml
    <3>2. writes'[s][d] = writes[s][d] \cup {row}
      BY <3>1 DEF DbWrite, TypeOK, ReplicasTypeOK
    <3> HIDE DEF n, row
    <3> QED BY <1>11, <2>1, <3>1, <3>2
  <2>3. CASE RunSelect(s, d)
    <3>1. cur[s].stmts[n + 1].kind # "dml" /\ writes' = writes
      BY <1>4, <2>3 DEF RunSelect, DbSelect, DbBegin
    <3> HIDE DEF n, row
    <3> QED BY <1>11, <2>1, <3>1
  <2> QED BY <2>2, <2>3
<1>13. \A e \in Dbs : e # d => writes'[s][e] = writes[s][e]
  BY DEF RunSelect, RunDml, DbSelect, DbBegin, DbWrite, TypeOK, ReplicasTypeOK
<1>14. \A m : OwnRows(s, B, m)' = OwnRows(s, B, m)
  BY <1>1 DEF OwnRows
<1>15. ASSUME NEW e \in Dbs
       PROVE  /\ writes'[s][e] = OwnRows(s, B, Executed(s, e)')
              /\ \A i \in 1 .. Executed(s, e)' : res'[s][e][i] = Answer(s, e, B, i)
  <2>1. CASE e # d
    BY <1>3, <1>8, <1>13, <2>1 DEF AnswersFrom, Executed
  <2>2. CASE e = d
    <3>1. \A i \in 1 .. n : res[s][d][i] = Answer(s, d, B, i)
      BY <1>3 DEF AnswersFrom
    <3>2. ASSUME NEW i \in 1 .. n + 1 PROVE res'[s][d][i] = Answer(s, d, B, i)
      <4> HIDE DEF n
      <4>1. CASE i = n + 1
        BY <1>9, <4>1 DEF r
      <4>2. CASE i \in 1 .. n
        BY <1>9, <3>1, <4>2
      <4> QED BY <1>2, <4>1, <4>2
    <3> HIDE DEF n
    <3> QED BY <1>9, <1>12, <2>2, <3>2
  <2> QED BY <2>1, <2>2
<1>16. AnswersFrom(s, B)'
  BY <1>10, <1>14, <1>15 DEF AnswersFrom
<1> QED BY <1>16 DEF AnswersOf

LEMMA AnswersStep ==
  ASSUME IInv, DatabaseInv, Faithful, NEW s \in Slots, Step(s), AnswersOf(s)
  PROVE  AnswersOf(s)'
<1>1. TypeOK /\ SlotInv(s) /\ DatabaseStep(s) /\ ControlTypes
  BY StepAtDatabases DEF IInv, TypeOK, ControlTypes
<1>2. CASE pc'[s] # "exec"
  BY <1>2 DEF AnswersOf
<1>3. CASE \/ StartSession(s) \/ EndSession(s) \/ ReceiveCommit(s) \/ Lock(s)
           \/ BeginDb(s) \/ CommitDb(s) \/ RollbackDb(s) \/ CommitDone(s) \/ Accept(s)
           \/ BeginFails(s) \/ CommitFails(s) \/ RollbackFails(s)
  <2>1. pc'[s] # "exec"
    BY <1>1, <1>3
    DEF StartSession, EndSession, ReceiveCommit, Lock, BeginDb, CommitDb, RollbackDb,
        CommitDone, Accept, BeginFails, CommitFails, RollbackFails, InLoop, ControlTypes
  <2> QED BY <1>2, <2>1
<1>4. CASE \/ \E type \in {"ROLLBACK", "DISCONNECT", "SOCKET_ERROR"} : ReceiveEnd(s, type)
           \/ RollbackDone(s) \/ Disagree(s) \/ ExecutorFailed(s)
  <2>1. pc'[s] # "exec"
    BY <1>1, <1>4, ConcludePc DEF ReceiveEnd, RollbackDone, Disagree, ExecutorFailed
  <2> QED BY <1>2, <2>1
<1>5. CASE \E m \in Message : ReceiveRequest(s, m)
  <2>1. pc[s] = "recv" /\ writes' = writes /\ \A d \in Dbs : res'[s][d] = <<>>
    BY <1>1, <1>5 DEF ReceiveRequest, replicaVars, TypeOK
  <2>2. \A d, e \in Dbs : writes[s][d] = writes[s][e]
    BY <1>1, <2>1 DEF SlotInv, WritesOf
  <2> QED BY <1>1, <2>1, <2>2, AnswersBegin
<1>6. CASE BeginDone(s)
  <2>1. pc[s] = "begin" /\ writes' = writes /\ res' = res
    BY <1>6 DEF BeginDone, LoopDone, replicaVars
  <2>2. \A d \in Dbs : res'[s][d] = <<>>
    BY <1>1, <2>1 DEF SlotInv, TasksOf
  <2>3. \A d, e \in Dbs : writes[s][d] = writes[s][e]
    BY <1>1, <2>1 DEF SlotInv, WritesOf
  <2> QED BY <1>1, <2>1, <2>2, <2>3, AnswersBegin
<1>7. CASE \E d \in Dbs : RunSelect(s, d) \/ RunDml(s, d)
  BY <1>1, <1>7, AnswersRun
<1>8. CASE \E d \in Dbs : \/ StatementFails(s, d) \/ FirstDone(s, d)
                          \/ SendResults(s, d) \/ SendFails(s, d)
  <2>1. UNCHANGED <<pc, cur, res, writes>>
    BY <1>8 DEF StatementFails, DbSelect, DbBegin, FirstDone, SendResults, SendFails, replicaVars
  <2>2. snap' = snap
    <3>1. CASE \E d \in Dbs : StatementFails(s, d)
      <4>1. PICK d \in Dbs : Running(s, d) /\ snap' = [snap EXCEPT ![s][d] = Snapshot(s, d)]
        BY <3>1 DEF StatementFails, DbSelect, DbBegin, Pending
      <4>2. Snapshot(s, d) = snap[s][d]
        BY <1>1, <4>1 DEF Running, SlotInv, TasksOf, TxOf, OpenEverywhere, Snapshot
      <4> QED BY <1>1, <4>1, <4>2 DEF TypeOK, ReplicasTypeOK
    <3>2. CASE \E d \in Dbs : FirstDone(s, d) \/ SendResults(s, d) \/ SendFails(s, d)
      BY <3>2 DEF FirstDone, SendResults, SendFails, replicaVars
    <3> QED BY <1>8, <3>1, <3>2
  <2> QED BY <1>1, <2>1, <2>2, AnswersKept DEF TypeOK, DatabaseInv
<1>9. \A d \in Dbs : ~StatementDiverges(s, d)
  BY DEF StatementDiverges, Faithful
<1> QED BY StepCases, <1>3, <1>4, <1>5, <1>6, <1>7, <1>8, <1>9

LEMMA StepAnswersInv == IInv /\ DatabaseInv /\ AnswersInv /\ [Next]_vars => AnswersInv'
<1> SUFFICES ASSUME IInv, DatabaseInv, [Next]_vars, Faithful, NEW t \in Slots, AnswersOf(t)
             PROVE  AnswersOf(t)'
  BY DEF AnswersInv, Faithful
<1>1. CASE Next
  <2>1. PICK s \in Slots : Step(s)
    BY <1>1 DEF Next
  <2>2. CASE s = t
    BY <2>1, <2>2, AnswersStep
  <2>3. CASE s # t
    <3>1. DatabaseStep(s) /\ SameSlot(t)
      BY <2>1, <2>3, StepAtDatabases, Locality DEF IInv
    <3> QED BY <3>1, AnswersKept DEF SameSlot, IInv, TypeOK, DatabaseInv
  <2> QED BY <2>2, <2>3
<1>2. CASE UNCHANGED vars
  <2>1. \A d \in Dbs : \A row : Seen(t, d, row)' = Seen(t, d, row)
    BY <1>2 DEF vars, Seen
  <2>2. \A B : \A n : \A row : /\ OwnRows(t, B, n)' = OwnRows(t, B, n)
                               /\ OwnVersion(t, B, n, row)' = OwnVersion(t, B, n, row)
    BY <1>2 DEF vars, OwnRows, OwnVersion
  <2>3. \A B : \A d \in Dbs : \A i : Answer(t, d, B, i)' = Answer(t, d, B, i)
    BY <1>2, <2>1, <2>2 DEF vars, Answer
  <2>4. \A d \in Dbs : Executed(t, d)' = Executed(t, d)
    BY <1>2 DEF vars, Executed
  <2>5. \A B : AnswersFrom(t, B)' <=> AnswersFrom(t, B)
    BY <1>2, <2>2, <2>3, <2>4 DEF vars, AnswersFrom
  <2> QED BY <1>2, <2>5 DEF vars, AnswersOf
<1> QED BY <1>1, <1>2

\* AnswersDetermined: at databases that answer correctly, every grain of a
\* request is determined by the snapshot and the statements before it.
THEOREM AnswersDetermined == Spec => []AnswersInv
<1>1. Init => AnswersInv
  BY DEF Init, AnswersInv, AnswersOf
<1> QED BY <1>1, StepAnswersInv, Invariance, FirstUpdaterWins, PTL DEF Spec

\* The databases' committed versions agree as far as a common snapshot goes.
LEMMA SeenAlike ==
  ASSUME IInv, FreshInv, Intact, NEW s \in Slots, OpenEverywhere(s),
         NEW d \in Dbs, NEW e \in Dbs, NEW row
  PROVE  Seen(s, d, row) = Seen(s, e, row)
<1>1. /\ snap[s][d] = snap[s][e] /\ snap[s][d] \in Nat
      /\ snap[s][d] <= Len(log[d]) /\ snap[s][d] <= Len(log[e])
  BY DEF IInv, SnapInv, OpenEverywhere, InTx, TypeOK, ReplicasTypeOK, FreshInv
<1>2. ASSUME NEW a \in Dbs, NEW b \in Dbs, log[a] = Published(mx, b), mx \in Slots,
             NEW i \in 1 .. Len(log[b])
      PROVE  log[a][i] = log[b][i]
  <2>1. log[b] \in Seq(CommitRecord)
    BY DEF IInv, TypeOK, ReplicasTypeOK
  <2>2. [slot |-> mx, rows |-> writes[mx][b]] \in CommitRecord
    BY <1>2 DEF IInv, TypeOK, ReplicasTypeOK, CommitRecord
  <2> QED BY <1>2, <2>1, <2>2 DEF Published
<1>3. Len(log[d]) \in Nat /\ Len(log[e]) \in Nat
  BY DEF IInv, TypeOK, ReplicasTypeOK
<1>4. ASSUME NEW i \in 1 .. snap[s][d] PROVE log[d][i] = log[e][i]
  <2>1. i \in 1 .. Len(log[d]) /\ i \in 1 .. Len(log[e])
    BY <1>1, <1>3
  <2>2. \/ log[d] = log[e]
        \/ mx \in Slots /\ (log[d] = Published(mx, e) \/ log[e] = Published(mx, d))
    BY DEF IInv, LogInv, Passed, TypeOK
  <2> QED BY <1>2, <2>1, <2>2
<1> QED BY <1>1, <1>4 DEF Seen

\* NoFalseAlarmCorrect: verify_request does not disagree about databases that
\* answered correctly, however the executors of all sessions interleaved.
THEOREM NoFalseAlarmCorrect == Spec => []NoFalseAlarm
<1>1. IInv /\ DatabaseInv /\ AnswersInv => NoFalseAlarm
  <2> SUFFICES ASSUME IInv, DatabaseInv, AnswersInv, Intact, Faithful, NEW s \in Slots,
                      pc[s] = "exec", AllOk(s), NEW d \in Dbs, NEW e \in Dbs
               PROVE  res[s][d] = res[s][e]
    BY DEF NoFalseAlarm, Faithful
  <2>1. PICK B \in SUBSET Rows : AnswersFrom(s, B)
    BY DEF AnswersInv, AnswersOf
  <2>2. OpenEverywhere(s) /\ Executed(s, d) = Executed(s, e)
    BY DEF IInv, SlotInv, TxOf, TasksOf, AllOk
  <2>3. \A i : Answer(s, d, B, i) = Answer(s, e, B, i)
    BY <2>2, SeenAlike DEF DatabaseInv, Answer
  <2>4. res[s][d] \in Seq(Result) /\ res[s][e] \in Seq(Result)
    BY DEF IInv, TypeOK
  <2>5. Len(res[s][d]) = Len(res[s][e])
    BY <2>2 DEF Executed
  <2>6. \A i \in 1 .. Len(res[s][d]) : res[s][d][i] = res[s][e][i]
    BY <2>1, <2>2, <2>3 DEF AnswersFrom, Executed
  <2> QED BY <2>4, <2>5, <2>6
<1> QED BY <1>1, Invariance, FirstUpdaterWins, AnswersDetermined, PTL

=============================================================================
