------------------------------ MODULE Replicas ------------------------------
(***************************************************************************)
(* The replica databases as the middleware sees them through SQLAPI++:     *)
(* NDb independent stores under snapshot isolation, each with a connection *)
(* per buffer slot.  External: derived from how db_executor.cpp drives     *)
(* SAConnection and SACommand (begin, execute, Commit, Rollback,           *)
(* Disconnect) and from readme.txt, which requires snapshot isolation of   *)
(* every database.                                                         *)
(***************************************************************************)
EXTENDS Integers, Sequences, FiniteSets

CONSTANTS Slots,    \* slots of db_buffer; a slot owns one connection per database
          Rows,     \* rows of the replicated data
          NDb       \* db_count: number of replica databases

ASSUME ReplicasAssumption == NDb \in Nat \ {0}

Dbs == 0 .. NDb - 1              \* db_executor::db_id

NoTx == -1                       \* a connection outside any transaction

CommitRecord == [slot: Slots, rows: SUBSET Rows]

VARIABLES
  log,     \* log[d]: the update transactions committed at d, in commit order
  snap,    \* snap[s][d]: length of log[d] when s's transaction began at d, or NoTx
  writes   \* writes[s][d]: rows written by s's open transaction at d (and locked by it)

replicaVars == <<log, snap, writes>>

ReplicasTypeOK ==
  /\ log \in [Dbs -> Seq(CommitRecord)]
  /\ snap \in [Slots -> [Dbs -> Nat \cup {NoTx}]]
  /\ writes \in [Slots -> [Dbs -> SUBSET Rows]]

ReplicasInit ==
  /\ log = [d \in Dbs |-> <<>>]
  /\ snap = [s \in Slots |-> [d \in Dbs |-> NoTx]]
  /\ writes = [s \in Slots |-> [d \in Dbs |-> {}]]

-----------------------------------------------------------------------------
InTx(s, d) == snap[s][d] # NoTx

OpenEverywhere(s) == \A d \in Dbs : InTx(s, d)

OpenNowhere(s) == \A d \in Dbs : ~InTx(s, d)

\* The first statement outside a transaction opens one (auto-commit is off).
Snapshot(s, d) == IF InTx(s, d) THEN snap[s][d] ELSE Len(log[d])

Locked(s, d, row) == \E t \in Slots \ {s} : row \in writes[t][d]

\* First updater wins: the row has a version the snapshot does not see.
Stale(s, d, row) ==
  \E i \in Snapshot(s, d) + 1 .. Len(log[d]) : row \in log[d][i].rows

\* What a select of the row returns: the committed versions in the snapshot
\* and the transaction's own write.  A row nobody wrote yields no result row.
Versions(s, d, row) ==
  {<<i, log[d][i].slot>> :
       i \in {j \in 1 .. Snapshot(s, d) : j <= Len(log[d]) /\ row \in log[d][j].rows}}
    \cup (IF row \in writes[s][d] THEN {<<0, s>>} ELSE {})

-----------------------------------------------------------------------------
DbBegin(s, d) ==
  /\ snap' = [snap EXCEPT ![s][d] = Snapshot(s, d)]
  /\ UNCHANGED <<log, writes>>

DbSelect(s, d) == DbBegin(s, d)

DbWrite(s, d, row) ==
  /\ snap' = [snap EXCEPT ![s][d] = Snapshot(s, d)]
  /\ writes' = [writes EXCEPT ![s][d] = @ \cup {row}]
  /\ UNCHANGED log

\* A transaction that wrote nothing commits without leaving a trace.
DbCommit(s, d) ==
  /\ log' = [log EXCEPT ![d] =
               IF writes[s][d] = {} THEN @
               ELSE Append(@, [slot |-> s, rows |-> writes[s][d]])]
  /\ snap' = [snap EXCEPT ![s][d] = NoTx]
  /\ writes' = [writes EXCEPT ![s][d] = {}]

DbRollback(s, d) ==
  /\ snap' = [snap EXCEPT ![s][d] = NoTx]
  /\ writes' = [writes EXCEPT ![s][d] = {}]
  /\ UNCHANGED log

\* Closing the connections aborts whatever is still open on them.
DbDisconnect(s) ==
  /\ snap' = [snap EXCEPT ![s] = [d \in Dbs |-> NoTx]]
  /\ writes' = [writes EXCEPT ![s] = [d \in Dbs |-> {}]]
  /\ UNCHANGED log
=============================================================================
