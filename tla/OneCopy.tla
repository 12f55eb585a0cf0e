------------------------------ MODULE OneCopy -------------------------------
(***************************************************************************)
(* What the DivRep controller promises its clients: the replicas behave as *)
(* one database under snapshot isolation.  A transaction reads the state   *)
(* of one moment of one history, commits in one step, and two concurrent   *)
(* transactions that wrote a common row do not both commit.                *)
(***************************************************************************)
EXTENDS Integers, Sequences

CONSTANTS Slots, Rows

Idle == -1

VARIABLES
  history,   \* the committed update transactions
  txn        \* txn[s]: length of history in s's snapshot, or Idle

onecopyVars == <<history, txn>>

OneCopyInit ==
  /\ history = <<>>
  /\ txn = [s \in Slots |-> Idle]

Open(s) ==
  /\ txn[s] = Idle
  /\ txn' = [txn EXCEPT ![s] = Len(history)]
  /\ UNCHANGED history

Abort(s) ==
  /\ txn[s] # Idle
  /\ txn' = [txn EXCEPT ![s] = Idle]
  /\ UNCHANGED history

\* Nobody committed a version of these rows since s's snapshot.
FirstCommitter(s, rows) ==
  \A i \in txn[s] + 1 .. Len(history) : history[i].rows \cap rows = {}

CommitRows(s, rows) ==
  /\ txn[s] # Idle
  /\ FirstCommitter(s, rows)
  /\ history' = Append(history, [slot |-> s, rows |-> rows])
  /\ txn' = [txn EXCEPT ![s] = Idle]

OneCopyNext ==
  \E s \in Slots :
    Open(s) \/ Abort(s) \/ \E rows \in (SUBSET Rows) \ {{}} : CommitRows(s, rows)

OneCopySpec == OneCopyInit /\ [][OneCopyNext]_onecopyVars
=============================================================================
