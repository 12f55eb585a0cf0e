------------------------------- MODULE DivRep -------------------------------
(***************************************************************************)
(* The adjudicators and their replicas implement OneCopy.                  *)
(*                                                                         *)
(* A transaction takes effect at the last database of the loops over v_dg: *)
(* it is open from the moment it is begun there, and committed once it is  *)
(* committed there.  The mapping is only defined while the other databases *)
(* agree: each has committed what the last one has, perhaps more, and has  *)
(* given the transaction the same snapshot.                                *)
(***************************************************************************)
EXTENDS Adjudicator

LastDb == NDb - 1

\* No abstract state: the replicas disagree.
Torn == -2
TornHistory == <<[slot |-> Free, rows |-> {}]>>

\* log[d] continues the history of the last database.
Continues(d) ==
  /\ Len(log[LastDb]) <= Len(log[d])
  /\ \A i \in 1 .. Len(log[LastDb]) : log[d][i] = log[LastDb][i]

OneHistory ==
  IF \A d \in Dbs : Continues(d) THEN log[LastDb] ELSE TornHistory

OneSnapshot ==
  [s \in Slots |->
     IF \A d \in Dbs : InTx(s, d) /\ InTx(s, LastDb) => snap[s][d] = snap[s][LastDb]
     THEN snap[s][LastDb]
     ELSE Torn]

Abstract == INSTANCE OneCopy WITH history <- OneHistory, txn <- OneSnapshot

\* ImplementsOneCopy: to their clients the replicas are one database under
\* snapshot isolation, as long as no Commit fails at a single replica.
ImplementsOneCopy == Abstract!OneCopySpec
=============================================================================
