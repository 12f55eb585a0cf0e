--------------------------- MODULE MCAdjudicator ----------------------------
(* Instances of Adjudicator for TLC: requests built from the instance's rows. *)
EXTENDS AdjudicatorInv, TLC

CONSTANTS r1, r2

Read(r) == [kind |-> "select", row |-> r]
Write(r) == [kind |-> "dml", row |-> r]

\* One row: a write, and a read.
ReadOrWrite == {<<Write(r1)>>, <<Read(r1)>>}

OneWrite == {<<Write(r1)>>}

\* A request of two statements that reads its own write, and one that reads.
WriteThenRead == {<<Write(r1), Read(r1)>>, <<Read(r1)>>}

SlotSymmetry == Permutations(Slots)
=============================================================================
