---------------------------- MODULE MCMiddleware ----------------------------
(* An instance of Middleware for TLC: clients that write one row. *)
EXTENDS Middleware, TLC

CONSTANT r1

OneWrite == {<<[kind |-> "dml", row |-> r1]>>}

SessionSymmetry == Permutations(Sessions)
=============================================================================
