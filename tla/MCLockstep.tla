----------------------------- MODULE MCLockstep -----------------------------
(* Values for the sequence-valued constants of Lockstep. *)
EXTENDS Lockstep

\* -lockstep 1 2 ... -lockstep 2 3 ...: one ring of three targets.
Pairs3 == <<<<1, 2>>, <<2, 3>>>>
Ops3 == <<2, 5, 3>>
Intervals3 == <<<<"op", 1>>, <<"op", 2>>, <<"op", 1>>>>
=============================================================================
