-------------------------- MODULE MCBufferExchange --------------------------
(* Values for the sequence of targets of BufferExchange. *)
EXTENDS BufferExchange

\* "--sequence 0 1 2", and two targets.
ThreeTargets == <<0, 1, 2>>
TwoTargets == <<0, 1>>

OneEach == [t \in Range(TargetSequence) |-> 1]
=============================================================================
