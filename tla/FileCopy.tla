------------------------------ MODULE FileCopy ------------------------------
(***************************************************************************)
(* What an end-to-end copy promises to the one who started it: blocks      *)
(* arrive in any order, each once, and the copy is declared complete only  *)
(* when all of them have; it may fail at any time before that.             *)
(***************************************************************************)
CONSTANT Blocks

VARIABLES
  copied,  \* blocks the destination holds with their right content
  outcome  \* "running", "complete" or "failed"

vars == <<copied, outcome>>

Init == copied = {} /\ outcome = "running"

Copy(b) ==
  /\ outcome = "running" /\ b \notin copied
  /\ copied' = copied \cup {b}
  /\ UNCHANGED outcome

Complete ==
  /\ outcome = "running" /\ copied = Blocks
  /\ outcome' = "complete"
  /\ UNCHANGED copied

Fail ==
  /\ outcome = "running"
  /\ outcome' = "failed"
  /\ UNCHANGED copied

Next == (\E b \in Blocks : Copy(b)) \/ Complete \/ Fail

Spec == Init /\ [][Next]_vars
=============================================================================
