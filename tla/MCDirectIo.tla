----------------------------- MODULE MCDirectIo -----------------------------
(* The runs for which the descriptors of module DirectIo are checked.      *)
EXTENDS DirectIo

\* Two targets with direct I/O and a short last operation that open their files
\* afresh between two passes.
ReopenedRuns ==
  {[targets |-> 2, depth |-> 1, passes |-> 2, ops |-> 3, unaligned |-> {3},
    dio |-> TRUE, op |-> "write", mode |-> "reopen"]}
=============================================================================
