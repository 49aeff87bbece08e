----------------------------- MODULE MCPlanStart -----------------------------
(* The combinations of options with which the start of a plan is checked.   *)
EXTENDS PlanStart

Plain == [heartbeat |-> FALSE, restart |-> FALSE, interactive |-> FALSE,
          restarts |-> {}, dryrun |-> FALSE, library |-> FALSE, signals |-> {}]

MCOptions ==
  {[Plain EXCEPT !.heartbeat = TRUE, !.restart = TRUE, !.restarts = {1, 2},
                 !.signals = {"SIGTERM"}],
   [Plain EXCEPT !.heartbeat = TRUE, !.dryrun = TRUE],
   [Plain EXCEPT !.interactive = TRUE],
   [Plain EXCEPT !.restart = TRUE, !.restarts = {1}],
   [Plain EXCEPT !.signals = {"SIGUSR1"}],
   [Plain EXCEPT !.library = TRUE]}

=============================================================================
