---------------------------- MODULE PassBarriers ----------------------------
(***************************************************************************)
(* The Target Threads of a plan, the Results Manager and the main thread,  *)
(* and the barriers that keep them in step: every pass starts when all     *)
(* targets and the Results Manager have entered startpass, its results are *)
(* processed between endpass and display, and the run ends with one more   *)
(* round of the three barriers, a cleanup barrier and main's final barrier.*)
(*                                                                         *)
(* What a target does during a pass is TargetPass's subject; here a pass   *)
(* is one step with the outcomes that steer the run: stop on error         *)
(* (td_abort), a canceled run, an expired run time.  A thread at a barrier *)
(* label has entered the barrier; the last one to enter releases all.      *)
(* The counters of the targets and what the Results Manager makes of them  *)
(* are those of module Results.  End-to-end targets, which leave a         *)
(* canceled run with exit(2), are not part of this module.                 *)
(***************************************************************************)
EXTENDS Results, FiniteSets

CONSTANTS
  NumTargets,    \* planp->number_of_targets
  Passes,        \* planp->passes as given on the command line
  RunTimes,      \* the values considered of planp->run_time_ticks > 0
  MaxPasses,     \* bound: the run time has expired by this pass
  StopOnErrors,  \* the values considered of GO_STOP_ON_ERROR
  CanCancel,     \* a worker may cancel the run
  ReopenCanFail, \* TO_REOPEN etc. is set and the open between passes may fail
  PassDelay,     \* planp->pass_delay_usec, in ticks
  PassTimes,     \* the ticks that a pass of a target may take
  RoundTime      \* ticks between the starts of passes, delays not counted

ASSUME BarrierAssumption ==
  /\ NumTargets \in Nat \ {0} /\ Passes \in Nat \ {0}
  /\ MaxPasses \in Nat
  /\ RunTimes \subseteq BOOLEAN /\ StopOnErrors \subseteq BOOLEAN
  /\ CanCancel \in BOOLEAN /\ ReopenCanFail \in BOOLEAN
  /\ PassDelay \in Nat /\ PassTimes \subseteq Nat
  /\ RoundTime \in Nat /\ \A d \in PassTimes : NumTargets + d <= RoundTime

VARIABLES
  runTime,     \* planp->run_time_ticks > 0, fixed for the run
  pc,          \* where each thread is
  pass,        \* tc_pass_number of each target
  reg,         \* planp->passes as loaded by a target's passes++
  passes,      \* planp->passes
  currentPass, \* planp->current_pass_number: passes whose results were processed
  tdAbort,     \* td_abort of each target
  canceled, abort, runComplete, expired, \* flags of xgp
  stopOnError, \* GO_STOP_ON_ERROR, fixed for the run
  passTime,    \* the ticks that a pass takes, fixed for the run
  counters,    \* td_counters of each target
  average,     \* target_average_resultsp[] of the plan
  combined,    \* the results of the run
  delayed,     \* planp->pass_delay_accumulated_time
  transferred  \* history: what the storage has done for the targets

flags == <<canceled, abort, runComplete, expired>>
config == <<runTime, stopOnError, passTime>>
results == <<average, combined, delayed>>
vars == <<pc, pass, reg, passes, currentPass, tdAbort, flags, config, counters,
          results, transferred>>

Targets == 1 .. NumTargets
RM == 0
Main == NumTargets + 1
Threads == 0 .. NumTargets + 1

\* Each barrier label, and the label its thread continues at.  A target
\* meets startpass, endpass and display in xdd_target_pass and, once more,
\* at the end of xdd_target_thread.
Continuation ==
  [startpass |-> "started", endpass |-> "display", display |-> "returned",
   lastStartpass |-> "lastEndpass", lastEndpass |-> "lastDisplay",
   lastDisplay |-> "cleanup", waitforcleanup |-> "done",
   rmStartpass |-> "rmEndpass", rmEndpass |-> "results",
   rmDisplay |-> "rmStartpass", rmRunDisplay |-> "rmWaitforcleanup",
   rmAbortDisplay |-> "gone", rmWaitforcleanup |-> "rmFinal",
   rmFinal |-> "done", mainFinal |-> "done"]

\* xdd_results_manager_init: all targets and the Results Manager.
PassBarrierSizeBug == NumTargets
PassBarrierSize == NumTargets + 1

\* The labels at which a thread is inside each of the barriers, and how many
\* threads the barrier was initialised for.
Barriers ==
  {[at |-> {"startpass", "lastStartpass", "rmStartpass"},
    size |-> PassBarrierSize],
   [at |-> {"endpass", "lastEndpass", "rmEndpass"}, size |-> PassBarrierSize],
   [at |-> {"display", "lastDisplay", "rmDisplay", "rmRunDisplay",
            "rmAbortDisplay"}, size |-> PassBarrierSize],
   [at |-> {"waitforcleanup", "rmWaitforcleanup"}, size |-> PassBarrierSize],
   [at |-> {"rmFinal", "mainFinal"}, size |-> 2]}

Inside(b) == {t \in Threads : pc[t] \in b.at}

Init ==
  /\ runTime \in RunTimes
  /\ pc = [t \in Threads |-> IF t = RM THEN "rmStartpass"
                             ELSE IF t = Main THEN "mainFinal"
                             ELSE "startpass"]
  /\ pass = [t \in Targets |-> 1]
  /\ reg = [t \in Targets |-> 0]
  /\ passes = Passes
  /\ currentPass = 0
  /\ tdAbort = [t \in Targets |-> FALSE]
  /\ canceled = FALSE /\ abort = FALSE /\ runComplete = FALSE
  /\ expired = FALSE
  /\ stopOnError \in StopOnErrors
  /\ passTime \in PassTimes
  /\ counters = [t \in Targets |-> [counts |-> NoCounts, start |-> 0, end |-> 0]]
  /\ average = [t \in Targets |-> NewResults]
  /\ combined = NewResults /\ delayed = 0
  /\ transferred = [bytes |-> 0, ops |-> 0, errors |-> 0]

Goto(t, label) == pc' = [pc EXCEPT ![t] = label]

-----------------------------------------------------------------------------
\* A pthread barrier lets threads go in groups of the size it was
\* initialised with.
Release(b) ==
  \E group \in SUBSET Inside(b) :
    /\ Cardinality(group) = b.size
    /\ pc' = [t \in Threads |->
                IF t \in group THEN Continuation[pc[t]] ELSE pc[t]]
    /\ UNCHANGED <<pass, reg, passes, currentPass, tdAbort, flags, counters,
                   results, transferred>>

-----------------------------------------------------------------------------
(* xdd_target_pass *)

\* nclk_now: the passes follow one another, and the targets start one tick
\* apart.
nclk_now(t) == RoundTime * pass[t] + delayed + t

\* Past startpass: an aborted or completed run returns without the other
\* barriers.
StartPass(t) ==
  /\ pc[t] = "started"
  /\ Goto(t, IF abort \/ runComplete THEN "returned" ELSE "inPass")
  /\ tdAbort' = [tdAbort EXCEPT
       ![t] = IF abort \/ runComplete THEN @ ELSE FALSE]
  /\ counters' = [counters EXCEPT
       ![t] = IF abort \/ runComplete THEN @
              ELSE xdd_init_target_data_before_pass(@, nclk_now(t))]
  /\ UNCHANGED <<pass, reg, passes, currentPass, flags, results, transferred>>

\* The odd targets read and the even ones write; target t has requests of t
\* blocks.
OpType(t) == IF t % 2 = 1 THEN "read" ELSE "write"

\* The counters after a good operation and, where one fails, a bad one.
Performed(t, failed) ==
  LET good == xdd_worker_thread_update_target_counters(
                counters[t], OpType(t), t, TRUE)
  IN  IF failed
      THEN xdd_worker_thread_update_target_counters(good, OpType(t), t, FALSE)
      ELSE good

\* The pass itself, then things-to-do-after-the-pass (the end time of the
\* pass) and endpass.
PerformPass(t) ==
  /\ pc[t] = "inPass"
  /\ Goto(t, "endpass")
  /\ \E e \in BOOLEAN, c \in BOOLEAN, x \in BOOLEAN :
       /\ c => CanCancel
       /\ x => runTime
       /\ runTime /\ pass[t] >= MaxPasses => x
       /\ tdAbort' = [tdAbort EXCEPT ![t] = e /\ stopOnError]
       /\ canceled' = (canceled \/ c)
       /\ expired' = (expired \/ x)
       /\ counters' = [counters EXCEPT
            ![t] = [Performed(t, e) EXCEPT !.end = nclk_now(t) + passTime]]
       /\ transferred' = [bytes |-> transferred.bytes + t,
                           ops |-> transferred.ops + 1,
                           errors |-> transferred.errors + (IF e THEN 1 ELSE 0)]
  /\ UNCHANGED <<pass, reg, passes, currentPass, abort, runComplete, results>>

-----------------------------------------------------------------------------
(* xdd_target_thread, after xdd_target_pass has returned *)

StopNow(t) == canceled \/ abort \/ tdAbort[t]

\* Leave on a cancel, an abort or an expired run time; a run time that has
\* not expired extends the last pass (the load of planp->passes++).
AfterPass(t) ==
  /\ pc[t] = "returned"
  /\ IF StopNow(t) \/ (runTime /\ expired) THEN Goto(t, "complete")
     ELSE IF runTime /\ pass[t] = passes THEN Goto(t, "bump")
     ELSE Goto(t, "checkPasses")
  /\ reg' = [reg EXCEPT ![t] = IF pc'[t] = "bump" THEN passes ELSE 0]
  /\ UNCHANGED <<pass, passes, currentPass, tdAbort, flags, counters,
                 results, transferred>>

\* The store of planp->passes++, which no lock protects.
Bump(t) ==
  /\ pc[t] = "bump"
  /\ passes' = reg[t] + 1
  /\ reg' = [reg EXCEPT ![t] = 0]
  /\ Goto(t, "checkPasses")
  /\ UNCHANGED <<pass, currentPass, tdAbort, flags, counters,
                 results, transferred>>

LastPassDone(t) == pass[t] >= passes

CheckPasses(t) ==
  /\ pc[t] = "checkPasses"
  /\ IF LastPassDone(t)
     THEN Goto(t, "complete") /\ UNCHANGED <<pass, abort>>
     ELSE /\ Goto(t, "startpass")
          /\ pass' = [pass EXCEPT ![t] = @ + 1]
          /\ \/ UNCHANGED abort
             \/ ReopenCanFail /\ abort' = TRUE
  /\ UNCHANGED <<reg, passes, currentPass, tdAbort, canceled, runComplete,
                 expired, counters,
                 results, transferred>>

\* run_complete = 1, then the last round of barriers.
CompleteRun(t) ==
  /\ pc[t] = "complete"
  /\ runComplete' = TRUE
  /\ Goto(t, "lastStartpass")
  /\ UNCHANGED <<pass, reg, passes, currentPass, tdAbort, canceled, abort,
                 expired, counters,
                 results, transferred>>

Cleanup(t) ==
  /\ pc[t] = "cleanup"
  /\ Goto(t, "waitforcleanup")
  /\ UNCHANGED <<pass, reg, passes, currentPass, tdAbort, flags, counters,
                 results, transferred>>

-----------------------------------------------------------------------------
(* xdd_results_manager *)

\* current_pass_number++
CountPass == currentPass + 1

\* Between endpass and display: run results when the run was aborted or is
\* complete (then the run counts as aborted if a target did), else the
\* results of the pass.
NextDisplayBug == IF abort THEN "rmAbortDisplay" ELSE "rmDisplay"
NextDisplay ==
  IF abort THEN "rmAbortDisplay"
  ELSE IF runComplete THEN "rmRunDisplay" ELSE "rmDisplay"

\* "Insert a delay of pass_delay seconds if requested", not after the last
\* pass that is known of.
DelayBug == IF currentPass + 1 <= passes THEN PassDelay ELSE 0
Delay == IF currentPass + 1 < passes THEN PassDelay ELSE 0

ProcessResults ==
  /\ pc[RM] = "results"
  /\ Goto(RM, NextDisplay)
  /\ IF abort \/ runComplete
     THEN /\ abort' = (abort \/ \E t \in Targets : tdAbort[t])
          /\ combined' = CombinedResults(average, delayed)
          /\ UNCHANGED <<currentPass, average, delayed>>
     ELSE /\ currentPass' = CountPass
          /\ average' = [t \in Targets |->
                           AverageAfterPass(average[t], pass[t], counters[t])]
          /\ delayed' = delayed + Delay
          /\ UNCHANGED <<abort, combined>>
  /\ UNCHANGED <<pass, reg, passes, tdAbort, canceled, runComplete, expired,
                 counters, transferred>>

-----------------------------------------------------------------------------
\* The run is over: main and every target returned.
Finished == \A t \in Threads : pc[t] = "done"
TargetStep(t) ==
  \/ StartPass(t) \/ PerformPass(t) \/ AfterPass(t) \/ Bump(t)
  \/ CheckPasses(t) \/ CompleteRun(t) \/ Cleanup(t)

Next ==
  /\ \/ \E b \in Barriers : Release(b)
     \/ \E t \in Targets : TargetStep(t)
     \/ ProcessResults
  /\ UNCHANGED config

\* Threads that can run are scheduled, and a full barrier opens.
Fairness ==
  /\ WF_vars((\E b \in Barriers : Release(b)) /\ UNCHANGED config)
  /\ \A t \in Targets : WF_vars(TargetStep(t) /\ UNCHANGED config)
  /\ WF_vars(ProcessResults /\ UNCHANGED config)

Spec == Init /\ [][Next]_vars
FairSpec == Spec /\ Fairness

-----------------------------------------------------------------------------
(* Properties *)

\* All targets work on the same pass at the same time (the comment at
\* target_pass.c:31), although each keeps its own pass number and the number
\* of passes is changed without a lock.
SamePass ==
  \A t, u \in Targets :
    pc[t] = "inPass" /\ pc[u] \in {"inPass", "endpass", "display"} =>
      pass[t] = pass[u]

\* The results of a run that ends account for every operation of every pass
\* and target exactly once, errors included, whatever made the run end.
CombinedIsTheSum ==
  Finished =>
    LET c == combined.counts
    IN  /\ c.bytes_xfered = transferred.bytes
        /\ c.op_count = transferred.ops
        /\ c.error_count = transferred.errors
        /\ c.bytes_read + c.bytes_written = c.bytes_xfered
        /\ c.read_op_count + c.write_op_count = c.op_count
        /\ combined.pass_number = currentPass

\* The time that a run with all its passes is said to have taken, from which
\* the delays between passes are subtracted, is not shorter than what the
\* passes of any target took.  (A run that ends early may be reported with a
\* negative time.)
ElapsedCoversThePasses ==
  Finished /\ currentPass >= passes /\ combined.elapsed_pass_time # -1 =>
    \A t \in Targets : combined.elapsed_pass_time >= pass[t] * passTime

\* The same, unless a target stops on an I/O error or fails to reopen its file
\* between passes.
UndisturbedRunEnds == <>(Finished \/ abort \/ \E t \in Targets : tdAbort[t])
=============================================================================
