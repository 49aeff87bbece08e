------------------------------ MODULE Lockstep ------------------------------
(***************************************************************************)
(* The -lockstep option: targets linked into a ring take turns, each       *)
(* issuing an interval of its operations, draining its workers and waking  *)
(* the next target of the ring that has not completed its pass.            *)
(*                                                                         *)
(* The ring is built from the options as xddfunc_lockstep does it.  The    *)
(* Worker Threads appear as the two numbers the turn depends on: workers   *)
(* counted as available and operations in flight.  The barriers around a   *)
(* pass are the steps StartPass and EndPass of all targets at once.        *)
(***************************************************************************)
EXTENDS Integers, Sequences, FiniteSets

CONSTANTS
  NumTargets,  \* planp->number_of_targets
  Pairs,       \* the <<master, slave>> pairs of the -lockstep options, in order
  Intervals,   \* the interval qualifier and amount of each target, in order
  EndModes,    \* considered of "complete" (END_COMPLETE), "stop" (END_STOP)
  OpsOf,       \* td_target_ops of each target, as a sequence
  QueueDepth,  \* td_queue_depth of every target
  Passes,      \* planp->passes
  TimeLimit    \* a pass time limit was given

ASSUME LockstepAssumption ==
  /\ NumTargets \in Nat \ {0} /\ OpsOf \in [1 .. NumTargets -> Nat \ {0}]
  /\ Pairs \in Seq((1 .. NumTargets) \X (1 .. NumTargets)) /\ Len(Pairs) > 0
  /\ \A t \in 1 .. NumTargets :
       Intervals[t][1] \in {"op", "percent"} /\ Intervals[t][2] \in Nat \ {0}
  /\ EndModes \subseteq {"complete", "stop"} /\ TimeLimit \in BOOLEAN
  /\ QueueDepth \in Nat \ {0} /\ Passes \in Nat \ {0}

Targets == 1 .. NumTargets
None == 0

\* xddfunc_lockstep: link the slave behind the master.
Link(next, m, s) ==
  [next EXCEPT ![s] = IF next[m] # None THEN next[m] ELSE m, ![m] = s]
RingAfter[n \in 0 .. Len(Pairs)] ==
  IF n = 0 THEN [t \in Targets |-> None]
  ELSE Link(RingAfter[n - 1], Pairs[n][1], Pairs[n][2])
NextTarget == RingAfter[Len(Pairs)]

\* Only the master of the very first option is marked as the first to run, and
\* a target that any option names as the slave loses the mark.
First == {Pairs[1][1]} \ {Pairs[i][2] : i \in 1 .. Len(Pairs)}

\* ls_interval_value as the parser computes it; xdd_lockstep takes it for a
\* number of operations whatever the qualifier was.
IntervalValue(t) ==
  IF Intervals[t][1] = "op" THEN Intervals[t][2] ELSE Intervals[t][2] \div 100

VARIABLES
  endMode,     \* LS_STATE_END_..., fixed for the run
  pc,          \* where each Target Thread is
  pass,        \* the pass all targets are in
  remaining,   \* ops_remaining
  quota,       \* operations of this interval still to be issued
  nx,          \* next_lsp: a target
  skipped,     \* status = 1: some target has completed its pass
  passComplete,\* LS_STATE_PASS_COMPLETE
  avail,       \* td_any_worker_thread_available
  flying,      \* operations in the hands of the target's workers
  expired,     \* td_time_limit_expired
  turns        \* history: intervals each target began in this pass

vars == <<pc, pass, remaining, quota, nx, skipped, passComplete, avail, flying,
          expired, turns, endMode>>

Init ==
  /\ endMode \in EndModes
  /\ pc = [t \in Targets |-> "startpass"]
  /\ pass = 1
  /\ remaining = [t \in Targets |-> 0]
  /\ quota = [t \in Targets |-> 0]
  /\ nx = [t \in Targets |-> t]
  /\ skipped = [t \in Targets |-> FALSE]
  /\ passComplete = [t \in Targets |-> FALSE]
  /\ avail = [t \in Targets |-> QueueDepth]
  /\ flying = [t \in Targets |-> 0]
  /\ expired = [t \in Targets |-> FALSE]
  /\ turns = [t \in Targets |-> 0]

Goto(t, label) == pc' = [pc EXCEPT ![t] = label]

-----------------------------------------------------------------------------
\* All targets are released from startpass together.
StartPass ==
  /\ \A t \in Targets : pc[t] = "startpass"
  /\ pc' = [t \in Targets |-> "before"]
  /\ UNCHANGED <<pass, remaining, quota, nx, skipped, passComplete, avail,
                 flying, expired, turns>>

\* xdd_lockstep_before_pass, then the head of xdd_lockstep: all but the first
\* target wait to be woken.
BeforePass(t) ==
  /\ pc[t] = "before"
  /\ passComplete' = [passComplete EXCEPT ![t] = FALSE]
  /\ remaining' = [remaining EXCEPT ![t] = OpsOf[t]]
  /\ expired' = [expired EXCEPT ![t] = FALSE]
  /\ turns' = [turns EXCEPT ![t] = 0]
  /\ Goto(t, IF t \in First THEN "loop" ELSE "wait")
  /\ UNCHANGED <<pass, quota, nx, skipped, avail, flying>>

\* Target n's Lock_Step_Barrier is for two: n, waiting, and one that wakes it.
InBarrier(n) ==
  {t \in Targets : \/ t = n /\ pc[t] = "wait"
                   \/ pc[t] = "wake" /\ nx[t] = n}
Meet(n) ==
  \E pair \in SUBSET InBarrier(n) :
    /\ Cardinality(pair) = 2
    /\ pc' = [t \in Targets |->
                IF t \notin pair THEN pc[t]
                ELSE IF pc[t] = "wait" THEN "loop" ELSE "woken"]
    /\ UNCHANGED <<pass, remaining, quota, nx, skipped, passComplete, avail,
                   flying, expired, turns>>

\* Bound of the history variable turns: an interval of one operation or more
\* is begun at most that often.
TurnCap(t) == OpsOf[t]

\* while (ops_remaining): the size of the next interval.
IntervalOps(t) ==
  IF remaining[t] < IntervalValue(t) THEN remaining[t] ELSE IntervalValue(t)

BeginInterval(t) ==
  /\ pc[t] = "loop" /\ remaining[t] # 0
  /\ quota' = [quota EXCEPT ![t] = IntervalOps(t)]
  /\ turns' = [turns EXCEPT ![t] = IF @ < TurnCap(t) THEN @ + 1 ELSE @]
  /\ Goto(t, "interval")
  /\ UNCHANGED <<pass, remaining, nx, skipped, passComplete, avail, flying,
                 expired>>

\* xdd_lockstep returns to xdd_target_pass_loop, whose drain counts every
\* worker as available once more.
Return(t) ==
  /\ pc[t] = "loop" /\ remaining[t] = 0
  /\ avail' = [avail EXCEPT ![t] = @ + QueueDepth]
  /\ Goto(t, "endpass")
  /\ UNCHANGED <<pass, remaining, quota, nx, skipped, passComplete, flying,
                 expired, turns>>

\* Get a worker, set up its task, release it.
Issue(t) ==
  /\ pc[t] = "interval" /\ quota[t] > 0
  /\ avail[t] > 0 /\ flying[t] < QueueDepth /\ ~expired[t]
  /\ avail' = [avail EXCEPT ![t] = @ - 1]
  /\ flying' = [flying EXCEPT ![t] = @ + 1]
  /\ quota' = [quota EXCEPT ![t] = @ - 1]
  /\ remaining' = [remaining EXCEPT ![t] = @ - 1]
  /\ UNCHANGED <<pc, pass, nx, skipped, passComplete, expired, turns>>

\* Get a worker, find that the time limit has expired: the worker is marked
\* not busy, but it was counted off and is not counted on again.
TimeExpired(t) ==
  /\ TimeLimit /\ pc[t] = "interval" /\ quota[t] > 0
  /\ avail[t] > 0 /\ flying[t] < QueueDepth
  /\ avail' = [avail EXCEPT ![t] = @ - 1]
  /\ expired' = [expired EXCEPT ![t] = TRUE]
  /\ Goto(t, "drain")
  /\ UNCHANGED <<pass, remaining, quota, nx, skipped, passComplete, flying,
                 turns>>

\* A worker has performed its operation and is available again.
WorkerDone(t) ==
  /\ flying[t] > 0
  /\ flying' = [flying EXCEPT ![t] = @ - 1]
  /\ avail' = [avail EXCEPT ![t] = @ + 1]
  /\ UNCHANGED <<pc, pass, remaining, quota, nx, skipped, passComplete,
                 expired, turns>>

EndInterval(t) ==
  /\ pc[t] = "interval" /\ quota[t] = 0
  /\ Goto(t, "drain")
  /\ UNCHANGED <<pass, remaining, quota, nx, skipped, passComplete, avail,
                 flying, expired, turns>>

\* Every worker has been got specifically.
DrainedBug(t) == TRUE
Drained(t) == flying[t] = 0

Drain(t) ==
  /\ pc[t] = "drain" /\ Drained(t)
  /\ passComplete' = [passComplete EXCEPT ![t] = @ \/ remaining[t] = 0]
  /\ nx' = [nx EXCEPT ![t] = NextTarget[t]]
  /\ skipped' = [skipped EXCEPT ![t] = FALSE]
  /\ Goto(t, "choose")
  /\ UNCHANGED <<pass, remaining, quota, avail, flying, expired, turns>>

\* One round of the loop that passes over targets that completed their pass.
PassOver(t) ==
  /\ pc[t] = "choose" /\ passComplete[nx[t]]
  /\ skipped' = [skipped EXCEPT ![t] = TRUE]
  /\ nx' = [nx EXCEPT ![t] = NextTarget[nx[t]]]
  /\ Goto(t, IF nx'[t] = t THEN "chosen" ELSE "choose")
  /\ UNCHANGED <<pass, remaining, quota, passComplete, avail, flying, expired,
                 turns>>

Choose(t) ==
  /\ pc[t] = "choose" /\ ~passComplete[nx[t]]
  /\ Goto(t, "chosen")
  /\ UNCHANGED <<pass, remaining, quota, nx, skipped, passComplete, avail,
                 flying, expired, turns>>

\* END_STOP gives up the rest of the pass when some target has completed.
\* Then the next target is woken, unless it is this one.
GivesUp(t) == skipped[t] /\ endMode = "stop"

WakesBug(t) == "loop"
Wakes(t) == IF nx[t] = t THEN "loop" ELSE "wake"

Decide(t) ==
  /\ pc[t] = "chosen"
  /\ remaining' = [remaining EXCEPT ![t] = IF GivesUp(t) THEN 0 ELSE @]
  /\ passComplete' = [passComplete EXCEPT ![t] = @ \/ GivesUp(t)]
  /\ Goto(t, Wakes(t))
  /\ UNCHANGED <<pass, quota, nx, skipped, avail, flying, expired, turns>>

\* After the wake-up: done with the pass, or wait to be woken again.
AfterWakingBug(t) == "wait"
AfterWaking(t) == IF passComplete[t] THEN "loop" ELSE "wait"

Woken(t) ==
  /\ pc[t] = "woken"
  /\ Goto(t, AfterWaking(t))
  /\ UNCHANGED <<pass, remaining, quota, nx, skipped, passComplete, avail,
                 flying, expired, turns>>

\* endpass and display of all targets; the next pass or the end of the run.
EndPass ==
  /\ \A t \in Targets : pc[t] = "endpass"
  /\ pass < Passes
  /\ pass' = pass + 1
  /\ pc' = [t \in Targets |-> "startpass"]
  /\ UNCHANGED <<remaining, quota, nx, skipped, passComplete, avail, flying,
                 expired, turns>>

-----------------------------------------------------------------------------
TargetStep(t) ==
  \/ BeforePass(t) \/ BeginInterval(t) \/ Return(t) \/ Issue(t)
  \/ TimeExpired(t) \/ EndInterval(t) \/ Drain(t) \/ PassOver(t) \/ Choose(t)
  \/ Decide(t) \/ Woken(t)

Next ==
  /\ \/ StartPass \/ EndPass
     \/ \E t \in Targets : Meet(t) \/ TargetStep(t) \/ WorkerDone(t)
  /\ UNCHANGED endMode

\* Every thread that can take a step is scheduled, full barriers open, and
\* the storage answers every operation.
Fairness ==
  /\ WF_vars((StartPass \/ EndPass) /\ UNCHANGED endMode)
  /\ \A t \in Targets :
       /\ WF_vars(Meet(t) /\ UNCHANGED endMode)
       /\ WF_vars(TargetStep(t) /\ UNCHANGED endMode)
       /\ WF_vars(WorkerDone(t) /\ UNCHANGED endMode)

Spec == Init /\ [][Next]_vars
FairSpec == Spec /\ Fairness

-----------------------------------------------------------------------------
(* Properties *)

Running(t) == pc[t] \in {"interval", "drain"} \/ flying[t] > 0

\* Lockstep means taking turns: at most one target of the ring issues I/O or
\* has I/O outstanding, whichever targets have completed their pass.
OneTargetRuns ==
  \A t, u \in Targets : Running(t) /\ Running(u) => t = u

\* Turns go round: of two targets that still have operations to do, neither
\* is more than one interval ahead of the other, as long as neither has
\* exceeded its time limit (in the first pass, as below).
TurnsGoRound ==
  \A t, u \in Targets :
    /\ pass = 1 /\ pc[t] \notin {"startpass", "before", "endpass"}
    /\ pc[u] \notin {"startpass", "before", "endpass"}
    /\ ~passComplete[t] /\ ~passComplete[u] /\ ~expired[t] /\ ~expired[u]
    => turns[t] <= turns[u] + 1

\* The first pass ends, unless a time limit cuts it short: nobody waits for a
\* turn that never comes.
FirstPassEnds ==
  <>(\/ \A t \in Targets : pc[t] = "endpass"
     \/ \E t \in Targets : expired[t])

=============================================================================
