----------------------------- MODULE TargetPass -----------------------------
(***************************************************************************)
(* One Target Thread and its queue_depth Worker Threads while they perform *)
(* the passes of a run that is neither end-to-end nor lockstep:            *)
(*                                                                         *)
(*   - xdd_target_pass_loop hands I/O tasks to idle workers, then drains;  *)
(*   - xdd_worker_thread performs a task and makes itself available again; *)
(*   - xdd_target_thread repeats this for every pass and finally stops the *)
(*     workers from xdd_target_thread_cleanup.                             *)
(*                                                                         *)
(* A section that runs under one mutex is one step.  The two updates of    *)
(* td_any_worker_thread_available are under different mutexes, so each is  *)
(* a load step and a store step.  A thread blocked in pthread_cond_wait is *)
(* at an "asleep" label that only the matching broadcast moves it from.    *)
(* The barriers shared with other targets and with the results manager are *)
(* the subject of module PassBarriers.                                     *)
(***************************************************************************)
EXTENDS Integers

CONSTANTS
  QueueDepth,     \* td_queue_depth: number of Worker Threads
  BytesPerPass,   \* td_target_bytes_to_xfer_per_pass
  XferSize,       \* td_xfer_size
  Passes,         \* planp->passes
  TimeLimit,      \* a pass time limit was given (td_time_limit_ticks # 0)
  StopOnError,    \* GO_STOP_ON_ERROR
  IoCanFail,      \* an I/O may return something else than its size
  PrepareCanFail  \* things-to-do-before-an-I/O may fail and cancel the run

ASSUME PassAssumption ==
  /\ QueueDepth \in Nat \ {0}
  /\ BytesPerPass \in Nat
  /\ XferSize \in Nat \ {0}
  /\ Passes \in Nat \ {0}
  /\ TimeLimit \in BOOLEAN /\ StopOnError \in BOOLEAN
  /\ IoCanFail \in BOOLEAN /\ PrepareCanFail \in BOOLEAN

VARIABLES
  tpc,      \* where the Target Thread is
  twdp,     \* its wdp (list position) or q: 0 .. QueueDepth, QueueDepth is NULL
  treg,     \* the value its unlocked avail++ has loaded
  wpc,      \* where each Worker Thread is
  wreg,     \* the value each worker's avail++ has loaded
  busy,     \* WTSYNC_BUSY of each worker
  waiting,  \* WTSYNC_TARGET_WAITING of each worker
  avail,    \* td_any_worker_thread_available
  anyMutex, \* td_any_worker_thread_available_mutex: a worker, TargetId or Free
  request,  \* wd_task.task_request of each worker
  opNumber, \* wd_task.task_op_number of each worker
  xfer,     \* wd_task.task_xfer_size of each worker
  pass,     \* tc_pass_number
  nextOp,   \* tc_current_op_number
  issued,   \* td_current_bytes_issued
  remaining,\* td_current_bytes_remaining
  completed,\* td_current_bytes_completed
  result,   \* history: what became of each operation number of this pass
  expired,  \* td_time_limit_expired
  canceled, \* xgp->canceled
  tdAbort   \* td_abort

poolVars == <<busy, waiting, avail, anyMutex>>
taskVars == <<request, opNumber, xfer>>
passVars == <<pass, nextOp, issued, remaining, expired>>
ioVars == <<result, completed>>
vars == <<tpc, twdp, treg, wpc, wreg, poolVars, taskVars, passVars, ioVars,
          canceled, tdAbort>>

Workers == 0 .. QueueDepth - 1
TargetId == QueueDepth
Free == QueueDepth + 1

\* The operations of a pass: full transfers and a last short one.
NumOps == (BytesPerPass + XferSize - 1) \div XferSize
Ops == 0 .. NumOps - 1

\* What a worker still has to do with a task it was given.
InFlight(w) == wpc[w] \in {"dispatch", "check", "io"}
\* The worker has disposed of its operation but is not marked available yet.
Finishing(w) == wpc[w] \in {"afterIo", "mark"}

\* Operation k is in worker w's task, about to be or being performed.
Holds(w, k) ==
  /\ opNumber[w] = k
  /\ \/ wpc[w] \in {"check", "io"}
     \/ wpc[w] = "dispatch" /\ request[w] = "IO"
     \/ tpc = "release" /\ twdp = w

Init ==
  /\ tpc = "startpass" /\ twdp = 0 /\ treg = 0
  /\ wpc = [w \in Workers |-> "wait"]
  /\ wreg = [w \in Workers |-> 0]
  /\ busy = [w \in Workers |-> FALSE]
  /\ waiting = [w \in Workers |-> FALSE]
  /\ avail = QueueDepth
  /\ anyMutex = Free
  /\ request = [w \in Workers |-> "none"]
  /\ opNumber = [w \in Workers |-> 0]
  /\ xfer = [w \in Workers |-> 0]
  /\ pass = 1 /\ nextOp = 0 /\ issued = 0 /\ remaining = 0 /\ completed = 0
  /\ result = [k \in Ops |-> "unissued"]
  /\ expired = FALSE /\ canceled = FALSE /\ tdAbort = FALSE

-----------------------------------------------------------------------------
(* The Target Thread. *)

\* A worker the locator may take: its WTSYNC_BUSY bit is clear.
NotBusyBug(w) == TRUE
NotBusy(w) == ~busy[w]

\* The size of the next transfer: what is left, when that is less than a full
\* one.
TransferSizeBug == XferSize
TransferSize == IF remaining < XferSize THEN remaining ELSE XferSize

\* The condition of the issuing loop.
MoreToIssueBug == remaining > XferSize
MoreToIssue == remaining # 0

\* tc_current_op_number++
NextOpNumberBug == nextOp
NextOpNumber == nextOp + 1

\* Where the target goes after the issuing loop: a canceled run leaves at
\* once, any other drains.
AfterLoopBug == "afterPass"
AfterLoop == IF canceled THEN "afterPass" ELSE "getSpecific"

\* xdd_init_target_data_before_pass: every per-pass counter starts again.
BeforePass ==
  /\ tpc = "startpass"
  /\ tpc' = "loop"
  /\ nextOp' = 0 /\ issued' = 0 /\ remaining' = BytesPerPass /\ completed' = 0
  /\ result' = [k \in Ops |-> "unissued"]
  /\ expired' = FALSE /\ tdAbort' = FALSE
  /\ UNCHANGED <<twdp, treg, wpc, wreg, poolVars, taskVars, pass, canceled>>

\* while (td_current_bytes_remaining)
PassLoop ==
  /\ tpc = "loop"
  /\ tpc' = IF MoreToIssue THEN "getAny" ELSE "endloop"
  /\ UNCHANGED <<twdp, treg, wpc, wreg, poolVars, taskVars, passVars, ioVars,
                 canceled, tdAbort>>

\* xdd_get_any_available_worker_thread: wait for the counter, take one count.
GetAnyWait ==
  /\ tpc = "getAny" /\ anyMutex = Free /\ avail <= 0
  /\ tpc' = "asleepAny"
  /\ UNCHANGED <<twdp, treg, wpc, wreg, poolVars, taskVars, passVars, ioVars,
                 canceled, tdAbort>>

GetAnyCount ==
  /\ tpc = "getAny" /\ anyMutex = Free /\ avail > 0
  /\ avail' = avail - 1
  /\ anyMutex' = TargetId
  /\ twdp' = 0
  /\ tpc' = "scan"
  /\ UNCHANGED <<treg, wpc, wreg, busy, waiting, taskVars, passVars, ioVars,
                 canceled, tdAbort>>

\* ... then walk the worker list, one worker's mutex at a time, for the first
\* that is not BUSY.  The end of the list sends it back to the counter.
GetAnyScan ==
  /\ tpc = "scan"
  /\ \/ /\ twdp = QueueDepth
        /\ tpc' = "getAny" /\ anyMutex' = Free
        /\ UNCHANGED <<twdp, busy>>
     \/ /\ twdp < QueueDepth /\ ~NotBusy(twdp)
        /\ twdp' = twdp + 1
        /\ UNCHANGED <<tpc, anyMutex, busy>>
     \/ /\ twdp < QueueDepth /\ NotBusy(twdp)
        /\ busy' = [busy EXCEPT ![twdp] = TRUE]
        /\ tpc' = "beforeIo" /\ anyMutex' = Free
        /\ UNCHANGED twdp
  /\ UNCHANGED <<treg, wpc, wreg, waiting, avail, taskVars, passVars, ioVars,
                 canceled, tdAbort>>

\* xdd_target_ttd_before_io_op returned XDD_RC_BAD: give the worker back and
\* leave the loop.  Its count is not given back.
BeforeIoBad ==
  /\ tpc = "beforeIo"
  /\ \/ TimeLimit /\ expired' = TRUE
     \/ (canceled \/ tdAbort) /\ UNCHANGED expired
  /\ busy' = [busy EXCEPT ![twdp] = FALSE]
  /\ tpc' = "endloop"
  /\ UNCHANGED <<twdp, treg, wpc, wreg, waiting, avail, anyMutex, taskVars,
                 pass, nextOp, issued, remaining, ioVars, canceled, tdAbort>>

\* xdd_target_pass_task_setup
TaskSetup ==
  /\ tpc = "beforeIo" /\ ~canceled /\ ~tdAbort
  /\ request' = [request EXCEPT ![twdp] = "IO"]
  /\ opNumber' = [opNumber EXCEPT ![twdp] = nextOp]
  /\ xfer' = [xfer EXCEPT ![twdp] = TransferSize]
  /\ issued' = issued + TransferSize
  /\ remaining' = remaining - TransferSize
  /\ nextOp' = NextOpNumber
  /\ result' = [result EXCEPT ![nextOp] = "issued"]
  /\ tpc' = "release"
  /\ UNCHANGED <<twdp, treg, wpc, wreg, poolVars, pass, expired, completed,
                 canceled, tdAbort>>

\* The two-party barrier wd_thread_targetpass_wait_for_task_barrier.

ReleaseWorker ==
  /\ tpc = "release" /\ wpc[twdp] = "wait"
  /\ wpc' = [wpc EXCEPT ![twdp] = "dispatch"]
  /\ tpc' = "loop"
  /\ UNCHANGED <<twdp, treg, wreg, poolVars, taskVars, passVars, ioVars,
                 canceled, tdAbort>>

EndLoop ==
  /\ tpc = "endloop"
  /\ twdp' = 0
  /\ tpc' = AfterLoop
  /\ UNCHANGED <<treg, wpc, wreg, poolVars, taskVars, passVars, ioVars,
                 canceled, tdAbort>>

\* xdd_get_specific_worker_thread for worker q of the draining FOR loop.  The
\* worker that wakes the target has just cleared its BUSY bit and only the
\* target sets it, so the re-test of the WHILE loop is this action again.
GetSpecific ==
  /\ tpc = "getSpecific"
  /\ \/ /\ twdp = QueueDepth
        /\ tpc' = "afterPass"
        /\ UNCHANGED <<busy, waiting>>
     \/ /\ twdp < QueueDepth /\ ~NotBusy(twdp)
        /\ waiting' = [waiting EXCEPT ![twdp] = TRUE]
        /\ tpc' = "asleepSpecific"
        /\ UNCHANGED busy
     \/ /\ twdp < QueueDepth /\ NotBusy(twdp)
        /\ busy' = [busy EXCEPT ![twdp] = TRUE]
        /\ tpc' = "drainLoad"
        /\ UNCHANGED waiting
  /\ UNCHANGED <<twdp, treg, wpc, wreg, avail, anyMutex, taskVars, passVars,
                 ioVars, canceled, tdAbort>>

\* The drained worker is marked NOT BUSY and td_any_worker_thread_available++
\* is done under that worker's mutex, not under the counter's own.
DrainLoad ==
  /\ tpc = "drainLoad"
  /\ busy' = [busy EXCEPT ![twdp] = FALSE]
  /\ treg' = avail
  /\ tpc' = "drainStore"
  /\ UNCHANGED <<twdp, wpc, wreg, waiting, avail, anyMutex, taskVars,
                 passVars, ioVars, canceled, tdAbort>>

DrainStore ==
  /\ tpc = "drainStore"
  /\ avail' = treg + 1
  /\ treg' = 0
  /\ twdp' = twdp + 1
  /\ tpc' = "getSpecific"
  /\ UNCHANGED <<wpc, wreg, busy, waiting, anyMutex, taskVars, passVars,
                 ioVars, canceled, tdAbort>>

\* The end of one turn of the pass loop of xdd_target_thread.
AfterPass ==
  /\ tpc = "afterPass"
  /\ IF canceled \/ tdAbort \/ pass >= Passes
       THEN tpc' = "cleanup" /\ twdp' = 0 /\ UNCHANGED pass
       ELSE tpc' = "startpass" /\ pass' = pass + 1 /\ UNCHANGED twdp
  /\ UNCHANGED <<treg, wpc, wreg, poolVars, taskVars, nextOp, issued,
                 remaining, ioVars, expired, canceled, tdAbort>>

\* xdd_target_thread_cleanup: every worker gets a STOP task.
CleanupStop ==
  /\ tpc = "cleanup"
  /\ IF twdp = QueueDepth
       THEN tpc' = "done" /\ UNCHANGED request
       ELSE tpc' = "stopping" /\ request' = [request EXCEPT ![twdp] = "STOP"]
  /\ UNCHANGED <<twdp, treg, wpc, wreg, poolVars, opNumber, xfer, passVars,
                 ioVars, canceled, tdAbort>>

CleanupRelease ==
  /\ tpc = "stopping" /\ wpc[twdp] = "wait"
  /\ wpc' = [wpc EXCEPT ![twdp] = "dispatch"]
  /\ twdp' = twdp + 1
  /\ tpc' = "cleanup"
  /\ UNCHANGED <<treg, wreg, poolVars, taskVars, passVars, ioVars, canceled,
                 tdAbort>>

-----------------------------------------------------------------------------
(* A Worker Thread. *)

\* The broadcast to a target that sleeps until worker w is available ...
WakeSpecificBug(w) == tpc
WakeSpecific(w) ==
  IF waiting[w] /\ tpc = "asleepSpecific" THEN "getSpecific" ELSE tpc

\* ... and the one to a target that sleeps until any worker is.
WakeAny == IF tpc = "asleepAny" THEN "getAny" ELSE tpc

\* The switch on task_request; xdd_worker_thread_ttd_before_io_op may fail.
Dispatch(w) ==
  /\ wpc[w] = "dispatch"
  /\ \/ /\ request[w] = "STOP"
        /\ wpc' = [wpc EXCEPT ![w] = "stopped"]
        /\ UNCHANGED canceled
     \/ /\ request[w] = "IO"
        /\ wpc' = [wpc EXCEPT ![w] = "check"]
        /\ UNCHANGED canceled
     \/ /\ request[w] = "IO" /\ PrepareCanFail /\ ~canceled
        /\ wpc' = [wpc EXCEPT ![w] = "check"]
        /\ canceled' = TRUE
  /\ UNCHANGED <<tpc, twdp, treg, wreg, poolVars, taskVars, passVars, ioVars,
                 tdAbort>>

\* A run that was canceled or aborted performs no further I/O.
CheckCanceled(w) ==
  /\ wpc[w] = "check"
  /\ IF canceled \/ tdAbort
       THEN /\ wpc' = [wpc EXCEPT ![w] = "mark"]
            /\ result' = [result EXCEPT ![opNumber[w]] = "skipped"]
       ELSE wpc' = [wpc EXCEPT ![w] = "io"] /\ UNCHANGED result
  /\ UNCHANGED <<completed, tpc, twdp, treg, wreg, poolVars, taskVars, passVars,
                 canceled, tdAbort>>

\* xdd_io_for_os and the two counter updates that follow it.
PerformIo(w) ==
  /\ wpc[w] = "io"
  /\ wpc' = [wpc EXCEPT ![w] = "afterIo"]
  /\ \/ /\ result' = [result EXCEPT ![opNumber[w]] = "done"]
        /\ completed' = completed + xfer[w]
        /\ UNCHANGED tdAbort
     \/ /\ IoCanFail
        /\ result' = [result EXCEPT ![opNumber[w]] = "failed"]
        /\ UNCHANGED completed
        /\ tdAbort' = (tdAbort \/ StopOnError)
  /\ UNCHANGED <<tpc, twdp, treg, wreg, poolVars, taskVars, passVars, canceled>>

\* xdd_worker_thread_ttd_after_io_op: leaving buffered mode may fail, unless
\* the target was aborted.
AfterIo(w) ==
  /\ wpc[w] = "afterIo"
  /\ wpc' = [wpc EXCEPT ![w] = "mark"]
  /\ \/ UNCHANGED canceled
     \/ PrepareCanFail /\ ~tdAbort /\ canceled' = TRUE
  /\ UNCHANGED <<tpc, twdp, treg, wreg, poolVars, taskVars, passVars, ioVars,
                 tdAbort>>

\* Mark this Worker Thread available and wake a target waiting for it.
MarkAvailable(w) ==
  /\ wpc[w] = "mark"
  /\ busy' = [busy EXCEPT ![w] = FALSE]
  /\ waiting' = [waiting EXCEPT ![w] = FALSE]
  /\ tpc' = WakeSpecific(w)
  /\ wpc' = [wpc EXCEPT ![w] = "availLoad"]
  /\ UNCHANGED <<twdp, treg, wreg, avail, anyMutex, taskVars, passVars, ioVars,
                 canceled, tdAbort>>

\* td_any_worker_thread_available++ and the broadcast, under the any-mutex.
AvailLoad(w) ==
  /\ wpc[w] = "availLoad" /\ anyMutex = Free
  /\ anyMutex' = w
  /\ wreg' = [wreg EXCEPT ![w] = avail]
  /\ wpc' = [wpc EXCEPT ![w] = "availStore"]
  /\ UNCHANGED <<tpc, twdp, treg, busy, waiting, avail, taskVars, passVars,
                 ioVars, canceled, tdAbort>>

AvailStore(w) ==
  /\ wpc[w] = "availStore"
  /\ avail' = wreg[w] + 1
  /\ wreg' = [wreg EXCEPT ![w] = 0]
  /\ anyMutex' = Free
  /\ tpc' = WakeAny
  /\ wpc' = [wpc EXCEPT ![w] = "wait"]
  /\ UNCHANGED <<twdp, treg, busy, waiting, taskVars, passVars, ioVars,
                 canceled, tdAbort>>

Target ==
  \/ BeforePass \/ PassLoop \/ GetAnyWait \/ GetAnyCount \/ GetAnyScan
  \/ BeforeIoBad \/ TaskSetup \/ ReleaseWorker \/ EndLoop \/ GetSpecific
  \/ DrainLoad \/ DrainStore \/ AfterPass \/ CleanupStop \/ CleanupRelease

Worker(w) ==
  \/ Dispatch(w) \/ CheckCanceled(w) \/ PerformIo(w) \/ AfterIo(w)
  \/ MarkAvailable(w) \/ AvailLoad(w) \/ AvailStore(w)

Next == Target \/ \E w \in Workers : Worker(w)

Spec == Init /\ [][Next]_vars

\* Every thread that can run is eventually scheduled and every I/O returns.
FairSpec == Spec /\ WF_vars(Target) /\ \A w \in Workers : WF_vars(Worker(w))

-----------------------------------------------------------------------------
(* Properties. *)

TypeOK ==
  /\ tpc \in {"startpass", "loop", "getAny", "asleepAny", "scan", "beforeIo",
              "release", "endloop", "getSpecific", "asleepSpecific",
              "drainLoad", "drainStore", "afterPass", "cleanup", "stopping",
              "done"}
  /\ twdp \in 0 .. QueueDepth
  /\ treg \in Int
  /\ wpc \in [Workers -> {"wait", "dispatch", "check", "io", "afterIo", "mark",
                          "availLoad", "availStore", "stopped"}]
  /\ wreg \in [Workers -> Int]
  /\ busy \in [Workers -> BOOLEAN]
  /\ waiting \in [Workers -> BOOLEAN]
  /\ avail \in Int
  /\ anyMutex \in 0 .. QueueDepth + 1
  /\ request \in [Workers -> {"none", "IO", "STOP"}]
  /\ opNumber \in [Workers -> Nat]
  /\ xfer \in [Workers -> 0 .. XferSize]
  /\ pass \in 1 .. Passes
  /\ nextOp \in Nat /\ issued \in Nat /\ remaining \in Nat
  /\ completed \in Nat
  /\ result \in [Ops -> {"unissued", "issued", "done", "failed", "skipped"}]
  /\ expired \in BOOLEAN /\ canceled \in BOOLEAN /\ tdAbort \in BOOLEAN

\* The target never writes a task over one that its worker still has to
\* perform: whenever xdd_target_pass_task_setup has filled in wd_task, the
\* worker is waiting for it or only has to count itself available.
TaskNotOverwritten ==
  tpc \in {"beforeIo", "release"} =>
    /\ busy[twdp]
    /\ wpc[twdp] \in {"availLoad", "availStore", "wait"}

\* An operation that sits in a worker's task has been issued and has no outcome
\* yet, and no second worker has it: the pool never performs one twice.
OperationHasOneOwner ==
  \A k \in Ops : \A w \in Workers :
    Holds(w, k) =>
      /\ result[k] = "issued"
      /\ \A v \in Workers : Holds(v, k) => v = w

\* What became of an operation never changes within a pass.
OutcomeIsFinal ==
  [][\A k \in Ops :
       result[k] \in {"done", "failed", "skipped"} =>
         result'[k] = result[k] \/ tpc = "startpass"]_vars

\* A pass is over only when all its workers are: unless the run was canceled,
\* no operation of the pass is still outstanding when the target goes on to
\* the results of the pass.
PassDrained ==
  tpc = "afterPass" /\ ~canceled =>
    \A w \in Workers : ~InFlight(w) /\ ~Finishing(w)

\* A pass that nothing cut short has performed every operation of it, and the
\* byte counters agree with that.
PassComplete ==
  tpc = "afterPass" /\ ~canceled /\ ~tdAbort /\ ~expired =>
    /\ issued = BytesPerPass /\ remaining = 0 /\ nextOp = NumOps
    /\ \A k \in Ops : result[k] \in {"done", "failed"}
    /\ (\A k \in Ops : result[k] = "done") <=> completed = BytesPerPass

\* The run ends unless it was canceled: the target gets through every pass and
\* its cleanup, and every worker leaves its thread.
RunCompletes ==
  <>canceled \/ <>[](tpc = "done" /\ \A w \in Workers : wpc[w] = "stopped")
=============================================================================
