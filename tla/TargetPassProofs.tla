-------------------------- MODULE TargetPassProofs --------------------------
(***************************************************************************)
(* The exclusion and drain properties of TargetPass, and that a pass that  *)
(* nothing cut short is complete, for every queue depth, number and size   *)
(* of operations, number of passes and combination of options.             *)
(***************************************************************************)
EXTENDS TargetPass, FiniteSetTheorems, TLAPS

\* The worker has not finished with the task it was released for.
Engaged(w) == InFlight(w) \/ Finishing(w)

\* The worker's task holds an operation that has no outcome yet.
Holding(w) ==
  \/ wpc[w] \in {"check", "io"}
  \/ wpc[w] = "dispatch" /\ request[w] = "IO"
  \/ tpc = "release" /\ twdp = w

\* The target has not begun its cleanup.
Running == tpc \notin {"cleanup", "stopping", "done"}

\* The target refers to a worker, not to the end of the list.
WorkerSelected ==
  tpc \in {"beforeIo", "release", "asleepSpecific", "drainLoad", "drainStore",
           "stopping"} => twdp < QueueDepth

\* Until the cleanup, a worker that has work is BUSY, and no worker is stopped.
EngagedIsBusy ==
  Running => \A w \in Workers :
               /\ Engaged(w) => busy[w]
               /\ wpc[w] # "stopped"
               /\ wpc[w] = "dispatch" => request[w] = "IO"

\* What the target has just written into the task it is about to release.
RequestSet ==
  /\ tpc = "release" => request[twdp] = "IO"
  /\ tpc = "stopping" => request[twdp] = "STOP"

\* The workers the drain has passed have finished, and so have all of them
\* when the next pass begins.
Drained ==
  /\ tpc \in {"getSpecific", "asleepSpecific", "drainLoad", "drainStore"} =>
       \A w \in Workers : w < twdp => ~Engaged(w)
  /\ tpc \in {"drainLoad", "drainStore"} => ~Engaged(twdp)
  /\ tpc = "startpass" => \A w \in Workers : ~Engaged(w)

\* The operation numbers of held tasks are old, outstanding and distinct.
HeldOperations ==
  /\ \A w \in Workers : Holding(w) =>
       /\ opNumber[w] < nextOp
       /\ opNumber[w] \in Ops => result[opNumber[w]] = "issued"
  /\ \A v, w \in Workers :
       Holding(v) /\ Holding(w) /\ opNumber[v] = opNumber[w] => v = w

\* Operation numbers the target has not reached have not been issued.
Unissued == \A k \in Ops : k >= nextOp => result[k] = "unissued"

\* The inductive invariant.
IInv ==
  /\ TypeOK
  /\ WorkerSelected
  /\ EngagedIsBusy
  /\ RequestSet
  /\ TaskNotOverwritten
  /\ PassDrained
  /\ Drained
  /\ HeldOperations
  /\ Unissued

-----------------------------------------------------------------------------
\* A step that hands out no operation and leaves the operations alone keeps the
\* held ones old, outstanding and distinct.
LEMMA HeldKept ==
  ASSUME HeldOperations, UNCHANGED <<opNumber, nextOp, result>>,
         \A w \in Workers : Holding(w)' => Holding(w)
  PROVE  HeldOperations'
BY DEF HeldOperations

\* A step after which no worker is engaged anew, and which moves the target at
\* most from its sleep back to the test it slept in, keeps the drain's progress.
LEMMA DrainedKept ==
  ASSUME Drained, WorkerSelected, twdp \in 0 .. QueueDepth, twdp' = twdp,
         \/ tpc' = tpc
         \/ tpc = "asleepSpecific" /\ tpc' = "getSpecific"
         \/ tpc = "asleepAny" /\ tpc' = "getAny",
         \A w \in Workers : Engaged(w)' => Engaged(w)
  PROVE  Drained'
<1>1. tpc \in {"drainLoad", "drainStore"} => twdp \in Workers
  BY PassAssumption DEF WorkerSelected, Workers
<1> QED BY <1>1 DEF Drained

(* Every action preserves the invariant. *)

LEMMA StepBeforePass ==
  ASSUME IInv, BeforePass
  PROVE  IInv'
<1> USE PassAssumption DEF IInv, BeforePass, Workers, poolVars, taskVars,
         passVars, ioVars
<1>1. TypeOK'
  BY Zenon DEF TypeOK
<1>2. /\ WorkerSelected' /\ RequestSet' /\ TaskNotOverwritten'
      /\ PassDrained' /\ Unissued'
  BY DEF TypeOK, WorkerSelected, RequestSet, TaskNotOverwritten,
         PassDrained, InFlight, Finishing, Unissued
<1>3. EngagedIsBusy'
  BY DEF TypeOK, EngagedIsBusy, Running, Engaged, InFlight, Finishing
<1>4. Drained'
  BY DEF TypeOK, Drained, Engaged, InFlight, Finishing
<1>5. HeldOperations'
  BY DEF TypeOK, HeldOperations, Holding, Drained, Engaged, InFlight
<1> QED BY <1>1, <1>2, <1>3, <1>4, <1>5

LEMMA StepPassLoop ==
  ASSUME IInv, PassLoop
  PROVE  IInv'
<1> USE PassAssumption DEF IInv, PassLoop, MoreToIssue, Workers, poolVars, taskVars,
         passVars, ioVars
<1>1. TypeOK'
  BY DEF TypeOK
<1>2. /\ WorkerSelected' /\ RequestSet' /\ TaskNotOverwritten'
      /\ PassDrained' /\ Unissued'
  BY DEF TypeOK, WorkerSelected, RequestSet, TaskNotOverwritten,
         PassDrained, InFlight, Finishing, Unissued
<1>3. EngagedIsBusy'
  BY DEF TypeOK, EngagedIsBusy, Running, Engaged, InFlight, Finishing
<1>4. Drained'
  BY DEF TypeOK, Drained, Engaged, InFlight, Finishing
<1>5. HeldOperations'
  <2>1. \A w \in Workers : Holding(w)' => Holding(w)
    BY DEF TypeOK, Holding
  <2> QED BY <2>1, HeldKept
<1> QED BY <1>1, <1>2, <1>3, <1>4, <1>5

LEMMA StepGetAnyWait ==
  ASSUME IInv, GetAnyWait
  PROVE  IInv'
<1> USE PassAssumption DEF IInv, GetAnyWait, Workers, poolVars, taskVars,
         passVars, ioVars
<1>1. TypeOK'
  BY DEF TypeOK
<1>2. /\ WorkerSelected' /\ RequestSet' /\ TaskNotOverwritten'
      /\ PassDrained' /\ Unissued'
  BY DEF TypeOK, WorkerSelected, RequestSet, TaskNotOverwritten,
         PassDrained, InFlight, Finishing, Unissued
<1>3. EngagedIsBusy'
  BY DEF TypeOK, EngagedIsBusy, Running, Engaged, InFlight, Finishing
<1>4. Drained'
  BY DEF TypeOK, Drained, Engaged, InFlight, Finishing
<1>5. HeldOperations'
  <2>1. \A w \in Workers : Holding(w)' => Holding(w)
    BY DEF TypeOK, Holding
  <2> QED BY <2>1, HeldKept
<1> QED BY <1>1, <1>2, <1>3, <1>4, <1>5

LEMMA StepGetAnyCount ==
  ASSUME IInv, GetAnyCount
  PROVE  IInv'
<1> USE PassAssumption DEF IInv, GetAnyCount, Workers, poolVars, taskVars,
         passVars, ioVars
<1>1. TypeOK'
  BY DEF TypeOK, TargetId, Free
<1>2. /\ WorkerSelected' /\ RequestSet' /\ TaskNotOverwritten'
      /\ PassDrained' /\ Unissued'
  BY DEF TypeOK, WorkerSelected, RequestSet, TaskNotOverwritten,
         PassDrained, InFlight, Finishing, Unissued
<1>3. EngagedIsBusy'
  BY DEF TypeOK, EngagedIsBusy, Running, Engaged, InFlight, Finishing
<1>4. Drained'
  BY DEF TypeOK, Drained, Engaged, InFlight, Finishing
<1>5. HeldOperations'
  <2>1. \A w \in Workers : Holding(w)' => Holding(w)
    BY DEF TypeOK, Holding
  <2> QED BY <2>1, HeldKept
<1> QED BY <1>1, <1>2, <1>3, <1>4, <1>5

LEMMA StepGetAnyScan ==
  ASSUME IInv, GetAnyScan
  PROVE  IInv'
<1> USE PassAssumption DEF IInv, GetAnyScan, NotBusy, Workers, poolVars, taskVars,
         passVars, ioVars
<1>1. TypeOK'
  <2>1. CASE twdp = QueueDepth
    BY <2>1 DEF TypeOK, Free
  <2>2. CASE twdp < QueueDepth /\ busy[twdp]
    BY <2>2 DEF TypeOK
  <2>3. CASE twdp < QueueDepth /\ ~busy[twdp]
    <3>1. /\ busy' = [busy EXCEPT ![twdp] = TRUE]
          /\ tpc' = "beforeIo" /\ anyMutex' = Free /\ twdp' = twdp
      BY <2>3 DEF TypeOK
    <3>2. busy' \in [Workers -> BOOLEAN]
      BY <3>1 DEF TypeOK
    <3> QED BY <3>1, <3>2 DEF TypeOK, Free
  <2> QED BY <2>1, <2>2, <2>3, Zenon DEF TypeOK
<1>2. WorkerSelected' /\ RequestSet' /\ PassDrained' /\ Unissued'
  BY DEF TypeOK, WorkerSelected, RequestSet, PassDrained, InFlight,
         Finishing, Unissued
<1>3. EngagedIsBusy'
  BY Zenon DEF TypeOK, EngagedIsBusy, Running, Engaged, InFlight, Finishing
<1>4. TaskNotOverwritten'
  BY DEF TypeOK, TaskNotOverwritten, EngagedIsBusy, Running, Engaged, InFlight, Finishing
<1>5. Drained'
  BY DEF TypeOK, Drained, Engaged, InFlight, Finishing
<1>6. HeldOperations'
  <2>1. \A w \in Workers : Holding(w)' => Holding(w)
    BY DEF TypeOK, Holding
  <2> QED BY <2>1, HeldKept
<1> QED BY <1>1, <1>2, <1>3, <1>4, <1>5, <1>6

LEMMA StepBeforeIoBad ==
  ASSUME IInv, BeforeIoBad
  PROVE  IInv'
<1> USE PassAssumption DEF IInv, BeforeIoBad, Workers, poolVars, taskVars,
         passVars, ioVars
<1>1. TypeOK'
  BY Zenon DEF TypeOK
<1>2. /\ WorkerSelected' /\ RequestSet' /\ TaskNotOverwritten'
      /\ PassDrained' /\ Unissued'
  BY DEF TypeOK, WorkerSelected, RequestSet, TaskNotOverwritten,
         PassDrained, InFlight, Finishing, Unissued
<1>3. EngagedIsBusy'
  BY DEF TypeOK, EngagedIsBusy, Running, Engaged, InFlight, Finishing, TaskNotOverwritten, WorkerSelected
<1>4. Drained'
  BY DEF TypeOK, Drained, Engaged, InFlight, Finishing
<1>5. HeldOperations'
  <2>1. \A w \in Workers : Holding(w)' => Holding(w)
    BY DEF TypeOK, Holding
  <2> QED BY <2>1, HeldKept
<1> QED BY <1>1, <1>2, <1>3, <1>4, <1>5

LEMMA StepTaskSetup ==
  ASSUME IInv, TaskSetup
  PROVE  IInv'
<1> USE PassAssumption DEF IInv, TaskSetup, TransferSize, NextOpNumber, Workers, poolVars, taskVars,
         passVars, ioVars
<1>1. TypeOK'
  <2>1. TransferSize \in 0 .. XferSize /\ TransferSize <= remaining
    BY DEF TypeOK
  <2>2. /\ issued + TransferSize \in Nat
        /\ remaining - TransferSize \in Nat
    BY <2>1 DEF TypeOK
  <2>3. /\ request' \in [Workers -> {"none", "IO", "STOP"}]
        /\ opNumber' \in [Workers -> Nat]
        /\ xfer' \in [Workers -> 0 .. XferSize]
    BY <2>1, Zenon DEF TypeOK
  <2>4. result' \in [Ops -> {"unissued", "issued", "done", "failed", "skipped"}]
    BY Zenon DEF TypeOK
  <2> QED BY <2>2, <2>3, <2>4 DEF TypeOK
<1>2. WorkerSelected' /\ TaskNotOverwritten' /\ PassDrained'
  BY DEF TypeOK, WorkerSelected, TaskNotOverwritten, PassDrained,
         InFlight, Finishing
<1>3. EngagedIsBusy'
  BY DEF TypeOK, EngagedIsBusy, Running, Engaged, InFlight, Finishing
<1>4. RequestSet'
  BY DEF TypeOK, RequestSet, WorkerSelected
<1>5. Drained'
  BY DEF TypeOK, Drained, Engaged, InFlight, Finishing
<1>6. HeldOperations'
  <2>1. \A w \in Workers : w # twdp /\ Holding(w)' =>
          Holding(w) /\ opNumber'[w] = opNumber[w]
    BY DEF TypeOK, Holding
  <2>2. opNumber'[twdp] = nextOp /\ nextOp' = nextOp + 1 /\ nextOp \in Nat
    BY DEF TypeOK, WorkerSelected
  <2>3. \A k \in Ops : result'[k] = IF k = nextOp THEN "issued" ELSE result[k]
    BY DEF TypeOK
  <2>4. \A w \in Workers : Holding(w) => opNumber[w] < nextOp /\ opNumber[w] \in Nat
    BY DEF TypeOK, HeldOperations
  <2> HIDE DEF TaskSetup, IInv
  <2> QED BY <2>1, <2>2, <2>3, <2>4 DEF HeldOperations, IInv
<1>7. Unissued'
  BY DEF TypeOK, Unissued, Ops
<1> QED BY <1>1, <1>2, <1>3, <1>4, <1>5, <1>6, <1>7

LEMMA StepReleaseWorker ==
  ASSUME IInv, ReleaseWorker
  PROVE  IInv'
<1> USE PassAssumption DEF IInv, ReleaseWorker, Workers, poolVars, taskVars,
         passVars, ioVars
<1>1. TypeOK'
  BY Zenon DEF TypeOK
<1>2. /\ WorkerSelected' /\ RequestSet' /\ TaskNotOverwritten'
      /\ PassDrained' /\ Unissued'
  BY DEF TypeOK, WorkerSelected, RequestSet, TaskNotOverwritten,
         PassDrained, InFlight, Finishing, Unissued
<1>3. EngagedIsBusy'
  BY DEF TypeOK, EngagedIsBusy, Running, Engaged, InFlight, Finishing, TaskNotOverwritten, WorkerSelected, RequestSet
<1>4. Drained'
  BY DEF TypeOK, Drained, Engaged, InFlight, Finishing
<1>5. HeldOperations'
  <2>1. \A w \in Workers : Holding(w)' => Holding(w)
    BY DEF TypeOK, Holding
  <2> QED BY <2>1, HeldKept
<1> QED BY <1>1, <1>2, <1>3, <1>4, <1>5

LEMMA StepEndLoop ==
  ASSUME IInv, EndLoop
  PROVE  IInv'
<1> USE PassAssumption DEF IInv, EndLoop, AfterLoop, Workers, poolVars, taskVars,
         passVars, ioVars
<1>1. TypeOK'
  BY DEF TypeOK
<1>2. /\ WorkerSelected' /\ RequestSet' /\ TaskNotOverwritten'
      /\ PassDrained' /\ Unissued'
  BY DEF TypeOK, WorkerSelected, RequestSet, TaskNotOverwritten,
         PassDrained, InFlight, Finishing, Unissued
<1>3. EngagedIsBusy'
  BY DEF TypeOK, EngagedIsBusy, Running, Engaged, InFlight, Finishing
<1>4. Drained'
  BY DEF TypeOK, Drained, Engaged, InFlight, Finishing
<1>5. HeldOperations'
  <2>1. \A w \in Workers : Holding(w)' => Holding(w)
    BY DEF TypeOK, Holding
  <2> QED BY <2>1, HeldKept
<1> QED BY <1>1, <1>2, <1>3, <1>4, <1>5

LEMMA StepGetSpecific ==
  ASSUME IInv, GetSpecific
  PROVE  IInv'
<1> USE PassAssumption DEF IInv, GetSpecific, NotBusy, Workers, poolVars, taskVars,
         passVars, ioVars
<1>1. TypeOK'
  BY Zenon DEF TypeOK
<1>2. WorkerSelected' /\ RequestSet' /\ TaskNotOverwritten' /\ Unissued'
  BY DEF TypeOK, WorkerSelected, RequestSet, TaskNotOverwritten, Unissued
<1>3. EngagedIsBusy'
  BY DEF TypeOK, EngagedIsBusy, Running, Engaged, InFlight, Finishing
<1>4. PassDrained'
  BY DEF TypeOK, PassDrained, InFlight, Finishing, Drained, Engaged
<1>5. Drained'
  BY DEF TypeOK, Drained, Engaged, InFlight, Finishing, EngagedIsBusy, Running
<1>6. HeldOperations'
  <2>1. \A w \in Workers : Holding(w)' => Holding(w)
    BY DEF TypeOK, Holding
  <2> QED BY <2>1, HeldKept
<1> QED BY <1>1, <1>2, <1>3, <1>4, <1>5, <1>6

LEMMA StepDrainLoad ==
  ASSUME IInv, DrainLoad
  PROVE  IInv'
<1> USE PassAssumption DEF IInv, DrainLoad, Workers, poolVars, taskVars,
         passVars, ioVars
<1>1. TypeOK'
  BY Zenon DEF TypeOK
<1>2. /\ WorkerSelected' /\ RequestSet' /\ TaskNotOverwritten'
      /\ PassDrained' /\ Unissued'
  BY DEF TypeOK, WorkerSelected, RequestSet, TaskNotOverwritten,
         PassDrained, InFlight, Finishing, Unissued
<1>3. EngagedIsBusy'
  BY DEF TypeOK, EngagedIsBusy, Running, Engaged, InFlight, Finishing, Drained, WorkerSelected
<1>4. Drained'
  BY DEF TypeOK, Drained, Engaged, InFlight, Finishing
<1>5. HeldOperations'
  <2>1. \A w \in Workers : Holding(w)' => Holding(w)
    BY DEF TypeOK, Holding
  <2> QED BY <2>1, HeldKept
<1> QED BY <1>1, <1>2, <1>3, <1>4, <1>5

LEMMA StepDrainStore ==
  ASSUME IInv, DrainStore
  PROVE  IInv'
<1> USE PassAssumption DEF IInv, DrainStore, Workers, poolVars, taskVars,
         passVars, ioVars
<1>1. TypeOK'
  BY DEF TypeOK, WorkerSelected
<1>2. /\ WorkerSelected' /\ RequestSet' /\ TaskNotOverwritten'
      /\ PassDrained' /\ Unissued'
  BY DEF TypeOK, WorkerSelected, RequestSet, TaskNotOverwritten,
         PassDrained, InFlight, Finishing, Unissued
<1>3. EngagedIsBusy'
  BY DEF TypeOK, EngagedIsBusy, Running, Engaged, InFlight, Finishing
<1>4. Drained'
  BY DEF TypeOK, Drained, Engaged, InFlight, Finishing
<1>5. HeldOperations'
  <2>1. \A w \in Workers : Holding(w)' => Holding(w)
    BY DEF TypeOK, Holding
  <2> QED BY <2>1, HeldKept
<1> QED BY <1>1, <1>2, <1>3, <1>4, <1>5

LEMMA StepAfterPass ==
  ASSUME IInv, AfterPass
  PROVE  IInv'
<1> USE PassAssumption DEF IInv, AfterPass, Workers, poolVars, taskVars,
         passVars, ioVars
<1>1. TypeOK'
  <2>1. CASE canceled \/ tdAbort \/ pass >= Passes
    BY <2>1 DEF TypeOK
  <2>2. CASE ~(canceled \/ tdAbort \/ pass >= Passes)
    <3>1. tpc' = "startpass" /\ pass' = pass + 1 /\ twdp' = twdp
      BY <2>2
    <3>2. pass' \in 1 .. Passes
      BY <2>2, <3>1 DEF TypeOK
    <3> QED BY <3>1, <3>2 DEF TypeOK
  <2> QED BY <2>1, <2>2
<1>2. /\ WorkerSelected' /\ RequestSet' /\ TaskNotOverwritten'
      /\ PassDrained' /\ Unissued'
  BY DEF TypeOK, WorkerSelected, RequestSet, TaskNotOverwritten,
         PassDrained, InFlight, Finishing, Unissued
<1>3. EngagedIsBusy'
  BY DEF TypeOK, EngagedIsBusy, Running, Engaged, InFlight, Finishing
<1>4. Drained'
  BY DEF TypeOK, Drained, Engaged, InFlight, Finishing, PassDrained
<1>5. HeldOperations'
  <2>1. \A w \in Workers : Holding(w)' => Holding(w)
    BY DEF TypeOK, Holding
  <2> QED BY <2>1, HeldKept
<1> QED BY <1>1, <1>2, <1>3, <1>4, <1>5

LEMMA StepCleanupStop ==
  ASSUME IInv, CleanupStop
  PROVE  IInv'
<1> USE PassAssumption DEF IInv, CleanupStop, Workers, poolVars, taskVars,
         passVars, ioVars
<1>1. TypeOK'
  BY Zenon DEF TypeOK
<1>2. /\ WorkerSelected' /\ RequestSet' /\ TaskNotOverwritten'
      /\ PassDrained' /\ Unissued'
  BY DEF TypeOK, WorkerSelected, RequestSet, TaskNotOverwritten,
         PassDrained, InFlight, Finishing, Unissued
<1>3. EngagedIsBusy'
  BY DEF TypeOK, EngagedIsBusy, Running, Engaged, InFlight, Finishing
<1>4. Drained'
  BY DEF TypeOK, Drained, Engaged, InFlight, Finishing
<1>5. HeldOperations'
  <2>1. \A w \in Workers : Holding(w)' => Holding(w)
    BY DEF TypeOK, Holding
  <2> QED BY <2>1, HeldKept
<1> QED BY <1>1, <1>2, <1>3, <1>4, <1>5

LEMMA StepCleanupRelease ==
  ASSUME IInv, CleanupRelease
  PROVE  IInv'
<1> USE PassAssumption DEF IInv, CleanupRelease, Workers, poolVars, taskVars,
         passVars, ioVars
<1>1. TypeOK'
  BY DEF TypeOK, WorkerSelected
<1>2. /\ WorkerSelected' /\ RequestSet' /\ TaskNotOverwritten'
      /\ PassDrained' /\ Unissued'
  BY DEF TypeOK, WorkerSelected, RequestSet, TaskNotOverwritten,
         PassDrained, InFlight, Finishing, Unissued
<1>3. EngagedIsBusy'
  BY DEF TypeOK, EngagedIsBusy, Running, Engaged, InFlight, Finishing
<1>4. Drained'
  BY DEF TypeOK, Drained, Engaged, InFlight, Finishing
<1>5. HeldOperations'
  <2>1. \A w \in Workers : Holding(w)' => Holding(w)
    BY DEF TypeOK, Holding, RequestSet, WorkerSelected
  <2> QED BY <2>1, HeldKept
<1> QED BY <1>1, <1>2, <1>3, <1>4, <1>5

LEMMA StepDispatch ==
  ASSUME IInv, NEW self \in Workers, Dispatch(self)
  PROVE  IInv'
<1> USE PassAssumption DEF IInv, Dispatch, Workers, poolVars, taskVars,
         passVars, ioVars
<1>1. TypeOK'
  BY Zenon DEF TypeOK
<1>2. WorkerSelected' /\ RequestSet' /\ PassDrained'
  BY DEF TypeOK, WorkerSelected, RequestSet, PassDrained, InFlight, Finishing
<1>3. EngagedIsBusy'
  BY DEF TypeOK, EngagedIsBusy, Running, Engaged, InFlight, Finishing
<1>4. TaskNotOverwritten'
  BY DEF TypeOK, TaskNotOverwritten, WorkerSelected
<1>5. Drained'
  <2>1. \A w \in Workers : Engaged(w)' => Engaged(w)
    BY DEF TypeOK, Engaged, InFlight, Finishing
  <2> QED BY <2>1, DrainedKept DEF TypeOK
<1>6. HeldOperations'
  <2>1. \A w \in Workers : Holding(w)' => Holding(w)
    BY DEF TypeOK, Holding
  <2> QED BY <2>1, HeldKept
<1>7. Unissued'
  BY DEF TypeOK, Unissued, HeldOperations, Holding
<1> QED BY <1>1, <1>2, <1>3, <1>4, <1>5, <1>6, <1>7

LEMMA StepCheckCanceled ==
  ASSUME IInv, NEW self \in Workers, CheckCanceled(self)
  PROVE  IInv'
<1> USE PassAssumption DEF IInv, CheckCanceled, Workers, poolVars, taskVars,
         passVars, ioVars
<1>1. TypeOK'
  BY Zenon DEF TypeOK
<1>2. WorkerSelected' /\ RequestSet' /\ PassDrained'
  BY DEF TypeOK, WorkerSelected, RequestSet, PassDrained, InFlight, Finishing
<1>3. EngagedIsBusy'
  <2>1. \A w \in Workers : Engaged(w)' => Engaged(w)
    BY DEF TypeOK, Engaged, InFlight, Finishing
  <2>2. \A w \in Workers :
          wpc'[w] = wpc[w] \/ wpc'[w] \in {"mark", "io"}
    BY DEF TypeOK
  <2>3. UNCHANGED <<busy, request, tpc>>
    OBVIOUS
  <2> QED BY <2>1, <2>2, <2>3 DEF EngagedIsBusy, Running
<1>4. TaskNotOverwritten'
  BY DEF TypeOK, TaskNotOverwritten, WorkerSelected
<1>5. Drained'
  <2>1. \A w \in Workers : Engaged(w)' => Engaged(w)
    BY DEF TypeOK, Engaged, InFlight, Finishing
  <2> QED BY <2>1, DrainedKept DEF TypeOK
<1>6. HeldOperations'
  <2>1. \A w \in Workers : Holding(w)' => Holding(w)
    BY DEF TypeOK, Holding
  <2>2. \A w \in Workers : Holding(w)' /\ result' # result => w # self
    BY DEF TypeOK, Holding, TaskNotOverwritten
  <2>3. \A w \in Workers :
          Holding(w)' /\ opNumber[w] \in Ops =>
            result'[opNumber[w]] = result[opNumber[w]]
    <3> SUFFICES ASSUME NEW w \in Workers, Holding(w)', opNumber[w] \in Ops,
                        result' # result
                 PROVE  result'[opNumber[w]] = result[opNumber[w]]
      OBVIOUS
    <3>1. w # self /\ Holding(w) /\ Holding(self)
      BY <2>1, <2>2 DEF Holding
    <3>2. opNumber[w] # opNumber[self]
      BY <3>1 DEF HeldOperations
    <3> QED BY <3>2 DEF TypeOK
  <2>4. UNCHANGED <<nextOp, opNumber>>
    OBVIOUS
  <2> QED BY <2>1, <2>3, <2>4 DEF HeldOperations
<1>7. Unissued'
  BY DEF TypeOK, Unissued, HeldOperations, Holding
<1> QED BY <1>1, <1>2, <1>3, <1>4, <1>5, <1>6, <1>7

LEMMA StepPerformIo ==
  ASSUME IInv, NEW self \in Workers, PerformIo(self)
  PROVE  IInv'
<1> USE PassAssumption DEF IInv, PerformIo, Workers, poolVars, taskVars,
         passVars, ioVars
<1>1. TypeOK'
  <2>1. completed + xfer[self] \in Nat
    BY DEF TypeOK
  <2>2. /\ wpc' \in [Workers -> {"wait", "dispatch", "check", "io", "afterIo",
                                 "mark", "availLoad", "availStore", "stopped"}]
        /\ result' \in [Ops -> {"unissued", "issued", "done", "failed",
                                "skipped"}]
    BY Zenon DEF TypeOK
  <2>3. completed' \in Nat /\ tdAbort' \in BOOLEAN
    BY <2>1 DEF TypeOK
  <2> QED BY <2>2, <2>3 DEF TypeOK
<1>2. WorkerSelected' /\ RequestSet' /\ PassDrained'
  BY DEF TypeOK, WorkerSelected, RequestSet, PassDrained, InFlight, Finishing
<1>3. EngagedIsBusy'
  BY DEF TypeOK, EngagedIsBusy, Running, Engaged, InFlight, Finishing
<1>4. TaskNotOverwritten'
  BY DEF TypeOK, TaskNotOverwritten, WorkerSelected
<1>5. Drained'
  <2>1. \A w \in Workers : Engaged(w)' => Engaged(w)
    BY DEF TypeOK, Engaged, InFlight, Finishing
  <2> QED BY <2>1, DrainedKept DEF TypeOK
<1>6. HeldOperations'
  <2>1. \A w \in Workers : Holding(w)' => Holding(w)
    BY DEF TypeOK, Holding
  <2>2. \A w \in Workers : Holding(w)' /\ result' # result => w # self
    BY DEF TypeOK, Holding, TaskNotOverwritten
  <2>3. \A w \in Workers :
          Holding(w)' /\ opNumber[w] \in Ops =>
            result'[opNumber[w]] = result[opNumber[w]]
    <3> SUFFICES ASSUME NEW w \in Workers, Holding(w)', opNumber[w] \in Ops,
                        result' # result
                 PROVE  result'[opNumber[w]] = result[opNumber[w]]
      OBVIOUS
    <3>1. w # self /\ Holding(w) /\ Holding(self)
      BY <2>1, <2>2 DEF Holding
    <3>2. opNumber[w] # opNumber[self]
      BY <3>1 DEF HeldOperations
    <3> QED BY <3>2 DEF TypeOK
  <2>4. UNCHANGED <<nextOp, opNumber>>
    OBVIOUS
  <2> QED BY <2>1, <2>3, <2>4 DEF HeldOperations
<1>7. Unissued'
  BY DEF TypeOK, Unissued, HeldOperations, Holding
<1> QED BY <1>1, <1>2, <1>3, <1>4, <1>5, <1>6, <1>7

LEMMA StepAfterIo ==
  ASSUME IInv, NEW self \in Workers, AfterIo(self)
  PROVE  IInv'
<1> USE PassAssumption DEF IInv, AfterIo, Workers, poolVars, taskVars,
         passVars, ioVars
<1>1. TypeOK'
  BY Zenon DEF TypeOK
<1>2. /\ WorkerSelected' /\ RequestSet' /\ TaskNotOverwritten'
      /\ PassDrained' /\ Unissued'
  BY DEF TypeOK, WorkerSelected, RequestSet, TaskNotOverwritten,
         PassDrained, InFlight, Finishing, Unissued
<1>3. EngagedIsBusy'
  BY DEF TypeOK, EngagedIsBusy, Running, Engaged, InFlight, Finishing
<1>4. Drained'
  <2>1. \A w \in Workers : Engaged(w)' => Engaged(w)
    BY DEF TypeOK, Engaged, InFlight, Finishing
  <2> QED BY <2>1, DrainedKept DEF TypeOK
<1>5. HeldOperations'
  <2>1. \A w \in Workers : Holding(w)' => Holding(w)
    BY DEF TypeOK, Holding
  <2> QED BY <2>1, HeldKept
<1> QED BY <1>1, <1>2, <1>3, <1>4, <1>5

LEMMA StepMarkAvailable ==
  ASSUME IInv, NEW self \in Workers, MarkAvailable(self)
  PROVE  IInv'
<1> USE PassAssumption DEF IInv, MarkAvailable, WakeSpecific, Workers, poolVars, taskVars,
         passVars, ioVars
<1>1. TypeOK'
  BY DEF TypeOK
<1>2. /\ WorkerSelected' /\ RequestSet' /\ TaskNotOverwritten'
      /\ PassDrained' /\ Unissued'
  BY DEF TypeOK, WorkerSelected, RequestSet, TaskNotOverwritten,
         PassDrained, InFlight, Finishing, Unissued
<1>3. EngagedIsBusy'
  BY DEF TypeOK, EngagedIsBusy, Running, Engaged, InFlight, Finishing
<1>4. Drained'
  <2>1. \A w \in Workers : Engaged(w)' => Engaged(w)
    BY DEF TypeOK, Engaged, InFlight, Finishing
  <2> QED BY <2>1, DrainedKept DEF TypeOK
<1>5. HeldOperations'
  <2>1. \A w \in Workers : Holding(w)' => Holding(w)
    BY DEF TypeOK, Holding
  <2> QED BY <2>1, HeldKept
<1> QED BY <1>1, <1>2, <1>3, <1>4, <1>5

LEMMA StepAvailLoad ==
  ASSUME IInv, NEW self \in Workers, AvailLoad(self)
  PROVE  IInv'
<1> USE PassAssumption DEF IInv, AvailLoad, Workers, poolVars, taskVars,
         passVars, ioVars
<1>1. TypeOK'
  <2>1. wpc' \in [Workers -> {"wait", "dispatch", "check", "io", "afterIo",
                             "mark", "availLoad", "availStore", "stopped"}]
    BY DEF TypeOK
  <2>2. wreg' \in [Workers -> Int] /\ avail' \in Int
    BY DEF TypeOK
  <2>3. anyMutex' \in 0 .. QueueDepth + 1
    BY DEF TypeOK, Free
  <2> QED BY <2>1, <2>2, <2>3, Zenon DEF TypeOK
<1>2. /\ WorkerSelected' /\ RequestSet' /\ TaskNotOverwritten'
      /\ PassDrained' /\ Unissued'
  BY DEF TypeOK, WorkerSelected, RequestSet, TaskNotOverwritten,
         PassDrained, InFlight, Finishing, Unissued
<1>3. EngagedIsBusy'
  BY DEF TypeOK, EngagedIsBusy, Running, Engaged, InFlight, Finishing
<1>4. Drained'
  <2>1. \A w \in Workers : Engaged(w)' => Engaged(w)
    BY DEF TypeOK, Engaged, InFlight, Finishing
  <2> QED BY <2>1, DrainedKept DEF TypeOK
<1>5. HeldOperations'
  <2>1. \A w \in Workers : Holding(w)' => Holding(w)
    BY DEF TypeOK, Holding
  <2> QED BY <2>1, HeldKept
<1> QED BY <1>1, <1>2, <1>3, <1>4, <1>5

LEMMA StepAvailStore ==
  ASSUME IInv, NEW self \in Workers, AvailStore(self)
  PROVE  IInv'
<1> USE PassAssumption DEF IInv, AvailStore, WakeAny, Workers, poolVars, taskVars,
         passVars, ioVars
<1>1. TypeOK'
  <2>1. wpc' \in [Workers -> {"wait", "dispatch", "check", "io", "afterIo",
                             "mark", "availLoad", "availStore", "stopped"}]
    BY DEF TypeOK
  <2>2. wreg' \in [Workers -> Int] /\ avail' \in Int
    BY DEF TypeOK
  <2>3. anyMutex' \in 0 .. QueueDepth + 1
    BY DEF TypeOK, Free
  <2> QED BY <2>1, <2>2, <2>3 DEF TypeOK
<1>2. /\ WorkerSelected' /\ RequestSet' /\ TaskNotOverwritten'
      /\ PassDrained' /\ Unissued'
  BY DEF TypeOK, WorkerSelected, RequestSet, TaskNotOverwritten,
         PassDrained, InFlight, Finishing, Unissued
<1>3. EngagedIsBusy'
  BY DEF TypeOK, EngagedIsBusy, Running, Engaged, InFlight, Finishing
<1>4. Drained'
  <2>1. \A w \in Workers : Engaged(w)' => Engaged(w)
    BY DEF TypeOK, Engaged, InFlight, Finishing
  <2> QED BY <2>1, DrainedKept DEF TypeOK
<1>5. HeldOperations'
  <2>1. \A w \in Workers : Holding(w)' => Holding(w)
    BY DEF TypeOK, Holding
  <2> QED BY <2>1, HeldKept
<1> QED BY <1>1, <1>2, <1>3, <1>4, <1>5
-----------------------------------------------------------------------------
(* The theorems. *)

LEMMA InitInvariant == Init => IInv
<1> SUFFICES ASSUME Init PROVE IInv
  OBVIOUS
<1> USE PassAssumption DEF Init, Workers
<1>1. TypeOK
  <2>1. anyMutex \in 0 .. QueueDepth + 1 /\ twdp \in 0 .. QueueDepth
    BY DEF Free
  <2>2. /\ wpc \in [Workers -> {"wait", "dispatch", "check", "io", "afterIo",
                                "mark", "availLoad", "availStore", "stopped"}]
        /\ wreg \in [Workers -> Int]
        /\ request \in [Workers -> {"none", "IO", "STOP"}]
        /\ opNumber \in [Workers -> Nat]
        /\ xfer \in [Workers -> 0 .. XferSize]
    OBVIOUS
  <2>3. busy \in [Workers -> BOOLEAN] /\ waiting \in [Workers -> BOOLEAN]
    OBVIOUS
  <2>4. result \in [Ops -> {"unissued", "issued", "done", "failed", "skipped"}]
    OBVIOUS
  <2>5. avail \in Int /\ treg \in Int /\ pass \in 1 .. Passes
    OBVIOUS
  <2>6. expired \in BOOLEAN /\ canceled \in BOOLEAN /\ tdAbort \in BOOLEAN
    BY Zenon
  <2>7. /\ tpc = "startpass"
        /\ nextOp = 0 /\ issued = 0 /\ remaining = 0 /\ completed = 0
    OBVIOUS
  <2> HIDE DEF Init
  <2> QED BY <2>1, <2>2, <2>3, <2>4, <2>5, <2>6, <2>7 DEF TypeOK
<1>2. WorkerSelected /\ EngagedIsBusy /\ RequestSet /\ TaskNotOverwritten
  BY DEF WorkerSelected, EngagedIsBusy, Running, Engaged, InFlight, Finishing,
         RequestSet, TaskNotOverwritten
<1>3. PassDrained /\ Drained
  BY DEF PassDrained, Drained, Engaged, InFlight, Finishing
<1>4. HeldOperations /\ Unissued
  BY DEF HeldOperations, Holding, Unissued
<1> QED BY <1>1, <1>2, <1>3, <1>4 DEF IInv

LEMMA NextInvariant == IInv /\ [Next]_vars => IInv'
<1> SUFFICES ASSUME IInv, [Next]_vars PROVE IInv'
  OBVIOUS
<1>1. CASE Target
  BY <1>1, StepBeforePass, StepPassLoop, StepGetAnyWait, StepGetAnyCount,
     StepGetAnyScan, StepBeforeIoBad, StepTaskSetup, StepReleaseWorker,
     StepEndLoop, StepGetSpecific, StepDrainLoad, StepDrainStore,
     StepAfterPass, StepCleanupStop, StepCleanupRelease DEF Target
<1>2. CASE \E w \in Workers : Worker(w)
  BY <1>2, StepDispatch, StepCheckCanceled, StepPerformIo, StepAfterIo,
     StepMarkAvailable, StepAvailLoad, StepAvailStore DEF Worker
<1>3. CASE UNCHANGED vars
  <2> USE <1>3 DEF IInv, vars, poolVars, taskVars, passVars, ioVars
  <2>1. TypeOK'
    BY DEF TypeOK
  <2>2. WorkerSelected' /\ EngagedIsBusy' /\ RequestSet' /\ TaskNotOverwritten'
    BY DEF WorkerSelected, EngagedIsBusy, Running, Engaged, InFlight,
           Finishing, RequestSet, TaskNotOverwritten
  <2>3. PassDrained' /\ Drained'
    BY DEF PassDrained, Drained, Engaged, InFlight, Finishing
  <2>4. HeldOperations' /\ Unissued'
    BY DEF HeldOperations, Holding, Unissued
  <2> QED BY <2>1, <2>2, <2>3, <2>4
<1> QED BY <1>1, <1>2, <1>3 DEF Next

\* IInv holds in every reachable state: it is the strengthening the properties
\* below follow from.
THEOREM Invariance == Spec => []IInv
BY InitInvariant, NextInvariant, PTL DEF Spec

\* Every variable keeps its type; in particular the byte counters never wrap
\* below zero, whatever the transfer size and the number of bytes.
THEOREM TypeCorrect == Spec => []TypeOK
<1>1. IInv => TypeOK
  BY DEF IInv
<1> QED BY <1>1, Invariance, PTL

\* xdd_target_pass_task_setup never overwrites a task that is being performed.
THEOREM TasksExclusive == Spec => []TaskNotOverwritten
<1>1. IInv => TaskNotOverwritten
  BY DEF IInv
<1> QED BY <1>1, Invariance, PTL

\* No operation is ever in the hands of two workers, nor in the hands of one
\* after it has an outcome, canceled runs included.
THEOREM OperationsExclusive == Spec => []OperationHasOneOwner
<1>1. IInv => OperationHasOneOwner
  <2> SUFFICES ASSUME IInv, NEW k \in Ops, NEW w \in Workers, Holds(w, k)
               PROVE  /\ result[k] = "issued"
                      /\ \A v \in Workers : Holds(v, k) => v = w
    BY DEF OperationHasOneOwner
  <2>1. \A v \in Workers : Holds(v, k) => Holding(v) /\ opNumber[v] = k
    BY DEF Holds, Holding
  <2> QED BY <2>1 DEF IInv, HeldOperations
<1> QED BY <1>1, Invariance, PTL

\* The results of a pass are never taken while one of its operations runs.
THEOREM PassesDrain == Spec => []PassDrained
<1>1. IInv => PassDrained
  BY DEF IInv
<1> QED BY <1>1, Invariance, PTL

\* The outcome of an operation never changes within a pass.
THEOREM OutcomesFinal == Spec => OutcomeIsFinal
<1> DEFINE Final == \A k \in Ops :
              result[k] \in {"done", "failed", "skipped"} =>
                result'[k] = result[k] \/ tpc = "startpass"
<1>1. IInv /\ [Next]_vars => [Final]_vars
  <2> SUFFICES ASSUME IInv, Next, NEW k \in Ops,
                      result[k] \in {"done", "failed", "skipped"},
                      tpc # "startpass"
               PROVE  result'[k] = result[k]
    OBVIOUS
  <2> USE DEF IInv, ioVars
  <2>1. ASSUME TaskSetup PROVE result'[k] = result[k]
    BY <2>1 DEF TaskSetup, Unissued, TypeOK
  <2>2. ASSUME NEW w \in Workers, CheckCanceled(w) \/ PerformIo(w)
        PROVE  result'[k] = result[k]
    <3>1. Holding(w)
      BY <2>2 DEF CheckCanceled, PerformIo, Holding
    <3>2. opNumber[w] # k
      BY <3>1 DEF HeldOperations
    <3> QED BY <2>2, <3>2 DEF CheckCanceled, PerformIo, TypeOK
  <2>3. ASSUME BeforePass PROVE FALSE
    BY <2>3 DEF BeforePass
  <2>4. ASSUME Target, ~TaskSetup, ~BeforePass PROVE result' = result
    BY <2>4 DEF Target, PassLoop, GetAnyWait, GetAnyCount, GetAnyScan,
       BeforeIoBad, ReleaseWorker, EndLoop, GetSpecific, DrainLoad,
       DrainStore, AfterPass, CleanupStop, CleanupRelease
  <2>5. ASSUME NEW w \in Workers, Worker(w), ~CheckCanceled(w), ~PerformIo(w)
        PROVE  result' = result
    BY <2>5, Zenon DEF Worker, Dispatch, AfterIo, MarkAvailable, AvailLoad, AvailStore
  <2> QED BY <2>1, <2>2, <2>3, <2>4, <2>5 DEF Next
<1> QED BY <1>1, Invariance, PTL DEF Spec, OutcomeIsFinal
-----------------------------------------------------------------------------
(* The passes are complete. *)

\* The size of the last operation of a pass.
LastSize == BytesPerPass - XferSize * (NumOps - 1)

\* The size of an operation: the last one of a pass takes what is left.
SizeOf(k) == IF k = NumOps - 1 THEN LastSize ELSE XferSize

\* The bytes are issued in order, up to the number of the next operation.
BytesInOrder ==
  tpc # "startpass" =>
    /\ issued + remaining = BytesPerPass
    /\ IF remaining = 0 THEN nextOp = NumOps
                        ELSE nextOp < NumOps /\ issued = XferSize * nextOp

\* Every task that is held has the size of its operation.
HeldSizes == \A w \in Workers : Holding(w) => xfer[w] = SizeOf(opNumber[w])

\* An operation that was issued is held or has an outcome, and is passed over only
\* if the pass was cut short.
IssuedIsHeld ==
  /\ \A k \in Ops : k < nextOp => result[k] # "unissued"
  /\ Running => \A k \in Ops : result[k] = "issued" =>
                  \E w \in Workers : Holding(w) /\ opNumber[w] = k
  /\ ~canceled /\ ~tdAbort => \A k \in Ops : result[k] # "skipped"

\* The target looks for a worker only if there are bytes to issue, and leaves the
\* loop before the last byte only if the pass is cut short.
LoopOrder ==
  /\ tpc \in {"getAny", "asleepAny", "scan", "beforeIo"} => remaining # 0
  /\ tpc \in {"endloop", "getSpecific", "asleepSpecific", "drainLoad",
              "drainStore", "afterPass"} =>
       remaining = 0 \/ canceled \/ tdAbort \/ expired

\* The bytes completed are those of the operations done.
Done == {k \in Ops : result[k] = "done"}
DoneBytes ==
  XferSize * Cardinality(Done \ {NumOps - 1})
    + (IF NumOps - 1 \in Done THEN LastSize ELSE 0)
BytesAreDone == completed = DoneBytes

\* What is added to IInv.  Each part needs IInv, so the two together are
\* inductive.
PassInv == BytesInOrder /\ HeldSizes /\ IssuedIsHeld /\ LoopOrder /\ BytesAreDone

-----------------------------------------------------------------------------
(* Arithmetic of the operations of a pass. *)

\* The operations cover the bytes, and the last one is neither empty nor longer
\* than a full one.
LEMMA OpsCoverBytes ==
  /\ NumOps \in Nat /\ LastSize \in Int
  /\ BytesPerPass = 0 => NumOps = 0
  /\ NumOps = 0 => BytesPerPass = 0
  /\ BytesPerPass = XferSize * (NumOps - 1) + LastSize
  /\ NumOps > 0 => LastSize \in 1 .. XferSize
<1>1. PICK n : n = NumOps
  OBVIOUS
<1>2. /\ n \in Int
      /\ XferSize * n <= BytesPerPass + XferSize - 1
      /\ BytesPerPass + XferSize - 1 < XferSize * n + XferSize
  BY <1>1, PassAssumption, Z3 DEF NumOps
<1>3. n \in Nat
  BY <1>2, PassAssumption
<1>4. XferSize * (n - 1) = XferSize * n - XferSize
  BY <1>3, PassAssumption
<1>5. n = 0 => XferSize * n = 0
  BY PassAssumption
<1>6. n > 0 => XferSize * n >= XferSize
  BY <1>3, PassAssumption
<1> QED
  BY <1>1, <1>2, <1>3, <1>4, <1>5, <1>6, PassAssumption DEF LastSize

\* Fewer full operations make fewer bytes.
LEMMA Multiples ==
  ASSUME NEW m \in Nat, NEW n \in Nat
  PROVE  /\ XferSize * m \in Nat
         /\ XferSize * (m + 1) = XferSize * m + XferSize
         /\ m < n => XferSize * m + XferSize <= XferSize * n
<1>1. XferSize * m \in Nat /\ XferSize * (m + 1) = XferSize * m + XferSize
  BY PassAssumption
<1>2. ASSUME m < n PROVE XferSize * m + XferSize <= XferSize * n
  <2>1. n - m - 1 \in Nat
    BY <1>2
  <2>2. XferSize * (n - m - 1) \in Nat
    BY <2>1, PassAssumption
  <2>3. XferSize * n = XferSize * m + XferSize + XferSize * (n - m - 1)
    BY <2>1, PassAssumption
  <2> QED
    BY <2>2, <2>3, <1>1, PassAssumption
<1> QED
  BY <1>1, <1>2

\* The next transfer has the size of the next operation, and leaves the bytes in
\* order.
LEMMA NextTransfer ==
  ASSUME NEW n \in Nat, n < NumOps, remaining \in Nat, remaining # 0, issued \in Nat,
         issued + remaining = BytesPerPass, issued = XferSize * n
  PROVE  /\ TransferSize = SizeOf(n)
         /\ IF remaining - TransferSize = 0
              THEN n + 1 = NumOps
              ELSE n + 1 < NumOps /\ issued + TransferSize = XferSize * (n + 1)
<1>1. /\ NumOps \in Nat \ {0} /\ LastSize \in 1 .. XferSize
      /\ BytesPerPass = XferSize * (NumOps - 1) + LastSize
  BY OpsCoverBytes
<1>2. /\ issued + XferSize = XferSize * (n + 1)
      /\ n < NumOps - 1 => issued + XferSize <= XferSize * (NumOps - 1)
  BY <1>1, Multiples
<1>3. PICK full \in Int : full = XferSize * (NumOps - 1)
  BY <1>1, PassAssumption
<1>4. CASE n = NumOps - 1
  <2>1. remaining = LastSize /\ TransferSize = LastSize
    BY <1>1, <1>3, <1>4, PassAssumption DEF TransferSize
  <2> QED
    BY <1>1, <1>4, <2>1 DEF SizeOf
<1>5. CASE n # NumOps - 1
  <2>1. n + 1 < NumOps /\ n < NumOps - 1
    BY <1>1, <1>5
  <2>2. remaining > XferSize /\ TransferSize = XferSize
    BY <1>1, <1>2, <1>3, <2>1, PassAssumption DEF TransferSize
  <2> QED
    BY <1>2, <1>5, <2>1, <2>2, PassAssumption DEF SizeOf
<1> QED
  BY <1>4, <1>5

\* The full operations of a pass that are done.
LEMMA DoneIsFinite ==
  /\ IsFiniteSet(Done \ {NumOps - 1})
  /\ Cardinality(Done \ {NumOps - 1}) \in Nat
  /\ NumOps > 0 => /\ IsFiniteSet(0 .. NumOps - 2)
                   /\ Cardinality(0 .. NumOps - 2) = NumOps - 1
                   /\ Done \ {NumOps - 1} \subseteq 0 .. NumOps - 2
<1>1. NumOps \in Nat
  BY OpsCoverBytes
<1>2. IsFiniteSet(Ops)
  BY <1>1, FS_Interval DEF Ops
<1>3. Done \ {NumOps - 1} \in SUBSET Ops
  BY DEF Done
<1>4. IsFiniteSet(Done \ {NumOps - 1})
  BY <1>2, <1>3, FS_Subset
<1>5. Cardinality(Done \ {NumOps - 1}) \in Nat
  BY <1>4, FS_CardinalityType
<1>6. ASSUME NumOps > 0
      PROVE  /\ IsFiniteSet(0 .. NumOps - 2)
             /\ Cardinality(0 .. NumOps - 2) = NumOps - 1
             /\ Done \ {NumOps - 1} \subseteq 0 .. NumOps - 2
  <2>1. IsFiniteSet(0 .. NumOps - 2) /\ Cardinality(0 .. NumOps - 2) = NumOps - 1
    BY <1>1, <1>6, FS_Interval
  <2>2. Done \ {NumOps - 1} \subseteq 0 .. NumOps - 2
    BY <1>1, <1>6 DEF Done, Ops
  <2> QED
    BY <2>1, <2>2
<1> QED
  BY <1>4, <1>5, <1>6

\* All operations are done exactly if their bytes are those of the pass.
LEMMA AllDone == (\A k \in Ops : result[k] = "done") <=> DoneBytes = BytesPerPass
<1> DEFINE full == Done \ {NumOps - 1}
           c == Cardinality(full)
<1>1. NumOps \in Nat /\ c \in Nat
  BY OpsCoverBytes, DoneIsFinite
<1>2. CASE NumOps = 0
  <2>1. Ops = {} /\ Done = {} /\ full = {}
    BY <1>2 DEF Ops, Done
  <2>2. c = 0
    BY <2>1, FS_EmptySet
  <2> QED
    BY <1>2, <2>1, <2>2, OpsCoverBytes, PassAssumption DEF DoneBytes
<1>3. CASE NumOps > 0
  <2>1. /\ LastSize \in 1 .. XferSize
        /\ BytesPerPass = XferSize * (NumOps - 1) + LastSize
        /\ NumOps - 1 \in Ops
    BY <1>1, <1>3, OpsCoverBytes DEF Ops
  <2>2. /\ IsFiniteSet(0 .. NumOps - 2) /\ Cardinality(0 .. NumOps - 2) = NumOps - 1
        /\ full \in SUBSET (0 .. NumOps - 2)
    BY <1>3, DoneIsFinite
  <2>3. ASSUME \A k \in Ops : result[k] = "done" PROVE DoneBytes = BytesPerPass
    <3>1. Done = Ops /\ full = 0 .. NumOps - 2
      BY <1>1, <1>3, <2>3 DEF Done, Ops
    <3> QED
      BY Zenon, <2>1, <2>2, <3>1 DEF DoneBytes
  <2>4. ASSUME NEW k \in Ops, result[k] # "done" PROVE DoneBytes < BytesPerPass
    <3>1. XferSize * c \in Nat /\ XferSize * (NumOps - 1) \in Nat
      BY <1>1, <1>3, Multiples
    <3>2. CASE k = NumOps - 1
      <4>1. c <= NumOps - 1
        BY Zenon, <2>2, FS_Subset
      <4>2. XferSize * c <= XferSize * (NumOps - 1)
        BY <1>1, <1>3, <4>1, <3>1, Multiples, PassAssumption
      <4>3. NumOps - 1 \notin Done
        BY <3>2, <2>4 DEF Done
      <4> QED
        BY <2>1, <3>1, <4>2, <4>3 DEF DoneBytes
    <3>3. CASE k # NumOps - 1
      <4>1. full # 0 .. NumOps - 2
        BY <1>1, <2>4, <3>3 DEF Done, Ops
      <4>2. c < NumOps - 1
        <5>1. c <= NumOps - 1 /\ c # NumOps - 1
          BY Zenon, <2>2, <4>1, FS_Subset
        <5> QED
          BY <1>1, <5>1
      <4>3. XferSize * c + XferSize <= XferSize * (NumOps - 1)
        BY <1>1, <1>3, <4>2, Multiples
      <4> QED
        BY <2>1, <3>1, <4>3, PassAssumption DEF DoneBytes
    <3> QED
      BY <3>2, <3>3
  <2>5. XferSize * c \in Nat
    BY <1>1, Multiples
  <2>6. DoneBytes \in Int
    BY <2>1, <2>5, PassAssumption DEF DoneBytes
  <2> QED
    BY <2>3, <2>4, <2>6, PassAssumption
<1> QED
  BY <1>1, <1>2, <1>3

\* One more operation done makes as many bytes more as it has.
LEMMA OneMoreDone ==
  ASSUME NEW k \in Ops, k \notin Done, TypeOK,
         result' = [result EXCEPT ![k] = "done"]
  PROVE  DoneBytes' = DoneBytes + SizeOf(k)
<1>1. Done' = Done \cup {k}
  BY DEF TypeOK, Done
<1>2. NumOps \in Nat /\ NumOps > 0 /\ LastSize \in 1 .. XferSize
  BY OpsCoverBytes DEF Ops
<1>3. CASE k = NumOps - 1
  <2>1. Done' \ {NumOps - 1} = Done \ {NumOps - 1}
    BY <1>1, <1>3
  <2>2. PICK n \in Nat : n = XferSize * Cardinality(Done \ {NumOps - 1})
    BY DoneIsFinite, Multiples
  <2>3. NumOps - 1 \notin Done /\ NumOps - 1 \in Done'
    BY <1>1, <1>3
  <2>4. DoneBytes = n + 0 /\ DoneBytes' = n + LastSize
    BY Zenon, <2>1, <2>2, <2>3 DEF DoneBytes
  <2> QED
    BY <1>2, <1>3, <2>2, <2>4 DEF SizeOf
<1>4. CASE k # NumOps - 1
  <2>1. /\ Done' \ {NumOps - 1} = (Done \ {NumOps - 1}) \cup {k}
        /\ k \notin Done \ {NumOps - 1}
    BY <1>1, <1>4
  <2>2. PICK c \in Nat : c = Cardinality(Done \ {NumOps - 1})
    BY DoneIsFinite
  <2>3. Cardinality(Done' \ {NumOps - 1}) = c + 1
    BY Zenon, <2>1, <2>2, DoneIsFinite, FS_AddElement
  <2>4. XferSize * c \in Nat /\ XferSize * (c + 1) = XferSize * c + XferSize
    BY Multiples
  <2>5. NumOps - 1 \in Done' <=> NumOps - 1 \in Done
    BY <1>1, <1>4
  <2> QED
    BY <1>2, <1>4, <2>2, <2>3, <2>4, <2>5, PassAssumption DEF DoneBytes, SizeOf
<1> QED
  BY <1>3, <1>4

-----------------------------------------------------------------------------
(* Every action preserves PassInv. *)

\* A step that neither issues an operation nor gives one an outcome.
LEMMA ProgressKept ==
  ASSUME PassInv, LoopOrder',
         UNCHANGED <<opNumber, xfer, nextOp, issued, remaining, result, completed>>,
         tpc = "startpass" => tpc' = "startpass",
         \A w \in Workers : Holding(w)' => Holding(w),
         Running' => Running /\ \A w \in Workers : Holding(w) => Holding(w)',
         canceled => canceled', tdAbort => tdAbort'
  PROVE  PassInv'
<1>1. BytesInOrder'
  BY DEF PassInv, BytesInOrder
<1>2. HeldSizes'
  BY DEF PassInv, HeldSizes
<1>3. IssuedIsHeld'
  BY DEF PassInv, IssuedIsHeld
<1>4. BytesAreDone'
  BY DEF PassInv, BytesAreDone, DoneBytes, Done
<1> QED
  BY <1>1, <1>2, <1>3, <1>4 DEF PassInv

\* The steps of the target that hand out no operation within a pass.
QuietTarget ==
  \/ PassLoop \/ GetAnyWait \/ GetAnyCount \/ GetAnyScan
  \/ BeforeIoBad \/ ReleaseWorker \/ EndLoop \/ GetSpecific
  \/ DrainLoad \/ DrainStore \/ AfterPass \/ CleanupStop \/ CleanupRelease

LEMMA QuietTargetKeeps ==
  ASSUME IInv, PassInv, QuietTarget
  PROVE  PassInv'
<1> USE DEF QuietTarget, PassLoop, MoreToIssue, GetAnyWait, GetAnyCount, GetAnyScan,
        BeforeIoBad, ReleaseWorker, EndLoop, AfterLoop, GetSpecific, DrainLoad,
        DrainStore, AfterPass, CleanupStop, CleanupRelease
<1>1. /\ UNCHANGED <<opNumber, xfer, nextOp, issued, remaining, result, completed,
                     canceled, tdAbort>>
      /\ tpc = "startpass" => tpc' = "startpass"
  BY DEF taskVars, passVars, ioVars
<1>2. LoopOrder'
  BY Zenon, <1>1 DEF PassInv, LoopOrder, passVars
<1>3. \A w \in Workers : Holding(w)' => Holding(w)
  BY Zenon DEF IInv, TypeOK, RequestSet, WorkerSelected, Holding, taskVars, Workers
<1>4. Running' => Running /\ \A w \in Workers : Holding(w) => Holding(w)'
  BY Zenon DEF IInv, TypeOK, RequestSet, WorkerSelected, Holding, Running, taskVars, Workers
<1> HIDE DEF QuietTarget
<1> QED
  BY <1>1, <1>2, <1>3, <1>4, ProgressKept

\* The steps of a worker that give no operation its outcome, and stuttering.
QuietWorker(w) ==
  \/ Dispatch(w) \/ AfterIo(w) \/ MarkAvailable(w) \/ AvailLoad(w)
  \/ AvailStore(w) \/ UNCHANGED vars

LEMMA QuietWorkerKeeps ==
  ASSUME IInv, PassInv, NEW w \in Workers, QuietWorker(w)
  PROVE  PassInv'
<1> USE DEF QuietWorker, Dispatch, AfterIo, MarkAvailable, WakeSpecific, AvailLoad, AvailStore,
        WakeAny, vars, poolVars
<1>1. /\ UNCHANGED <<opNumber, xfer, nextOp, issued, remaining, result, completed,
                     tdAbort, expired>>
      /\ tpc = "startpass" => tpc' = "startpass"
  BY DEF taskVars, passVars, ioVars
<1>2. canceled => canceled'
  <2>1. canceled' = canceled \/ canceled' = TRUE
    OBVIOUS
  <2> QED
    BY Zenon, <2>1
<1>3. LoopOrder'
  BY <1>1, <1>2 DEF PassInv, LoopOrder
<1>4. \A v \in Workers : Holding(v)' <=> Holding(v)
  BY DEF IInv, TypeOK, Holding, taskVars
<1>5. Running' => Running
  BY Zenon DEF Running
<1> HIDE DEF QuietWorker
<1> QED
  BY Zenon, <1>1, <1>2, <1>3, <1>4, <1>5, ProgressKept

LEMMA InitProgress == Init => PassInv
<1> SUFFICES ASSUME Init PROVE PassInv
  OBVIOUS
<1>1. BytesInOrder /\ LoopOrder
  BY DEF Init, BytesInOrder, LoopOrder
<1>2. HeldSizes /\ IssuedIsHeld
  BY DEF Init, HeldSizes, IssuedIsHeld, Holding, Ops
<1>3. BytesAreDone
  <2>1. Done = {} /\ Done \ {NumOps - 1} = {}
    BY DEF Init, Done
  <2> QED
    BY <2>1, FS_EmptySet, PassAssumption DEF Init, BytesAreDone, DoneBytes
<1> QED
  BY <1>1, <1>2, <1>3 DEF PassInv

LEMMA BeforePassStartsProgress ==
  ASSUME IInv, BeforePass
  PROVE  PassInv'
<1>1. BytesInOrder'
  BY OpsCoverBytes, PassAssumption DEF BeforePass, BytesInOrder
<1>2. HeldSizes'
  <2>1. \A w \in Workers : ~Holding(w)'
    BY DEF IInv, Drained, Engaged, InFlight, Holding, BeforePass, taskVars
  <2> QED
    BY <2>1 DEF HeldSizes
<1>3. IssuedIsHeld' /\ LoopOrder'
  BY DEF BeforePass, IssuedIsHeld, LoopOrder, Ops
<1>4. BytesAreDone'
  <2>1. Done' = {} /\ Done' \ {NumOps - 1} = {}
    BY DEF BeforePass, Done
  <2>2. Cardinality(Done' \ {NumOps - 1}) = 0
    BY <2>1, FS_EmptySet
  <2> QED
    BY <2>1, <2>2, PassAssumption DEF BeforePass, BytesAreDone, DoneBytes
<1> QED
  BY <1>1, <1>2, <1>3, <1>4 DEF PassInv

LEMMA TaskSetupKeeps ==
  ASSUME IInv, PassInv, TaskSetup
  PROVE  PassInv'
<1>1. /\ twdp \in Workers /\ nextOp \in Nat /\ remaining \in Nat /\ issued \in Nat
      /\ TransferSize \in Nat
  BY PassAssumption DEF IInv, TypeOK, WorkerSelected, Workers, TaskSetup, TransferSize
<1>2. /\ remaining # 0 /\ issued + remaining = BytesPerPass
      /\ nextOp < NumOps /\ issued = XferSize * nextOp
  BY DEF PassInv, LoopOrder, BytesInOrder, TaskSetup
<1>3. /\ TransferSize = SizeOf(nextOp)
      /\ IF remaining - TransferSize = 0
           THEN nextOp + 1 = NumOps
           ELSE nextOp + 1 < NumOps /\ issued + TransferSize = XferSize * (nextOp + 1)
  BY <1>1, <1>2, NextTransfer
<1>4. nextOp \in Ops /\ NumOps \in Nat
  BY <1>1, <1>2, OpsCoverBytes DEF Ops
<1>5. BytesInOrder'
  BY <1>1, <1>2, <1>3 DEF TaskSetup, NextOpNumber, BytesInOrder
<1>6. Holding(twdp)' /\ \A w \in Workers \ {twdp} : Holding(w)' <=> Holding(w)
  BY <1>1 DEF IInv, TypeOK, Holding, TaskSetup
<1>7. HeldSizes'
  BY <1>1, <1>3, <1>6 DEF IInv, TypeOK, PassInv, HeldSizes, TaskSetup
<1>8. ~Holding(twdp)
  BY DEF IInv, TaskNotOverwritten, Holding, TaskSetup
<1>9. IssuedIsHeld'
  BY <1>1, <1>4, <1>6, <1>8 DEF IInv, TypeOK, PassInv, IssuedIsHeld, TaskSetup, NextOpNumber,
     Running, Ops
<1>10. LoopOrder'
  BY DEF TaskSetup, LoopOrder
<1>11. BytesAreDone'
  <2>1. Done' = Done
    BY <1>4 DEF IInv, TypeOK, Unissued, Done, TaskSetup
  <2> QED
    BY <2>1 DEF PassInv, BytesAreDone, DoneBytes, TaskSetup
<1> QED
  BY <1>5, <1>7, <1>9, <1>10, <1>11 DEF PassInv

\* The task in a worker's hands is for an operation of this pass.
LEMMA HeldInPass ==
  ASSUME IInv, PassInv, NEW w \in Workers, Holding(w)
  PROVE  opNumber[w] \in Ops /\ result[opNumber[w]] = "issued"
<1>1. tpc # "startpass"
  BY DEF IInv, Drained, Engaged, InFlight, Holding
<1>2. opNumber[w] \in Nat /\ nextOp \in Nat /\ opNumber[w] < nextOp
  BY DEF IInv, TypeOK, HeldOperations
<1>3. nextOp <= NumOps /\ NumOps \in Nat
  BY <1>1, <1>2, OpsCoverBytes DEF PassInv, BytesInOrder
<1> QED
  BY <1>2, <1>3 DEF IInv, HeldOperations, Ops

\* A worker is done with its operation and knows what became of it.
LEMMA OutcomeKeeps ==
  ASSUME IInv, PassInv, NEW w \in Workers, wpc[w] \in {"check", "io"},
         NEW o \in {"done", "failed", "skipped"},
         o = "skipped" => canceled \/ tdAbort,
         result' = [result EXCEPT ![opNumber[w]] = o],
         completed' = IF o = "done" THEN completed + xfer[w] ELSE completed,
         wpc'[w] \notin {"dispatch", "check", "io"},
         \A v \in Workers \ {w} : wpc'[v] = wpc[v],
         UNCHANGED <<tpc, twdp, taskVars, passVars, canceled>>,
         tdAbort => tdAbort'
  PROVE  PassInv'
<1> PICK k : k = opNumber[w]
  OBVIOUS
<1>1. Holding(w) /\ ~Holding(w)' /\ \A v \in Workers \ {w} : Holding(v)' <=> Holding(v)
  BY DEF IInv, TaskNotOverwritten, Holding, taskVars
<1>2. k \in Ops /\ result[k] = "issued"
  BY <1>1, HeldInPass
<1>3. \A j \in Ops : result'[j] = IF j = k THEN o ELSE result[j]
  BY <1>2 DEF IInv, TypeOK
<1>4. BytesInOrder' /\ LoopOrder'
  BY DEF PassInv, BytesInOrder, LoopOrder, passVars
<1>5. HeldSizes'
  BY <1>1 DEF PassInv, HeldSizes, taskVars
<1>6. IssuedIsHeld'
  <2>1. \A j \in Ops : j < nextOp => result'[j] # "unissued"
    BY Zenon, <1>3 DEF PassInv, IssuedIsHeld
  <2>2. ~canceled' /\ ~tdAbort' => \A j \in Ops : result'[j] # "skipped"
    BY Zenon, <1>3 DEF PassInv, IssuedIsHeld
  <2>3. ASSUME Running, NEW j \in Ops, result'[j] = "issued"
        PROVE  \E v \in Workers : Holding(v)' /\ opNumber[v] = j
    BY <1>1, <1>3, <2>3 DEF PassInv, IssuedIsHeld
  <2> QED
    BY <2>1, <2>2, <2>3 DEF IssuedIsHeld, Running, taskVars, passVars
<1>7. BytesAreDone'
  <2>1. CASE o = "done"
    <3>1. xfer[w] = SizeOf(k)
      BY <1>1 DEF PassInv, HeldSizes
    <3>2. result' = [result EXCEPT ![k] = "done"] /\ k \notin Done /\ TypeOK
      BY <1>2, <2>1 DEF IInv, Done
    <3>3. DoneBytes' = DoneBytes + SizeOf(k)
      BY Zenon, <1>2, <3>2, OneMoreDone
    <3> QED
      BY <2>1, <3>1, <3>3 DEF PassInv, BytesAreDone
  <2>2. CASE o # "done"
    <3>1. Done' = Done
      BY <1>2, <1>3, <2>2 DEF Done
    <3> QED
      BY <2>2, <3>1 DEF PassInv, BytesAreDone, DoneBytes
  <2> QED
    BY <2>1, <2>2
<1> QED
  BY <1>4, <1>5, <1>6, <1>7 DEF PassInv

LEMMA CheckCanceledKeeps ==
  ASSUME IInv, PassInv, NEW w \in Workers, CheckCanceled(w)
  PROVE  PassInv'
<1>1. CASE canceled \/ tdAbort
  BY <1>1, OutcomeKeeps DEF IInv, TypeOK, CheckCanceled
<1>2. CASE ~(canceled \/ tdAbort)
  <2>1. UNCHANGED <<opNumber, xfer, nextOp, issued, remaining, result, completed, tpc,
                    canceled, tdAbort, expired>>
    BY <1>2 DEF CheckCanceled, taskVars, passVars
  <2>2. (\A v \in Workers : Holding(v)' <=> Holding(v)) /\ (Running' <=> Running)
    BY <1>2 DEF IInv, TypeOK, CheckCanceled, Holding, Running, taskVars
  <2>3. LoopOrder'
    BY <2>1 DEF PassInv, LoopOrder
  <2> QED
    BY <2>1, <2>2, <2>3, ProgressKept
<1> QED
  BY <1>1, <1>2

LEMMA PerformIoKeeps ==
  ASSUME IInv, PassInv, NEW w \in Workers, PerformIo(w)
  PROVE  PassInv'
<1>1. /\ wpc'[w] = "afterIo" /\ \A v \in Workers \ {w} : wpc'[v] = wpc[v]
      /\ tdAbort => tdAbort'
  BY DEF IInv, TypeOK, PerformIo
<1>2. \E o \in {"done", "failed"} :
        /\ result' = [result EXCEPT ![opNumber[w]] = o]
        /\ completed' = IF o = "done" THEN completed + xfer[w] ELSE completed
  BY DEF PerformIo
<1> QED
  BY Zenon, <1>1, <1>2, OutcomeKeeps DEF PerformIo

LEMMA NextProgress == IInv /\ PassInv /\ [Next]_vars => PassInv'
<1> SUFFICES ASSUME IInv, PassInv, [Next]_vars PROVE PassInv'
  OBVIOUS
<1>1. CASE Target
  BY <1>1, BeforePassStartsProgress, TaskSetupKeeps, QuietTargetKeeps DEF Target, QuietTarget
<1>2. CASE \E w \in Workers : Worker(w)
  BY <1>2, CheckCanceledKeeps, PerformIoKeeps, QuietWorkerKeeps DEF Worker, QuietWorker
<1>3. CASE UNCHANGED vars
  <2>1. 0 \in Workers
    BY PassAssumption DEF Workers
  <2> QED
    BY <1>3, <2>1, QuietWorkerKeeps DEF QuietWorker
<1> QED
  BY <1>1, <1>2, <1>3 DEF Next

\* A pass of xdd_target_pass that nothing cut short has issued all of its bytes
\* in NumOps operations, each of which was done or failed, and the bytes it counts
\* as completed are all of them exactly if no operation failed.
THEOREM PassesAreComplete == Spec => []PassComplete
<1>1. ASSUME IInv, PassInv PROVE PassComplete
  <2> SUFFICES ASSUME tpc = "afterPass", ~canceled, ~tdAbort, ~expired
               PROVE  /\ issued = BytesPerPass /\ remaining = 0 /\ nextOp = NumOps
                      /\ \A k \in Ops : result[k] \in {"done", "failed"}
                      /\ (\A k \in Ops : result[k] = "done") <=> completed = BytesPerPass
    BY DEF PassComplete
  <2>1. issued = BytesPerPass /\ remaining = 0 /\ nextOp = NumOps
    BY <1>1 DEF IInv, TypeOK, PassInv, LoopOrder, BytesInOrder
  <2>2. \A w \in Workers : ~Holding(w)
    BY <1>1 DEF IInv, PassDrained, InFlight, Holding
  <2>3. \A k \in Ops : k < nextOp
    BY <2>1, OpsCoverBytes DEF Ops
  <2>4. \A k \in Ops : result[k] \in {"done", "failed"}
    BY <1>1, <2>2, <2>3 DEF IInv, TypeOK, PassInv, IssuedIsHeld, Running
  <2> QED
    BY <1>1, <2>1, <2>4, AllDone DEF PassInv, BytesAreDone
<1> QED
  BY <1>1, InitProgress, NextProgress, Invariance, PTL DEF Spec
=============================================================================
