------------------------- MODULE PassBarriersProofs -------------------------
(***************************************************************************)
(* All targets work on the same pass at the same time, for every number of *)
(* targets and passes, with and without a run time, and whatever cancels   *)
(* or aborts the run.                                                      *)
(*                                                                         *)
(* While the run is neither aborted nor complete, the place of the Results *)
(* Manager tells where all targets are and, with current_pass_number,      *)
(* which pass they count.  Afterwards the threads may get out of step, but *)
(* no target begins a pass again.                                          *)
(***************************************************************************)
EXTENDS PassBarriers, FiniteSetTheorems, TLAPS

TargetLabels ==
  {"startpass", "started", "inPass", "endpass", "display", "returned", "bump",
   "checkPasses", "complete", "lastStartpass", "lastEndpass", "lastDisplay",
   "cleanup", "waitforcleanup", "done"}
ManagerLabels ==
  {"rmStartpass", "rmEndpass", "results", "rmDisplay", "rmRunDisplay",
   "rmAbortDisplay", "gone", "rmWaitforcleanup", "rmFinal", "done"}

TypeOK ==
  /\ pc \in [Threads -> TargetLabels \cup ManagerLabels \cup {"mainFinal"}]
  /\ \A t \in Targets : pc[t] \in TargetLabels
  /\ pc[RM] \in ManagerLabels
  /\ pc[Main] \in {"mainFinal", "done"}
  /\ pass \in [Targets -> Nat]
  /\ currentPass \in Nat

Over == abort \/ runComplete

\* Between two passes, or before the first: a target that has not yet gone on to
\* the next pass counts the last one.
Between ==
  /\ pc[RM] = "rmStartpass"
  /\ \A t \in Targets :
       \/ pc[t] = "startpass" /\ pass[t] = currentPass + 1
       \/ /\ pc[t] \in {"returned", "bump", "checkPasses", "complete"}
          /\ pass[t] = currentPass

\* The targets are at work on a pass.
Working ==
  /\ pc[RM] = "rmEndpass"
  /\ \A t \in Targets : /\ pc[t] \in {"started", "inPass", "endpass"}
                        /\ pass[t] = currentPass + 1

\* The targets wait for the results of the pass to be processed, and to be
\* displayed.
Processing ==
  /\ pc[RM] = "results"
  /\ \A t \in Targets : pc[t] = "display" /\ pass[t] = currentPass + 1
Displaying ==
  /\ pc[RM] = "rmDisplay"
  /\ \A t \in Targets : pc[t] = "display" /\ pass[t] = currentPass

InStep == Between \/ Working \/ Processing \/ Displaying

\* The inductive invariant.
IInv ==
  /\ TypeOK
  /\ IF Over THEN \A t \in Targets : pc[t] # "inPass" ELSE InStep

-----------------------------------------------------------------------------
\* Where the barriers let a target and the Results Manager go on.
LEMMA TargetContinues ==
  ASSUME NEW l \in TargetLabels, NEW b \in Barriers, l \in b.at
  PROVE  /\ Continuation[l] \in TargetLabels \ {"inPass"}
         /\ l = "startpass" => Continuation[l] = "started"
         /\ l = "endpass" => Continuation[l] = "display"
         /\ l = "display" => Continuation[l] = "returned"
BY DEF TargetLabels, Barriers, Continuation

LEMMA ManagerContinues ==
  ASSUME NEW l \in ManagerLabels, NEW b \in Barriers, l \in b.at
  PROVE  /\ Continuation[l] \in ManagerLabels
         /\ l = "rmStartpass" => Continuation[l] = "rmEndpass"
         /\ l = "rmEndpass" => Continuation[l] = "results"
         /\ l = "rmDisplay" => Continuation[l] = "rmStartpass"
BY DEF ManagerLabels, Barriers, Continuation

\* A barrier initialised for all targets and the Results Manager lets them go
\* only together.
LEMMA AllTogether ==
  ASSUME NEW group \in SUBSET (Threads \ {Main}), Cardinality(group) = PassBarrierSize
  PROVE  group = Threads \ {Main}
<1>1. Threads \ {Main} = 0 .. NumTargets
  BY BarrierAssumption DEF Threads, Main
<1>2. IsFiniteSet(0 .. NumTargets) /\ Cardinality(0 .. NumTargets) = NumTargets + 1
  BY BarrierAssumption, FS_Interval
<1> QED
  BY Zenon, <1>1, <1>2, FS_Subset DEF PassBarrierSize

\* The threads: the Results Manager, the targets and main are different ones.
LEMMA ThreadKinds ==
  /\ Threads = Targets \cup {RM, Main}
  /\ RM \notin Targets /\ Main \notin Targets /\ RM # Main
BY BarrierAssumption DEF Threads, Targets, RM, Main

LEMMA InitInvariant == Init => IInv
<1> SUFFICES ASSUME Init PROVE IInv
  OBVIOUS
<1>1. TypeOK
  BY ThreadKinds DEF Init, TypeOK, TargetLabels, ManagerLabels
<1>2. ~Over /\ Between
  BY ThreadKinds DEF Init, Over, Between
<1> QED
  BY <1>1, <1>2 DEF IInv, InStep

\* A barrier opens.
LEMMA StepRelease == ASSUME IInv, NEW b \in Barriers, Release(b) PROVE IInv'
<1>1. PICK group \in SUBSET Inside(b) :
        /\ Cardinality(group) = b.size
        /\ pc' = [t \in Threads |->
                    IF t \in group THEN Continuation[pc[t]] ELSE pc[t]]
  BY DEF Release
<1>2. UNCHANGED <<pass, currentPass, abort, runComplete>>
  BY DEF Release, flags
<1>3. TypeOK
  BY DEF IInv
<1>4. \A t \in group : t \in Threads /\ pc[t] \in b.at
  BY <1>1 DEF Inside
<1>5. /\ \A t \in Targets :
           pc'[t] \in TargetLabels /\ (pc'[t] = "inPass" => pc[t] = "inPass")
      /\ pc'[RM] \in ManagerLabels
      /\ pc'[Main] \in {"mainFinal", "done"}
  <2>1. \A t \in Targets :
          pc'[t] \in TargetLabels /\ (pc'[t] = "inPass" => pc[t] = "inPass")
    BY <1>1, <1>3, <1>4, ThreadKinds, TargetContinues DEF TypeOK
  <2>2. pc'[RM] \in ManagerLabels
    BY <1>1, <1>3, <1>4, ThreadKinds, ManagerContinues DEF TypeOK
  <2>3. pc'[Main] \in {"mainFinal", "done"}
    <3>1. Main \in group => pc[Main] = "mainFinal"
      BY <1>3, <1>4 DEF TypeOK, Barriers
    <3>2. Continuation["mainFinal"] = "done"
      BY DEF Continuation
    <3> QED
      BY <1>1, <1>3, <3>1, <3>2, ThreadKinds DEF TypeOK
  <2> QED
    BY <2>1, <2>2, <2>3
<1>6. TypeOK'
  <2>1. \A t \in Threads :
          pc'[t] \in TargetLabels \cup ManagerLabels \cup {"mainFinal"}
    BY <1>5, ThreadKinds DEF TargetLabels
  <2>2. pc' \in [Threads -> TargetLabels \cup ManagerLabels \cup {"mainFinal"}]
    BY <1>1, <2>1
  <2> QED
    BY <1>2, <1>3, <1>5, <2>2 DEF TypeOK
<1>7. CASE Over
  BY <1>2, <1>5, <1>6, <1>7 DEF IInv, Over
<1>8. CASE ~Over
  <2>1. InStep
    BY <1>8 DEF IInv
  <2>2. b.size = PassBarrierSize /\ "mainFinal" \notin b.at /\ "done" \notin b.at
    <3> SUFFICES ASSUME b.at = {"rmFinal", "mainFinal"} /\ b.size = 2 PROVE FALSE
      BY DEF Barriers
    <3>1. group \subseteq {Main}
      BY <1>3, <1>4, <2>1, ThreadKinds
         DEF TypeOK, TargetLabels, InStep, Between, Working, Processing, Displaying
    <3>2. Cardinality(group) <= 1
      <4>1. IsFiniteSet({Main}) /\ Cardinality({Main}) = 1
        BY FS_Singleton
      <4> QED
        BY <3>1, <4>1, FS_Subset
    <3> QED
      BY <1>1, <3>2
  <2>3. group = Threads \ {Main}
    <3>1. Main \notin group
      BY <1>3, <1>4, <2>2 DEF TypeOK
    <3> QED
      BY <1>1, <1>4, <2>2, <3>1, AllTogether
  <2>4. /\ pc[RM] \in b.at /\ pc'[RM] = Continuation[pc[RM]]
        /\ \A t \in Targets : pc[t] \in b.at /\ pc'[t] = Continuation[pc[t]]
    BY <1>1, <1>4, <2>3, ThreadKinds
  <2>5. InStep'
    <3>1. CASE Between
      <4>1. "rmStartpass" \in b.at
        BY <2>4, <3>1 DEF Between
      <4>2. \A t \in Targets : pc[t] = "startpass" /\ pass[t] = currentPass + 1
        BY <2>4, <3>1, <4>1 DEF Between, Barriers
      <4>3. pc'[RM] = "rmEndpass" /\ \A t \in Targets : pc'[t] = "started"
        BY <2>4, <3>1, <4>2, TargetContinues, ManagerContinues
           DEF Between, TargetLabels, ManagerLabels
      <4> QED
        BY <1>2, <4>2, <4>3 DEF InStep, Working
    <3>2. CASE Working
      <4>1. "rmEndpass" \in b.at
        BY <2>4, <3>2 DEF Working
      <4>2. \A t \in Targets : pc[t] = "endpass" /\ pass[t] = currentPass + 1
        BY <2>4, <3>2, <4>1 DEF Working, Barriers
      <4>3. pc'[RM] = "results" /\ \A t \in Targets : pc'[t] = "display"
        BY <2>4, <3>2, <4>2, TargetContinues, ManagerContinues
           DEF Working, TargetLabels, ManagerLabels
      <4> QED
        BY <1>2, <4>2, <4>3 DEF InStep, Processing
    <3>3. CASE Processing
      BY <2>4, <3>3 DEF Processing, Barriers
    <3>4. CASE Displaying
      <4>1. pc'[RM] = "rmStartpass" /\ \A t \in Targets : pc'[t] = "returned"
        BY <2>4, <3>4, TargetContinues, ManagerContinues
           DEF Displaying, TargetLabels, ManagerLabels
      <4> QED
        BY <1>2, <3>4, <4>1 DEF InStep, Displaying, Between
    <3> QED
      BY <2>1, <3>1, <3>2, <3>3, <3>4 DEF InStep
  <2> QED
    BY <1>2, <1>6, <1>8, <2>5 DEF IInv, Over
<1> QED
  BY <1>7, <1>8

\* The Results Manager processes the results of a pass or of the run.
LEMMA StepResults == ASSUME IInv, ProcessResults PROVE IInv'
<1>1. /\ pc[RM] = "results" /\ pc' = [pc EXCEPT ![RM] = NextDisplay]
      /\ UNCHANGED <<pass, runComplete>>
  BY DEF ProcessResults, Goto
<1>2. CASE Over
  <2>1. Over' /\ UNCHANGED currentPass
    <3>1. abort' = (abort \/ \E t \in Targets : tdAbort[t]) /\ UNCHANGED currentPass
      BY <1>2 DEF ProcessResults, Over
    <3>2. abort => abort'
      BY <3>1, Zenon
    <3> QED
      BY <1>1, <1>2, <3>1, <3>2 DEF Over
  <2>2. NextDisplay \in ManagerLabels
    BY DEF NextDisplay, ManagerLabels
  <2>3. TypeOK'
    BY <1>1, <2>1, <2>2, ThreadKinds DEF IInv, TypeOK
  <2> QED
    BY <1>1, <1>2, <2>1, <2>3, ThreadKinds DEF IInv, TypeOK
<1>3. CASE ~Over
  <2>1. NextDisplay = "rmDisplay" /\ UNCHANGED abort /\ currentPass' = currentPass + 1
    BY <1>3 DEF ProcessResults, Over, NextDisplay, CountPass
  <2>2. TypeOK'
    BY <1>1, <2>1, ThreadKinds DEF IInv, TypeOK, ManagerLabels
  <2>3. Processing
    BY <1>1, <1>3 DEF IInv, InStep, Between, Working, Processing, Displaying
  <2>4. Displaying'
    BY <1>1, <2>1, <2>3, ThreadKinds DEF IInv, TypeOK, Processing, Displaying
  <2> QED
    BY <1>1, <1>3, <2>1, <2>2, <2>4 DEF IInv, InStep, Over
<1> QED
  BY <1>2, <1>3

\* A step of target t that takes it to label, by the phase the run is in.
LEMMA TargetMoves ==
  ASSUME TypeOK, NEW t \in Targets, NEW label \in TargetLabels,
         pc' = [pc EXCEPT ![t] = label],
         pass' \in [Targets -> Nat], UNCHANGED currentPass
  PROVE  /\ TypeOK'
         /\ pc'[t] = label /\ pc'[RM] = pc[RM]
         /\ \A u \in Targets \ {t} : pc'[u] = pc[u]
BY ThreadKinds DEF TypeOK

LEMMA StepTarget == ASSUME IInv, NEW t \in Targets, TargetStep(t) PROVE IInv'
<1> USE DEF Over
<1>1. CASE StartPass(t)
  <2>1. PICK label \in {"returned", "inPass"} :
          /\ pc' = [pc EXCEPT ![t] = label]
          /\ label = "inPass" => ~Over
    BY Zenon, <1>1 DEF StartPass, Goto
  <2>2. pc[t] = "started" /\ UNCHANGED <<pass, currentPass, abort, runComplete>>
    BY <1>1 DEF StartPass, flags
  <2>3. ~Over => label = "inPass"
    BY <1>1, <2>1, ThreadKinds DEF StartPass, Goto, IInv, TypeOK
  <2>4. /\ TypeOK' /\ pc'[t] = label /\ pc'[RM] = pc[RM]
        /\ \A u \in Targets \ {t} : pc'[u] = pc[u]
    BY Zenon, <2>1, <2>2, TargetMoves DEF IInv, TypeOK, TargetLabels
  <2>5. CASE Over
    BY <2>1, <2>2, <2>4, <2>5 DEF IInv
  <2>6. CASE ~Over
    <3>1. Working
      BY <2>2, <2>6 DEF IInv, InStep, Between, Working, Processing, Displaying
    <3>2. Working'
      BY <2>2, <2>3, <2>4, <2>6, <3>1 DEF Working
    <3> QED
      BY <2>2, <2>4, <2>6, <3>2 DEF IInv, InStep
  <2> QED
    BY <2>5, <2>6
<1>2. CASE PerformPass(t)
  <2>1. /\ pc[t] = "inPass" /\ pc' = [pc EXCEPT ![t] = "endpass"]
        /\ UNCHANGED <<pass, currentPass, abort, runComplete>>
    BY <1>2 DEF PerformPass, Goto
  <2>2. /\ TypeOK' /\ pc'[t] = "endpass" /\ pc'[RM] = pc[RM]
        /\ \A u \in Targets \ {t} : pc'[u] = pc[u]
    BY Zenon, <2>1, TargetMoves DEF IInv, TypeOK, TargetLabels
  <2>3. ~Over /\ Working
    BY <2>1 DEF IInv, InStep, Between, Working, Processing, Displaying
  <2>4. Working'
    BY <2>1, <2>2, <2>3 DEF Working
  <2> QED
    BY <2>1, <2>2, <2>3, <2>4 DEF IInv, InStep
<1>3. CASE AfterPass(t) \/ Bump(t)
  <2>1. PICK label \in {"complete", "bump", "checkPasses"} :
          pc' = [pc EXCEPT ![t] = label]
    BY <1>3 DEF AfterPass, Bump, Goto
  <2>2. /\ pc[t] \in {"returned", "bump"}
        /\ UNCHANGED <<pass, currentPass, abort, runComplete>>
    BY <1>3 DEF AfterPass, Bump, flags
  <2>3. /\ TypeOK' /\ pc'[t] = label /\ pc'[RM] = pc[RM]
        /\ \A u \in Targets \ {t} : pc'[u] = pc[u]
    BY Zenon, <2>1, <2>2, TargetMoves DEF IInv, TypeOK, TargetLabels
  <2>4. CASE Over
    BY <2>1, <2>2, <2>3, <2>4 DEF IInv
  <2>5. CASE ~Over
    <3>1. Between
      BY <2>2, <2>5 DEF IInv, InStep, Between, Working, Processing, Displaying
    <3>2. Between'
      BY <2>1, <2>2, <2>3, <3>1 DEF Between
    <3> QED
      BY <2>2, <2>3, <2>5, <3>2 DEF IInv, InStep
  <2> QED
    BY <2>4, <2>5
<1>4. CASE CheckPasses(t)
  <2>1. pc[t] = "checkPasses" /\ UNCHANGED <<currentPass, runComplete>>
    BY <1>4 DEF CheckPasses
  <2>2. abort' = abort \/ abort' = TRUE
    BY <1>4 DEF CheckPasses
  <2>3. \/ pc' = [pc EXCEPT ![t] = "complete"] /\ pass' = pass
        \/ pc' = [pc EXCEPT ![t] = "startpass"] /\ pass' = [pass EXCEPT ![t] = @ + 1]
    BY <1>4 DEF CheckPasses, Goto
  <2>4. pass' \in [Targets -> Nat]
    BY <2>3 DEF IInv, TypeOK
  <2>5. PICK label \in {"complete", "startpass"} : pc' = [pc EXCEPT ![t] = label]
    BY <2>3
  <2>6. /\ TypeOK' /\ pc'[t] = label /\ pc'[RM] = pc[RM]
        /\ \A u \in Targets \ {t} : pc'[u] = pc[u]
    BY Zenon, <2>1, <2>4, <2>5, TargetMoves DEF IInv, TypeOK, TargetLabels
  <2>7. \A u \in Targets : pc[u] # "inPass"
    BY <2>1 DEF IInv, InStep, Between, Working, Processing, Displaying
  <2>8. CASE Over'
    BY <2>5, <2>6, <2>7, <2>8 DEF IInv
  <2>9. CASE ~Over'
    <3>1. ~Over
      BY <2>1, <2>2, <2>9
    <3>2. Between
      BY <2>1, <3>1 DEF IInv, InStep, Between, Working, Processing, Displaying
    <3>3. Between'
      BY <2>1, <2>3, <2>6, <3>2 DEF Between, IInv, TypeOK
    <3> QED
      BY <2>6, <2>9, <3>3 DEF IInv, InStep
  <2> QED
    BY <2>8, <2>9
<1>5. CASE CompleteRun(t)
  <2>1. /\ pc[t] = "complete" /\ pc' = [pc EXCEPT ![t] = "lastStartpass"]
        /\ runComplete' = TRUE /\ UNCHANGED <<pass, currentPass>>
    BY <1>5 DEF CompleteRun, Goto
  <2>2. /\ TypeOK' /\ pc'[t] = "lastStartpass"
        /\ \A u \in Targets \ {t} : pc'[u] = pc[u]
    BY Zenon, <2>1, TargetMoves DEF IInv, TypeOK, TargetLabels
  <2>3. \A u \in Targets : pc[u] # "inPass"
    BY <2>1 DEF IInv, InStep, Between, Working, Processing, Displaying
  <2> QED
    BY <2>1, <2>2, <2>3 DEF IInv
<1>6. CASE Cleanup(t)
  <2>1. /\ pc[t] = "cleanup" /\ pc' = [pc EXCEPT ![t] = "waitforcleanup"]
        /\ UNCHANGED <<pass, currentPass, abort, runComplete>>
    BY <1>6 DEF Cleanup, Goto, flags
  <2>2. /\ TypeOK' /\ pc'[t] = "waitforcleanup"
        /\ \A u \in Targets \ {t} : pc'[u] = pc[u]
    BY Zenon, <2>1, TargetMoves DEF IInv, TypeOK, TargetLabels
  <2>3. Over
    BY <2>1 DEF IInv, InStep, Between, Working, Processing, Displaying
  <2> QED
    BY <2>1, <2>2, <2>3 DEF IInv
<1> QED
  BY <1>1, <1>2, <1>3, <1>4, <1>5, <1>6 DEF TargetStep

LEMMA NextInvariant == IInv /\ [Next]_vars => IInv'
<1> SUFFICES ASSUME IInv, [Next]_vars PROVE IInv'
  OBVIOUS
<1>1. CASE UNCHANGED vars
  BY <1>1 DEF vars, flags, IInv, TypeOK, Over, InStep, Between, Working, Processing,
     Displaying
<1>2. CASE Next
  BY <1>2, StepRelease, StepResults, StepTarget DEF Next
<1> QED
  BY <1>1, <1>2

-----------------------------------------------------------------------------
\* All targets work on the same pass at the same time (target_pass.c:31):
\* a target in a pass, and one that is in it, or waits for its end or
\* its results, have the same tc_pass_number.
THEOREM PassesAreShared == Spec => []SamePass
<1>1. IInv => SamePass
  BY DEF IInv, InStep, Between, Working, Processing, Displaying, SamePass
<1> QED
  BY <1>1, InitInvariant, NextInvariant, PTL DEF Spec
=============================================================================
