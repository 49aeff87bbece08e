--------------------------- MODULE LockstepProofs ---------------------------
(***************************************************************************)
(* Targets in lockstep run one at a time, for every number of targets and  *)
(* operations, every set of -lockstep options, queue depth and number of   *)
(* passes, with and without a time limit.                                  *)
(*                                                                         *)
(* The argument is that of a token.  It is created in one place, with the  *)
(* target marked as the first to run, and is handed over in a barrier of   *)
(* two; a target outside its turn is waiting or done with its pass.        *)
(***************************************************************************)
EXTENDS Lockstep, FiniteSetTheorems, TLAPS

Labels == {"startpass", "before", "wait", "loop", "interval", "drain", "choose",
           "chosen", "wake", "woken", "endpass"}

TypeOK ==
  /\ pc \in [Targets -> Labels]
  /\ remaining \in [Targets -> Int]
  /\ passComplete \in [Targets -> BOOLEAN]
  /\ flying \in [Targets -> Nat]

\* It is the target's turn, or will be without anybody waking it.
HasTurn(t) ==
  \/ pc[t] \in {"interval", "drain", "choose", "chosen", "wake"}
  \/ pc[t] = "loop" /\ remaining[t] # 0
  \/ pc[t] \in {"startpass", "before"} /\ t \in First

OneTurn == \A t, u \in Targets : HasTurn(t) /\ HasTurn(u) => t = u

\* A target that has completed its pass has nothing left to issue and is not
\* issuing.
CompleteIsDone ==
  \A t \in Targets : passComplete[t] => remaining[t] = 0 /\ pc[t] # "interval"

\* Operations are in flight only in the turn they were issued in.
FlyingInTurn ==
  \A t \in Targets : flying[t] > 0 => pc[t] \in {"interval", "drain"}

\* The inductive invariant.
IInv == TypeOK /\ OneTurn /\ CompleteIsDone /\ FlyingInTurn

-----------------------------------------------------------------------------
\* At most one target carries the mark of the first to run (xddfunc_lockstep).
LEMMA OneIsFirst == \A t, u \in First : t = u
BY DEF First

\* A set of two elements (the threads that a barrier for two lets go).
LEMMA TwoElements ==
  ASSUME NEW S, IsFiniteSet(S), Cardinality(S) = 2
  PROVE  \E x, y : x # y /\ S = {x, y}
<1>1. PICK x : x \in S
  BY FS_EmptySet
<1>2. IsFiniteSet(S \ {x}) /\ Cardinality(S \ {x}) = 1
  BY <1>1, FS_RemoveElement
<1>3. PICK y : S \ {x} = {y}
  BY Zenon, <1>2, FS_Singleton
<1> QED
  BY <1>1, <1>3

LEMMA InitInvariant == Init => IInv
<1> SUFFICES ASSUME Init PROVE IInv
  OBVIOUS
<1>1. TypeOK
  BY DEF Init, TypeOK, Labels
<1>2. OneTurn
  BY OneIsFirst DEF Init, OneTurn, HasTurn, Targets
<1>3. CompleteIsDone /\ FlyingInTurn
  BY DEF Init, CompleteIsDone, FlyingInTurn, Targets
<1> QED
  BY <1>1, <1>2, <1>3 DEF IInv

\* The targets are released into a pass together.
LEMMA StepStartPass == IInv /\ StartPass => IInv'
<1> SUFFICES ASSUME IInv, StartPass PROVE IInv'
  OBVIOUS
<1>1. TypeOK'
  BY DEF IInv, TypeOK, StartPass, Labels
<1>2. OneTurn'
  BY OneIsFirst DEF IInv, StartPass, OneTurn, HasTurn
<1>3. CompleteIsDone' /\ FlyingInTurn'
  BY DEF IInv, StartPass, CompleteIsDone, FlyingInTurn
<1> QED
  BY <1>1, <1>2, <1>3 DEF IInv

\* The targets end a pass together.
LEMMA StepEndPass == IInv /\ EndPass => IInv'
<1> SUFFICES ASSUME IInv, EndPass PROVE IInv'
  OBVIOUS
<1>1. TypeOK'
  BY DEF IInv, TypeOK, EndPass, Labels
<1>2. OneTurn'
  BY OneIsFirst DEF IInv, EndPass, OneTurn, HasTurn
<1>3. CompleteIsDone' /\ FlyingInTurn'
  BY DEF IInv, EndPass, CompleteIsDone, FlyingInTurn
<1> QED
  BY <1>1, <1>2, <1>3 DEF IInv

\* The turn changes hands: of the two in the barrier one waits and the other,
\* whose turn it was, wakes it.
LEMMA StepMeet == ASSUME IInv, NEW n \in Targets, Meet(n) PROVE IInv'
<1>1. PICK pair \in SUBSET InBarrier(n) :
        /\ Cardinality(pair) = 2
        /\ pc' = [t \in Targets |->
                    IF t \notin pair THEN pc[t]
                    ELSE IF pc[t] = "wait" THEN "loop" ELSE "woken"]
  BY DEF Meet
<1>2. UNCHANGED <<remaining, passComplete, flying>>
  BY DEF Meet
<1>3. pair \subseteq Targets /\ IsFiniteSet(pair)
  <2>1. pair \subseteq Targets
    BY <1>1 DEF InBarrier
  <2>2. IsFiniteSet(Targets)
    BY FS_Interval, LockstepAssumption DEF Targets
  <2> QED
    BY <2>1, <2>2, FS_Subset
<1>4. PICK x, y : x # y /\ pair = {x, y}
  BY Zenon, <1>1, <1>3, TwoElements
<1>5. \E u \in Targets : pair = {n, u} /\ u # n /\ pc[n] = "wait" /\ pc[u] = "wake"
  <2>1. x \in InBarrier(n) /\ y \in InBarrier(n)
    BY <1>1, <1>4
  <2>2. ~(pc[x] = "wake" /\ pc[y] = "wake")
    BY <2>1, <1>4 DEF IInv, OneTurn, HasTurn, InBarrier
  <2> QED
    BY <2>1, <2>2, <1>3, <1>4 DEF InBarrier
<1>6. PICK u \in Targets : pair = {n, u} /\ u # n /\ pc[n] = "wait" /\ pc[u] = "wake"
  BY <1>5
<1>7. pc' = [pc EXCEPT ![n] = "loop", ![u] = "woken"]
  BY Zenon, <1>1, <1>6 DEF IInv, TypeOK
<1>8. TypeOK'
  BY <1>2, <1>7 DEF IInv, TypeOK, Labels
<1>9. OneTurn'
  BY <1>2, <1>6, <1>7 DEF IInv, TypeOK, OneTurn, HasTurn
<1>10. CompleteIsDone' /\ FlyingInTurn'
  BY <1>2, <1>6, <1>7 DEF IInv, TypeOK, CompleteIsDone, FlyingInTurn
<1> QED
  BY <1>8, <1>9, <1>10 DEF IInv

\* An operation in flight completes.
LEMMA StepWorkerDone == ASSUME IInv, NEW t \in Targets, WorkerDone(t) PROVE IInv'
<1>1. TypeOK'
  BY DEF IInv, TypeOK, WorkerDone
<1>2. OneTurn' /\ CompleteIsDone'
  BY DEF IInv, WorkerDone, OneTurn, HasTurn, CompleteIsDone
<1>3. FlyingInTurn'
  BY DEF IInv, TypeOK, WorkerDone, FlyingInTurn
<1> QED
  BY <1>1, <1>2, <1>3 DEF IInv

\* A target's own steps: none of them gives it a turn it did not have.
LEMMA StepTarget == ASSUME IInv, NEW t \in Targets, TargetStep(t) PROVE IInv'
<1>1. CASE BeforePass(t)
  <2> USE <1>1 DEF BeforePass, Goto
  <2>1. TypeOK'
    <3>1. pc' \in [Targets -> Labels]
      BY DEF IInv, TypeOK, Labels
    <3>2. remaining' \in [Targets -> Int]
      BY LockstepAssumption DEF IInv, TypeOK, Targets
    <3>3. passComplete' \in [Targets -> BOOLEAN]
      BY Zenon DEF IInv, TypeOK
    <3>4. flying' \in [Targets -> Nat]
      BY DEF IInv, TypeOK
    <3> QED
      BY <3>1, <3>2, <3>3, <3>4 DEF TypeOK
  <2>2. OneTurn'
    BY DEF IInv, TypeOK, OneTurn, HasTurn, CompleteIsDone
  <2>3. CompleteIsDone'
    BY DEF IInv, TypeOK, CompleteIsDone
  <2>4. FlyingInTurn'
    BY DEF IInv, TypeOK, FlyingInTurn
  <2> QED
    BY <2>1, <2>2, <2>3, <2>4 DEF IInv
<1>2. CASE BeginInterval(t)
  <2> USE <1>2 DEF BeginInterval, Goto, IntervalOps
  <2>1. TypeOK'
    BY DEF IInv, TypeOK, Labels
  <2>2. OneTurn'
    BY DEF IInv, TypeOK, OneTurn, HasTurn, CompleteIsDone
  <2>3. CompleteIsDone'
    BY DEF IInv, TypeOK, CompleteIsDone
  <2>4. FlyingInTurn'
    BY DEF IInv, TypeOK, FlyingInTurn
  <2> QED
    BY <2>1, <2>2, <2>3, <2>4 DEF IInv
<1>3. CASE Return(t)
  <2> USE <1>3 DEF Return, Goto
  <2>1. TypeOK'
    BY DEF IInv, TypeOK, Labels
  <2>2. OneTurn'
    BY DEF IInv, TypeOK, OneTurn, HasTurn, CompleteIsDone
  <2>3. CompleteIsDone'
    BY DEF IInv, TypeOK, CompleteIsDone
  <2>4. FlyingInTurn'
    BY DEF IInv, TypeOK, FlyingInTurn
  <2> QED
    BY <2>1, <2>2, <2>3, <2>4 DEF IInv
<1>4. CASE Issue(t)
  <2> USE <1>4 DEF Issue, Goto
  <2>1. TypeOK'
    <3>1. pc' \in [Targets -> Labels]
      BY DEF IInv, TypeOK, Labels
    <3>2. remaining' \in [Targets -> Int]
      BY DEF IInv, TypeOK
    <3>3. passComplete' \in [Targets -> BOOLEAN]
      BY DEF IInv, TypeOK
    <3>4. flying' \in [Targets -> Nat]
      BY DEF IInv, TypeOK
    <3> QED
      BY <3>1, <3>2, <3>3, <3>4 DEF TypeOK
  <2>2. OneTurn'
    BY DEF IInv, TypeOK, OneTurn, HasTurn, CompleteIsDone
  <2>3. CompleteIsDone'
    BY DEF IInv, TypeOK, CompleteIsDone
  <2>4. FlyingInTurn'
    BY DEF IInv, TypeOK, FlyingInTurn
  <2> QED
    BY <2>1, <2>2, <2>3, <2>4 DEF IInv
<1>5. CASE TimeExpired(t)
  <2> USE <1>5 DEF TimeExpired, Goto
  <2>1. TypeOK'
    BY DEF IInv, TypeOK, Labels
  <2>2. OneTurn'
    BY DEF IInv, TypeOK, OneTurn, HasTurn, CompleteIsDone
  <2>3. CompleteIsDone'
    BY DEF IInv, TypeOK, CompleteIsDone
  <2>4. FlyingInTurn'
    BY DEF IInv, TypeOK, FlyingInTurn
  <2> QED
    BY <2>1, <2>2, <2>3, <2>4 DEF IInv
<1>6. CASE EndInterval(t)
  <2> USE <1>6 DEF EndInterval, Goto
  <2>1. TypeOK'
    BY DEF IInv, TypeOK, Labels
  <2>2. OneTurn'
    BY DEF IInv, TypeOK, OneTurn, HasTurn, CompleteIsDone
  <2>3. CompleteIsDone'
    BY DEF IInv, TypeOK, CompleteIsDone
  <2>4. FlyingInTurn'
    BY DEF IInv, TypeOK, FlyingInTurn
  <2> QED
    BY <2>1, <2>2, <2>3, <2>4 DEF IInv
<1>7. CASE Drain(t)
  <2> USE <1>7 DEF Drain, Goto, Drained
  <2>1. TypeOK'
    BY DEF IInv, TypeOK, Labels
  <2>2. OneTurn'
    BY DEF IInv, TypeOK, OneTurn, HasTurn, CompleteIsDone
  <2>3. CompleteIsDone'
    BY DEF IInv, TypeOK, CompleteIsDone
  <2>4. FlyingInTurn'
    BY DEF IInv, TypeOK, FlyingInTurn
  <2> QED
    BY <2>1, <2>2, <2>3, <2>4 DEF IInv
<1>8. CASE PassOver(t)
  <2> USE <1>8 DEF PassOver, Goto
  <2>1. TypeOK'
    BY DEF IInv, TypeOK, Labels
  <2>2. OneTurn'
    BY DEF IInv, TypeOK, OneTurn, HasTurn, CompleteIsDone
  <2>3. CompleteIsDone'
    BY DEF IInv, TypeOK, CompleteIsDone
  <2>4. FlyingInTurn'
    BY DEF IInv, TypeOK, FlyingInTurn
  <2> QED
    BY <2>1, <2>2, <2>3, <2>4 DEF IInv
<1>9. CASE Choose(t)
  <2> USE <1>9 DEF Choose, Goto
  <2>1. TypeOK'
    BY DEF IInv, TypeOK, Labels
  <2>2. OneTurn'
    BY DEF IInv, TypeOK, OneTurn, HasTurn, CompleteIsDone
  <2>3. CompleteIsDone'
    BY DEF IInv, TypeOK, CompleteIsDone
  <2>4. FlyingInTurn'
    BY DEF IInv, TypeOK, FlyingInTurn
  <2> QED
    BY <2>1, <2>2, <2>3, <2>4 DEF IInv
<1>10. CASE Decide(t)
  <2> USE <1>10 DEF Decide, Goto, GivesUp, Wakes
  <2>1. TypeOK'
    <3>1. pc' \in [Targets -> Labels]
      BY DEF IInv, TypeOK, Labels
    <3>2. remaining' \in [Targets -> Int]
      BY DEF IInv, TypeOK
    <3>3. passComplete' \in [Targets -> BOOLEAN]
      BY Zenon DEF IInv, TypeOK
    <3>4. flying' \in [Targets -> Nat]
      BY DEF IInv, TypeOK
    <3> QED
      BY <3>1, <3>2, <3>3, <3>4 DEF TypeOK
  <2>2. OneTurn'
    BY DEF IInv, TypeOK, OneTurn, HasTurn, CompleteIsDone
  <2>3. CompleteIsDone'
    BY DEF IInv, TypeOK, CompleteIsDone
  <2>4. FlyingInTurn'
    BY DEF IInv, TypeOK, FlyingInTurn
  <2> QED
    BY <2>1, <2>2, <2>3, <2>4 DEF IInv
<1>11. CASE Woken(t)
  <2> USE <1>11 DEF Woken, Goto, AfterWaking
  <2>1. TypeOK'
    BY DEF IInv, TypeOK, Labels
  <2>2. OneTurn'
    BY DEF IInv, TypeOK, OneTurn, HasTurn, CompleteIsDone
  <2>3. CompleteIsDone'
    BY DEF IInv, TypeOK, CompleteIsDone
  <2>4. FlyingInTurn'
    BY DEF IInv, TypeOK, FlyingInTurn
  <2> QED
    BY <2>1, <2>2, <2>3, <2>4 DEF IInv
<1> QED
  BY <1>1, <1>2, <1>3, <1>4, <1>5, <1>6, <1>7, <1>8, <1>9, <1>10, <1>11 DEF TargetStep

LEMMA NextInvariant == IInv /\ [Next]_vars => IInv'
<1> SUFFICES ASSUME IInv, [Next]_vars PROVE IInv'
  OBVIOUS
<1>1. CASE UNCHANGED vars
  BY <1>1 DEF vars, IInv, TypeOK, OneTurn, HasTurn, CompleteIsDone, FlyingInTurn
<1>2. CASE Next
  BY <1>2, StepStartPass, StepEndPass, StepMeet, StepWorkerDone, StepTarget DEF Next
<1> QED
  BY <1>1, <1>2

-----------------------------------------------------------------------------
\* Taking turns (xdd_lockstep): at most one target of the ring issues I/O or has
\* I/O outstanding, in every pass and whichever targets have completed it.
THEOREM OnlyOneRuns == Spec => []OneTargetRuns
<1>1. IInv => OneTargetRuns
  BY DEF IInv, OneTurn, HasTurn, FlyingInTurn, OneTargetRuns, Running
<1> QED
  BY <1>1, InitInvariant, NextInvariant, PTL DEF Spec
=============================================================================
