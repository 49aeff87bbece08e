------------------------ MODULE BufferExchangeProofs ------------------------
(***************************************************************************)
(* The bx program never uses a buffer in two places and never loses one,   *)
(* for every sequence of targets and every number of workers and buffers.  *)
(*                                                                         *)
(* The release of a worker takes no lock, so the argument rests on whose   *)
(* hands a worker is in: it is on its target's queue once, or in the hands *)
(* of the target, or released, or terminated, and only then it waits.  A   *)
(* worker that is on its way has one buffer, which nobody else has.        *)
(***************************************************************************)
EXTENDS BufferExchange, FiniteSetTheorems, TLAPS

TargetPlaces ==
  {"worker", "buffer", "release", "route", "wake", "terminate", "done", "crash"}
WorkerPlaces == {"start", "test", "wait", "asleep", "io", "pass", "exit"}

\* The types of what targets and workers hand to each other.
TypeOK ==
  /\ tpc \in [BxTargets -> TargetPlaces]
  /\ tw \in [BxTargets -> Workers] /\ tb \in [BxTargets -> Buffers \cup {None}]
  /\ bq \in [BxTargets -> Seq(Buffers)] /\ wq \in [BxTargets -> Seq(Workers)]
  /\ wpc \in [Workers -> WorkerPlaces]
  /\ released \in [Workers -> BOOLEAN] /\ terminate \in [Workers -> BOOLEAN]
  /\ wbuf \in [Workers -> Buffers \cup {None}] /\ wnext \in [Workers -> BxTargets]
  /\ collected \subseteq Buffers

\* The worker is in its loop on bx_wd_released.
Waiting(w) == wpc[w] \in {"test", "wait", "asleep"}

\* Worker w waits, and nothing has been done to it yet.
Free(w) == Waiting(w) /\ ~released[w] /\ ~terminate[w]

\* The target has dequeued its worker and has not released it.
InHand(t) == tpc[t] = "release" \/ (t = Input /\ tpc[t] = "buffer")

\* The worker a target has in hand, and those on its queue, are free and are
\* different workers.
TargetOrder(t) ==
  /\ InHand(t) => Free(tw[t])
  /\ tw[t][1] = t
  /\ \A i \in 1 .. Len(wq[t]) :
       /\ Free(wq[t][i]) /\ wq[t][i][1] = t
       /\ InHand(t) => wq[t][i] # tw[t]
       /\ \A j \in 1 .. Len(wq[t]) : wq[t][i] = wq[t][j] => i = j
  /\ tpc[t] = "release" \/ (t # Input /\ tpc[t] = "worker") => tb[t] \in Buffers

\* A worker that was released waits and has a buffer, and keeps it until it has
\* passed it on.  A terminated worker is never released again.
WorkerOrder(w) ==
  /\ released[w] \/ wpc[w] \in {"io", "pass"} => wbuf[w] \in Buffers
  /\ released[w] => Waiting(w)
  /\ terminate[w] => Waiting(w) /\ ~released[w]

Order == (\A t \in BxTargets : TargetOrder(t)) /\ (\A w \in Workers : WorkerOrder(w))

OnQueue(t, i, b) == i \in 1 .. Len(bq[t]) /\ bq[t][i] = b

\* Buffer b is somewhere, and in one place only.
InOnePlace(b) ==
  /\ \/ \E t \in BxTargets, i \in Nat : OnQueue(t, i, b)
     \/ \E t \in BxTargets : HeldByTarget(t, b)
     \/ \E w \in Workers : HeldByWorker(w, b)
     \/ b \in collected
  /\ \A t, u \in BxTargets, i, j \in Nat :
       OnQueue(t, i, b) /\ OnQueue(u, j, b) => t = u /\ i = j
  /\ \A t, u \in BxTargets : HeldByTarget(t, b) /\ HeldByTarget(u, b) => t = u
  /\ \A v, w \in Workers : HeldByWorker(v, b) /\ HeldByWorker(w, b) => v = w
  /\ \A t, u \in BxTargets, i \in Nat : ~(OnQueue(t, i, b) /\ HeldByTarget(u, b))
  /\ \A t \in BxTargets, i \in Nat, w \in Workers :
       ~(OnQueue(t, i, b) /\ HeldByWorker(w, b))
  /\ \A t \in BxTargets, w \in Workers : ~(HeldByTarget(t, b) /\ HeldByWorker(w, b))
  /\ b \in collected =>
       /\ \A t \in BxTargets, i \in Nat : ~OnQueue(t, i, b)
       /\ \A t \in BxTargets : ~HeldByTarget(t, b)
       /\ \A w \in Workers : ~HeldByWorker(w, b)

OnePlace == \A b \in Buffers : InOnePlace(b)

\* The inductive invariant.
IInv == TypeOK /\ Order /\ OnePlace
-----------------------------------------------------------------------------
(* The constants *)

LEMMA TargetFacts ==
  /\ Input \in BxTargets /\ Final \in BxTargets /\ 0 \in BxTargets
  /\ \A t \in BxTargets : NextQueue(t) \in BxTargets
<1>1. /\ Len(TargetSequence) \in Nat /\ Len(TargetSequence) > 1
      /\ DOMAIN TargetSequence = 1 .. Len(TargetSequence)
  BY ExchangeAssumption
<1>2. \A t : t \in BxTargets <=>
               \E j \in 1 .. Len(TargetSequence) : TargetSequence[j] = t
  BY <1>1 DEF BxTargets, Range
<1>3. Input \in BxTargets /\ Final \in BxTargets
  BY <1>1, <1>2 DEF Input, Final
<1>4. ASSUME NEW t \in BxTargets, t # Final
      PROVE  After(t) \in BxTargets
  <2> DEFINE j == CHOOSE k \in 1 .. Len(TargetSequence) : TargetSequence[k] = t
  <2>1. j \in 1 .. Len(TargetSequence) /\ TargetSequence[j] = t
    BY <1>2
  <2>2. j # Len(TargetSequence)
    BY <2>1, <1>4 DEF Final
  <2>3. 1 + j \in 1 .. Len(TargetSequence)
    BY <2>1, <2>2, <1>1
  <2> HIDE DEF j
  <2>4. TargetSequence[1 + j] \in BxTargets
    BY <2>3, <1>2
  <2> QED BY <2>4, <1>4 DEF After, j
<1> QED BY <1>3, <1>4, ExchangeAssumption, Zenon DEF BxTargets, NextQueue, After

LEMMA WorkerFacts ==
  /\ \A w \in Workers : w[1] \in BxTargets
  /\ \A t \in BxTargets : <<t, 1>> \in Workers
<1>1. \A t \in BxTargets : 1 \in 1 .. WorkersOf[t]
  BY ExchangeAssumption DEF BxTargets
<1> QED BY <1>1 DEF Workers

-----------------------------------------------------------------------------
(* The queues *)

\* The first element is taken off, the others move up.
LEMMA Dequeued ==
  ASSUME NEW S, NEW s \in Seq(S), s # <<>>
  PROVE  /\ 1 \in 1 .. Len(s) /\ Head(s) = s[1] /\ Head(s) \in S
         /\ Tail(s) \in Seq(S)
         /\ Len(Tail(s)) = Len(s) - 1
         /\ \A i \in 1 .. Len(Tail(s)) :
              i + 1 \in 1 .. Len(s) /\ Tail(s)[i] = s[i + 1]
OBVIOUS

LEMMA Enqueued ==
  ASSUME NEW S, NEW s \in Seq(S), NEW x \in S
  PROVE  /\ Append(s, x) \in Seq(S)
         /\ Len(Append(s, x)) = Len(s) + 1
         /\ \A i \in 1 .. Len(s) + 1 :
              Append(s, x)[i] = IF i = Len(s) + 1 THEN x ELSE s[i]
OBVIOUS

LEMMA BufferDequeued ==
  ASSUME TypeOK, NEW t \in BxTargets, bq[t] # <<>>,
         bq' = [bq EXCEPT ![t] = Tail(@)]
  PROVE  /\ Head(bq[t]) \in Buffers /\ OnQueue(t, 1, Head(bq[t]))
         /\ bq' \in [BxTargets -> Seq(Buffers)]
         /\ \A u \in BxTargets, i \in Nat, b \in Buffers :
              OnQueue(u, i, b)' <=> IF u = t THEN i # 0 /\ OnQueue(t, i + 1, b)
                                    ELSE OnQueue(u, i, b)
<1>1. bq \in [BxTargets -> Seq(Buffers)] /\ bq[t] \in Seq(Buffers)
  BY DEF TypeOK
<1>2. /\ 1 \in 1 .. Len(bq[t]) /\ Head(bq[t]) = bq[t][1] /\ Head(bq[t]) \in Buffers
      /\ Tail(bq[t]) \in Seq(Buffers) /\ Len(Tail(bq[t])) = Len(bq[t]) - 1
      /\ \A i \in 1 .. Len(Tail(bq[t])) : Tail(bq[t])[i] = bq[t][i + 1]
  BY <1>1, Dequeued
<1>3. ASSUME NEW u \in BxTargets, NEW i \in Nat, NEW b \in Buffers
      PROVE  OnQueue(u, i, b)' <=> IF u = t THEN i # 0 /\ OnQueue(t, i + 1, b)
                                   ELSE OnQueue(u, i, b)
  <2>1. CASE u # t
    BY <2>1, <1>1 DEF OnQueue
  <2>2. CASE u = t
    <3>1. bq'[t] = Tail(bq[t]) /\ Len(bq[t]) \in Nat
      BY <1>1
    <3>2. i \in 1 .. Len(Tail(bq[t])) <=> i # 0 /\ i + 1 \in 1 .. Len(bq[t])
      BY <1>2, <3>1
    <3> QED BY <1>2, <2>2, <3>1, <3>2, Zenon DEF OnQueue
  <2> QED BY <2>1, <2>2
<1> QED BY <1>1, <1>2, <1>3 DEF OnQueue

LEMMA BufferEnqueued ==
  ASSUME TypeOK, NEW t \in BxTargets, NEW c \in Buffers,
         bq' = [bq EXCEPT ![t] = Append(@, c)]
  PROVE  /\ bq' \in [BxTargets -> Seq(Buffers)] /\ Len(bq[t]) + 1 \in Nat
         /\ \A u \in BxTargets, i \in Nat, b \in Buffers :
              OnQueue(u, i, b)' <=>
                OnQueue(u, i, b) \/ (u = t /\ i = Len(bq[t]) + 1 /\ b = c)
<1>1. bq \in [BxTargets -> Seq(Buffers)] /\ bq[t] \in Seq(Buffers) /\ Len(bq[t]) \in Nat
  BY DEF TypeOK
<1>2. /\ Append(bq[t], c) \in Seq(Buffers) /\ Len(Append(bq[t], c)) = Len(bq[t]) + 1
      /\ \A i \in 1 .. Len(bq[t]) + 1 :
           Append(bq[t], c)[i] = IF i = Len(bq[t]) + 1 THEN c ELSE bq[t][i]
  BY <1>1, Enqueued
<1>3. bq'[t] = Append(bq[t], c) /\ \A u \in BxTargets : u # t => bq'[u] = bq[u]
  BY <1>1
<1>4. ASSUME NEW i \in Nat, NEW b \in Buffers
      PROVE  OnQueue(t, i, b)' <=>
               OnQueue(t, i, b) \/ (i = Len(bq[t]) + 1 /\ b = c)
  BY <1>1, <1>2, <1>3 DEF OnQueue
<1>5. \A u \in BxTargets, i \in Nat, b \in Buffers :
        u # t => (OnQueue(u, i, b)' <=> OnQueue(u, i, b))
  BY <1>3 DEF OnQueue
<1>6. bq' \in [BxTargets -> Seq(Buffers)]
  BY <1>1, <1>2
<1> QED BY <1>1, <1>4, <1>5, <1>6

-----------------------------------------------------------------------------
(* Frames: what keeps each part of the invariant *)

LEMMA OrderKept ==
  ASSUME Order, UNCHANGED <<tpc, tw, tb, wq, wpc, released, terminate, wbuf>>
  PROVE  Order'
BY DEF Order, TargetOrder, WorkerOrder, InHand, Free, Waiting

\* The order of a target other than the one that moves.
LEMMA TargetOrderKept ==
  ASSUME NEW t \in BxTargets, TargetOrder(t),
         tpc'[t] = tpc[t], tw'[t] = tw[t], tb'[t] = tb[t], wq'[t] = wq[t],
         \A w \in Workers : w[1] = t /\ Free(w) => Free(w)',
         tw[t] \in Workers, \A i \in 1 .. Len(wq[t]) : wq[t][i] \in Workers
  PROVE  TargetOrder(t)'
BY DEF TargetOrder, InHand

LEMMA WorkerOrderKept ==
  ASSUME NEW w \in Workers, WorkerOrder(w),
         wpc'[w] = wpc[w], released'[w] = released[w],
         terminate'[w] = terminate[w], wbuf'[w] = wbuf[w]
  PROVE  WorkerOrder(w)'
BY DEF WorkerOrder, Waiting

\* A buffer that nobody moves.
LEMMA BufferStays ==
  ASSUME NEW b \in Buffers, InOnePlace(b),
         \A t \in BxTargets, i \in Nat : OnQueue(t, i, b)' <=> OnQueue(t, i, b),
         \A t \in BxTargets : HeldByTarget(t, b)' <=> HeldByTarget(t, b),
         \A w \in Workers : HeldByWorker(w, b)' <=> HeldByWorker(w, b),
         b \in collected' <=> b \in collected
  PROVE  InOnePlace(b)'
BY DEF InOnePlace

\* A buffer that moves up on its queue, or stays.
LEMMA BufferMovesUp ==
  ASSUME NEW b \in Buffers, InOnePlace(b), NEW q \in BxTargets, ~OnQueue(q, 1, b),
         \A t \in BxTargets, i \in Nat :
           OnQueue(t, i, b)' <=> IF t = q THEN i # 0 /\ OnQueue(q, i + 1, b)
                                 ELSE OnQueue(t, i, b),
         \A t \in BxTargets : HeldByTarget(t, b)' <=> HeldByTarget(t, b),
         \A w \in Workers : HeldByWorker(w, b)' <=> HeldByWorker(w, b),
         b \in collected' <=> b \in collected
  PROVE  InOnePlace(b)'
<1>1. \A t \in BxTargets, i \in Nat :
        OnQueue(t, i, b) => i # 0 /\ (t = q => i # 1)
  BY DEF OnQueue
<1>2. (\E t \in BxTargets, i \in Nat : OnQueue(t, i, b))
        => \E t \in BxTargets, i \in Nat : OnQueue(t, i, b)'
  <2> SUFFICES ASSUME NEW t \in BxTargets, NEW i \in Nat, OnQueue(t, i, b)
               PROVE  \E u \in BxTargets, j \in Nat : OnQueue(u, j, b)'
    OBVIOUS
  <2>1. CASE t # q
    BY <2>1
  <2>2. CASE t = q
    <3>1. i - 1 \in Nat /\ i - 1 # 0 /\ (i - 1) + 1 = i
      BY <1>1, <2>2
    <3>2. OnQueue(q, i - 1, b)'
      BY <3>1, <2>2
    <3> QED BY <3>1, <3>2
  <2> QED BY <2>1, <2>2
<1>3. \A t \in BxTargets, i \in Nat :
        OnQueue(t, i, b)' => \E j \in Nat : OnQueue(t, j, b)
  OBVIOUS
<1>4. \A t, u \in BxTargets, i, j \in Nat :
        OnQueue(t, i, b)' /\ OnQueue(u, j, b)' => t = u /\ i = j
  BY DEF InOnePlace
<1> QED BY <1>2, <1>3, <1>4 DEF InOnePlace

\* A step of a target concerns its own workers only.
LEMMA TargetMoves ==
  ASSUME TypeOK, Order, NEW t \in BxTargets,
         \A u \in BxTargets : u # t => /\ tpc'[u] = tpc[u] /\ tw'[u] = tw[u]
                                       /\ tb'[u] = tb[u] /\ wq'[u] = wq[u],
         \A w \in Workers : w[1] # t => /\ wpc'[w] = wpc[w] /\ wbuf'[w] = wbuf[w]
                                        /\ released'[w] = released[w]
                                        /\ terminate'[w] = terminate[w],
         TargetOrder(t)', \A w \in Workers : w[1] = t => WorkerOrder(w)'
  PROVE  Order'
<1>1. ASSUME NEW u \in BxTargets, u # t
      PROVE  TargetOrder(u)'
  <2>1. tw[u] \in Workers /\ \A i \in 1 .. Len(wq[u]) : wq[u][i] \in Workers
    BY DEF TypeOK
  <2>2. \A w \in Workers : w[1] = u /\ Free(w) => Free(w)'
    BY <1>1 DEF Free, Waiting
  <2>3. TargetOrder(u)
    BY DEF Order
  <2> QED BY <1>1, <2>1, <2>2, <2>3, TargetOrderKept
<1>2. \A w \in Workers : w[1] # t => WorkerOrder(w)'
  BY WorkerOrderKept DEF Order
<1> QED BY <1>1, <1>2 DEF Order

\* A step of a worker that does not take it from where its target put it.
LEMMA WorkerMoves ==
  ASSUME TypeOK, Order, NEW w \in Workers, UNCHANGED <<tpc, tw, tb, wq>>,
         \A v \in Workers : v # w => /\ wpc'[v] = wpc[v] /\ wbuf'[v] = wbuf[v]
                                     /\ released'[v] = released[v]
                                     /\ terminate'[v] = terminate[v],
         WorkerOrder(w)', Free(w) => Free(w)'
  PROVE  Order'
<1>1. \A v \in Workers : Free(v) => Free(v)'
  BY DEF Free, Waiting
<1>2. ASSUME NEW u \in BxTargets
      PROVE  TargetOrder(u)'
  <2>1. tw[u] \in Workers /\ \A i \in 1 .. Len(wq[u]) : wq[u][i] \in Workers
    BY DEF TypeOK
  <2>2. TargetOrder(u)
    BY DEF Order
  <2> QED BY <1>1, <2>1, <2>2, TargetOrderKept
<1>3. \A v \in Workers : v # w => WorkerOrder(v)'
  BY WorkerOrderKept DEF Order
<1> QED BY <1>2, <1>3 DEF Order

\* The target's worker queue loses its first worker, which is free.
LEMMA WorkerDequeued ==
  ASSUME TypeOK, Order, NEW t \in BxTargets, wq[t] # <<>>,
         wq' = [wq EXCEPT ![t] = Tail(@)]
  PROVE  /\ Head(wq[t]) \in Workers /\ Free(Head(wq[t])) /\ Head(wq[t])[1] = t
         /\ wq' \in [BxTargets -> Seq(Workers)]
         /\ \A i \in 1 .. Len(wq'[t]) :
              /\ wq'[t][i] \in Workers /\ Free(wq'[t][i]) /\ wq'[t][i][1] = t
              /\ wq'[t][i] # Head(wq[t])
              /\ \A j \in 1 .. Len(wq'[t]) : wq'[t][i] = wq'[t][j] => i = j
<1>1. wq \in [BxTargets -> Seq(Workers)] /\ wq[t] \in Seq(Workers) /\ wq'[t] = Tail(wq[t])
  BY DEF TypeOK
<1>2. /\ 1 \in 1 .. Len(wq[t]) /\ Head(wq[t]) = wq[t][1] /\ Head(wq[t]) \in Workers
      /\ Tail(wq[t]) \in Seq(Workers)
      /\ \A i \in 1 .. Len(Tail(wq[t])) :
           i + 1 \in 1 .. Len(wq[t]) /\ Tail(wq[t])[i] = wq[t][i + 1]
  BY <1>1, Dequeued
<1>3. \A i \in 1 .. Len(wq[t]) :
        /\ Free(wq[t][i]) /\ wq[t][i][1] = t /\ wq[t][i] \in Workers
        /\ \A j \in 1 .. Len(wq[t]) : wq[t][i] = wq[t][j] => i = j
  <2>1. \A i \in 1 .. Len(wq[t]) : wq[t][i] \in Workers
    BY <1>1
  <2>2. TargetOrder(t)
    BY DEF Order
  <2> QED BY Zenon, <2>1, <2>2 DEF TargetOrder
<1>4. ASSUME NEW i \in 1 .. Len(Tail(wq[t]))
      PROVE  /\ wq'[t][i] \in Workers /\ Free(wq'[t][i]) /\ wq'[t][i][1] = t
             /\ wq'[t][i] # Head(wq[t])
             /\ \A j \in 1 .. Len(Tail(wq[t])) : wq'[t][i] = wq'[t][j] => i = j
  <2>1. i \in Int /\ i >= 1 /\ i + 1 # 1
    OBVIOUS
  <2>2. \A j \in 1 .. Len(Tail(wq[t])) : i + 1 = j + 1 => i = j
    OBVIOUS
  <2> QED BY <1>1, <1>2, <1>3, <2>1, <2>2
<1>5. wq' \in [BxTargets -> Seq(Workers)]
  BY <1>1, <1>2
<1> QED BY <1>1, <1>2, <1>3, <1>4, <1>5

\* A step of a target that leaves its workers where they are.
LEMMA TargetGoesOn ==
  ASSUME TypeOK, Order, NEW t \in BxTargets,
         UNCHANGED <<tw, wq, wpc, released, terminate, wbuf>>,
         \A u \in BxTargets : u # t => tpc'[u] = tpc[u] /\ tb'[u] = tb[u],
         InHand(t)' => InHand(t), tpc'[t] \in {"release", "worker"} => tb'[t] \in Buffers
  PROVE  Order'
<1>1. TargetOrder(t)'
  BY DEF Order, TargetOrder, Free, Waiting
<1>2. \A w \in Workers : WorkerOrder(w)'
  BY WorkerOrderKept DEF Order
<1> QED BY <1>1, <1>2, TargetMoves

\* A step that leaves the buffers where they are.
LEMMA NoBufferMoves ==
  ASSUME OnePlace, UNCHANGED <<bq, collected>>,
         \A t \in BxTargets, b \in Buffers : HeldByTarget(t, b)' <=> HeldByTarget(t, b),
         \A w \in Workers, b \in Buffers : HeldByWorker(w, b)' <=> HeldByWorker(w, b)
  PROVE  OnePlace'
<1>1. \A t \in BxTargets, i \in Nat, b \in Buffers : OnQueue(t, i, b)' <=> OnQueue(t, i, b)
  BY DEF OnQueue
<1> QED BY <1>1, BufferStays DEF OnePlace

\* A target takes the first buffer of its queue, to hold it or to collect it.
LEMMA BufferTaken ==
  ASSUME TypeOK, OnePlace, NEW t \in BxTargets, bq[t] # <<>>,
         bq' = [bq EXCEPT ![t] = Tail(@)], UNCHANGED <<wpc, released, wbuf>>,
         NEW h \in Buffers, h = Head(bq[t]),
         \A u \in BxTargets : u # t => tpc'[u] = tpc[u] /\ tb'[u] = tb[u],
         \A b \in Buffers : b # h => /\ HeldByTarget(t, b)' <=> HeldByTarget(t, b)
                                     /\ b \in collected' <=> b \in collected,
         \/ HeldByTarget(t, h)' /\ collected' = collected
         \/ ~HeldByTarget(t, h)' /\ h \in collected'
  PROVE  OnePlace'
<1>1. /\ OnQueue(t, 1, h)
      /\ \A u \in BxTargets, i \in Nat, b \in Buffers :
           OnQueue(u, i, b)' <=> IF u = t THEN i # 0 /\ OnQueue(t, i + 1, b)
                                 ELSE OnQueue(u, i, b)
  BY BufferDequeued, Zenon
<1>2. /\ \A w \in Workers, b \in Buffers : HeldByWorker(w, b)' <=> HeldByWorker(w, b)
      /\ \A u \in BxTargets, b \in Buffers :
           u # t => (HeldByTarget(u, b)' <=> HeldByTarget(u, b))
  BY DEF HeldByWorker, HeldByTarget
<1>3. ASSUME NEW b \in Buffers, b # h
      PROVE  InOnePlace(b)'
  <2>1. InOnePlace(b) /\ ~OnQueue(t, 1, b)
    BY <1>1, <1>3 DEF OnePlace, OnQueue
  <2>2. \A u \in BxTargets : HeldByTarget(u, b)' <=> HeldByTarget(u, b)
    BY <1>2, <1>3
  <2> QED BY <1>1, <1>2, <1>3, <2>1, <2>2, BufferMovesUp
<1>4. InOnePlace(h)'
  <2>1. InOnePlace(h)
    BY DEF OnePlace
  <2>2. /\ \A u \in BxTargets, i \in Nat : ~OnQueue(u, i, h)'
        /\ \A w \in Workers : ~HeldByWorker(w, h)'
        /\ \A u \in BxTargets : u # t => ~HeldByTarget(u, h)'
        /\ h \notin collected
    BY <1>1, <1>2, <2>1 DEF InOnePlace
  <2> QED BY <2>2 DEF InOnePlace
<1> QED BY <1>3, <1>4 DEF OnePlace

\* A buffer that was on no queue is put on one.
LEMMA BufferQueued ==
  ASSUME TypeOK, OnePlace, NEW q \in BxTargets, NEW c \in Buffers,
         bq' = [bq EXCEPT ![q] = Append(@, c)],
         \A t \in BxTargets, i \in Nat : ~OnQueue(t, i, c),
         \A t \in BxTargets, b \in Buffers :
           HeldByTarget(t, b)' <=> HeldByTarget(t, b) /\ b # c,
         \A w \in Workers, b \in Buffers :
           HeldByWorker(w, b)' <=> HeldByWorker(w, b) /\ b # c,
         \A b \in Buffers : b \in collected' <=> b \in collected /\ b # c
  PROVE  OnePlace'
<1>n. PICK n \in Nat : n = Len(bq[q]) + 1
  BY BufferEnqueued
<1>1. \A u \in BxTargets, i \in Nat, b \in Buffers :
        OnQueue(u, i, b)' <=> OnQueue(u, i, b) \/ (u = q /\ i = n /\ b = c)
  BY <1>n, BufferEnqueued, Zenon
<1>2. \A b \in Buffers : b # c => InOnePlace(b)'
  BY <1>1, BufferStays DEF OnePlace
<1>3. InOnePlace(c)'
  BY <1>1 DEF InOnePlace
<1> QED BY <1>2, <1>3 DEF OnePlace

-----------------------------------------------------------------------------
(* The steps of the targets *)

LEMMA StepGetWorker ==
  ASSUME TypeOK, Order, OnePlace, NEW t \in BxTargets, GetWorker(t)
  PROVE  IInv'
<1>1. /\ Head(wq[t]) \in Workers /\ Free(Head(wq[t])) /\ Head(wq[t])[1] = t
      /\ wq' \in [BxTargets -> Seq(Workers)]
      /\ \A i \in 1 .. Len(wq'[t]) :
           /\ wq'[t][i] \in Workers /\ Free(wq'[t][i]) /\ wq'[t][i][1] = t
           /\ wq'[t][i] # Head(wq[t])
           /\ \A j \in 1 .. Len(wq'[t]) : wq'[t][i] = wq'[t][j] => i = j
  BY WorkerDequeued, Zenon DEF GetWorker
<1>2. /\ tw'[t] = Head(wq[t]) /\ tpc[t] = "worker"
      /\ tpc'[t] = IF t = Input THEN "buffer" ELSE "release"
      /\ UNCHANGED <<tb, wpc, released, terminate, wbuf, bq, collected>>
      /\ \A u \in BxTargets : u # t =>
           tpc'[u] = tpc[u] /\ tw'[u] = tw[u] /\ wq'[u] = wq[u]
  BY DEF GetWorker, At, TGoto, TypeOK, wvars
<1>3. TypeOK'
  <2>1. tpc' \in [BxTargets -> TargetPlaces]
    BY DEF GetWorker, TGoto, TypeOK, TargetPlaces
  <2>2. tw' \in [BxTargets -> Workers]
    BY <1>1 DEF GetWorker, TypeOK
  <2> QED BY <1>1, <2>1, <2>2, Zenon DEF GetWorker, TypeOK, wvars
<1>4. Order'
  <2>1. \A w \in Workers : (Free(w) => Free(w)') /\ WorkerOrder(w)'
    BY <1>2, WorkerOrderKept DEF Free, Waiting, Order
  <2>2. TargetOrder(t)'
    BY <1>1, <1>2, <2>1 DEF Order, TargetOrder, InHand
  <2> QED BY <1>2, <2>1, <2>2, TargetMoves
<1>5. OnePlace'
  BY <1>2, NoBufferMoves DEF HeldByTarget, HeldByWorker
<1> QED BY <1>3, <1>4, <1>5 DEF IInv

LEMMA StepInputGetBuffer ==
  ASSUME TypeOK, Order, OnePlace, InputGetBuffer
  PROVE  IInv'
<1>1. Input \in BxTargets /\ bq[Input] # <<>> /\ bq' = [bq EXCEPT ![Input] = Tail(@)]
  BY TargetFacts DEF InputGetBuffer
<1>h. PICK h \in Buffers : h = Head(bq[Input])
  BY <1>1, BufferDequeued, Zenon
<1>2. /\ tpc[Input] = "buffer" /\ tpc'[Input] = "release" /\ tb'[Input] = h
      /\ UNCHANGED <<tw, wq, wpc, released, terminate, wbuf, collected>>
      /\ \A u \in BxTargets : u # Input => tpc'[u] = tpc[u] /\ tb'[u] = tb[u]
  BY <1>1, <1>h DEF InputGetBuffer, At, TGoto, TypeOK, wvars
<1>3. TypeOK'
  <2>1. tpc' \in [BxTargets -> TargetPlaces]
    BY Zenon DEF InputGetBuffer, TGoto, TypeOK, TargetPlaces
  <2>2. tb' \in [BxTargets -> Buffers \cup {None}] /\ bq' \in [BxTargets -> Seq(Buffers)]
    BY <1>1, <1>h, BufferDequeued DEF InputGetBuffer, TypeOK
  <2> QED BY <2>1, <2>2 DEF InputGetBuffer, TypeOK, wvars
<1>4. Order'
  BY <1>1, <1>2, TargetGoesOn DEF InHand
<1>5. OnePlace'
  <2>1. \A b \in Buffers : ~HeldByTarget(Input, b) /\ (HeldByTarget(Input, b)' <=> b = h)
    BY <1>2 DEF HeldByTarget
  <2> QED BY <1>1, <1>h, <1>2, <2>1, BufferTaken, Zenon
<1> QED BY <1>3, <1>4, <1>5 DEF IInv

LEMMA StepOutputGetBuffer ==
  ASSUME TypeOK, Order, OnePlace, NEW t \in BxTargets, OutputGetBuffer(t)
  PROVE  IInv'
<1>1. t # Input /\ bq[t] # <<>> /\ bq' = [bq EXCEPT ![t] = Tail(@)]
  BY DEF OutputGetBuffer
<1>h. PICK h \in Buffers : h = Head(bq[t])
  BY <1>1, BufferDequeued, Zenon
<1>2. /\ tpc[t] = "buffer" /\ tpc'[t] \in {"worker", "terminate"} /\ tb'[t] = h
      /\ UNCHANGED <<tw, wq, wpc, released, terminate, wbuf, collected>>
      /\ \A u \in BxTargets : u # t => tpc'[u] = tpc[u] /\ tb'[u] = tb[u]
  BY <1>h DEF OutputGetBuffer, WithBuffer, At, TGoto, TypeOK, wvars
<1>3. TypeOK'
  <2>1. tpc' \in [BxTargets -> TargetPlaces]
    BY DEF OutputGetBuffer, WithBuffer, TGoto, TypeOK, TargetPlaces
  <2>2. tb' \in [BxTargets -> Buffers \cup {None}] /\ bq' \in [BxTargets -> Seq(Buffers)]
    BY <1>1, <1>h, BufferDequeued DEF OutputGetBuffer, TypeOK
  <2> QED BY <2>1, <2>2 DEF OutputGetBuffer, TypeOK, wvars
<1>4. Order'
  BY <1>1, <1>2, TargetGoesOn DEF InHand
<1>5. OnePlace'
  <2>1. \A b \in Buffers : ~HeldByTarget(t, b) /\ (HeldByTarget(t, b)' <=> b = h)
    BY <1>1, <1>2 DEF HeldByTarget
  <2> QED BY <1>1, <1>h, <1>2, <2>1, BufferTaken, Zenon
<1> QED BY <1>3, <1>4, <1>5 DEF IInv

\* The buffer goes from the target to the worker it has in hand.
LEMMA StepRelease ==
  ASSUME TypeOK, Order, OnePlace, NEW t \in BxTargets, Release(t)
  PROVE  IInv'
<1>w. PICK w \in Workers : w = tw[t] /\ Free(w) /\ w[1] = t
  BY DEF TypeOK, Release, At, Order, TargetOrder, InHand
<1>c. PICK c \in Buffers : c = tb[t]
  BY DEF Release, At, Order, TargetOrder
<1>1. /\ tpc[t] = "release" /\ tpc'[t] = "route"
      /\ UNCHANGED <<tw, tb, wq, wpc, terminate, bq, collected>>
      /\ wbuf'[w] = c /\ released'[w] = TRUE
      /\ \A u \in BxTargets : u # t => tpc'[u] = tpc[u]
      /\ \A v \in Workers : v # w => wbuf'[v] = wbuf[v] /\ released'[v] = released[v]
  BY <1>w, <1>c DEF Release, At, TGoto, TypeOK
<1>2. TypeOK'
  <2>1. tpc' \in [BxTargets -> TargetPlaces]
    BY DEF Release, TGoto, TypeOK, TargetPlaces
  <2>2. wbuf' \in [Workers -> Buffers \cup {None}] /\ released' \in [Workers -> BOOLEAN]
    BY <1>w, <1>c DEF Release, TypeOK
  <2> QED BY <2>1, <2>2 DEF Release, TypeOK
<1>3. Order'
  <2>0. \A i \in 1 .. Len(wq[t]) : wq[t][i] \in Workers
    BY DEF TypeOK
  <2>1. \A i \in 1 .. Len(wq[t]) : wq[t][i] # w
    BY <1>w, <1>1 DEF Order, TargetOrder, InHand
  <2>2. \A v \in Workers : v # w => (Free(v) => Free(v)') /\ WorkerOrder(v)'
    BY <1>1, WorkerOrderKept DEF Order, Free, Waiting
  <2>3. TargetOrder(t)'
    BY <1>1, <2>0, <2>1, <2>2 DEF Order, TargetOrder, InHand
  <2>4. WorkerOrder(w)'
    BY <1>w, <1>1 DEF WorkerOrder, Free, Waiting
  <2> QED BY <1>w, <1>1, <2>2, <2>3, <2>4, TargetMoves
<1>4. ASSUME NEW b \in Buffers
      PROVE  InOnePlace(b)'
  <2>1. /\ InOnePlace(b)
        /\ \A u \in BxTargets, i \in Nat : OnQueue(u, i, b)' <=> OnQueue(u, i, b)
        /\ \A u \in BxTargets : HeldByTarget(u, b)' <=> HeldByTarget(u, b) /\ u # t
        /\ HeldByTarget(t, b) <=> b = c
    BY <1>c, <1>1 DEF OnePlace, OnQueue, HeldByTarget
  <2>2. \A v \in Workers : HeldByWorker(v, b)' <=> HeldByWorker(v, b) \/ (v = w /\ b = c)
    BY <1>w, <1>1 DEF HeldByWorker, Free, Waiting
  <2>3. CASE b # c
    BY <1>1, <2>1, <2>2, <2>3, BufferStays
  <2>4. CASE b = c
    <3>1. /\ \A u \in BxTargets, i \in Nat : ~OnQueue(u, i, b)'
          /\ \A v \in Workers : HeldByWorker(v, b)' <=> v = w
          /\ \A u \in BxTargets : ~HeldByTarget(u, b)'
          /\ b \notin collected'
      BY <1>1, <2>1, <2>2, <2>4 DEF InOnePlace
    <3> QED BY <3>1 DEF InOnePlace
  <2> QED BY <2>3, <2>4
<1> QED BY <1>2, <1>3, <1>4 DEF IInv, OnePlace

LEMMA StepRoute ==
  ASSUME TypeOK, Order, OnePlace, NEW t \in BxTargets, Route(t)
  PROVE  IInv'
<1>1. /\ tpc[t] = "route" /\ tpc'[t] = "wake"
      /\ UNCHANGED <<tw, tb, wq, wpc, released, terminate, wbuf, bq, collected>>
      /\ \A u \in BxTargets : u # t => tpc'[u] = tpc[u]
  BY DEF Route, At, TGoto, TypeOK
<1>2. TypeOK'
  <2>1. tpc' \in [BxTargets -> TargetPlaces]
    BY DEF Route, TGoto, TypeOK, TargetPlaces
  <2>2. wnext' \in [Workers -> BxTargets]
    BY TargetFacts DEF Route, TypeOK
  <2> QED BY <2>1, <2>2 DEF Route, TypeOK
<1>3. Order'
  BY <1>1, TargetGoesOn DEF InHand
<1>4. OnePlace'
  BY <1>1, NoBufferMoves DEF HeldByTarget, HeldByWorker
<1> QED BY <1>2, <1>3, <1>4 DEF IInv

\* The broadcast changes nobody's hands, even if the worker has long moved on.
LEMMA StepWake ==
  ASSUME TypeOK, Order, OnePlace, NEW t \in BxTargets, Wake(t)
  PROVE  IInv'
<1>1. tw[t] \in Workers /\ tw[t][1] = t
  BY DEF TypeOK, Order, TargetOrder
<1>2. /\ tpc[t] = "wake" /\ ~InHand(t)' /\ ~(t # Input /\ tpc'[t] = "worker")
      /\ tpc'[t] \notin {"release", "done"} /\ (t # Input => tpc'[t] = "buffer")
      /\ UNCHANGED <<tw, tb, wq, released, terminate, wbuf, bq, collected>>
      /\ \A u \in BxTargets : u # t => tpc'[u] = tpc[u]
      /\ \A w \in Workers : w # tw[t] => wpc'[w] = wpc[w]
  BY <1>1 DEF Wake, At, TGoto, TypeOK, InHand
<1>3. \A w \in Workers :
        /\ Waiting(w)' <=> Waiting(w)
        /\ wpc'[w] \in {"io", "pass"} <=> wpc[w] \in {"io", "pass"}
  BY <1>1 DEF Wake, TypeOK, Waiting
<1>4. TypeOK'
  <2>1. tpc' \in [BxTargets -> TargetPlaces]
    BY DEF Wake, TGoto, TypeOK, TargetPlaces
  <2>2. wpc' \in [Workers -> WorkerPlaces]
    BY DEF Wake, TypeOK, WorkerPlaces
  <2> QED BY <2>1, <2>2 DEF Wake, TypeOK
<1>5. Order'
  <2>1. \A i \in 1 .. Len(wq[t]) : wq[t][i] \in Workers
    BY DEF TypeOK
  <2>2. TargetOrder(t)'
    BY <1>2, <1>3, <2>1 DEF Order, TargetOrder, Free
  <2>3. \A w \in Workers : WorkerOrder(w)'
    BY <1>2, <1>3 DEF Order, WorkerOrder
  <2> QED BY <1>1, <1>2, <2>2, <2>3, TargetMoves
<1>6. OnePlace'
  BY <1>2, <1>3, NoBufferMoves DEF HeldByTarget, HeldByWorker
<1> QED BY <1>4, <1>5, <1>6 DEF IInv

LEMMA StepTerminate ==
  ASSUME TypeOK, Order, OnePlace, NEW t \in BxTargets, Terminate(t)
  PROVE  IInv'
<1>1. /\ Head(wq[t]) \in Workers /\ Free(Head(wq[t])) /\ Head(wq[t])[1] = t
      /\ wq' \in [BxTargets -> Seq(Workers)]
      /\ \A i \in 1 .. Len(wq'[t]) :
           /\ wq'[t][i] \in Workers /\ Free(wq'[t][i]) /\ wq'[t][i][1] = t
           /\ wq'[t][i] # Head(wq[t])
           /\ \A j \in 1 .. Len(wq'[t]) : wq'[t][i] = wq'[t][j] => i = j
  BY WorkerDequeued, Zenon DEF Terminate
<1>h. PICK h \in Workers : h = Head(wq[t])
  BY <1>1
<1>2. /\ tpc[t] = "terminate" /\ tw'[t] = h /\ terminate'[h] = TRUE
      /\ wpc'[h] \in {wpc[h], "test"}
      /\ UNCHANGED <<tpc, tb, released, wbuf, bq, collected>>
      /\ \A u \in BxTargets : u # t => tw'[u] = tw[u] /\ wq'[u] = wq[u]
      /\ \A w \in Workers : w # h => wpc'[w] = wpc[w] /\ terminate'[w] = terminate[w]
  BY <1>h DEF Terminate, At, TypeOK
<1>3. TypeOK'
  <2>1. tw' \in [BxTargets -> Workers] /\ terminate' \in [Workers -> BOOLEAN]
    BY <1>1, Zenon DEF Terminate, TypeOK
  <2>2. wpc' \in [Workers -> WorkerPlaces]
    BY <1>1, Zenon DEF Terminate, TypeOK, WorkerPlaces
  <2> QED BY <1>1, <2>1, <2>2, Zenon DEF Terminate, TypeOK
<1>4. Order'
  <2>1. \A w \in Workers : w # h => (Free(w) => Free(w)') /\ WorkerOrder(w)'
    BY <1>2, WorkerOrderKept DEF Order, Free, Waiting
  <2>2. (\A i \in 1 .. Len(wq[t]) : Free(wq[t][i]))'
    BY <1>1, <1>h, <2>1
  <2>3. TargetOrder(t)'
    BY <1>1, <1>h, <1>2, <2>2 DEF TargetOrder, InHand
  <2>4. WorkerOrder(h)'
    BY <1>1, <1>h, <1>2 DEF WorkerOrder, Free, Waiting
  <2> QED BY <1>1, <1>h, <1>2, <2>1, <2>3, <2>4, TargetMoves
<1>5. OnePlace'
  <2>1. \A w \in Workers, b \in Buffers : HeldByWorker(w, b)' <=> HeldByWorker(w, b)
    BY <1>1, <1>h, <1>2 DEF HeldByWorker, Free, Waiting
  <2> QED BY <1>2, <2>1, NoBufferMoves DEF HeldByTarget
<1> QED BY <1>3, <1>4, <1>5 DEF IInv

LEMMA StepCollect ==
  ASSUME TypeOK, Order, OnePlace, Collect
  PROVE  IInv'
<1>1. Input \in BxTargets /\ bq[Input] # <<>> /\ bq' = [bq EXCEPT ![Input] = Tail(@)]
  BY TargetFacts DEF Collect
<1>h. PICK h \in Buffers : h = Head(bq[Input])
  BY <1>1, BufferDequeued, Zenon
<1>2. /\ tpc[Input] = "terminate" /\ collected' = collected \cup {h}
      /\ UNCHANGED <<tpc, tw, wq, wpc, released, terminate, wbuf>>
      /\ \A u \in BxTargets : u # Input => tb'[u] = tb[u]
  BY <1>h DEF Collect, At, TypeOK, wvars
<1>3. TypeOK'
  <2>1. tb' \in [BxTargets -> Buffers \cup {None}] /\ bq' \in [BxTargets -> Seq(Buffers)]
    BY <1>1, <1>h, BufferDequeued DEF Collect, TypeOK
  <2> QED BY <1>h, <2>1 DEF Collect, TypeOK, wvars
<1>4. Order'
  BY <1>1, <1>2, TargetGoesOn DEF InHand
<1>5. OnePlace'
  <2>1. \A b \in Buffers : ~HeldByTarget(Input, b) /\ ~HeldByTarget(Input, b)'
    BY <1>2 DEF HeldByTarget
  <2> QED BY <1>1, <1>h, <1>2, <2>1, BufferTaken, Zenon
<1> QED BY <1>3, <1>4, <1>5 DEF IInv

\* All buffers have come back, so the one that is queued again was collected.
LEMMA StepFinish ==
  ASSUME TypeOK, Order, OnePlace, Finish
  PROVE  IInv'
<1>1. collected = Buffers
  <2>1. NumBuffers \in Nat /\ NumBuffers >= 1 /\ Cardinality(collected) = NumBuffers
    BY ExchangeAssumption DEF Finish, CollectCount
  <2>2. IsFiniteSet(Buffers) /\ Cardinality(Buffers) = NumBuffers
    BY <2>1, FS_Interval DEF Buffers
  <2> QED BY <2>1, <2>2, FS_Subset DEF TypeOK
<1>2. Input \in BxTargets /\ tw[Input] \in Workers
  BY TargetFacts DEF TypeOK
<1>3. /\ tpc[Input] = "terminate" /\ tpc'[Input] \in {"done", "crash"}
      /\ UNCHANGED <<tw, tb, wq, wpc, released, terminate, wbuf>>
      /\ \A u \in BxTargets : u # Input => tpc'[u] = tpc[u]
  BY <1>2 DEF Finish, At, TGoto, TypeOK, wvars
<1>4. \/ bq' = bq /\ collected' = collected
      \/ \E q \in BxTargets, c \in Buffers :
           bq' = [bq EXCEPT ![q] = Append(@, c)] /\ collected' = collected \ {c}
  BY <1>2, Zenon DEF Finish, TypeOK
<1>5. TypeOK'
  <2>1. tpc' \in [BxTargets -> TargetPlaces]
    BY Zenon DEF Finish, TGoto, TypeOK, TargetPlaces
  <2>2. bq' \in [BxTargets -> Seq(Buffers)] /\ collected' \subseteq Buffers
    BY <1>4, BufferEnqueued, Zenon DEF TypeOK
  <2> QED BY <2>1, <2>2 DEF Finish, TypeOK, wvars
<1>6. Order'
  BY <1>2, <1>3, TargetGoesOn DEF InHand
<1>7. OnePlace'
  <2>1. /\ \A v \in Workers, b \in Buffers : HeldByWorker(v, b)' <=> HeldByWorker(v, b)
        /\ \A u \in BxTargets, b \in Buffers : HeldByTarget(u, b)' <=> HeldByTarget(u, b)
    BY <1>3 DEF HeldByWorker, HeldByTarget
  <2>2. CASE bq' = bq /\ collected' = collected
    BY <2>1, <2>2, NoBufferMoves
  <2>3. ASSUME NEW q \in BxTargets, NEW c \in Buffers,
               bq' = [bq EXCEPT ![q] = Append(@, c)], collected' = collected \ {c}
        PROVE  OnePlace'
    <3>1. /\ \A t \in BxTargets, i \in Nat : ~OnQueue(t, i, c)
          /\ \A u \in BxTargets : ~HeldByTarget(u, c)
          /\ \A v \in Workers : ~HeldByWorker(v, c)
      BY <1>1 DEF OnePlace, InOnePlace
    <3>2. /\ \A b \in Buffers : b \in collected' <=> b \in collected /\ b # c
          /\ \A u \in BxTargets, b \in Buffers :
               HeldByTarget(u, b)' <=> HeldByTarget(u, b) /\ b # c
          /\ \A v \in Workers, b \in Buffers :
               HeldByWorker(v, b)' <=> HeldByWorker(v, b) /\ b # c
      BY <2>1, <2>3, <3>1
    <3> QED BY <2>3, <3>1, <3>2, BufferQueued, Zenon
  <2> QED BY <1>4, <2>2, <2>3
<1> QED BY <1>5, <1>6, <1>7 DEF IInv

LEMMA StepOutputDone ==
  ASSUME TypeOK, Order, OnePlace, NEW t \in BxTargets, OutputDone(t)
  PROVE  IInv'
<1>1. /\ t # Input /\ tpc[t] = "terminate" /\ tpc'[t] = "done"
      /\ UNCHANGED <<tw, tb, wq, wpc, released, terminate, wbuf, bq, collected>>
      /\ \A u \in BxTargets : u # t => tpc'[u] = tpc[u]
  BY DEF OutputDone, At, TGoto, TypeOK, wvars
<1>2. TypeOK'
  <2>1. tpc' \in [BxTargets -> TargetPlaces]
    BY DEF OutputDone, TGoto, TypeOK, TargetPlaces
  <2> QED BY <2>1 DEF OutputDone, TypeOK, wvars
<1>3. Order'
  BY <1>1, TargetGoesOn DEF InHand
<1>4. OnePlace'
  BY <1>1, NoBufferMoves DEF HeldByTarget, HeldByWorker
<1> QED BY <1>2, <1>3, <1>4 DEF IInv

-----------------------------------------------------------------------------
(* The steps of the workers *)

LEMMA StepQueueSelf ==
  ASSUME TypeOK, Order, OnePlace, NEW w \in Workers, QueueSelf(w)
  PROVE  IInv'
<1>t. PICK t \in BxTargets : t = w[1] /\ wq[t] \in Seq(Workers) /\ tw[t] \in Workers
  BY WorkerFacts DEF TypeOK
<1>1. /\ Append(wq[t], w) \in Seq(Workers) /\ Len(wq[t]) \in Nat
      /\ \A i \in 1 .. Len(wq[t]) : wq[t][i] \in Workers
      /\ \A i \in 1 .. Len(Append(wq[t], w)) :
           \/ i = Len(wq[t]) + 1 /\ Append(wq[t], w)[i] = w
           \/ i \in 1 .. Len(wq[t]) /\ Append(wq[t], w)[i] = wq[t][i]
  BY <1>t
<1>2. /\ wpc[w] = "start" /\ wpc'[w] = "test" /\ wq'[t] = Append(wq[t], w)
      /\ UNCHANGED <<tpc, tw, tb, released, terminate, wbuf, bq, collected>>
      /\ \A u \in BxTargets : u # t => wq'[u] = wq[u]
      /\ \A v \in Workers : v # w => wpc'[v] = wpc[v]
  BY <1>t, Zenon DEF QueueSelf, WGoto, TypeOK, tvars
<1>3. TypeOK'
  <2>1. wpc' \in [Workers -> WorkerPlaces]
    BY DEF QueueSelf, WGoto, TypeOK, WorkerPlaces
  <2>2. wq' \in [BxTargets -> Seq(Workers)]
    BY <1>t, <1>1 DEF QueueSelf, TypeOK
  <2> QED BY <2>1, <2>2, Zenon DEF QueueSelf, TypeOK, tvars
<1>4. Order'
  <2>1. ~Free(w) /\ Free(w)' /\ WorkerOrder(w)'
    BY <1>2 DEF Free, Waiting, Order, WorkerOrder
  <2>2. \A v \in Workers : v # w => (Free(v) => Free(v)') /\ WorkerOrder(v)'
    BY <1>2, WorkerOrderKept DEF Order, Free, Waiting
  <2>3. TargetOrder(t)'
    <3>1. /\ TargetOrder(t) /\ (InHand(t)' <=> InHand(t)) /\ (InHand(t) => tw[t] # w)
          /\ \A i \in 1 .. Len(wq[t]) : wq[t][i] # w
      BY <1>2, <2>1 DEF Order, TargetOrder, InHand
    <3>a. \A i \in 1 .. Len(wq'[t]) :
            /\ wq'[t][i] \in Workers /\ wq'[t][i][1] = t
            /\ wq'[t][i] = w \/ Free(wq'[t][i])
      <4>1. \A j \in 1 .. Len(wq[t]) :
              wq[t][j] \in Workers /\ Free(wq[t][j]) /\ wq[t][j][1] = t
        BY <1>1, <3>1 DEF TargetOrder
      <4>2. \A i \in 1 .. Len(wq'[t]) :
              wq'[t][i] = w \/ \E j \in 1 .. Len(wq[t]) : wq'[t][i] = wq[t][j]
        BY <1>1, <1>2
      <4> QED BY <1>t, <4>1, <4>2
    <3>2. (\A i \in 1 .. Len(wq[t]) : Free(wq[t][i]) /\ wq[t][i][1] = t)'
      BY <2>1, <2>2, <3>a
    <3>3. (\A i \in 1 .. Len(wq[t]) : InHand(t) => wq[t][i] # tw[t])'
      BY <1>1, <1>2, <3>1 DEF TargetOrder
    <3>4. \A i, j \in 1 .. Len(wq'[t]) : wq'[t][i] = wq'[t][j] => i = j
      BY <1>1, <1>2, <3>1 DEF TargetOrder
    <3>5. (InHand(t) => Free(tw[t]))'
      BY <1>t, <1>2, <2>2, <3>1 DEF TargetOrder
    <3> QED BY <1>2, <3>1, <3>2, <3>3, <3>4, <3>5 DEF TargetOrder
  <2> QED BY <1>t, <1>2, <2>1, <2>2, <2>3, TargetMoves
<1>5. OnePlace'
  <2>1. \A v \in Workers, b \in Buffers : HeldByWorker(v, b)' <=> HeldByWorker(v, b)
    BY <1>2 DEF HeldByWorker
  <2> QED BY <1>2, <2>1, NoBufferMoves DEF HeldByTarget
<1> QED BY <1>3, <1>4, <1>5 DEF IInv

\* A step of a worker that keeps what it has.
LEMMA WorkerGoesOn ==
  ASSUME TypeOK, Order, OnePlace, NEW w \in Workers,
         UNCHANGED <<tpc, tw, tb, wq, bq, terminate, wbuf, wnext, collected>>,
         wpc' \in [Workers -> WorkerPlaces], released' \in [Workers -> BOOLEAN],
         \A v \in Workers : v # w => wpc'[v] = wpc[v] /\ released'[v] = released[v],
         released[w] \/ wpc[w] \in {"io", "pass"}
           <=> released'[w] \/ wpc'[w] \in {"io", "pass"},
         released'[w] \/ terminate[w] => Waiting(w)', Free(w) => Waiting(w)',
         released'[w] => released[w]
  PROVE  IInv'
<1>1. TypeOK'
  BY DEF TypeOK
<1>2. Order'
  <2>1. WorkerOrder(w)' /\ (Free(w) => Free(w)')
    BY DEF Order, WorkerOrder, Free
  <2> QED BY <2>1, WorkerMoves, Zenon
<1>3. OnePlace'
  <2>1. \A v \in Workers, b \in Buffers : HeldByWorker(v, b)' <=> HeldByWorker(v, b)
    BY DEF HeldByWorker
  <2> QED BY <2>1, NoBufferMoves DEF HeldByTarget
<1> QED BY <1>1, <1>2, <1>3 DEF IInv

\* A released worker takes its buffer, and has not been terminated.
LEMMA StepTest ==
  ASSUME TypeOK, Order, OnePlace, NEW w \in Workers, Test(w)
  PROVE  IInv'
<1>1. wpc[w] = "test" /\ (released[w] => ~terminate[w])
  BY DEF Test, Order, WorkerOrder
<1>2. /\ UNCHANGED <<tpc, tw, tb, wq, bq, terminate, wbuf, wnext, collected>>
      /\ \A v \in Workers : v # w => wpc'[v] = wpc[v] /\ released'[v] = released[v]
      /\ ~released'[w] /\ wpc'[w] = IF released[w] THEN "io" ELSE "wait"
  BY <1>1 DEF Test, ClearReleased, WGoto, TypeOK, tvars
<1>3. wpc' \in [Workers -> WorkerPlaces] /\ released' \in [Workers -> BOOLEAN]
  BY Zenon DEF Test, ClearReleased, WGoto, TypeOK, WorkerPlaces
<1> QED BY <1>1, <1>2, <1>3, WorkerGoesOn DEF Waiting, Free

LEMMA StepWait ==
  ASSUME TypeOK, Order, OnePlace, NEW w \in Workers, Sleep(w) \/ SpuriousWakeup(w)
  PROVE  IInv'
<1>1. /\ wpc[w] \in {"wait", "asleep"} /\ wpc'[w] \in {"asleep", "test"}
      /\ UNCHANGED <<tpc, tw, tb, wq, bq, released, terminate, wbuf, wnext, collected>>
      /\ \A v \in Workers : v # w => wpc'[v] = wpc[v]
  BY DEF Sleep, SpuriousWakeup, WGoto, TypeOK, tvars
<1>2. wpc' \in [Workers -> WorkerPlaces] /\ released' \in [Workers -> BOOLEAN]
  BY Zenon DEF Sleep, SpuriousWakeup, WGoto, TypeOK, WorkerPlaces
<1> QED BY <1>1, <1>2, WorkerGoesOn DEF Waiting

LEMMA StepPerformIo ==
  ASSUME TypeOK, Order, OnePlace, NEW w \in Workers, PerformIo(w)
  PROVE  IInv'
<1>1. wpc[w] = "io" /\ ~released[w] /\ ~terminate[w] /\ ~Free(w)
  BY DEF PerformIo, Order, WorkerOrder, Waiting, Free
<1>2. /\ UNCHANGED <<tpc, tw, tb, wq, bq, released, terminate, wbuf, wnext, collected>>
      /\ \A v \in Workers : v # w => wpc'[v] = wpc[v]
      /\ wpc'[w] = "pass"
  BY DEF PerformIo, WGoto, TypeOK, tvars
<1>3. wpc' \in [Workers -> WorkerPlaces] /\ released' \in [Workers -> BOOLEAN]
  BY DEF PerformIo, WGoto, TypeOK, WorkerPlaces
<1> QED BY <1>1, <1>2, <1>3, WorkerGoesOn

LEMMA StepPassOn ==
  ASSUME TypeOK, Order, OnePlace, NEW w \in Workers, PassOn(w)
  PROVE  IInv'
<1>1. wpc[w] = "pass" /\ ~released[w] /\ ~terminate[w] /\ ~Free(w)
  BY DEF PassOn, Order, WorkerOrder, Waiting, Free
<1>c. PICK c \in Buffers : c = wbuf[w]
  BY <1>1 DEF Order, WorkerOrder
<1>q. PICK q \in BxTargets : q = wnext[w]
  BY DEF TypeOK
<1>2. /\ UNCHANGED <<tpc, tw, tb, wq, released, terminate, wbuf, collected>>
      /\ \A v \in Workers : v # w => wpc'[v] = wpc[v]
      /\ wpc'[w] = "start" /\ bq' = [bq EXCEPT ![q] = Append(@, c)]
  BY <1>c, <1>q DEF PassOn, WGoto, TypeOK, tvars
<1>3. TypeOK'
  <2>1. wpc' \in [Workers -> WorkerPlaces]
    BY DEF PassOn, WGoto, TypeOK, WorkerPlaces
  <2>2. bq' \in [BxTargets -> Seq(Buffers)]
    BY <1>2, BufferEnqueued, Zenon
  <2> QED BY <2>1, <2>2 DEF PassOn, TypeOK, tvars
<1>4. Order'
  <2>1. WorkerOrder(w)'
    BY <1>1, <1>2 DEF WorkerOrder
  <2> QED BY <1>1, <1>2, <2>1, WorkerMoves
<1>5. OnePlace'
  <2>1. InOnePlace(c) /\ HeldByWorker(w, c)
    BY <1>1, <1>c DEF OnePlace, HeldByWorker
  <2>2. /\ \A t \in BxTargets, i \in Nat : ~OnQueue(t, i, c)
        /\ \A t \in BxTargets : ~HeldByTarget(t, c)
        /\ \A v \in Workers : HeldByWorker(v, c) => v = w
        /\ c \notin collected
    BY <2>1 DEF InOnePlace
  <2>3. \A t \in BxTargets, b \in Buffers :
          HeldByTarget(t, b)' <=> HeldByTarget(t, b) /\ b # c
    BY <1>2, <2>2 DEF HeldByTarget
  <2>4. \A v \in Workers, b \in Buffers :
          HeldByWorker(v, b)' <=> HeldByWorker(v, b) /\ b # c
    BY <1>1, <1>c, <1>2, <2>2 DEF HeldByWorker
  <2> QED BY <1>2, <2>2, <2>3, <2>4, BufferQueued, Zenon
<1> QED BY <1>3, <1>4, <1>5 DEF IInv

-----------------------------------------------------------------------------
(* The theorem *)

LEMMA InitInvariant ==
  ASSUME Init
  PROVE  IInv
<1>1. /\ Input \in BxTargets /\ 0 \in BxTargets
      /\ \A t \in BxTargets : <<t, 1>> \in Workers
  BY TargetFacts, WorkerFacts
<1>2. NumBuffers \in Nat /\ NumBuffers >= 1
  BY ExchangeAssumption
<1>3. /\ [i \in Buffers |-> i] \in Seq(Buffers) /\ Len([i \in Buffers |-> i]) = NumBuffers
      /\ \A i \in Buffers : [k \in Buffers |-> k][i] = i
  BY <1>2 DEF Buffers
<1>4. bq[Input] = [i \in Buffers |-> i]
  BY <1>1 DEF Init
<1>e. \A t \in BxTargets : t # Input => bq[t] = <<>>
  BY DEF Init
<1>5. TypeOK
  <2>1. bq \in [BxTargets -> Seq(Buffers)]
    <3>0. <<>> \in Seq(Buffers)
      OBVIOUS
    <3>1. \A t \in BxTargets : t # Input => bq[t] \in Seq(Buffers)
      BY <1>e, <3>0, Zenon
    <3>3. \A t \in BxTargets : bq[t] \in Seq(Buffers)
      BY <1>3, <1>4, <3>1
    <3>2. bq = [t \in BxTargets |-> bq[t]]
      BY DEF Init
    <3> QED BY <3>2, <3>3
  <2>2. tpc \in [BxTargets -> TargetPlaces] /\ wpc \in [Workers -> WorkerPlaces]
    BY DEF Init, TargetPlaces, WorkerPlaces
  <2>3. tw \in [BxTargets -> Workers]
    BY <1>1 DEF Init
  <2> QED BY <1>1, <2>1, <2>2, <2>3 DEF Init, TypeOK, None
<1>6. Order
  <2>1. ASSUME NEW t \in BxTargets
        PROVE  TargetOrder(t)
    <3>1. wq[t] = <<>> /\ tw[t] = <<t, 1>>
          /\ tpc[t] = IF t = Input THEN "worker" ELSE "buffer"
      BY DEF Init
    <3> QED BY <3>1 DEF TargetOrder, InHand
  <2>2. \A w \in Workers : WorkerOrder(w)
    BY DEF Init, WorkerOrder
  <2> QED BY <2>1, <2>2 DEF Order
<1>7. ASSUME NEW b \in Buffers
      PROVE  InOnePlace(b)
  <2>1. b \in Nat
    BY <1>2 DEF Buffers
  <2>2. \A t \in BxTargets, i \in Nat : OnQueue(t, i, b) <=> t = Input /\ i = b
    BY <1>2, <1>3, <1>4, <1>e DEF OnQueue, Buffers
  <2>3. /\ \A t \in BxTargets : ~HeldByTarget(t, b)
        /\ \A w \in Workers : ~HeldByWorker(w, b)
        /\ b \notin collected
    BY DEF Init, HeldByTarget, HeldByWorker
  <2> QED BY <1>1, <2>1, <2>2, <2>3 DEF InOnePlace
<1> QED BY <1>5, <1>6, <1>7 DEF IInv, OnePlace

LEMMA NextInvariant ==
  ASSUME IInv, [Next]_vars
  PROVE  IInv'
<1>0. TypeOK /\ Order /\ OnePlace
  BY DEF IInv
<1>1. CASE InputStep
  BY <1>0, <1>1, StepInputGetBuffer, StepCollect, StepFinish DEF InputStep
<1>2. ASSUME NEW t \in BxTargets, TargetStep(t)
      PROVE  IInv'
  BY <1>0, <1>2, StepGetWorker, StepOutputGetBuffer, StepRelease, StepRoute, StepWake,
     StepTerminate, StepOutputDone DEF TargetStep
<1>3. ASSUME NEW w \in Workers, WorkerStep(w) \/ SpuriousWakeup(w)
      PROVE  IInv'
  BY <1>0, <1>3, StepQueueSelf, StepTest, StepWait, StepPerformIo, StepPassOn DEF WorkerStep
<1>4. CASE UNCHANGED vars
  <2>1. UNCHANGED <<tvars, wvars, bvars, bq, wq>>
    BY <1>4 DEF vars
  <2>2. TypeOK'
    BY <2>1 DEF IInv, TypeOK, tvars, wvars, bvars
  <2>3. Order'
    BY <2>1, OrderKept DEF IInv, tvars, wvars
  <2>4. OnePlace'
    BY <2>1, NoBufferMoves DEF IInv, HeldByTarget, HeldByWorker, tvars, wvars
  <2> QED BY <2>2, <2>3, <2>4 DEF IInv
<1> QED BY <1>1, <1>2, <1>3, <1>4 DEF Next

\* A queue has no more places than there are buffers, since none is on it twice.
LEMMA QueueFits ==
  ASSUME TypeOK, OnePlace, NEW t \in BxTargets, NEW i \in Nat, NEW b \in Buffers,
         OnQueue(t, i, b)
  PROVE  i \in Buffers
<1>1. /\ bq[t] \in Seq(Buffers) /\ Len(bq[t]) \in Nat
      /\ bq[t] \in [1 .. Len(bq[t]) -> Buffers]
  BY DEF TypeOK
<1>2. NumBuffers \in Nat /\ NumBuffers >= 1
  BY ExchangeAssumption
<1>3. /\ IsFiniteSet(Buffers) /\ Cardinality(Buffers) = NumBuffers
      /\ IsFiniteSet(1 .. Len(bq[t])) /\ Cardinality(1 .. Len(bq[t])) = Len(bq[t])
  <2>1. IsFiniteSet(Buffers) /\ Cardinality(Buffers) = NumBuffers
    BY <1>2, FS_Interval DEF Buffers
  <2>n. PICK n \in Nat : n = Len(bq[t])
    BY <1>1
  <2>2. IsFiniteSet(1 .. n) /\ Cardinality(1 .. n) = n
    BY FS_Interval
  <2> QED BY <2>1, <2>n, <2>2
<1>4. \A j, k \in 1 .. Len(bq[t]) : bq[t][j] = bq[t][k] => j = k
  <2> SUFFICES ASSUME NEW j \in 1 .. Len(bq[t]), NEW k \in 1 .. Len(bq[t]),
                      bq[t][j] = bq[t][k]
               PROVE  j = k
    OBVIOUS
  <2>1. bq[t][j] \in Buffers /\ j \in Nat /\ k \in Nat
    BY <1>1
  <2>2. /\ OnQueue(t, j, bq[t][j]) /\ OnQueue(t, k, bq[t][j])
        /\ InOnePlace(bq[t][j])
    BY <2>1 DEF OnePlace, OnQueue
  <2> QED BY <2>1, <2>2 DEF InOnePlace
<1>5. ~(NumBuffers < Len(bq[t]))
  BY <1>1, <1>3, <1>4, FS_PigeonHole
<1> QED BY <1>1, <1>2, <1>5 DEF OnQueue, Buffers

\* Exactly one place, counted.
LEMMA OneOwner ==
  ASSUME IInv
  PROVE  BufferHasOneOwner
<1> USE DEF BufferHasOneOwner
<1> TAKE b \in Buffers
<1> DEFINE Q == {p \in BxTargets \X Buffers :
                   p[2] <= Len(bq[p[1]]) /\ bq[p[1]][p[2]] = b}
           T == {t \in BxTargets : HeldByTarget(t, b)}
           W == {w \in Workers : HeldByWorker(w, b)}
<1> SUFFICES 1 = Cardinality(Q) + Cardinality(T) + Cardinality(W)
                 + (IF b \in collected THEN 1 ELSE 0)
  OBVIOUS
<1>1. InOnePlace(b) /\ TypeOK /\ OnePlace
  BY DEF IInv, OnePlace
<1>2. \A p : p \in Q <=> \E t \in BxTargets, i \in Nat : p = <<t, i>> /\ OnQueue(t, i, b)
  <2>1. Buffers \subseteq Nat /\ \A i \in Buffers : i >= 1
    BY ExchangeAssumption DEF Buffers
  <2>2. \A t \in BxTargets : Len(bq[t]) \in Nat
    BY <1>1 DEF TypeOK
  <2>3. \A t \in BxTargets, i \in Buffers :
          <<t, i>> \in Q <=> OnQueue(t, i, b)
    BY <2>1, <2>2 DEF OnQueue
  <2>4. \A p \in Q : \E t \in BxTargets, i \in Buffers : p = <<t, i>>
    OBVIOUS
  <2>5. \A t \in BxTargets, i \in Nat : OnQueue(t, i, b) => i \in Buffers
    BY <1>1, QueueFits
  <2> HIDE DEF Q
  <2> QED BY <2>1, <2>3, <2>4, <2>5
<1>3. /\ \A t : t \in T <=> t \in BxTargets /\ HeldByTarget(t, b)
      /\ \A w : w \in W <=> w \in Workers /\ HeldByWorker(w, b)
  OBVIOUS
<1> HIDE DEF Q, T, W
<1>4. /\ Cardinality({}) = 0 /\ \A x : Cardinality({x}) = 1
  BY FS_EmptySet, FS_Singleton
<1>5. CASE \E t \in BxTargets, i \in Nat : OnQueue(t, i, b)
  <2> PICK t \in BxTargets, i \in Nat : OnQueue(t, i, b)
    BY <1>5
  <2>1. Q = {<<t, i>>} /\ T = {} /\ W = {} /\ b \notin collected
    BY <1>1, <1>2, <1>3 DEF InOnePlace
  <2>2. Cardinality(Q) = 1 /\ Cardinality(T) = 0 /\ Cardinality(W) = 0
    BY <1>4, <2>1, Zenon
  <2> QED BY <2>1, <2>2
<1>6. CASE \E t \in BxTargets : HeldByTarget(t, b)
  <2> PICK t \in BxTargets : HeldByTarget(t, b)
    BY <1>6
  <2>1. Q = {} /\ T = {t} /\ W = {} /\ b \notin collected
    BY <1>1, <1>2, <1>3 DEF InOnePlace
  <2>2. Cardinality(Q) = 0 /\ Cardinality(T) = 1 /\ Cardinality(W) = 0
    BY <1>4, <2>1
  <2> QED BY <2>1, <2>2
<1>7. CASE \E w \in Workers : HeldByWorker(w, b)
  <2> PICK w \in Workers : HeldByWorker(w, b)
    BY <1>7
  <2>1. Q = {} /\ T = {} /\ W = {w} /\ b \notin collected
    BY <1>1, <1>2, <1>3 DEF InOnePlace
  <2>2. Cardinality(Q) = 0 /\ Cardinality(T) = 0 /\ Cardinality(W) = 1
    BY <1>4, <2>1
  <2> QED BY <2>1, <2>2
<1>8. CASE b \in collected
  <2>1. Q = {} /\ T = {} /\ W = {}
    BY <1>1, <1>2, <1>3, <1>8 DEF InOnePlace
  <2> QED BY <1>4, <1>8, <2>1
<1> QED BY <1>1, <1>5, <1>6, <1>7, <1>8 DEF InOnePlace

\* For every sequence of targets and every number of workers and buffers, each
\* buffer of bx is at all times in exactly one place: on one queue, with one
\* target thread, with one released worker, or collected.  The stores of
\* target_input and target_output without the worker's mutex, and a broadcast
\* that comes late, do not change that.
THEOREM BuffersAreExclusive == Spec => []BufferHasOneOwner
<1>1. Init => IInv
  BY InitInvariant
<1>2. IInv /\ [Next]_vars => IInv'
  BY NextInvariant
<1>3. IInv => BufferHasOneOwner
  BY OneOwner
<1> QED BY <1>1, <1>2, <1>3, PTL DEF Spec
=============================================================================
