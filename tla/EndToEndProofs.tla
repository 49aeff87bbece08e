--------------------------- MODULE EndToEndProofs ---------------------------
(***************************************************************************)
(* The end-to-end copy implements FileCopy, and a source that could not    *)
(* send a block reports it, for every queue depth, number of blocks and    *)
(* capacity of the connections, whatever breaks.  The destination keeps the *)
(* invariant of EndToEndInvariant, as the source does; the theorems follow. *)
(***************************************************************************)
EXTENDS EndToEndInvariant

-----------------------------------------------------------------------------
(* The steps of the destination *)

LEMMA StepDstTake ==
  ASSUME IInv, DstTake
  PROVE  IInv'
<1>1. TypeOK'
  BY EndToEndAssumption DEF IInv, TypeOK, Workers, Blocks, DstTake, TakeOne, src, net
<1>2. SourceOrder' /\ SourceEnds' /\ EofIsLast' /\ Reported' /\ OnePlace' /\ AllGood' /\ NothingLost'
  BY SourceOrderKept, SourceEndsKept, EofIsLastKept, ReportedKept, OnePlaceKept, AllGoodKept, NothingLostKept
  DEF IInv, DstTake, TakeOne, src, net
<1>3. DestOrder'
  BY EndToEndAssumption DEF IInv, TypeOK, DestOrder, DstTake, TakeOne, Workers
<1> QED
  BY <1>1, <1>2, <1>3 DEF IInv

LEMMA StepDstScan ==
  ASSUME IInv, DstScan
  PROVE  IInv'
<1>1. TypeOK'
  BY EndToEndAssumption DEF IInv, TypeOK, Workers, Blocks, DstScan, PassOver, src, net
<1>2. SourceOrder' /\ SourceEnds' /\ EofIsLast' /\ Reported' /\ OnePlace' /\ AllGood' /\ NothingLost'
  BY SourceOrderKept, SourceEndsKept, EofIsLastKept, ReportedKept, OnePlaceKept, AllGoodKept, NothingLostKept
  DEF IInv, DstScan, PassOver, src, net
<1>3. DestOrder'
  <2>1. dq \in Workers /\ deofs \in Nat /\ deofs < dq
    BY EndToEndAssumption DEF IInv, TypeOK, DestOrder, DstScan, Workers
  <2>2. deofs' = dq => \A w \in Workers : w <= dq => deof[w]
    BY <2>1, EndToEndAssumption DEF IInv, TypeOK, DestOrder, DstScan, PassOver, Workers
  <2>3. deofs' \in Nat /\ deofs' <= dq
    BY <2>1, EndToEndAssumption DEF DstScan, Workers
  <2>4. CASE deofs' = QueueDepth
    <3>1. dq = QueueDepth
      BY <2>1, <2>3, <2>4, EndToEndAssumption DEF Workers
    <3>2. \A w \in Workers : deof[w]
      BY <2>2, <2>4, <3>1, EndToEndAssumption DEF Workers
    <3> QED
      BY <3>2, <2>4 DEF IInv, DestOrder, DstScan, Workers
  <2>5. CASE deofs' # QueueDepth
    <3>1. dpc' = "scan" /\ dq' = dq + 1 /\ deofs' < dq'
      BY <2>1, <2>3, <2>5 DEF DstScan, Workers
    <3>2. deofs' = dq' - 1 => \A w \in Workers : w < dq' => deof[w]
      BY <2>1, <2>2, <3>1, EndToEndAssumption DEF Workers
    <3> QED
      BY <3>1, <3>2 DEF IInv, DestOrder, DstScan
  <2> QED
    BY <2>4, <2>5
<1> QED
  BY <1>1, <1>2, <1>3 DEF IInv

LEMMA StepDstFound ==
  ASSUME IInv, DstFound
  PROVE  IInv'
<1>1. TypeOK'
  BY EndToEndAssumption DEF IInv, TypeOK, Workers, Blocks, DstFound, PassOver, src, net
<1>2. SourceOrder' /\ SourceEnds' /\ EofIsLast' /\ Reported' /\ OnePlace' /\ AllGood' /\ NothingLost'
  BY SourceOrderKept, SourceEndsKept, EofIsLastKept, ReportedKept, OnePlaceKept, AllGoodKept, NothingLostKept
  DEF IInv, DstFound, PassOver, src, net
<1>3. DestOrder'
  <2>1. dq \in Workers /\ ~dbusy[dq] /\ ~deof[dq]
    BY EndToEndAssumption DEF IInv, TypeOK, DstFound, PassOver, Workers
  <2>2. dwpc[dq] \in {"idle", "count"}
    BY <2>1 DEF IInv, TypeOK, DestOrder
  <2> QED
    BY <2>1, <2>2 DEF IInv, TypeOK, DestOrder, DstFound
<1> QED
  BY <1>1, <1>2, <1>3 DEF IInv

LEMMA StepDstNotFound ==
  ASSUME IInv, DstNotFound
  PROVE  IInv'
<1>1. TypeOK'
  BY EndToEndAssumption DEF IInv, TypeOK, Workers, Blocks, DstNotFound, src, net
<1>2. SourceOrder' /\ SourceEnds' /\ EofIsLast' /\ Reported' /\ OnePlace' /\ AllGood' /\ NothingLost'
  BY SourceOrderKept, SourceEndsKept, EofIsLastKept, ReportedKept, OnePlaceKept, AllGoodKept, NothingLostKept
  DEF IInv, DstNotFound, src, net
<1>3. DestOrder'
  BY DEF IInv, TypeOK, DestOrder, DstNotFound, src, net
<1> QED
  BY <1>1, <1>2, <1>3 DEF IInv

LEMMA StepDstIssue ==
  ASSUME IInv, DstIssue
  PROVE  IInv'
<1>q. dq \in Workers
  BY DEF IInv, DestOrder, DstIssue
<1>1. TypeOK'
  BY Zenon, EndToEndAssumption DEF IInv, TypeOK, Workers, Blocks, DstIssue, src, net
<1>2. SourceOrder' /\ SourceEnds' /\ EofIsLast' /\ Reported'
  BY SourceOrderKept, SourceEndsKept, EofIsLastKept, ReportedKept
  DEF IInv, DstIssue, src, net
<1>3. DestOrder'
  BY DEF IInv, TypeOK, DestOrder, DstIssue, src, net
<1>4. OnePlace' /\ AllGood' /\ NothingLost'
  BY Zenon, <1>q, WorkerMoves DEF IInv, DstIssue, src, net
<1> QED
  BY <1>1, <1>2, <1>3, <1>4 DEF IInv

LEMMA StepDstCanceled ==
  ASSUME IInv, DstCanceled
  PROVE  IInv'
<1>c. \A w \in Workers : Len(chan'[w]) = 0
  BY DEF DstCanceled, Exit
<1>1. TypeOK'
  <2>1. chan' \in [Workers -> Seq(Packets)] /\ broken' \subseteq Workers
    BY DEF DstCanceled, Exit
  <2> QED
    BY Zenon, <2>1 DEF IInv, TypeOK, DstCanceled, Exit, src
<1>2. SourceOrder' /\ SourceEnds'
  BY SourceOrderKept, SourceEndsKept
  DEF IInv, DstCanceled, Exit, src
<1>3. DestOrder'
  BY DEF IInv, TypeOK, DestOrder, DstCanceled, Exit, src
<1>4. EofIsLast'
  <2>1. \A w \in Workers : deof'[w] => EofTasked(w)' /\ swpc'[w] = "idle"
    BY DEF IInv, EofIsLast, EofTasked, DstCanceled, src
  <2> QED
    BY <1>c, <2>1 DEF EofIsLast
<1>5. Reported'
  BY DEF IInv, TypeOK, Reported, EofTasked, DstCanceled, Exit, src
<1>6. OnePlace'
  <2>1. \A b \in Blocks, w \in Workers, i \in Nat : ~OnChan(w, i, b)'
    BY <1>c DEF OnChan
  <2> QED
    BY <2>1, FewerPlaces DEF IInv, DstCanceled, src, AtSource, AtDest, Stored
<1>7. AllGood'
  BY <1>c DEF IInv, AllGood, DstCanceled, src
<1>8. NothingLost'
  BY DEF IInv, TypeOK, NothingLost, Somewhere, CutOff, AtSource, OnChan, AtDest, Stored, DstCanceled, Exit, src
<1> QED
  BY <1>1, <1>2, <1>3, <1>4, <1>5, <1>6, <1>7, <1>8 DEF IInv

LEMMA StepDstStopped ==
  ASSUME IInv, DstStopped
  PROVE  IInv'
<1>1. TypeOK'
  <2>1. dbusy' \in [Workers -> BOOLEAN]
    BY Zenon DEF IInv, TypeOK, DstStopped
  <2> QED
    BY <2>1, EndToEndAssumption DEF IInv, TypeOK, DstStopped, src, net
<1>2. SourceOrder' /\ SourceEnds' /\ EofIsLast' /\ Reported' /\ OnePlace' /\ AllGood' /\ NothingLost'
  BY SourceOrderKept, SourceEndsKept, EofIsLastKept, ReportedKept, OnePlaceKept, AllGoodKept, NothingLostKept
  DEF IInv, DstStopped, src, net
<1>3. DestOrder'
  BY DEF IInv, TypeOK, DestOrder, DstStopped, DstAbort, Workers
<1> QED
  BY <1>1, <1>2, <1>3 DEF IInv

\* An exit of the destination's process closes the connections, nothing else.
LEMMA StepExit ==
  ASSUME IInv, Exit, dq' \in 1 .. QueueDepth + 1,
         UNCHANGED <<deofs, dbusy, deof, dwpc, dbuf, derrors, canceled, file, src>>
  PROVE  IInv'
<1>c. \A w \in Workers : Len(chan'[w]) = 0
  BY DEF Exit
<1>1. TypeOK'
  <2>1. chan' \in [Workers -> Seq(Packets)] /\ broken' \subseteq Workers
    BY DEF Exit
  <2> QED
    BY Zenon, <2>1 DEF IInv, TypeOK, Exit, src
<1>2. SourceOrder' /\ SourceEnds'
  BY SourceOrderKept, SourceEndsKept DEF IInv, src
<1>3. DestOrder'
  BY DEF IInv, DestOrder, Exit
<1>4. EofIsLast'
  <2>1. \A w \in Workers : deof'[w] => EofTasked(w)' /\ swpc'[w] = "idle"
    BY DEF IInv, EofIsLast, EofTasked, src
  <2> QED
    BY <1>c, <2>1 DEF EofIsLast
<1>5. Reported'
  BY DEF IInv, TypeOK, Reported, EofTasked, Exit, src
<1>6. OnePlace'
  <2>1. \A b \in Blocks, w \in Workers, i \in Nat : ~OnChan(w, i, b)'
    BY <1>c DEF OnChan
  <2> QED
    BY <2>1, FewerPlaces DEF IInv, src, AtSource, AtDest, Stored
<1>7. AllGood'
  BY <1>c DEF IInv, AllGood, src
<1>8. NothingLost'
  BY DEF NothingLost, Exit
<1> QED
  BY <1>1, <1>2, <1>3, <1>4, <1>5, <1>6, <1>7, <1>8 DEF IInv

LEMMA StepDstDrain ==
  ASSUME IInv, DstDrain
  PROVE  IInv'
<1>q. dq' \in 1 .. QueueDepth + 1
  BY EndToEndAssumption DEF IInv, TypeOK, DstDrain
<1>1. CASE canceled
  BY <1>1, <1>q, StepExit DEF DstDrain
<1>2. CASE ~canceled
  <2>1. dq' = dq + 1 /\ UNCHANGED <<dpc, net>>
    BY <1>2 DEF DstDrain
  <2>2. TypeOK'
    BY <1>q, <2>1 DEF IInv, TypeOK, DstDrain, src, net
  <2>3. /\ SourceOrder' /\ SourceEnds' /\ EofIsLast' /\ Reported'
        /\ OnePlace' /\ AllGood' /\ NothingLost'
    BY <2>1, SourceOrderKept, SourceEndsKept, EofIsLastKept, ReportedKept, OnePlaceKept,
       AllGoodKept, NothingLostKept DEF IInv, DstDrain, src, net
  <2>4. DestOrder'
    BY <2>1 DEF IInv, TypeOK, DestOrder, DstDrain, Workers
  <2> QED
    BY <2>2, <2>3, <2>4 DEF IInv
<1> QED
  BY <1>1, <1>2

LEMMA StepDstEnd ==
  ASSUME IInv, DstEnd
  PROVE  IInv'
<1>1. CASE canceled
  BY <1>1, StepExit DEF IInv, TypeOK, DstEnd
<1>2. CASE ~canceled
  <2>1. dpc' \in {"aborted", "end"} /\ UNCHANGED net
    BY <1>2 DEF DstEnd
  <2>2. TypeOK'
    BY <2>1 DEF IInv, TypeOK, DstEnd, src, net
  <2>3. /\ SourceOrder' /\ SourceEnds' /\ EofIsLast' /\ Reported'
        /\ OnePlace' /\ AllGood' /\ NothingLost'
    BY <2>1, SourceOrderKept, SourceEndsKept, EofIsLastKept, ReportedKept, OnePlaceKept,
       AllGoodKept, NothingLostKept DEF IInv, DstEnd, src, net
  <2>4. DestOrder'
    BY <1>2, <2>1, EndToEndAssumption DEF IInv, TypeOK, DestOrder, DstEnd, Workers
  <2> QED
    BY <2>2, <2>3, <2>4 DEF IInv
<1> QED
  BY <1>1, <1>2

LEMMA StepDstAborted ==
  ASSUME IInv, DstAborted
  PROVE  IInv'
BY StepExit DEF IInv, TypeOK, DstAborted

LEMMA StepDstReceive ==
  ASSUME IInv, NEW w \in Workers, DstReceive(w)
  PROVE  IInv'
<1>c. /\ chan' \in [Workers -> Seq(Packets)]
      /\ Len(chan[w]) \in Nat \ {0}
      /\ Head(chan[w]) = chan[w][1] /\ Head(chan[w]) \in Packets
      /\ \A v \in Workers : v # w => chan'[v] = chan[v]
      /\ Len(chan'[w]) = Len(chan[w]) - 1
      /\ \A i \in 1 .. Len(chan'[w]) : chan'[w][i] = chan[w][i + 1]
  BY Zenon, Received DEF IInv, DstReceive
<1>l. \A v \in Workers : Len(chan[v]) \in Nat /\ Len(chan'[v]) \in Nat
  BY <1>c DEF IInv, TypeOK
<1>r. dwpc[w] = "recv" /\ dbusy[w] /\ ~deof[w]
  BY DEF IInv, DestOrder, DstReceive, Running
<1>d. \A v \in Workers :
        /\ v # w => dbuf'[v] = dbuf[v] /\ deof'[v] = deof[v] /\ dwpc'[v] = dwpc[v]
        /\ dbuf'[w] = chan[w][1] /\ deof'[w] = (chan[w][1] = Eof)
        /\ dwpc'[w] = IF chan[w][1] = Eof THEN "clear" ELSE "write"
  BY <1>c DEF IInv, TypeOK, DstReceive
<1>h. chan[w][1] # Eof => chan[w][1] \in [seq : Blocks, data : Content]
  BY <1>c DEF Packets
<1>1. TypeOK'
  <2>1. /\ dbuf' \in [Workers -> Packets \cup {NoBlock}]
        /\ dwpc' \in [Workers -> {"idle", "recv", "write", "clear", "count"}]
    BY <1>c DEF IInv, TypeOK, DstReceive
  <2>2. deof' \in [Workers -> BOOLEAN]
    BY Zenon DEF IInv, TypeOK, DstReceive
  <2> QED
    BY <1>c, <2>1, <2>2 DEF IInv, TypeOK, DstReceive, src
<1>2. SourceOrder' /\ SourceEnds' /\ Reported'
  BY SourceOrderKept, SourceEndsKept, ReportedKept
  DEF IInv, DstReceive, Running, src
<1>3. DestOrder'
  <2>1. /\ UNCHANGED <<dpc, dq, deofs, dbusy, derrors, canceled>>
        /\ dpc = "got" => dq # w
    BY <1>r DEF IInv, DestOrder, DstReceive
  <2> QED
    BY Zenon, <1>d, <1>h, <1>r, <2>1 DEF IInv, TypeOK, DestOrder
<1>4. EofIsLast'
  <2>1. \A v \in Workers : (EofTasked(v)' <=> EofTasked(v)) /\ swpc'[v] = swpc[v]
    BY DEF DstReceive, src, EofTasked
  <2>2. chan[w][1] = Eof => Len(chan[w]) = 1 /\ EofTasked(w) /\ swpc[w] = "idle"
    <3>1. 1 \in 1 .. Len(chan[w])
      BY <1>c
    <3> QED
      BY Zenon, <3>1 DEF IInv, EofIsLast
  <2>3. \A i \in 1 .. Len(chan'[w]) :
          chan'[w][i] = Eof =>
            i = Len(chan'[w]) /\ EofTasked(w) /\ swpc[w] = "idle" /\ chan[w][1] # Eof
    <3>1. SUFFICES ASSUME NEW i \in 1 .. Len(chan'[w]), chan'[w][i] = Eof
                   PROVE  i = Len(chan'[w]) /\ EofTasked(w) /\ swpc[w] = "idle" /\ chan[w][1] # Eof
      OBVIOUS
    <3>2. i + 1 \in 1 .. Len(chan[w]) /\ chan[w][i + 1] = Eof
      BY <1>c, <1>l, <3>1
    <3>3. i + 1 = Len(chan[w]) /\ EofTasked(w) /\ swpc[w] = "idle"
      BY <3>2 DEF IInv, EofIsLast
    <3> QED
      BY <1>c, <1>l, <2>2, <3>1, <3>2, <3>3
  <2>4. deof'[w] => Len(chan'[w]) = 0 /\ EofTasked(w) /\ swpc[w] = "idle"
    <3>1. deof'[w] => chan[w][1] = Eof
      BY Zenon, <1>d
    <3> QED
      BY <1>c, <2>2, <3>1
  <2>5. (chan[w][1] # Eof) => ~deof'[w]
    BY Zenon, <1>d
  <2>6. \A v \in Workers : v # w => deof'[v] = deof[v] /\ chan'[v] = chan[v]
    BY <1>c, <1>d
  <2> QED
    BY <2>1, <2>3, <2>4, <2>5, <2>6 DEF IInv, EofIsLast
<1>5. OnePlace'
  <2>1. /\ sop' = sop
        /\ \A b \in Blocks : Stored(b)' <=> Stored(b)
        /\ \A b \in Blocks, v \in Workers : AtSource(v, b)' <=> AtSource(v, b)
    BY DEF DstReceive, src, Stored, AtSource
  <2>2. \A b \in Blocks, v \in Workers, i \in Nat :
          OnChan(v, i, b)' <=> IF v = w THEN i # 0 /\ OnChan(v, i + 1, b) ELSE OnChan(v, i, b)
    BY <1>c, <1>l DEF OnChan
  <2>3. \A b \in Blocks, v \in Workers :
          AtDest(v, b)' => AtDest(v, b) \/ (v = w /\ OnChan(w, 1, b))
    BY <1>c, <1>d, <1>l DEF AtDest, OnChan
  <2>4. \A b \in Blocks : AtDest(w, b)' => OnChan(w, 1, b)
    BY <1>c, <1>d, <1>l DEF AtDest, OnChan
  <2> QED
    BY <2>1, <2>2, <2>3, <2>4 DEF IInv, OnePlace, InOnePlace
<1>6. AllGood'
  <2>1. \A v \in Workers : \A i \in 1 .. Len(chan'[v]) :
          \E j \in 1 .. Len(chan[v]) : chan'[v][i] = chan[v][j]
    <3>1. \A i \in 1 .. Len(chan'[w]) : i + 1 \in 1 .. Len(chan[w])
      BY <1>c, <1>l
    <3> QED
      BY Zenon, <1>c, <1>l, <3>1
  <2>2. UNCHANGED <<serrors, derrors, swpc, sbuf, file>>
    BY DEF DstReceive, src
  <2>3. 1 \in 1 .. Len(chan[w])
    BY <1>c
  <2>4. ~serrors /\ chan[w][1] # Eof => chan[w][1].data = "good"
    BY <1>h, <2>3 DEF IInv, AllGood, Content
  <2>5. ~serrors => \A v \in Workers : \A i \in 1 .. Len(chan'[v]) :
                      chan'[v][i].data # "stale"
    BY Zenon, <2>1 DEF IInv, AllGood
  <2>6. ~serrors => \A v \in Workers : dwpc'[v] = "write" => dbuf'[v].data = "good"
    BY <1>d, <2>4 DEF IInv, AllGood
  <2> QED
    BY <2>2, <2>5, <2>6 DEF IInv, AllGood
<1>7. NothingLost'
  <2>1. UNCHANGED <<serrors, derrors, canceled, dpc, sop>>
    BY DEF DstReceive, src
  <2>2. \A v \in Workers : CutOff(v) => CutOff(v)'
    <3>1. SUFFICES ASSUME NEW v \in Workers, CutOff(v) PROVE CutOff(v)'
      OBVIOUS
    <3>2. CASE v # w
      BY <1>c, <1>d, <3>1, <3>2 DEF CutOff, DstReceive
    <3>3. CASE v = w
      <4>1. \A i \in 1 .. Len(chan'[w]) : i + 1 \in 1 .. Len(chan[w])
        BY <1>c, <1>l
      <4>2. chan[w][1] # Eof
        BY <1>c, <3>1, <3>3 DEF CutOff
      <4>3. ~deof'[w] /\ w \in broken'
        BY Zenon, <1>d, <3>1, <3>3, <4>2 DEF CutOff, DstReceive
      <4>4. \A i \in 1 .. Len(chan'[w]) : chan'[w][i] # Eof
        BY <1>c, <3>1, <3>3, <4>1 DEF CutOff
      <4> QED
        BY <3>3, <4>3, <4>4 DEF CutOff
    <3> QED
      BY <3>2, <3>3
  <2>3. \A b \in Blocks, v \in Workers, i \in Nat :
          OnChan(v, i, b) => AtDest(w, b)' \/ \E j \in Nat : OnChan(v, j, b)'
    <3>1. SUFFICES ASSUME NEW b \in Blocks, NEW v \in Workers, NEW i \in Nat, OnChan(v, i, b)
                   PROVE  AtDest(w, b)' \/ \E j \in Nat : OnChan(v, j, b)'
      OBVIOUS
    <3>2. CASE v # w
      BY <1>c, <3>1, <3>2 DEF OnChan
    <3>3. CASE v = w /\ i = 1
      BY <1>d, <3>1, <3>3 DEF OnChan, AtDest, Eof, Blocks
    <3>4. CASE v = w /\ i # 1
      <4>1. i - 1 \in 1 .. Len(chan'[w]) /\ chan'[w][i - 1] = chan[w][i]
        BY <1>c, <1>l, <3>1, <3>4 DEF OnChan
      <4> QED
        BY <3>1, <3>4, <4>1 DEF OnChan
    <3> QED
      BY <3>2, <3>3, <3>4
  <2>4. /\ \A b \in Blocks : Stored(b) => Stored(b)'
        /\ \A b \in Blocks, v \in Workers : AtSource(v, b) => AtSource(v, b)'
        /\ \A b \in Blocks, v \in Workers : AtDest(v, b) => AtDest(v, b)'
    BY <1>d, <1>r DEF DstReceive, src, Stored, AtSource, AtDest
  <2>5. \A b \in Blocks : Somewhere(b) => Somewhere(b)'
    BY <2>3, <2>4 DEF Somewhere
  <2> QED
    BY <2>1, <2>2, <2>5, StillSomewhere DEF IInv
<1> QED
  BY <1>1, <1>2, <1>3, <1>4, <1>5, <1>6, <1>7 DEF IInv

LEMMA StepDstReceiveError ==
  ASSUME IInv, NEW w \in Workers, DstReceiveError(w)
  PROVE  IInv'
<1>1. TypeOK'
  BY Zenon, EndToEndAssumption DEF IInv, TypeOK, Workers, Blocks, DstReceiveError, Running, ReceiveFailed, src, net
<1>2. SourceOrder' /\ SourceEnds' /\ EofIsLast' /\ Reported'
  BY SourceOrderKept, SourceEndsKept, EofIsLastKept, ReportedKept
  DEF IInv, DstReceiveError, Running, ReceiveFailed, src, net
<1>3. DestOrder'
  BY DEF IInv, TypeOK, DestOrder, DstReceiveError, Running, ReceiveFailed, src, net
<1>4. OnePlace' /\ AllGood' /\ NothingLost'
  BY Zenon, WorkerMoves DEF IInv, DstReceiveError, Running, ReceiveFailed, src, net
<1> QED
  BY <1>1, <1>2, <1>3, <1>4 DEF IInv

LEMMA StepDstWrite ==
  ASSUME IInv, NEW w \in Workers, DstWrite(w)
  PROVE  IInv'
<1>b. dbuf[w] \in [seq : Blocks, data : Content]
  BY DEF IInv, DestOrder, DstWrite, Running
<1>f. \A b \in Blocks : file'[b] = IF b = dbuf[w].seq THEN dbuf[w].data ELSE file[b]
  BY <1>b DEF IInv, TypeOK, DstWrite, WritePlace
<1>1. TypeOK'
  <2>1. file' \in [Blocks -> Content \cup {"hole"}]
    BY <1>b DEF IInv, TypeOK, DstWrite, WritePlace
  <2> QED
    BY <2>1 DEF IInv, TypeOK, DstWrite, src, net
<1>2. SourceOrder' /\ SourceEnds' /\ EofIsLast' /\ Reported'
  BY SourceOrderKept, SourceEndsKept, EofIsLastKept, ReportedKept
  DEF IInv, DstWrite, Running, WritePlace, src, net
<1>3. DestOrder'
  BY DEF IInv, TypeOK, DestOrder, DstWrite, Running, WritePlace, src, net
<1>4. OnePlace'
  <2>1. AtDest(w, dbuf[w].seq)
    BY DEF DstWrite, Running, AtDest
  <2>2. \A b \in Blocks : Stored(b)' <=> Stored(b) \/ b = dbuf[w].seq
    BY <1>b, <1>f DEF Stored, Content
  <2>3. \A b \in Blocks, v \in Workers : AtDest(v, b)' <=> AtDest(v, b) /\ v # w
    BY DEF IInv, TypeOK, DstWrite, AtDest
  <2>4. /\ sop' = sop
        /\ \A b \in Blocks, v \in Workers : AtSource(v, b)' <=> AtSource(v, b)
        /\ \A b \in Blocks, v \in Workers, i \in Nat : OnChan(v, i, b)' <=> OnChan(v, i, b)
    BY Zenon DEF DstWrite, src, net, AtSource, OnChan
  <2>5. \A v \in Workers, i \in Nat :
          /\ ~AtSource(v, dbuf[w].seq) /\ ~OnChan(v, i, dbuf[w].seq)
          /\ AtDest(v, dbuf[w].seq) => v = w
    BY <1>b, <2>1 DEF IInv, OnePlace, InOnePlace
  <2>6. ~(dbuf[w].seq >= sop)
    BY <1>b, <2>1 DEF IInv, OnePlace, InOnePlace
  <2>7. ASSUME NEW b \in Blocks, b = dbuf[w].seq PROVE InOnePlace(b)'
    BY <2>3, <2>4, <2>5, <2>6, <2>7 DEF InOnePlace
  <2>8. ASSUME NEW b \in Blocks, b # dbuf[w].seq PROVE InOnePlace(b)'
    <3>1. InOnePlace(b)
      BY DEF IInv, OnePlace
    <3> QED
      BY <2>2, <2>3, <2>4, <2>8, <3>1, LeavesPlaces
  <2> QED
    BY <2>7, <2>8 DEF OnePlace
<1>5. AllGood'
  BY DEF IInv, TypeOK, AllGood, DstWrite, Running, WritePlace, src, net
<1>6. NothingLost'
  <2>1. UNCHANGED <<serrors, derrors, canceled, dpc, sop, chan, broken, deof>>
    BY DEF DstWrite, src, net
  <2>2. \A b \in Blocks : Stored(b) => Stored(b)'
    BY <1>b, <1>f DEF Stored, Content
  <2>3. \A b \in Blocks, v \in Workers : AtDest(v, b) => AtDest(v, b)' \/ Stored(b)'
    BY <1>b, <1>f DEF IInv, TypeOK, DstWrite, AtDest, Stored, Content
  <2>4. /\ \A b \in Blocks, v \in Workers : AtSource(v, b) => AtSource(v, b)'
        /\ \A b \in Blocks, v \in Workers, i \in Nat : OnChan(v, i, b) => OnChan(v, i, b)'
    BY DEF DstWrite, src, net, AtSource, OnChan
  <2>5. \A b \in Blocks : Somewhere(b) => Somewhere(b)'
    BY <2>2, <2>3, <2>4 DEF Somewhere
  <2> QED
    BY <2>1, <2>5, StillSomewhere DEF IInv, CutOff
<1> QED
  BY <1>1, <1>2, <1>3, <1>4, <1>5, <1>6 DEF IInv

\* A failed write takes a block from its worker and leaves it stored or lost.
LEMMA StepDstWriteError ==
  ASSUME IInv, NEW w \in Workers, DstWriteError(w)
  PROVE  IInv'
<1>b. dbuf[w] \in [seq : Blocks, data : Content]
  BY DEF IInv, DestOrder, DstWriteError, Running
<1>p. PICK d \in {file[dbuf[w].seq], "stale"} : file' = [file EXCEPT ![dbuf[w].seq] = d]
  BY Zenon DEF DstWriteError, WritePlace
<1>f. \A b \in Blocks : b # dbuf[w].seq => file'[b] = file[b]
  BY <1>b, <1>p DEF IInv, TypeOK
<1>w. \A v \in Workers : dwpc'[v] = IF v = w THEN "clear" ELSE dwpc[v]
  BY DEF IInv, TypeOK, DstWriteError
<1>1. TypeOK'
  <2>1. file' \in [Blocks -> Content \cup {"hole"}]
    BY <1>b, <1>p DEF IInv, TypeOK, Content
  <2> QED
    BY <2>1 DEF IInv, TypeOK, DstWriteError, src, net
<1>2. SourceOrder' /\ SourceEnds' /\ EofIsLast' /\ Reported'
  BY SourceOrderKept, SourceEndsKept, EofIsLastKept, ReportedKept
  DEF IInv, DstWriteError, src, net
<1>3. DestOrder'
  BY DEF IInv, TypeOK, DestOrder, DstWriteError, Running
<1>4. OnePlace'
  <2>1. AtDest(w, dbuf[w].seq)
    BY DEF DstWriteError, Running, AtDest
  <2>2. \A b \in Blocks : b # dbuf[w].seq => (Stored(b)' <=> Stored(b))
    BY <1>f DEF Stored
  <2>3. \A b \in Blocks, v \in Workers : AtDest(v, b)' <=> AtDest(v, b) /\ v # w
    BY <1>w DEF DstWriteError, AtDest
  <2>4. /\ sop' = sop
        /\ \A b \in Blocks, v \in Workers : AtSource(v, b)' <=> AtSource(v, b)
        /\ \A b \in Blocks, v \in Workers, i \in Nat : OnChan(v, i, b)' <=> OnChan(v, i, b)
    BY Zenon DEF DstWriteError, src, net, AtSource, OnChan
  <2>5. \A v \in Workers, i \in Nat :
          /\ ~AtSource(v, dbuf[w].seq) /\ ~OnChan(v, i, dbuf[w].seq)
          /\ AtDest(v, dbuf[w].seq) => v = w
    BY <1>b, <2>1 DEF IInv, OnePlace, InOnePlace
  <2>6. ~(dbuf[w].seq >= sop)
    BY <1>b, <2>1 DEF IInv, OnePlace, InOnePlace
  <2>7. ASSUME NEW b \in Blocks, b = dbuf[w].seq PROVE InOnePlace(b)'
    BY <2>3, <2>4, <2>5, <2>6, <2>7 DEF InOnePlace
  <2>8. ASSUME NEW b \in Blocks, b # dbuf[w].seq PROVE InOnePlace(b)'
    <3>1. InOnePlace(b)
      BY DEF IInv, OnePlace
    <3> QED
      BY <2>2, <2>3, <2>4, <2>8, <3>1, LeavesPlaces
  <2> QED
    BY <2>7, <2>8 DEF OnePlace
<1>5. AllGood'
  <2>1. UNCHANGED <<serrors, swpc, sbuf, chan, dbuf>> /\ derrors'
    BY DEF DstWriteError, src, net
  <2> QED
    BY <1>w, <2>1 DEF IInv, AllGood
<1>6. NothingLost'
  BY DEF NothingLost, DstWriteError
<1> QED
  BY <1>1, <1>2, <1>3, <1>4, <1>5, <1>6 DEF IInv

LEMMA StepDstSkipWrite ==
  ASSUME IInv, NEW w \in Workers, DstSkipWrite(w)
  PROVE  IInv'
<1>1. TypeOK'
  BY EndToEndAssumption DEF IInv, TypeOK, Workers, Blocks, DstSkipWrite, Running, src, net
<1>2. SourceOrder' /\ SourceEnds' /\ EofIsLast' /\ Reported'
  BY SourceOrderKept, SourceEndsKept, EofIsLastKept, ReportedKept
  DEF IInv, DstSkipWrite, Running, src, net
<1>3. DestOrder'
  BY DEF IInv, TypeOK, DestOrder, DstSkipWrite, Running, src, net
<1>4. OnePlace' /\ AllGood' /\ NothingLost'
  BY Zenon, WorkerMoves DEF IInv, DstSkipWrite, DstAbort, Running, src, net
<1> QED
  BY <1>1, <1>2, <1>3, <1>4 DEF IInv

LEMMA StepDstClear ==
  ASSUME IInv, NEW w \in Workers, DstClear(w)
  PROVE  IInv'
<1>1. TypeOK'
  BY EndToEndAssumption DEF IInv, TypeOK, Workers, Blocks, DstClear, Running, src, net
<1>2. SourceOrder' /\ SourceEnds' /\ EofIsLast' /\ Reported'
  BY SourceOrderKept, SourceEndsKept, EofIsLastKept, ReportedKept
  DEF IInv, DstClear, Running, src, net
<1>3. DestOrder'
  BY DEF IInv, TypeOK, DestOrder, DstClear, Running, src, net
<1>4. OnePlace' /\ AllGood' /\ NothingLost'
  BY Zenon, WorkerMoves DEF IInv, DstClear, Running, src, net
<1> QED
  BY <1>1, <1>2, <1>3, <1>4 DEF IInv

LEMMA StepDstCount ==
  ASSUME IInv, NEW w \in Workers, DstCount(w)
  PROVE  IInv'
<1>1. TypeOK'
  BY EndToEndAssumption DEF IInv, TypeOK, Workers, Blocks, DstCount, Running, CountAvailable, src, net
<1>2. SourceOrder' /\ SourceEnds' /\ EofIsLast' /\ Reported'
  BY SourceOrderKept, SourceEndsKept, EofIsLastKept, ReportedKept
  DEF IInv, DstCount, Running, CountAvailable, src, net
<1>3. DestOrder'
  BY DEF IInv, TypeOK, DestOrder, DstCount, Running, CountAvailable, src, net
<1>4. OnePlace' /\ AllGood' /\ NothingLost'
  BY Zenon, WorkerMoves DEF IInv, DstCount, Running, CountAvailable, src, net
<1> QED
  BY <1>1, <1>2, <1>3, <1>4 DEF IInv

-----------------------------------------------------------------------------
(* The invariant *)

LEMMA InitInvariant == Init => IInv
<1> SUFFICES ASSUME Init PROVE IInv
  OBVIOUS
<1>1. TypeOK
  <2>1. /\ sbuf \in [Workers -> [seq : Blocks \cup {-1}, data : Content \cup {"none"}]]
        /\ dbuf \in [Workers -> Packets \cup {NoBlock}]
    BY DEF Init, NoBlock
  <2>2. chan \in [Workers -> Seq(Packets)] /\ broken \subseteq Workers
    BY DEF Init
  <2>3. sw \in 1 .. QueueDepth + 1 /\ dq \in 1 .. QueueDepth + 1 /\ sop \in 0 .. NumOps
    BY EndToEndAssumption DEF Init
  <2> QED
    BY Zenon, <2>1, <2>2, <2>3 DEF Init, TypeOK
<1>2. \A w \in Workers : Len(chan[w]) = 0
  BY DEF Init
<1>3. SourceOrder /\ SourceEnds /\ DestOrder /\ Reported
  BY DEF Init, SourceOrder, SourceEnds, DestOrder, Reported
<1>4. EofIsLast
  BY <1>2 DEF Init, EofIsLast
<1>5. OnePlace
  BY <1>2, EndToEndAssumption
  DEF Init, OnePlace, InOnePlace, AtSource, OnChan, AtDest, Stored, Blocks
<1>6. AllGood
  BY <1>2 DEF Init, AllGood
<1>7. NothingLost
  BY EndToEndAssumption DEF Init, NothingLost, Blocks
<1> QED
  BY <1>1, <1>3, <1>4, <1>5, <1>6, <1>7 DEF IInv

LEMMA NextInvariant == IInv /\ [Next]_vars => IInv'
<1> SUFFICES ASSUME IInv, [Next]_vars PROVE IInv'
  OBVIOUS
<1>1. CASE SrcTarget
  BY <1>1, StepSrcGet, StepSrcIssue, StepSrcTimeLimit, StepSrcStopped,
     StepSrcAllIssued, StepSrcEof, StepSrcEnd DEF SrcTarget
<1>2. CASE DstTarget
  BY <1>2, StepDstTake, StepDstScan, StepDstFound, StepDstNotFound, StepDstIssue,
     StepDstCanceled, StepDstStopped, StepDstDrain, StepDstEnd, StepDstAborted DEF DstTarget
<1>3. ASSUME NEW w \in Workers, SrcWorker(w) PROVE IInv'
  BY <1>3, StepSrcRead, StepSrcReadError, StepSrcSkipRead, StepSrcSend, StepSrcSendEof DEF SrcWorker
<1>4. ASSUME NEW w \in Workers, DstWorker(w) PROVE IInv'
  BY <1>4, StepDstReceive, StepDstReceiveError, StepDstWrite, StepDstWriteError,
     StepDstSkipWrite, StepDstClear, StepDstCount DEF DstWorker
<1>5. ASSUME NEW w \in Workers, Break(w) PROVE IInv'
  BY <1>5, StepBreak
<1>6. CASE UNCHANGED vars
  <2>1. UNCHANGED <<src, net, dst>>
    BY <1>6 DEF vars
  <2>2. TypeOK'
    BY <2>1 DEF IInv, TypeOK, src, net, dst
  <2> QED
    BY <2>1, <2>2, SourceOrderKept, SourceEndsKept, DestOrderKept, EofIsLastKept, ReportedKept,
       OnePlaceKept, AllGoodKept, NothingLostKept DEF IInv, src, net, dst
<1> QED
  BY <1>1, <1>2, <1>3, <1>4, <1>5, <1>6 DEF Next

LEMMA Invariance == Spec => []IInv
<1> QED
  BY InitInvariant, NextInvariant, PTL DEF Spec

\* A source that ends its pass after a failed send has set target_errno, although
\* xdd_e2e_after_io_op ignores the status of xdd_e2e_src_send: whichever worker
\* failed, its connection stays broken until its EOF task, whose failure counts.
THEOREM FailedSendsAreReported == Spec => []SendFailureIsReported
<1>1. IInv => SendFailureIsReported
  <2> SUFFICES ASSUME IInv, spc = "end", sendFailed PROVE serrno
    BY DEF SendFailureIsReported
  <2>1. \A w \in broken : EofTasked(w) /\ swpc[w] = "idle"
    BY EndToEndAssumption DEF IInv, TypeOK, SourceOrder, EofTasked, Workers
  <2> QED
    BY <2>1 DEF IInv, TypeOK, Reported
<1> QED
  BY <1>1, Invariance, PTL

-----------------------------------------------------------------------------
(* The refinement of FileCopy *)

\* When every destination worker has its EOF and none is busy, nothing is on its
\* way any more.
LEMMA AllDrained ==
  ASSUME IInv, \A w \in Workers : deof[w] /\ ~dbusy[w]
  PROVE  \A w \in Workers : /\ swpc[w] = "idle" /\ dwpc[w] # "write"
                            /\ Len(chan[w]) = 0 /\ ~CutOff(w)
BY DEF IInv, EofIsLast, DestOrder, CutOff

\* Then the file is whole, if all blocks were issued and no I/O failed.
LEMMA WholeFile ==
  ASSUME IInv, \A w \in Workers : deof[w] /\ ~dbusy[w], sop = NumOps,
         dpc # "exit", ~canceled, ~serrors, ~derrors
  PROVE  \A b \in Blocks : file[b] = "good"
<1>1. \A b \in Blocks : Somewhere(b)
  BY AllDrained, EndToEndAssumption DEF IInv, NothingLost, Blocks
<1>2. ASSUME NEW b \in Blocks, NEW w \in Workers
      PROVE  /\ ~AtSource(w, b) /\ ~AtDest(w, b)
             /\ \A i \in Nat : ~OnChan(w, i, b)
  <2>1. swpc[w] = "idle" /\ dwpc[w] # "write" /\ Len(chan[w]) = 0
    BY AllDrained
  <2>2. ~AtSource(w, b) /\ ~AtDest(w, b)
    BY <2>1 DEF AtSource, AtDest
  <2>3. \A i \in Nat : i \notin 1 .. Len(chan[w])
    BY <2>1
  <2> QED
    BY <2>2, <2>3 DEF OnChan
<1>3. \A b \in Blocks : Stored(b)
  BY Zenon, <1>1, <1>2 DEF Somewhere
<1> QED
  BY <1>3 DEF IInv, TypeOK, AllGood, Stored, Content

\* A write, failed or not, changes the file only in a hole.
LEMMA WritesFillHoles ==
  ASSUME IInv, NEW w \in Workers, DstWrite(w) \/ DstWriteError(w)
  PROVE  \E b \in Blocks, d \in Content \cup {"hole"} :
           /\ file[b] = "hole" /\ file' = [file EXCEPT ![b] = d]
           /\ dpc' = dpc /\ dpc \notin {"end", "aborted", "exit"}
<1>1. dbuf[w] \in [seq : Blocks, data : Content] /\ AtDest(w, dbuf[w].seq) /\ dpc # "exit"
  BY DEF IInv, DestOrder, DstWrite, DstWriteError, Running, AtDest
<1>2. file[dbuf[w].seq] = "hole"
  <2>1. ~Stored(dbuf[w].seq)
    BY <1>1 DEF IInv, OnePlace, InOnePlace
  <2> QED
    BY <2>1 DEF Stored
<1>3. dpc \notin {"end", "aborted"}
  BY <1>1 DEF IInv, DestOrder, AtDest
<1>4. \E d \in Content \cup {"hole"} : file' = [file EXCEPT ![dbuf[w].seq] = d]
  BY <1>1, <1>2 DEF DstWrite, DstWriteError, WritePlace, Content
<1>5. dpc' = dpc
  BY DEF DstWrite, DstWriteError
<1> QED
  BY Zenon, <1>1, <1>2, <1>3, <1>4, <1>5

\* The steps that may decide the outcome.
Deciding == SrcEnd \/ DstCanceled \/ DstDrain \/ DstEnd \/ DstAborted
Writing == \E w \in Workers : DstWrite(w) \/ DstWriteError(w)

\* What the other steps leave alone.
LEMMA OtherSteps ==
  ASSUME IInv, [Next]_vars, ~Writing, ~Deciding
  PROVE  /\ file' = file /\ derrors' = derrors
         /\ dpc \in {"end", "aborted", "exit"} \/ dpc' \in {"end", "aborted", "exit"}
              => dpc' = dpc
         /\ spc = "end" \/ spc' = "end" => UNCHANGED <<spc, serrno, serrors>>
<1>1. CASE SrcTarget
  BY <1>1 DEF SrcTarget, Deciding, SrcGet, SrcIssue, SrcTimeLimit, SrcStopped, SrcAllIssued,
     SrcEof, dst
<1>2. CASE DstTarget
  BY <1>2 DEF DstTarget, Deciding, DstTake, DstScan, DstFound, DstNotFound, DstIssue,
     DstStopped, src
<1>3. ASSUME NEW w \in Workers, SrcWorker(w)
      PROVE  /\ UNCHANGED <<file, derrors, dpc, spc>>
             /\ spc # "end"
  <2>1. UNCHANGED <<file, derrors, dpc, spc>> /\ swpc[w] # "idle"
    BY <1>3 DEF SrcWorker, SrcRead, SrcReadError, SrcSkipRead, SrcSend, SrcSendEof, dst
  <2> QED
    BY <2>1 DEF IInv, SourceOrder
<1>4. ASSUME NEW w \in Workers, DstWorker(w) \/ Break(w)
      PROVE  UNCHANGED <<file, derrors, dpc, spc, serrno, serrors>>
  BY <1>4 DEF Break, src, dst, Writing,
     DstWorker, DstReceive, DstReceiveError, DstSkipWrite, DstClear, DstCount
<1>5. CASE UNCHANGED vars
  BY <1>5 DEF vars, src, dst
<1> QED
  BY <1>1, <1>2, <1>3, <1>4, <1>5 DEF Next

\* A step that ends the second of two programs, neither of which met an error,
\* finds the whole file.
LEMMA EndsWhole ==
  ASSUME IInv, SrcEnd \/ DstEnd, ~Ended, Ended', Clean'
  PROVE  file' = file /\ \A b \in Blocks : file[b] = "good"
<1>1. CASE SrcEnd
  <2>1. dpc = "end" /\ UNCHANGED dst /\ ~serrors /\ ~derrors
    BY <1>1 DEF SrcEnd, Ended, Clean, dst
  <2>2. sop = NumOps
    BY <1>1, <2>1 DEF IInv, SourceEnds, SrcEnd
  <2>3. ~canceled /\ \A w \in Workers : deof[w] /\ ~dbusy[w]
    BY <2>1 DEF IInv, DestOrder
  <2> QED
    BY <2>1, <2>2, <2>3, WholeFile DEF dst
<1>2. CASE DstEnd
  <2>1. dpc = "drain" /\ dq > QueueDepth /\ ~canceled /\ UNCHANGED <<file, derrors, src>>
    BY <1>2 DEF DstEnd, Ended, Exit
  <2>2. spc = "end" /\ ~serrors /\ ~derrors
    BY <2>1 DEF Ended, Clean, src
  <2>3. sop = NumOps
    BY <2>2 DEF IInv, SourceEnds
  <2>4. \A w \in Workers : deof[w] /\ ~dbusy[w]
    BY <2>1, <2>2, EndToEndAssumption DEF IInv, TypeOK, DestOrder, Workers
  <2> QED
    BY <2>1, <2>2, <2>3, <2>4, WholeFile
<1> QED
  BY <1>1, <1>2

\* Whether a deciding step ends the copy or leaves its outcome alone.
LEMMA DecidingSteps ==
  ASSUME IInv, Deciding
  PROVE  /\ file' = file
         /\ \/ Outcome' = Outcome
            \/ Outcome = "running" /\ Outcome' = "failed"
            \/ Outcome = "running" /\ Outcome' = "complete" /\ (SrcEnd \/ DstEnd)
               /\ ~Ended /\ Ended' /\ Clean'
<1>1. CASE SrcEnd
  <2>1. spc = "eof" /\ spc' = "end" /\ UNCHANGED <<dpc, file>>
    BY <1>1 DEF SrcEnd, dst
  <2> QED
    BY <1>1, <2>1 DEF Outcome, Ended
<1>2. CASE DstCanceled
  BY <1>2 DEF DstCanceled, Exit, Outcome, Ended
<1>3. CASE DstDrain
  <2>1. dpc = "drain" /\ dpc' \in {"drain", "exit"} /\ file' = file
    BY <1>3 DEF DstDrain, Exit
  <2> QED
    BY <2>1 DEF Outcome, Ended
<1>4. CASE DstEnd
  <2>1. dpc = "drain" /\ dpc' \in {"end", "aborted", "exit"} /\ file' = file
    BY <1>4 DEF DstEnd, Exit
  <2> QED
    BY <1>4, <2>1 DEF Outcome, Ended
<1>5. CASE DstAborted
  BY <1>5 DEF DstAborted, Exit, Outcome, Ended
<1> QED
  BY <1>1, <1>2, <1>3, <1>4, <1>5 DEF Deciding

LEMMA StepPromise == IInv /\ [Next]_vars => [Promise!Next]_(Promise!vars)
<1> SUFFICES ASSUME IInv, [Next]_vars PROVE [Promise!Next]_(Promise!vars)
  OBVIOUS
<1> DEFINE copied == {b \in Blocks : file[b] = "good"}
<1>1. CASE Writing
  <2>1. PICK b \in Blocks, d \in Content \cup {"hole"} :
          /\ file[b] = "hole" /\ file' = [file EXCEPT ![b] = d]
          /\ dpc' = dpc /\ dpc \notin {"end", "aborted", "exit"}
    BY <1>1, WritesFillHoles DEF Writing
  <2>2. Outcome = "running" /\ Outcome' = "running"
    BY <2>1 DEF Outcome, Ended
  <2>3. \A c \in Blocks : file'[c] = IF c = b THEN d ELSE file[c]
    BY <2>1 DEF IInv, TypeOK
  <2>4. CASE d = "good"
    <3>1. b \notin copied /\ copied' = copied \cup {b}
      BY Zenon, <2>1, <2>3, <2>4
    <3>2. Promise!Copy(b)
      BY <2>2, <3>1 DEF Promise!Copy
    <3> QED
      BY Zenon, <3>2 DEF Promise!Next
  <2>5. CASE d # "good"
    <3>1. copied' = copied
      BY <2>1, <2>3, <2>5
    <3> QED
      BY <2>2, <3>1 DEF Promise!vars
  <2> QED
    BY <2>4, <2>5
<1>2. CASE Deciding
  <2>1. copied' = copied
    BY <1>2, DecidingSteps
  <2>2. CASE Outcome' = Outcome
    BY <2>1, <2>2 DEF Promise!vars
  <2>3. CASE Outcome = "running" /\ Outcome' = "failed"
    BY <2>1, <2>3 DEF Promise!Next, Promise!Fail
  <2>4. CASE /\ Outcome = "running" /\ Outcome' = "complete" /\ (SrcEnd \/ DstEnd)
             /\ ~Ended /\ Ended' /\ Clean'
    <3>1. copied = Blocks
      BY <2>4, EndsWhole
    <3>2. Promise!Complete
      BY <2>1, <2>4, <3>1 DEF Promise!Complete
    <3> QED
      BY <3>2 DEF Promise!Next
  <2> QED
    BY <1>2, <2>2, <2>3, <2>4, DecidingSteps
<1>3. CASE ~Writing /\ ~Deciding
  <2>1. copied' = copied
    BY <1>3, OtherSteps
  <2>2. Outcome' = Outcome
    BY <1>3, OtherSteps DEF Outcome, Ended, Clean
  <2> QED
    BY <2>1, <2>2 DEF Promise!vars
<1> QED
  BY <1>1, <1>2, <1>3

\* The copy does what FileCopy promises, for every queue depth and number of
\* blocks: when xdd_targetpass_e2e_loop_src and xdd_targetpass_e2e_loop_dst have
\* both ended and no error was returned or counted, the whole file is in place,
\* whatever reads, writes or connections failed, and no late packet disturbs a
\* block that is right.
THEOREM CopyIsFileCopy == Spec => ImplementsFileCopy
<1>1. Init => Promise!Init
  BY DEF Init, Promise!Init, Outcome, Ended
<1> QED
  BY <1>1, StepPromise, Invariance, PTL DEF Spec, ImplementsFileCopy, Promise!Spec

=============================================================================
