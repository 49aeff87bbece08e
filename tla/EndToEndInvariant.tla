-------------------------- MODULE EndToEndInvariant --------------------------
(***************************************************************************)
(* The inductive invariant of the end-to-end copy, and that the source and *)
(* the network keep it.  EndToEndProofs has the destination and the        *)
(* theorems.                                                               *)
(*                                                                         *)
(* A block that was issued is in one place: with a source worker, on a     *)
(* connection, with a destination worker or in the file.  It may get lost  *)
(* on the way, but a connection that lost something breaks before its EOF  *)
(* packet, and then the destination never gets the EOF of that connection. *)
(***************************************************************************)
EXTENDS EndToEnd, TLAPS

Content == {"good", "stale"}
Packets == [seq : Blocks, data : Content] \cup {Eof}

TypeOK ==
  /\ spc \in {"loop", "got", "eof", "end"} /\ sw \in 1 .. QueueDepth + 1
  /\ sop \in 0 .. NumOps
  /\ sbusy \in [Workers -> BOOLEAN]
  /\ swpc \in [Workers -> {"idle", "read", "send", "sendEof"}]
  /\ sbuf \in [Workers -> [seq : Blocks \cup {-1}, data : Content \cup {"none"}]]
  /\ sstatus \in BOOLEAN /\ serrors \in BOOLEAN /\ derrors \in BOOLEAN
  /\ chan \in [Workers -> Seq(Packets)] /\ broken \subseteq Workers
  /\ dpc \in {"get", "scan", "got", "drain", "end", "aborted", "exit"}
  /\ dq \in 1 .. QueueDepth + 1 /\ deofs \in Nat
  /\ dbusy \in [Workers -> BOOLEAN] /\ deof \in [Workers -> BOOLEAN]
  /\ dwpc \in [Workers -> {"idle", "recv", "write", "clear", "count"}]
  /\ dbuf \in [Workers -> Packets \cup {NoBlock}]
  /\ file \in [Blocks -> Content \cup {"hole"}]

-----------------------------------------------------------------------------
(* The two sides *)

\* Worker w of the source has been given its EOF task.
EofTasked(w) == spc \in {"eof", "end"} /\ w < sw

\* A source worker with a task is BUSY, and its last task is the EOF.
SourceOrder ==
  /\ spc = "got" =>
       sop < NumOps /\ sw \in Workers /\ sbusy[sw] /\ swpc[sw] = "idle"
  /\ spc = "end" => sw = QueueDepth + 1 /\ \A w \in Workers : swpc[w] = "idle"
  /\ \A w \in Workers :
       /\ swpc[w] # "idle" => sbusy[w]
       /\ swpc[w] \in {"read", "send"} => ~EofTasked(w) /\ sbuf[w].seq \in Blocks
       /\ swpc[w] = "send" => sbuf[w].data \in Content
       /\ swpc[w] = "sendEof" => EofTasked(w)

\* A source that ends has issued all blocks or met an error: an expired time limit
\* leaves a worker BUSY for which it waits for ever.
SourceEnds ==
  /\ spc = "eof" => \/ sop = NumOps \/ serrors
                   \/ \E w \in Workers : sbusy[w] /\ swpc[w] = "idle"
  /\ spc = "end" => sop = NumOps \/ serrors

\* A destination worker with a task is BUSY, a worker that has received its EOF
\* gets no other, and the pass ends when all have or an error was counted.
DestOrder ==
  /\ dpc = "got" =>
       /\ dq \in Workers /\ dbusy[dq] /\ ~deof[dq]
       /\ dwpc[dq] \in {"idle", "count"}
  /\ dpc = "scan" =>
       deofs < dq /\ (deofs = dq - 1 => \A w \in Workers : w < dq => deof[w])
  /\ dpc \in {"drain", "end"} => derrors \/ \A w \in Workers : deof[w]
  /\ dpc = "drain" => \A w \in Workers : w < dq => ~dbusy[w]
  /\ dpc \in {"end", "aborted"} => ~canceled /\ \A w \in Workers : ~dbusy[w]
  /\ \A w \in Workers :
       /\ dwpc[w] \in {"recv", "write", "clear"} => dbusy[w]
       /\ dwpc[w] \in {"recv", "write"} => ~deof[w]
       /\ dwpc[w] = "write" => dbuf[w] \in [seq : Blocks, data : Content]

\* The EOF packet is the last on its connection.
EofIsLast ==
  \A w \in Workers :
    /\ \A i \in 1 .. Len(chan[w]) :
         chan[w][i] = Eof =>
           i = Len(chan[w]) /\ EofTasked(w) /\ swpc[w] = "idle" /\ ~deof[w]
    /\ deof[w] => Len(chan[w]) = 0 /\ EofTasked(w) /\ swpc[w] = "idle"

\* A failed send has been reported, or will be when the EOF fails.
Reported ==
  /\ sendFailed => \/ sstatus
                   \/ \E w \in broken : ~EofTasked(w) \/ swpc[w] = "sendEof"
  /\ spc = "end" => serrno = sstatus

-----------------------------------------------------------------------------
(* The blocks *)

AtSource(w, b) == swpc[w] \in {"read", "send"} /\ sbuf[w].seq = b
OnChan(w, i, b) == i \in 1 .. Len(chan[w]) /\ chan[w][i].seq = b
AtDest(w, b) == dwpc[w] = "write" /\ dbuf[w].seq = b
Stored(b) == file[b] # "hole"

\* A block is in one place at most, and nowhere before it is issued.
InOnePlace(b) ==
  /\ \A v, w \in Workers : AtSource(v, b) /\ AtSource(w, b) => v = w
  /\ \A v, w \in Workers, i, j \in Nat :
       OnChan(v, i, b) /\ OnChan(w, j, b) => v = w /\ i = j
  /\ \A v, w \in Workers : AtDest(v, b) /\ AtDest(w, b) => v = w
  /\ \A v, w \in Workers, i \in Nat :
       /\ ~(AtSource(v, b) /\ OnChan(w, i, b))
       /\ ~(AtSource(v, b) /\ AtDest(w, b))
       /\ ~(OnChan(v, i, b) /\ AtDest(w, b))
  /\ Stored(b) \/ b >= sop =>
       \A w \in Workers, i \in Nat :
         ~AtSource(w, b) /\ ~OnChan(w, i, b) /\ ~AtDest(w, b)
  /\ b >= sop => ~Stored(b)

OnePlace == \A b \in Blocks : InOnePlace(b)

\* Unless a read failed, what travels is good; unless an I/O failed, so is the file.
AllGood ==
  ~serrors =>
    /\ \A w \in Workers :
         /\ swpc[w] = "send" => sbuf[w].data = "good"
         /\ \A i \in 1 .. Len(chan[w]) : chan[w][i].data # "stale"
         /\ dwpc[w] = "write" => dbuf[w].data = "good"
    /\ ~derrors => \A b \in Blocks : file[b] # "stale"

Somewhere(b) ==
  \/ Stored(b)
  \/ \E w \in Workers : \/ AtSource(w, b) \/ AtDest(w, b)
                        \/ \E i \in Nat : OnChan(w, i, b)

\* Connection w broke before the destination could get its EOF.
CutOff(w) ==
  w \in broken /\ ~deof[w] /\ \A i \in 1 .. Len(chan[w]) : chan[w][i] # Eof

\* A block that was issued is somewhere, unless the copy cannot succeed any more.
NothingLost ==
  \/ serrors \/ derrors \/ canceled \/ dpc = "exit"
  \/ \E w \in Workers : CutOff(w)
  \/ \A b \in Blocks : b < sop => Somewhere(b)

\* The inductive invariant.
IInv ==
  /\ TypeOK /\ SourceOrder /\ SourceEnds /\ DestOrder /\ EofIsLast /\ Reported
  /\ OnePlace /\ AllGood /\ NothingLost

-----------------------------------------------------------------------------
(* Frames: what keeps each part of the invariant *)

LEMMA SourceOrderKept ==
  ASSUME SourceOrder, UNCHANGED <<spc, sw, sop, sbusy, swpc, sbuf>>
  PROVE  SourceOrder'
BY DEF SourceOrder, EofTasked

LEMMA SourceEndsKept ==
  ASSUME SourceEnds, UNCHANGED <<spc, sop, sbusy, swpc>>, serrors => serrors'
  PROVE  SourceEnds'
BY DEF SourceEnds

LEMMA DestOrderKept ==
  ASSUME DestOrder,
         UNCHANGED <<dpc, dq, deofs, dbusy, deof, dwpc, dbuf, derrors, canceled>>
  PROVE  DestOrder'
BY DEF DestOrder

LEMMA EofIsLastKept ==
  ASSUME EofIsLast, UNCHANGED <<spc, sw, swpc, chan, deof>>
  PROVE  EofIsLast'
BY DEF EofIsLast, EofTasked

LEMMA ReportedKept ==
  ASSUME Reported, UNCHANGED <<spc, sw, swpc, broken, sendFailed, sstatus, serrno>>
  PROVE  Reported'
BY DEF Reported, EofTasked

LEMMA OnePlaceKept ==
  ASSUME OnePlace, UNCHANGED <<sop, swpc, sbuf, chan, dwpc, dbuf, file>>
  PROVE  OnePlace'
BY DEF OnePlace, InOnePlace, AtSource, OnChan, AtDest, Stored

LEMMA AllGoodKept ==
  ASSUME AllGood, UNCHANGED <<serrors, derrors, swpc, sbuf, chan, dwpc, dbuf, file>>
  PROVE  AllGood'
BY DEF AllGood

LEMMA NothingLostKept ==
  ASSUME NothingLost, dpc = "exit" => dpc' = "exit",
         UNCHANGED <<serrors, derrors, canceled, broken, deof, chan, sop, file, swpc, sbuf,
                     dwpc, dbuf>>
  PROVE  NothingLost'
BY DEF NothingLost, Somewhere, CutOff, AtSource, OnChan, AtDest, Stored

\* A block that only leaves places stays in one.
LEMMA LeavesPlaces ==
  ASSUME NEW b \in Blocks, InOnePlace(b), sop' = sop, Stored(b)' <=> Stored(b),
         \A w \in Workers : AtSource(w, b)' => AtSource(w, b),
         \A w \in Workers : AtDest(w, b)' => AtDest(w, b),
         \A w \in Workers, i \in Nat : OnChan(w, i, b)' => OnChan(w, i, b)
  PROVE  InOnePlace(b)'
BY DEF InOnePlace

LEMMA FewerPlaces ==
  ASSUME OnePlace, sop' = sop,
         \A b \in Blocks : Stored(b)' <=> Stored(b),
         \A b \in Blocks, w \in Workers : AtSource(w, b)' => AtSource(w, b),
         \A b \in Blocks, w \in Workers : AtDest(w, b)' => AtDest(w, b),
         \A b \in Blocks, w \in Workers, i \in Nat : OnChan(w, i, b)' => OnChan(w, i, b)
  PROVE  OnePlace'
BY LeavesPlaces DEF OnePlace

\* Nothing gets lost while every issued block stays somewhere.
LEMMA StillSomewhere ==
  ASSUME NothingLost, TypeOK, serrors => serrors', derrors => derrors',
         canceled => canceled',
         dpc = "exit" => dpc' = "exit",
         \A w \in Workers : CutOff(w) => CutOff(w)',
         \A b \in Blocks : b < sop' => Somewhere(b)' \/ (b < sop /\ ~Somewhere(b))
  PROVE  NothingLost'
BY DEF NothingLost

\* A destination worker that does not begin to write leaves the blocks alone.
LEMMA WorkerMoves ==
  ASSUME IInv, NEW w \in Workers, NEW l \in {"idle", "recv", "clear", "count"},
         dwpc' = [dwpc EXCEPT ![w] = l], dwpc[w] # "write" \/ canceled' \/ derrors,
         UNCHANGED <<sop, swpc, sbuf, chan, dbuf, file, serrors, derrors, deof, broken>>,
         canceled => canceled', dpc = "exit" => dpc' = "exit"
  PROVE  OnePlace' /\ AllGood' /\ NothingLost'
<1>1. \A v \in Workers : dwpc'[v] = IF v = w THEN l ELSE dwpc[v]
  BY DEF IInv, TypeOK
<1>2. \A b \in Blocks, v \in Workers : AtDest(v, b)' <=> AtDest(v, b) /\ v # w
  BY <1>1 DEF AtDest
<1>3. OnePlace'
  BY <1>2, FewerPlaces DEF IInv, Stored, AtSource, OnChan
<1>4. AllGood'
  BY <1>1 DEF IInv, AllGood
<1>5. NothingLost'
  <2>1. CASE canceled' \/ derrors
    BY <2>1 DEF NothingLost
  <2>2. CASE ~canceled' /\ dwpc[w] # "write"
    <3>1. \A b \in Blocks, v \in Workers : AtDest(v, b) => AtDest(v, b)'
      BY <1>2, <2>2 DEF AtDest
    <3>2. \A b \in Blocks : Somewhere(b) => Somewhere(b)'
      BY <3>1 DEF Somewhere, Stored, AtSource, OnChan
    <3> QED
      BY <2>2, <3>2 DEF IInv, NothingLost, CutOff
  <2> QED
    BY <2>1, <2>2
<1> QED
  BY <1>3, <1>4, <1>5

-----------------------------------------------------------------------------
(* Facts about the operators *)

\* What a sender adds to its connection.
LEMMA Transmitted ==
  ASSUME TypeOK, NEW w \in Workers, NEW p \in Packets, Transmit(w, p)
  PROVE  /\ chan' \in [Workers -> Seq(Packets)]
         /\ \A v \in Workers : v # w \/ w \in broken => chan'[v] = chan[v]
         /\ w \notin broken =>
              /\ Len(chan'[w]) = Len(chan[w]) + 1
              /\ \A i \in 1 .. Len(chan[w]) : chan'[w][i] = chan[w][i]
              /\ chan'[w][Len(chan[w]) + 1] = p
<1>1. chan[w] \in Seq(Packets)
  BY DEF TypeOK
<1> QED
  BY <1>1 DEF TypeOK, Transmit

\* What a receiver takes off its connection.
LEMMA Received ==
  ASSUME TypeOK, NEW w \in Workers, chan[w] # <<>>,
         chan' = [chan EXCEPT ![w] = Tail(@)]
  PROVE  /\ chan' \in [Workers -> Seq(Packets)]
         /\ Len(chan[w]) \in Nat \ {0}
         /\ Head(chan[w]) = chan[w][1] /\ Head(chan[w]) \in Packets
         /\ \A v \in Workers : v # w => chan'[v] = chan[v]
         /\ Len(chan'[w]) = Len(chan[w]) - 1
         /\ \A i \in 1 .. Len(chan'[w]) : chan'[w][i] = chan[w][i + 1]
<1>1. chan[w] \in Seq(Packets)
  BY DEF TypeOK
<1> QED
  BY <1>1 DEF TypeOK

\* What a breaking connection leaves of the packets on it.
LEMMA Truncated ==
  ASSUME TypeOK, NEW w \in Workers, NEW n \in 0 .. Len(chan[w]),
         chan' = [chan EXCEPT ![w] = SubSeq(@, 1, n)]
  PROVE  /\ chan' \in [Workers -> Seq(Packets)]
         /\ \A v \in Workers : v # w => chan'[v] = chan[v]
         /\ Len(chan'[w]) = n
         /\ \A i \in 1 .. n : chan'[w][i] = chan[w][i]
<1>1. chan[w] \in Seq(Packets) /\ Len(chan[w]) \in Nat /\ n \in Nat
  BY DEF TypeOK
<1>2. \A i \in 1 .. n : chan[w][i] \in Packets
  BY <1>1
<1>3. /\ SubSeq(chan[w], 1, n) \in Seq(Packets)
      /\ Len(SubSeq(chan[w], 1, n)) = n
      /\ \A i \in 1 .. n : SubSeq(chan[w], 1, n)[i] = chan[w][i]
  BY <1>1, <1>2
<1> QED
  BY <1>1, <1>3 DEF TypeOK

-----------------------------------------------------------------------------
(* The steps of the source *)

LEMMA StepSrcGet ==
  ASSUME IInv, SrcGet
  PROVE  IInv'
<1>w. sw' \in Workers /\ ~sbusy[sw']
  BY DEF SrcGet, FirstFree
<1>1. TypeOK'
  BY <1>w, EndToEndAssumption DEF IInv, TypeOK, Workers, SrcGet, net, dst
<1>2. SourceOrder'
  BY <1>w DEF IInv, TypeOK, SourceOrder, EofTasked, SrcGet, net, dst
<1>3. DestOrder' /\ OnePlace' /\ AllGood' /\ NothingLost'
  BY DestOrderKept, OnePlaceKept, AllGoodKept, NothingLostKept
  DEF IInv, SrcGet, net, dst
<1>4. EofIsLast'
  BY DEF IInv, TypeOK, EofIsLast, EofTasked, SrcGet, net, dst
<1>5. Reported'
  BY DEF IInv, TypeOK, Reported, EofTasked, SrcGet, net, dst
<1>6. SourceEnds'
  BY DEF SourceEnds, SrcGet
<1> QED
  BY <1>1, <1>2, <1>3, <1>4, <1>5, <1>6 DEF IInv

LEMMA StepSrcIssue ==
  ASSUME IInv, SrcIssue
  PROVE  IInv'
<1>1. TypeOK'
  <2>1. sw \in Workers /\ sop \in Blocks
    BY EndToEndAssumption DEF IInv, TypeOK, SourceOrder, SrcIssue, Blocks
  <2>2. sop' \in 0 .. NumOps
    BY <2>1, EndToEndAssumption DEF SrcIssue, Blocks
  <2>3. sbuf' \in [Workers -> [seq : Blocks \cup {-1}, data : Content \cup {"none"}]]
    <3>1. sbuf[sw] \in [seq : Blocks \cup {-1}, data : Content \cup {"none"}]
      BY <2>1 DEF IInv, TypeOK
    <3>2. [sbuf[sw] EXCEPT !.seq = sop] \in [seq : Blocks \cup {-1}, data : Content \cup {"none"}]
      BY <2>1, <3>1
    <3> QED
      BY Zenon, <3>2 DEF IInv, TypeOK, SrcIssue
  <2> QED
    BY <2>2, <2>3 DEF IInv, TypeOK, SrcIssue, net, dst
<1>2. SourceOrder'
  <2>1. sw \in Workers /\ sop \in Blocks
    BY EndToEndAssumption DEF IInv, TypeOK, SourceOrder, SrcIssue, Blocks
  <2>2. \A w \in Workers : sbuf'[w].seq = (IF w = sw THEN sop ELSE sbuf[w].seq)
                         /\ sbuf'[w].data = sbuf[w].data
    BY <2>1 DEF IInv, TypeOK, SrcIssue
  <2> QED
    BY <2>1, <2>2 DEF IInv, TypeOK, SourceOrder, EofTasked, SrcIssue
<1>3. DestOrder'
  BY DestOrderKept
  DEF IInv, SrcIssue, net, dst
<1>4. EofIsLast'
  BY DEF IInv, TypeOK, EofIsLast, EofTasked, SrcIssue, net, dst
<1>5. Reported'
  BY DEF IInv, TypeOK, Reported, EofTasked, SrcIssue, net, dst
<1>6. OnePlace'
  <2>1. sw \in Workers /\ sop \in Blocks /\ swpc[sw] = "idle"
    BY EndToEndAssumption DEF IInv, TypeOK, SourceOrder, SrcIssue, Blocks
  <2>2. \A b \in Blocks, w \in Workers :
          AtSource(w, b)' <=> AtSource(w, b) \/ (w = sw /\ b = sop)
    BY <2>1 DEF IInv, TypeOK, SrcIssue, AtSource
  <2>3. \A b \in Blocks, w \in Workers, i \in Nat :
          /\ Stored(b)' = Stored(b) /\ AtDest(w, b)' = AtDest(w, b)
          /\ OnChan(w, i, b)' = OnChan(w, i, b)
    BY DEF SrcIssue, net, dst, Stored, AtDest, OnChan
  <2>4. sop \in Nat /\ sop' = sop + 1
    BY DEF IInv, TypeOK, SrcIssue
  <2> QED
    BY <2>1, <2>2, <2>3, <2>4, EndToEndAssumption DEF IInv, OnePlace, InOnePlace, Blocks
<1>7. AllGood'
  BY DEF IInv, TypeOK, AllGood, SrcIssue, net, dst
<1>8. NothingLost'
  <2>1. sw \in Workers /\ sop \in Blocks /\ swpc[sw] = "idle"
    BY EndToEndAssumption DEF IInv, TypeOK, SourceOrder, SrcIssue, Blocks
  <2>2. \A b \in Blocks, w \in Workers :
          AtSource(w, b)' <=> AtSource(w, b) \/ (w = sw /\ b = sop)
    BY <2>1 DEF IInv, TypeOK, SrcIssue, AtSource
  <2>3. \A b \in Blocks, w \in Workers, i \in Nat :
          /\ Stored(b)' = Stored(b) /\ AtDest(w, b)' = AtDest(w, b)
          /\ OnChan(w, i, b)' = OnChan(w, i, b)
    BY DEF SrcIssue, net, dst, Stored, AtDest, OnChan
  <2>4. \A b \in Blocks : b < sop' => b < sop \/ b = sop
    BY EndToEndAssumption DEF IInv, TypeOK, SrcIssue, Blocks
  <2>5. \A b \in Blocks : Somewhere(b) \/ b = sop => Somewhere(b)'
    BY <2>1, <2>2, <2>3 DEF Somewhere
  <2>6. UNCHANGED <<serrors, derrors, canceled, dpc>>
    BY DEF SrcIssue, dst
  <2>7. \A w \in Workers : CutOff(w) => CutOff(w)'
    BY DEF SrcIssue, net, dst, CutOff
  <2> QED
    BY <2>4, <2>5, <2>6, <2>7, StillSomewhere DEF IInv
<1>9. SourceEnds'
  BY DEF SourceEnds, SrcIssue
<1> QED
  BY <1>1, <1>2, <1>3, <1>4, <1>5, <1>6, <1>7, <1>8, <1>9 DEF IInv

LEMMA StepSrcTimeLimit ==
  ASSUME IInv, SrcTimeLimit
  PROVE  IInv'
<1>1. TypeOK'
  BY EndToEndAssumption DEF IInv, TypeOK, Workers, Blocks, SrcTimeLimit, net, dst
<1>2. SourceOrder'
  BY EndToEndAssumption DEF IInv, TypeOK, Workers, SourceOrder, EofTasked, SrcTimeLimit
<1>3. DestOrder' /\ OnePlace' /\ AllGood' /\ NothingLost'
  BY DestOrderKept, OnePlaceKept, AllGoodKept, NothingLostKept
  DEF IInv, SrcTimeLimit, net, dst
<1>4. EofIsLast'
  BY DEF IInv, TypeOK, EofIsLast, EofTasked, SrcTimeLimit, net, dst
<1>5. Reported'
  BY EndToEndAssumption DEF IInv, TypeOK, Workers, Reported, EofTasked, SrcTimeLimit, net
<1>6. SourceEnds'
  BY DEF IInv, SourceOrder, SourceEnds, SrcTimeLimit
<1> QED
  BY <1>1, <1>2, <1>3, <1>4, <1>5, <1>6 DEF IInv

LEMMA StepSrcStopped ==
  ASSUME IInv, SrcStopped
  PROVE  IInv'
<1>1. TypeOK'
  <2>1. sbusy' \in [Workers -> BOOLEAN]
    BY Zenon DEF IInv, TypeOK, SrcStopped
  <2> QED
    BY <2>1, EndToEndAssumption DEF IInv, TypeOK, SrcStopped, net, dst
<1>2. SourceOrder'
  BY EndToEndAssumption DEF IInv, TypeOK, Workers, SourceOrder, EofTasked, SrcStopped
<1>3. DestOrder' /\ OnePlace' /\ AllGood' /\ NothingLost'
  BY DestOrderKept, OnePlaceKept, AllGoodKept, NothingLostKept
  DEF IInv, SrcStopped, net, dst
<1>4. EofIsLast'
  BY DEF IInv, TypeOK, EofIsLast, EofTasked, SrcStopped, net, dst
<1>5. Reported'
  BY EndToEndAssumption DEF IInv, TypeOK, Workers, Reported, EofTasked, SrcStopped, net
<1>6. SourceEnds'
  BY DEF SourceEnds, SrcStopped, SrcAbort
<1> QED
  BY <1>1, <1>2, <1>3, <1>4, <1>5, <1>6 DEF IInv

LEMMA StepSrcAllIssued ==
  ASSUME IInv, SrcAllIssued
  PROVE  IInv'
<1>1. TypeOK'
  BY EndToEndAssumption DEF IInv, TypeOK, Workers, Blocks, SrcAllIssued, net, dst
<1>2. SourceOrder'
  BY EndToEndAssumption DEF IInv, TypeOK, Workers, SourceOrder, EofTasked, SrcAllIssued
<1>3. DestOrder' /\ OnePlace' /\ AllGood' /\ NothingLost'
  BY DestOrderKept, OnePlaceKept, AllGoodKept, NothingLostKept
  DEF IInv, SrcAllIssued, net, dst
<1>4. EofIsLast'
  BY DEF IInv, TypeOK, EofIsLast, EofTasked, SrcAllIssued, net, dst
<1>5. Reported'
  BY EndToEndAssumption DEF IInv, TypeOK, Workers, Reported, EofTasked, SrcAllIssued, net
<1>6. SourceEnds'
  BY DEF SourceEnds, SrcAllIssued
<1> QED
  BY <1>1, <1>2, <1>3, <1>4, <1>5, <1>6 DEF IInv

LEMMA StepSrcEof ==
  ASSUME IInv, SrcEof
  PROVE  IInv'
<1>w. sw \in Workers /\ ~sbusy[sw] /\ swpc[sw] = "idle"
  BY EndToEndAssumption DEF IInv, TypeOK, SourceOrder, Workers, SrcEof, WorkerGot
<1>e. \A w \in Workers : EofTasked(w)' <=> EofTasked(w) \/ w = sw
  BY EndToEndAssumption DEF IInv, TypeOK, EofTasked, Workers, SrcEof
<1>n. ~EofTasked(sw)
  BY <1>w DEF EofTasked, Workers
<1>1. TypeOK'
  BY EndToEndAssumption DEF IInv, TypeOK, Workers, Blocks, SrcEof, WorkerGot, net, dst
<1>2. SourceOrder'
  BY <1>w, <1>e, <1>n DEF IInv, TypeOK, SourceOrder, SrcEof
<1>3. DestOrder'
  BY DestOrderKept
  DEF IInv, SrcEof, WorkerGot, net, dst
<1>4. EofIsLast'
  BY <1>w, <1>e, <1>n DEF IInv, TypeOK, EofIsLast, SrcEof, net, dst
<1>5. Reported'
  BY <1>w, <1>e, <1>n DEF IInv, TypeOK, Reported, SrcEof, net
<1>6. OnePlace'
  <2>1. \A b \in Blocks, w \in Workers : AtSource(w, b)' => AtSource(w, b)
    BY <1>w DEF IInv, TypeOK, SrcEof, AtSource
  <2> QED
    BY <2>1, FewerPlaces DEF IInv, SrcEof, net, dst, Stored, AtDest, OnChan
<1>7. AllGood'
  BY DEF IInv, TypeOK, AllGood, SrcEof, WorkerGot, net, dst
<1>8. NothingLost'
  <2>1. \A b \in Blocks, w \in Workers : AtSource(w, b) => AtSource(w, b)'
    BY <1>w DEF IInv, TypeOK, SrcEof, AtSource
  <2>2. \A b \in Blocks : Somewhere(b) => Somewhere(b)'
    BY <2>1 DEF Somewhere, SrcEof, net, dst, Stored, AtDest, OnChan
  <2>3. UNCHANGED <<serrors, derrors, canceled, dpc, sop, chan, broken, deof>>
    BY DEF SrcEof, net, dst
  <2> QED
    BY <2>2, <2>3, StillSomewhere DEF IInv, CutOff
<1>9. SourceEnds'
  BY <1>w DEF IInv, TypeOK, SourceEnds, SrcEof
<1> QED
  BY <1>1, <1>2, <1>3, <1>4, <1>5, <1>6, <1>7, <1>8, <1>9 DEF IInv

LEMMA StepSrcEnd ==
  ASSUME IInv, SrcEnd
  PROVE  IInv'
<1>1. TypeOK'
  BY EndToEndAssumption DEF IInv, TypeOK, Workers, Blocks, SrcEnd, net, dst
<1>2. SourceOrder'
  BY EndToEndAssumption DEF IInv, TypeOK, Workers, SourceOrder, EofTasked, SrcEnd
<1>3. DestOrder' /\ OnePlace' /\ AllGood' /\ NothingLost'
  BY DestOrderKept, OnePlaceKept, AllGoodKept, NothingLostKept
  DEF IInv, SrcEnd, net, dst
<1>4. EofIsLast'
  BY DEF IInv, TypeOK, EofIsLast, EofTasked, SrcEnd, net, dst
<1>5. Reported'
  BY DEF IInv, TypeOK, Reported, EofTasked, SrcEnd, net, dst
<1>6. SourceEnds'
  BY DEF IInv, SourceEnds, SrcEnd
<1> QED
  BY <1>1, <1>2, <1>3, <1>4, <1>5, <1>6 DEF IInv

LEMMA StepSrcRead ==
  ASSUME IInv, NEW w \in Workers, SrcRead(w)
  PROVE  IInv'
<1>s. PICK data \in Content :
        /\ sbuf' = [sbuf EXCEPT ![w].data = data]
        /\ serrors' = (serrors \/ data = "stale")
  BY Zenon DEF SrcRead, Content
<1>q. \A v \in Workers : /\ sbuf'[v].seq = sbuf[v].seq
                        /\ sbuf'[v].data = IF v = w THEN data ELSE sbuf[v].data
  BY <1>s DEF IInv, TypeOK
<1>1. TypeOK'
  <2>1. sbuf' \in [Workers -> [seq : Blocks \cup {-1}, data : Content \cup {"none"}]]
    BY Zenon, <1>s DEF IInv, TypeOK
  <2>2. serrors' \in BOOLEAN
    BY <1>s
  <2> QED
    BY <2>1, <2>2 DEF IInv, TypeOK, SrcRead, net, dst
<1>2. SourceOrder'
  BY <1>q DEF IInv, TypeOK, SourceOrder, EofTasked, SrcRead
<1>3. DestOrder'
  BY DestOrderKept
  DEF IInv, SrcRead, net, dst
<1>4. EofIsLast'
  BY DEF IInv, TypeOK, EofIsLast, EofTasked, SrcRead, net, dst
<1>5. Reported'
  BY DEF IInv, TypeOK, Reported, EofTasked, SrcRead, net, dst
<1>6. OnePlace'
  BY DEF IInv, TypeOK, OnePlace, InOnePlace, AtSource, OnChan, AtDest, Stored, SrcRead, net, dst
<1>7. AllGood'
  <2>1. SUFFICES ASSUME ~serrors' PROVE AllGood'
    BY DEF AllGood
  <2>2. ~serrors /\ data = "good"
    BY <1>s, <2>1 DEF Content
  <2> QED
    BY <1>q, <2>2 DEF IInv, TypeOK, AllGood, SrcRead, net, dst
<1>8. NothingLost'
  <2>1. CASE data = "stale"
    BY Zenon, <1>s, <2>1 DEF NothingLost
  <2>2. CASE data = "good"
    <3>1. serrors' = serrors
      BY <1>s, <2>2 DEF IInv, TypeOK
    <3>2. \A b \in Blocks, v \in Workers, i \in Nat :
            /\ AtSource(v, b) => AtSource(v, b)'
            /\ Stored(b)' = Stored(b) /\ AtDest(v, b)' = AtDest(v, b)
            /\ OnChan(v, i, b)' = OnChan(v, i, b)
      BY <1>q DEF IInv, TypeOK, SrcRead, net, dst, AtSource, Stored, AtDest, OnChan
    <3>3. \A b \in Blocks : Somewhere(b) => Somewhere(b)'
      BY <3>2 DEF Somewhere
    <3>4. UNCHANGED <<derrors, canceled, dpc, sop, chan, broken, deof>>
      BY DEF SrcRead, net, dst
    <3> QED
      BY <3>1, <3>3, <3>4, StillSomewhere DEF IInv, CutOff
  <2> QED
    BY <2>1, <2>2 DEF Content
<1>9. SourceEnds'
  <2>1. UNCHANGED <<spc, sop, sbusy>> /\ (serrors => serrors')
    BY Zenon, <1>s DEF SrcRead
  <2>2. \A v \in Workers : swpc[v] = "idle" => swpc'[v] = "idle"
    BY DEF IInv, TypeOK, SrcRead
  <2> QED
    BY <2>1, <2>2 DEF IInv, SourceEnds
<1> QED
  BY <1>1, <1>2, <1>3, <1>4, <1>5, <1>6, <1>7, <1>8, <1>9 DEF IInv

LEMMA StepSrcReadError ==
  ASSUME IInv, NEW w \in Workers, SrcReadError(w)
  PROVE  IInv'
<1>1. TypeOK'
  BY EndToEndAssumption DEF IInv, TypeOK, Workers, Blocks, SrcReadError, SrcWorkerFree, net, dst
<1>2. SourceOrder'
  BY DEF IInv, TypeOK, SourceOrder, EofTasked, SrcReadError, SrcWorkerFree, net, dst
<1>3. DestOrder'
  BY DestOrderKept
  DEF IInv, SrcReadError, SrcWorkerFree, net, dst
<1>4. EofIsLast'
  BY DEF IInv, TypeOK, EofIsLast, EofTasked, SrcReadError, SrcWorkerFree, net, dst
<1>5. Reported'
  BY DEF IInv, TypeOK, Reported, EofTasked, SrcReadError, SrcWorkerFree, net, dst
<1>6. OnePlace'
  <2>1. \A b \in Blocks, v \in Workers : AtSource(v, b)' => AtSource(v, b)
    BY DEF IInv, TypeOK, SrcReadError, SrcWorkerFree, AtSource
  <2> QED
    BY <2>1, FewerPlaces
    DEF IInv, SrcReadError, net, dst, Stored, AtDest, OnChan
<1>7. AllGood'
  BY DEF IInv, TypeOK, AllGood, SrcReadError, SrcWorkerFree, net, dst
<1>8. NothingLost'
  BY DEF IInv, TypeOK, NothingLost, Somewhere, CutOff, AtSource, OnChan, AtDest, Stored, SrcReadError, SrcWorkerFree, net, dst
<1>9. SourceEnds'
  BY DEF SourceEnds, SrcReadError
<1> QED
  BY <1>1, <1>2, <1>3, <1>4, <1>5, <1>6, <1>7, <1>8, <1>9 DEF IInv

LEMMA StepSrcSkipRead ==
  ASSUME IInv, NEW w \in Workers, SrcSkipRead(w)
  PROVE  IInv'
<1>1. TypeOK'
  BY EndToEndAssumption DEF IInv, TypeOK, Workers, Blocks, SrcSkipRead, SrcAbort, SrcWorkerFree, net, dst
<1>2. SourceOrder'
  BY DEF IInv, TypeOK, SourceOrder, EofTasked, SrcSkipRead, SrcAbort, SrcWorkerFree, net, dst
<1>3. DestOrder'
  BY DestOrderKept
  DEF IInv, SrcSkipRead, SrcAbort, SrcWorkerFree, net, dst
<1>4. EofIsLast'
  BY DEF IInv, TypeOK, EofIsLast, EofTasked, SrcSkipRead, SrcAbort, SrcWorkerFree, net, dst
<1>5. Reported'
  BY DEF IInv, TypeOK, Reported, EofTasked, SrcSkipRead, SrcAbort, SrcWorkerFree, net, dst
<1>6. OnePlace'
  <2>1. \A b \in Blocks, v \in Workers : AtSource(v, b)' => AtSource(v, b)
    BY DEF IInv, TypeOK, SrcSkipRead, SrcAbort, SrcWorkerFree, AtSource
  <2> QED
    BY <2>1, FewerPlaces
    DEF IInv, SrcSkipRead, net, dst, Stored, AtDest, OnChan
<1>7. AllGood'
  BY DEF IInv, TypeOK, AllGood, SrcSkipRead, SrcAbort, SrcWorkerFree, net, dst
<1>8. NothingLost'
  BY DEF IInv, TypeOK, NothingLost, Somewhere, CutOff, AtSource, OnChan, AtDest, Stored, SrcSkipRead, SrcAbort, SrcWorkerFree, net, dst
<1>9. SourceEnds'
  BY DEF SourceEnds, SrcSkipRead, SrcAbort
<1> QED
  BY <1>1, <1>2, <1>3, <1>4, <1>5, <1>6, <1>7, <1>8, <1>9 DEF IInv

LEMMA StepSrcSend ==
  ASSUME IInv, NEW w \in Workers, SrcSend(w)
  PROVE  IInv'
<1>p. sbuf[w] \in Packets /\ sbuf[w].seq \in Blocks /\ sbuf[w] # Eof
  <2>1. /\ sbuf[w] \in [seq : Blocks \cup {-1}, data : Content \cup {"none"}]
        /\ sbuf[w].seq \in Blocks /\ sbuf[w].data \in Content
    BY DEF IInv, TypeOK, SourceOrder, SrcSend
  <2> QED
    BY <2>1 DEF Packets, Eof, Content
<1>c. /\ chan' \in [Workers -> Seq(Packets)]
      /\ \A v \in Workers : v # w \/ w \in broken => chan'[v] = chan[v]
      /\ w \notin broken =>
           /\ Len(chan'[w]) = Len(chan[w]) + 1
           /\ \A i \in 1 .. Len(chan[w]) : chan'[w][i] = chan[w][i]
           /\ chan'[w][Len(chan[w]) + 1] = sbuf[w]
  BY <1>p, Transmitted DEF IInv, SrcSend
<1>t. swpc[w] = "send" /\ ~EofTasked(w)
  BY DEF IInv, SourceOrder, SrcSend
<1>l. \A v \in Workers : Len(chan[v]) \in Nat /\ Len(chan'[v]) \in Nat
  BY <1>c DEF IInv, TypeOK
<1>o. \A v \in Workers, b \in Blocks, i \in Nat :
        OnChan(v, i, b)' <=> \/ OnChan(v, i, b)
                           \/ /\ v = w /\ w \notin broken
                              /\ i = Len(chan[w]) + 1 /\ b = sbuf[w].seq
  BY <1>c, <1>l DEF OnChan
<1>s. \A v \in Workers, b \in Blocks :
        AtSource(v, b)' <=> AtSource(v, b) /\ v # w
  BY DEF IInv, TypeOK, SrcSend, SrcWorkerFree, AtSource
<1>1. TypeOK'
  BY Zenon, <1>c DEF IInv, TypeOK, SrcSend, SrcWorkerFree, dst
<1>2. SourceOrder'
  BY DEF IInv, TypeOK, SourceOrder, EofTasked, SrcSend, SrcWorkerFree, CanSend, dst
<1>3. DestOrder'
  BY DestOrderKept
  DEF IInv, SrcSend, SrcWorkerFree, CanSend, dst
<1>4. EofIsLast'
  <2>1. \A v \in Workers : EofTasked(v)' <=> EofTasked(v)
    BY DEF SrcSend, EofTasked
  <2>2. ~deof[w] /\ \A i \in 1 .. Len(chan[w]) : chan[w][i] # Eof
    BY <1>t DEF IInv, EofIsLast
  <2>3. \A i \in 1 .. Len(chan'[w]) : chan'[w][i] # Eof
    BY <1>c, <1>l, <1>p, <2>2
  <2>4. \A v \in Workers : v # w => chan'[v] = chan[v] /\ swpc'[v] = swpc[v]
    BY <1>c DEF IInv, TypeOK, SrcSend, SrcWorkerFree
  <2>5. deof' = deof
    BY DEF SrcSend, dst
  <2> QED
    BY <2>1, <2>2, <2>3, <2>4, <2>5 DEF IInv, EofIsLast
<1>5. Reported'
  <2>1. \A v \in Workers : EofTasked(v)' <=> EofTasked(v)
    BY DEF SrcSend, EofTasked
  <2>2. \A v \in Workers : swpc[v] = "sendEof" => swpc'[v] = "sendEof"
    BY <1>t DEF IInv, TypeOK, SrcSend, SrcWorkerFree
  <2> QED
    BY <1>t, <2>1, <2>2 DEF IInv, TypeOK, Reported, SrcSend
<1>6. OnePlace'
  <2>1. /\ sop' = sop
        /\ \A b \in Blocks : Stored(b)' <=> Stored(b)
        /\ \A b \in Blocks, v \in Workers : AtDest(v, b)' <=> AtDest(v, b)
    BY DEF SrcSend, dst, Stored, AtDest
  <2>2. AtSource(w, sbuf[w].seq)
    BY <1>t DEF AtSource
  <2>3. Len(chan[w]) + 1 \in Nat /\ ~OnChan(w, Len(chan[w]) + 1, sbuf[w].seq)
    BY <1>l DEF OnChan
  <2>4. /\ \A v \in Workers : AtSource(v, sbuf[w].seq) => v = w
        /\ \A v \in Workers, i \in Nat : ~OnChan(v, i, sbuf[w].seq) /\ ~AtDest(v, sbuf[w].seq)
        /\ ~Stored(sbuf[w].seq) /\ ~(sbuf[w].seq >= sop)
    BY <1>p, <2>2, <2>3 DEF IInv, OnePlace, InOnePlace
  <2>5. ASSUME NEW b \in Blocks, b = sbuf[w].seq PROVE InOnePlace(b)'
    BY <1>o, <1>s, <2>1, <2>3, <2>4, <2>5 DEF InOnePlace
  <2>6. ASSUME NEW b \in Blocks, b # sbuf[w].seq PROVE InOnePlace(b)'
    <3>1. InOnePlace(b)
      BY DEF IInv, OnePlace
    <3> QED
      BY <1>o, <1>s, <2>1, <2>6, <3>1, LeavesPlaces
  <2> QED
    BY <2>5, <2>6 DEF OnePlace
<1>7. AllGood'
  <2>1. \A v \in Workers : \A i \in 1 .. Len(chan'[v]) :
          \/ i \in 1 .. Len(chan[v]) /\ chan'[v][i] = chan[v][i]
          \/ v = w /\ chan'[v][i] = sbuf[w]
    BY <1>c, <1>l
  <2>2. UNCHANGED <<serrors, derrors, sbuf, dwpc, dbuf, file>>
    BY Zenon DEF SrcSend, dst
  <2>3. \A v \in Workers : swpc'[v] = "send" => swpc[v] = "send"
    BY DEF IInv, TypeOK, SrcSend, SrcWorkerFree
  <2>4. ~serrors => sbuf[w].data # "stale"
    BY <1>t DEF IInv, AllGood
  <2> QED
    BY <2>1, <2>2, <2>3, <2>4 DEF IInv, AllGood
<1>8. NothingLost'
  <2>1. UNCHANGED <<serrors, derrors, canceled, dpc, sop>>
    BY DEF SrcSend, dst
  <2>2. ~deof[w] /\ \A i \in 1 .. Len(chan[w]) : chan[w][i] # Eof
    BY <1>t DEF IInv, EofIsLast
  <2>3. \A i \in 1 .. Len(chan'[w]) : chan'[w][i] # Eof
    BY <1>c, <1>l, <1>p, <2>2
  <2>4. CASE w \in broken
    <3>1. CutOff(w)'
      BY <2>2, <2>3, <2>4 DEF CutOff, SrcSend, dst
    <3> QED
      BY <3>1 DEF NothingLost
  <2>5. CASE w \notin broken
    <3>1. \A v \in Workers : CutOff(v) => CutOff(v)'
      BY <1>c, <2>5 DEF CutOff, SrcSend, dst
    <3>2. \A b \in Blocks, v \in Workers :
            AtSource(v, b) => AtSource(v, b)' \/ \E i \in Nat : OnChan(w, i, b)'
      <4>1. Len(chan[w]) + 1 \in Nat
        BY <1>l
      <4> QED
        BY <1>s, <1>o, <4>1, <2>5 DEF AtSource
    <3>3. \A b \in Blocks, v \in Workers, i \in Nat : OnChan(v, i, b) => OnChan(v, i, b)'
      BY <1>o
    <3>4. /\ \A b \in Blocks : Stored(b) => Stored(b)'
          /\ \A b \in Blocks, v \in Workers : AtDest(v, b) => AtDest(v, b)'
      BY DEF SrcSend, dst, Stored, AtDest
    <3>5. \A b \in Blocks : Somewhere(b) => Somewhere(b)'
      BY <3>2, <3>3, <3>4, <1>l DEF Somewhere
    <3> QED
      BY <2>1, <3>1, <3>5, StillSomewhere DEF IInv
  <2> QED
    BY <2>4, <2>5
<1>9. SourceEnds'
  BY DEF IInv, TypeOK, SourceEnds, SrcSend, SrcWorkerFree
<1> QED
  BY <1>1, <1>2, <1>3, <1>4, <1>5, <1>6, <1>7, <1>8, <1>9 DEF IInv

LEMMA StepSrcSendEof ==
  ASSUME IInv, NEW w \in Workers, SrcSendEof(w)
  PROVE  IInv'
<1>c. /\ chan' \in [Workers -> Seq(Packets)]
      /\ \A v \in Workers : v # w \/ w \in broken => chan'[v] = chan[v]
      /\ w \notin broken =>
           /\ Len(chan'[w]) = Len(chan[w]) + 1
           /\ \A i \in 1 .. Len(chan[w]) : chan'[w][i] = chan[w][i]
           /\ chan'[w][Len(chan[w]) + 1] = Eof
  BY Transmitted DEF IInv, SrcSendEof, Packets
<1>t. swpc[w] = "sendEof" /\ EofTasked(w)
  BY DEF IInv, SourceOrder, SrcSendEof
<1>l. \A v \in Workers : Len(chan[v]) \in Nat /\ Len(chan'[v]) \in Nat
  BY <1>c DEF IInv, TypeOK
<1>n. ~deof[w] /\ \A i \in 1 .. Len(chan[w]) : chan[w][i] # Eof
  BY <1>t DEF IInv, EofIsLast
<1>o. \A v \in Workers, b \in Blocks, i \in Nat : OnChan(v, i, b)' <=> OnChan(v, i, b)
  BY <1>c, <1>l DEF OnChan, Eof, Blocks
<1>s. \A v \in Workers, b \in Blocks : AtSource(v, b)' <=> AtSource(v, b)
  BY <1>t DEF IInv, TypeOK, SrcSendEof, SrcWorkerFree, AtSource
<1>1. TypeOK'
  <2>1. sstatus' \in BOOLEAN
    BY DEF SrcSendEof, EofStatus
  <2> QED
    BY Zenon, <1>c, <2>1 DEF IInv, TypeOK, SrcSendEof, SrcWorkerFree, dst
<1>2. SourceOrder'
  BY DEF IInv, TypeOK, SourceOrder, EofTasked, SrcSendEof, SrcWorkerFree, CanSend, EofStatus, dst
<1>3. DestOrder'
  BY DestOrderKept
  DEF IInv, SrcSendEof, SrcWorkerFree, CanSend, EofStatus, dst
<1>4. EofIsLast'
  <2>1. \A v \in Workers : EofTasked(v)' <=> EofTasked(v)
    BY DEF SrcSendEof, EofTasked
  <2>2. \A i \in 1 .. Len(chan'[w]) : chan'[w][i] = Eof => i = Len(chan'[w])
    BY <1>c, <1>l, <1>n
  <2>3. swpc'[w] = "idle" /\ \A v \in Workers : v # w => chan'[v] = chan[v] /\ swpc'[v] = swpc[v]
    BY <1>c DEF IInv, TypeOK, SrcSendEof, SrcWorkerFree
  <2>4. deof' = deof
    BY DEF SrcSendEof, dst
  <2> QED
    BY <1>t, <1>n, <2>1, <2>2, <2>3, <2>4 DEF IInv, EofIsLast
<1>5. Reported'
  <2>1. \A v \in Workers : EofTasked(v)' <=> EofTasked(v)
    BY DEF SrcSendEof, EofTasked
  <2>2. \A v \in Workers : v # w => swpc'[v] = swpc[v]
    BY DEF IInv, TypeOK, SrcSendEof, SrcWorkerFree
  <2>3. spc # "end" /\ spc' = spc /\ broken' = broken /\ sendFailed' = sendFailed
    BY <1>t DEF IInv, SourceOrder, SrcSendEof
  <2>4. (sstatus \/ w \in broken) => sstatus'
    BY Zenon DEF SrcSendEof, EofStatus
  <2> QED
    BY Zenon, <1>t, <2>1, <2>2, <2>3, <2>4 DEF IInv, TypeOK, Reported
<1>6. OnePlace'
  BY <1>o, <1>s, FewerPlaces DEF IInv, SrcSendEof, dst, Stored, AtDest
<1>7. AllGood'
  <2>1. \A v \in Workers : \A i \in 1 .. Len(chan'[v]) :
          \/ i \in 1 .. Len(chan[v]) /\ chan'[v][i] = chan[v][i]
          \/ chan'[v][i] = Eof
    BY <1>c, <1>l
  <2>2. Eof.data # "stale" /\ UNCHANGED <<serrors, derrors, sbuf, dwpc, dbuf, file>>
    BY DEF SrcSendEof, dst, Eof
  <2>3. \A v \in Workers : swpc'[v] = "send" => swpc[v] = "send"
    BY DEF IInv, TypeOK, SrcSendEof, SrcWorkerFree
  <2> QED
    BY <2>1, <2>2, <2>3 DEF IInv, AllGood
<1>8. NothingLost'
  <2>1. UNCHANGED <<serrors, derrors, canceled, dpc, sop>>
    BY DEF SrcSendEof, dst
  <2>2. \A v \in Workers : CutOff(v) => CutOff(v)'
    BY <1>c DEF CutOff, SrcSendEof, dst
  <2>3. \A b \in Blocks : Somewhere(b) => Somewhere(b)'
    BY <1>o, <1>s DEF Somewhere, SrcSendEof, dst, Stored, AtDest
  <2> QED
    BY <2>1, <2>2, <2>3, StillSomewhere DEF IInv
<1>9. SourceEnds'
  BY DEF IInv, TypeOK, SourceEnds, SrcSendEof, SrcWorkerFree
<1> QED
  BY <1>1, <1>2, <1>3, <1>4, <1>5, <1>6, <1>7, <1>8, <1>9 DEF IInv

LEMMA StepBreak ==
  ASSUME IInv, NEW w \in Workers, Break(w)
  PROVE  IInv'
<1>p. PICK n \in 0 .. Len(chan[w]) : chan' = [chan EXCEPT ![w] = SubSeq(@, 1, n)]
  BY Zenon DEF Break
<1>c. /\ chan' \in [Workers -> Seq(Packets)]
      /\ \A v \in Workers : v # w => chan'[v] = chan[v]
      /\ Len(chan'[w]) = n
      /\ \A i \in 1 .. n : chan'[w][i] = chan[w][i]
  BY Zenon, <1>p, Truncated DEF IInv
<1>l. \A v \in Workers : Len(chan[v]) \in Nat /\ Len(chan'[v]) \in Nat
  BY <1>c DEF IInv, TypeOK
<1>i. \A v \in Workers : \A i \in 1 .. Len(chan'[v]) :
        i \in 1 .. Len(chan[v]) /\ chan'[v][i] = chan[v][i]
  BY <1>c, <1>l
<1>o. \A v \in Workers, b \in Blocks, i \in Nat : OnChan(v, i, b)' => OnChan(v, i, b)
  BY <1>i DEF OnChan
<1>1. TypeOK'
  BY <1>c DEF IInv, TypeOK, Break, src, dst
<1>2. SourceOrder' /\ SourceEnds' /\ DestOrder'
  BY SourceOrderKept, SourceEndsKept, DestOrderKept
  DEF IInv, Break, src, dst
<1>3. EofIsLast'
  BY DEF IInv, TypeOK, EofIsLast, EofTasked, Break, src, dst
<1>4. Reported'
  BY DEF IInv, TypeOK, Reported, EofTasked, Break, src, dst
<1>5. OnePlace'
  BY <1>o, FewerPlaces DEF IInv, Break, src, dst, AtSource, AtDest, Stored
<1>6. AllGood'
  BY DEF IInv, TypeOK, AllGood, Break, src, dst
<1>7. NothingLost'
  <2>1. UNCHANGED <<serrors, derrors, canceled, dpc, sop>>
    BY DEF Break, src, dst
  <2>2. CASE n = Len(chan[w])
    <3>1. \A v \in Workers : CutOff(v) => CutOff(v)'
      BY <1>c, <2>2 DEF CutOff, Break, dst
    <3>2. \A v \in Workers, b \in Blocks, i \in Nat : OnChan(v, i, b) => OnChan(v, i, b)'
      BY <1>c, <2>2 DEF OnChan
    <3>3. \A b \in Blocks : Somewhere(b) => Somewhere(b)'
      BY <3>2 DEF Somewhere, Break, src, dst, AtSource, AtDest, Stored
    <3> QED
      BY <2>1, <3>1, <3>3, StillSomewhere DEF IInv
  <2>3. CASE n < Len(chan[w])
    <3>1. ~deof[w] /\ \A i \in 1 .. n : chan[w][i] # Eof
      BY <1>l, <2>3 DEF IInv, EofIsLast
    <3>2. CutOff(w)'
      BY <1>c, <3>1 DEF CutOff, Break, dst
    <3> QED
      BY <3>2 DEF NothingLost
  <2> QED
    BY <1>l, <2>2, <2>3
<1> QED
  BY <1>1, <1>2, <1>3, <1>4, <1>5, <1>6, <1>7 DEF IInv

=============================================================================
