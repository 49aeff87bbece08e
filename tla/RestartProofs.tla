---------------------------- MODULE RestartProofs ----------------------------
(***************************************************************************)
(* A resumed copy loses nothing: for every queue depth, number of blocks,  *)
(* crashes and failing writes, the offset in the restart file never passes *)
(* a block that is not in the destination file, and a copy declared        *)
(* complete is whole, in the build that keeps the lowest offset in a       *)
(* register (Reloads is FALSE).                                            *)
(***************************************************************************)
EXTENDS Restart, TLAPS

Cookies == [says : {"nothing", "completed", "offset"}, offset : 0 .. NumBlocks]
Monitors == [at : {"sleep", "scan"}, lowest : Workers, value : -1 .. NumBlocks,
             scanned : Workers]

TypeOK ==
  /\ written \in SUBSET Blocks
  /\ cookie \in Cookies
  /\ up \in {"down", "starting", "running", "ended"}
  /\ initial \in 0 .. NumBlocks /\ next \in 0 .. NumBlocks
  /\ queue \in [Workers -> Seq(0 .. NumBlocks)]
  /\ pc \in [Workers -> {"idle", "receiving", "writing", "eof"}]
  /\ offset \in [Workers -> -1 .. NumBlocks]
  /\ tdAbort \in BOOLEAN
  /\ monitor \in Monitors
  /\ lock \in {"free", "monitor"}

\* The connections carry blocks in the order in which they were assigned, the
\* block in the hands of a worker comes before those on its connection, and
\* nothing follows an EOF.
QueueInOrder(w) ==
  /\ offset[w] <= next
  /\ pc[w] = "writing" => offset[w] \in Blocks
  /\ \A i \in 1 .. Len(queue[w]) :
       /\ offset[w] <= queue[w][i] /\ queue[w][i] <= next
       /\ queue[w][i] = Eof => i = Len(queue[w]) /\ next = NumBlocks
       /\ \A j \in 1 .. Len(queue[w]) : i <= j => queue[w][i] <= queue[w][j]
  /\ pc[w] = "eof" => Len(queue[w]) = 0 /\ next = NumBlocks

QueuesInOrder == \A w \in Workers : QueueInOrder(w)

\* Worker w still has to write block b, or has failed to and keeps its offset.
Owes(w, b) ==
  \/ \E i \in 1 .. Len(queue[w]) : queue[w][i] = b
  \/ offset[w] = b /\ (pc[w] = "writing" \/ (pc[w] = "idle" /\ tdAbort))

\* No block that was assigned is forgotten.
BlocksAccounted ==
  /\ initial <= next
  /\ \A b \in Blocks : b < initial => b \in written
  /\ \A b \in Blocks :
       b < next => b \in written \/ \E w \in Workers : Owes(w, b)

\* What the monitor has found so far does not pass a missing block, unless a
\* worker that it has still to look at owes the block.
ScanIsSafe ==
  /\ monitor.at = "scan" <=> lock = "monitor"
  /\ up \in {"starting", "ended"} => lock = "free"
  /\ monitor.at = "scan" =>
       /\ monitor.value <= next
       /\ \A b \in Blocks : b \notin written =>
            \/ monitor.value <= b
            \/ \E w \in Workers : w > monitor.scanned /\ Owes(w, b)

\* The inductive invariant.
IInv ==
  /\ TypeOK /\ QueuesInOrder /\ BlocksAccounted /\ ScanIsSafe
  /\ RestartPointIsSafe /\ CompleteMeansWritten
  /\ cookie = Completed <=> up = "ended"

-----------------------------------------------------------------------------
\* The records that the actions build have their types.
LEMMA RecordTypes ==
  /\ Asleep \in Monitors /\ NoCookie \in Cookies /\ Completed \in Cookies
  /\ \A n \in 0 .. NumBlocks : OffsetCookie(n) \in Cookies
BY RestartAssumption
   DEF Asleep, Monitors, NoCookie, Completed, OffsetCookie, Cookies, Workers

\* Connections with nothing on them.
LEMMA EmptyQueues ==
  /\ [w \in Workers |-> <<>>] \in [Workers -> Seq(0 .. NumBlocks)]
  /\ \A w \in Workers : [v \in Workers |-> <<>>][w] = <<>>
  /\ 1 .. Len(<<>>) = {}
<1>1. <<>> \in Seq(0 .. NumBlocks) /\ Len(<<>>) = 0
  OBVIOUS
<1> QED
  BY <1>1

\* The offset of a worker is not beyond a block that it owes.
LEMMA OffsetBelowDebt ==
  ASSUME QueuesInOrder, NEW w \in Workers, NEW b, Owes(w, b), TypeOK
  PROVE  offset[w] <= b
BY DEF QueuesInOrder, QueueInOrder, Owes, TypeOK

\* Initially nothing is written, assigned or recorded.
LEMMA InitInvariant == Init => IInv
<1> SUFFICES ASSUME Init PROVE IInv
  OBVIOUS
<1> USE RestartAssumption DEF Init
<1>1. TypeOK
  <2>1. queue \in [Workers -> Seq(0 .. NumBlocks)]
    BY EmptyQueues
  <2>2. /\ pc \in [Workers -> {"idle", "receiving", "writing", "eof"}]
        /\ offset \in [Workers -> -1 .. NumBlocks]
    OBVIOUS
  <2>3. /\ monitor \in Monitors /\ cookie \in Cookies
        /\ initial \in 0 .. NumBlocks /\ next \in 0 .. NumBlocks
    BY RecordTypes
  <2> QED
    BY <2>1, <2>2, <2>3, Zenon DEF TypeOK
<1>2. QueuesInOrder
  BY EmptyQueues DEF QueuesInOrder, QueueInOrder
<1>3. BlocksAccounted
  BY DEF BlocksAccounted, Blocks
<1>4. ScanIsSafe
  BY DEF ScanIsSafe, Asleep
<1>5. RestartPointIsSafe /\ CompleteMeansWritten /\ (cookie = Completed <=> up = "ended")
  BY DEF RestartPointIsSafe, CompleteMeansWritten, NoCookie, Completed
<1> QED
  BY <1>1, <1>2, <1>3, <1>4, <1>5 DEF IInv

\* A resumed copy starts at the recorded offset, below which all is written.
LEMMA StartStep ==
  ASSUME IInv, Start
  PROVE  IInv'
<1> USE RestartAssumption DEF IInv, Start, RestartOffset, FirstBlock
<1>0. cookie.offset \in 0 .. NumBlocks
  BY DEF TypeOK, Cookies
<1>1. TypeOK'
  <2>1. (queue \in [Workers -> Seq(0 .. NumBlocks)])'
    BY EmptyQueues
  <2>2. /\ (pc \in [Workers -> {"idle", "receiving", "writing", "eof"}])'
        /\ (offset \in [Workers -> -1 .. NumBlocks])'
    OBVIOUS
  <2> QED
    BY <1>0, <2>1, <2>2, RecordTypes, Zenon DEF TypeOK
<1>2. QueuesInOrder'
  BY <1>0, EmptyQueues DEF QueuesInOrder, QueueInOrder
<1>3. BlocksAccounted'
  BY <1>0 DEF BlocksAccounted, RestartPointIsSafe, Blocks
<1>4. ScanIsSafe'
  BY DEF ScanIsSafe, Asleep
<1>5. RestartPointIsSafe' /\ CompleteMeansWritten' /\ (cookie = Completed <=> up = "ended")'
  BY DEF RestartPointIsSafe, CompleteMeansWritten, NoCookie, Completed
<1> QED
  BY <1>1, <1>2, <1>3, <1>4, <1>5

\* The initial offset that is recorded is the one the run started from.
LEMMA CreateStep ==
  ASSUME IInv, CreateRestartFile
  PROVE  IInv'
<1> USE RestartAssumption DEF IInv, CreateRestartFile, copy, Workers, Blocks, Eof, RecordedOffset
<1>1. TypeOK'
  BY RecordTypes DEF TypeOK
<1>2. QueuesInOrder'
  BY DEF QueuesInOrder, QueueInOrder
<1>3. BlocksAccounted'
  BY DEF BlocksAccounted, Owes
<1>4. ScanIsSafe'
  BY DEF ScanIsSafe, Owes
<1>5. RestartPointIsSafe' /\ CompleteMeansWritten' /\ (cookie = Completed <=> up = "ended")'
  BY DEF RestartPointIsSafe, CompleteMeansWritten, BlocksAccounted, TypeOK,
         OffsetCookie, Completed
<1> QED
  BY <1>1, <1>2, <1>3, <1>4, <1>5

\* A crash changes neither file.
LEMMA CrashStep ==
  ASSUME IInv, Crash
  PROVE  IInv'
<1> USE DEF IInv, Crash, copy, file
<1>1. TypeOK'
  BY DEF TypeOK
<1>2. QueuesInOrder'
  BY DEF QueuesInOrder, QueueInOrder
<1>3. BlocksAccounted'
  BY DEF BlocksAccounted, Owes
<1>4. ScanIsSafe'
  BY DEF ScanIsSafe, Owes
<1>5. RestartPointIsSafe' /\ CompleteMeansWritten' /\ (cookie = Completed <=> up = "ended")'
  BY DEF RestartPointIsSafe, CompleteMeansWritten
<1> QED
  BY <1>1, <1>2, <1>3, <1>4, <1>5

-----------------------------------------------------------------------------
\* A step that settles a debt only by writing the block keeps the account and
\* what the monitor has found.
LEMMA DebtsKept ==
  ASSUME TypeOK, BlocksAccounted, ScanIsSafe, next' \in Nat, next <= next',
         initial' = initial, monitor' = monitor, lock' = lock, up' = up,
         written \subseteq written',
         \A v \in Workers, b \in Blocks :
            Owes(v, b) => b \in written' \/ Owes(v, b)',
         \A b \in Blocks :
            next <= b /\ b < next' => \E v \in Workers : Owes(v, b)'
  PROVE  BlocksAccounted' /\ ScanIsSafe'
<1>1. BlocksAccounted'
  BY DEF BlocksAccounted, TypeOK, Blocks
<1>2. ScanIsSafe'
  <2>1. monitor.value \in Int
    BY DEF TypeOK, Monitors
  <2> QED
    BY <2>1 DEF ScanIsSafe, TypeOK
<1> QED
  BY <1>1, <1>2

\* The elements of a queue.
LEMMA QueueElement ==
  ASSUME NEW S, NEW q \in Seq(S), NEW i \in 1 .. Len(q)
  PROVE  q[i] \in S
OBVIOUS

\* A worker that gets a task owes nothing but what is on its connection.
LEMMA TaskStep ==
  ASSUME IInv, NEW w \in Workers, Task(w)
  PROVE  IInv'
<1> USE DEF IInv, Task, file
<1>1. TypeOK'
  <2>1. /\ (pc \in [Workers -> {"idle", "receiving", "writing", "eof"}])'
        /\ (offset \in [Workers -> -1 .. NumBlocks])'
    BY RestartAssumption DEF TypeOK
  <2> QED
    BY <2>1 DEF TypeOK
<1>2. QueuesInOrder'
  <2> SUFFICES ASSUME NEW v \in Workers PROVE QueueInOrder(v)'
    BY DEF QueuesInOrder
  <2>1. /\ QueueInOrder(v) /\ queue[v] \in Seq(0 .. NumBlocks)
        /\ next \in 0 .. NumBlocks
    BY DEF QueuesInOrder, TypeOK
  <2>2. queue' = queue /\ next' = next
    OBVIOUS
  <2>3. \/ pc'[v] = "receiving" /\ offset'[v] = -1
        \/ pc'[v] = pc[v] /\ offset'[v] = offset[v]
    BY DEF TypeOK
  <2>4. \A i \in 1 .. Len(queue[v]) : -1 <= queue[v][i]
    <3>1. \A i \in 1 .. Len(queue[v]) : queue[v][i] \in 0 .. NumBlocks
      BY <2>1, QueueElement, Zenon
    <3> QED
      BY <3>1
  <2>5. -1 <= next
    BY <2>1
  <2> HIDE DEF IInv, Task
  <2> QED
    BY <2>1, <2>2, <2>3, <2>4, <2>5 DEF QueueInOrder
<1>3. \A v \in Workers, b \in Blocks : Owes(v, b) => Owes(v, b)'
  BY DEF Owes, TypeOK
<1>4. BlocksAccounted' /\ ScanIsSafe'
  <2>1. /\ next' \in Nat /\ next <= next' /\ written \subseteq written'
        /\ UNCHANGED <<initial, monitor, lock, up>>
    BY DEF TypeOK
  <2>2. \A b \in Blocks : ~(next <= b /\ b < next')
    BY DEF TypeOK, Blocks
  <2> HIDE DEF IInv, Task
  <2> QED
    BY <1>3, <2>1, <2>2, DebtsKept DEF IInv
<1>5. RestartPointIsSafe' /\ CompleteMeansWritten' /\ (cookie = Completed <=> up = "ended")'
  BY DEF RestartPointIsSafe, CompleteMeansWritten
<1> QED
  BY <1>1, <1>2, <1>4, <1>5

\* A write pays the debt, a write that fails or is left out keeps it.
LEMMA WriteStep ==
  ASSUME IInv, NEW w \in Workers, WriteBlock(w)
  PROVE  IInv'
<1> USE DEF IInv, WriteBlock
<1>0. offset[w] \in Blocks
  BY DEF QueuesInOrder, QueueInOrder
<1>1. TypeOK'
  BY <1>0, Zenon DEF TypeOK
<1>2. QueuesInOrder'
  BY DEF QueuesInOrder, QueueInOrder, TypeOK
<1>3. \A v \in Workers, b \in Blocks :
        Owes(v, b) => b \in written' \/ Owes(v, b)'
  BY DEF Owes, TypeOK
<1>4. BlocksAccounted' /\ ScanIsSafe'
  <2>1. /\ next' \in Nat /\ next <= next' /\ written \subseteq written'
        /\ UNCHANGED <<initial, monitor, lock, up>>
    BY DEF TypeOK
  <2>2. \A b \in Blocks : ~(next <= b /\ b < next')
    BY DEF TypeOK, Blocks
  <2> HIDE DEF IInv, WriteBlock
  <2> QED
    BY <1>3, <2>1, <2>2, DebtsKept DEF IInv
<1>5. RestartPointIsSafe' /\ CompleteMeansWritten' /\ (cookie = Completed <=> up = "ended")'
  BY <1>1 DEF RestartPointIsSafe, CompleteMeansWritten, TypeOK
<1> QED
  BY <1>1, <1>2, <1>4, <1>5

\* When all workers have seen EOF nobody owes a block.
LEMMA CompleteStep ==
  ASSUME IInv, Complete
  PROVE  IInv'
<1> USE DEF IInv, Complete, copy
<1>1. TypeOK'
  BY RecordTypes DEF TypeOK
<1>2. QueuesInOrder'
  BY DEF QueuesInOrder, QueueInOrder
<1>3. BlocksAccounted'
  BY DEF BlocksAccounted, Owes
<1>4. ScanIsSafe'
  BY DEF ScanIsSafe, Owes
<1>5. written = Blocks
  <2>1. ASSUME NEW v \in Workers, NEW b \in Blocks PROVE ~Owes(v, b)
    <3>1. pc[v] = "eof" /\ Len(queue[v]) = 0
      BY DEF QueuesInOrder, QueueInOrder
    <3> QED
      BY <3>1 DEF Owes
  <2>2. next = NumBlocks
    BY RestartAssumption DEF QueuesInOrder, QueueInOrder, Workers
  <2>3. \A b \in Blocks : b < next
    BY <2>2, RestartAssumption DEF Blocks
  <2>4. \A b \in Blocks : b \in written
    BY <2>1, <2>3 DEF BlocksAccounted
  <2> QED
    BY <2>4, Zenon DEF TypeOK
<1>6. RestartPointIsSafe' /\ CompleteMeansWritten' /\ (cookie = Completed <=> up = "ended")'
  BY <1>5 DEF RestartPointIsSafe, CompleteMeansWritten, Completed
<1> QED
  BY <1>1, <1>2, <1>3, <1>4, <1>6

-----------------------------------------------------------------------------
\* The first worker that the monitor looks at does not pass what it owes.
LEMMA WakeUpStep ==
  ASSUME IInv, WakeUp
  PROVE  IInv'
<1> USE RestartAssumption DEF IInv, WakeUp, MayRecord, file, copy
<1>0. 1 \in Workers /\ offset[1] \in -1 .. NumBlocks /\ offset[1] <= next
  BY DEF QueuesInOrder, QueueInOrder, TypeOK, Workers
<1>1. TypeOK'
  <2>1. monitor' \in Monitors
    BY <1>0 DEF Monitors
  <2> QED
    BY <2>1 DEF TypeOK
<1>2. QueuesInOrder'
  BY DEF QueuesInOrder, QueueInOrder
<1>3. BlocksAccounted'
  BY DEF BlocksAccounted, Owes
<1>4. ScanIsSafe'
  <2>1. ASSUME NEW b \in Blocks, b \notin written
        PROVE  offset[1] <= b \/ \E v \in Workers : v > 1 /\ Owes(v, b)
    <3>1. CASE next <= b
      BY <1>0, <3>1 DEF TypeOK, Blocks
    <3>2. CASE b < next
      <4>1. PICK v \in Workers : Owes(v, b)
        BY <2>1, <3>2 DEF BlocksAccounted
      <4>2. offset[v] <= b
        BY <4>1, OffsetBelowDebt
      <4> QED
        BY <4>1, <4>2 DEF Workers
    <3> QED
      BY <3>1, <3>2 DEF TypeOK, Blocks
  <2>2. /\ monitor'.at = "scan" /\ monitor'.value = offset[1]
        /\ monitor'.scanned = 1 /\ lock' = "monitor" /\ up' = "running"
    OBVIOUS
  <2>3. \A v \in Workers, b \in Blocks : Owes(v, b) => Owes(v, b)'
    BY DEF Owes
  <2> QED
    BY <1>0, <2>1, <2>2, <2>3 DEF ScanIsSafe
<1>5. RestartPointIsSafe' /\ CompleteMeansWritten' /\ (cookie = Completed <=> up = "ended")'
  BY DEF RestartPointIsSafe, CompleteMeansWritten
<1> QED
  BY <1>1, <1>2, <1>3, <1>4, <1>5

\* The search keeps the lower of two offsets, so that a debt of the worker it
\* passes is respected too.
LEMMA ScanStep ==
  ASSUME IInv, Scan, ~Reloads
  PROVE  IInv'
<1> USE RestartAssumption DEF IInv, Scan, file, copy
<1> DEFINE cur == monitor.scanned + 1
<1>0. /\ cur \in Workers /\ offset[cur] \in -1 .. NumBlocks /\ offset[cur] <= next
      /\ monitor.value \in -1 .. NumBlocks /\ monitor.lowest \in Workers
      /\ next \in 0 .. NumBlocks
  BY DEF QueuesInOrder, QueueInOrder, TypeOK, Monitors, Workers
<1>a. /\ monitor'.at = "scan" /\ monitor'.scanned = cur
      /\ monitor'.lowest \in {cur, monitor.lowest}
      /\ monitor'.value = IF offset[cur] < monitor.value
                          THEN offset[cur] ELSE monitor.value
      /\ monitor' = [at |-> "scan", lowest |-> monitor'.lowest,
                     value |-> monitor'.value, scanned |-> cur]
  BY Zenon DEF Lower, LowestOffset, TypeOK, Monitors
<1>1. TypeOK'
  <2>1. monitor' \in Monitors
    BY <1>0, <1>a, Zenon DEF Monitors
  <2> QED
    BY <2>1 DEF TypeOK
<1>2. QueuesInOrder'
  BY DEF QueuesInOrder, QueueInOrder
<1>3. BlocksAccounted'
  BY DEF BlocksAccounted, Owes
<1>4. ScanIsSafe'
  <2>1. ASSUME NEW b \in Blocks, b \notin written
        PROVE  monitor'.value <= b \/ \E v \in Workers : v > cur /\ Owes(v, b)
    <3>1. CASE monitor.value <= b
      BY <1>0, <1>a, <3>1 DEF Blocks
    <3>2. CASE \E v \in Workers : v > monitor.scanned /\ Owes(v, b)
      <4>1. PICK v \in Workers : v > monitor.scanned /\ Owes(v, b)
        BY <3>2
      <4>2. offset[v] <= b
        BY <4>1, OffsetBelowDebt
      <4>3. CASE v = cur
        BY <1>0, <1>a, <4>2, <4>3 DEF Blocks
      <4>4. CASE v # cur
        <5>1. monitor.scanned \in Int /\ v \in Int
          BY DEF TypeOK, Monitors, Workers
        <5>2. v > cur
          BY <4>1, <4>4, <5>1
        <5> QED
          BY <4>1, <5>2
      <4> QED
        BY <4>3, <4>4
    <3> QED
      BY <2>1, <3>1, <3>2 DEF ScanIsSafe
  <2>2. \A v \in Workers, b \in Blocks : Owes(v, b) => Owes(v, b)'
    BY DEF Owes
  <2>3. monitor'.value <= next /\ lock = "monitor" /\ up \notin {"starting", "ended"}
    BY <1>0, <1>a DEF ScanIsSafe
  <2> QED
    BY <1>a, <2>1, <2>2, <2>3 DEF ScanIsSafe
<1>5. RestartPointIsSafe' /\ CompleteMeansWritten' /\ (cookie = Completed <=> up = "ended")'
  BY DEF RestartPointIsSafe, CompleteMeansWritten
<1> QED
  BY <1>1, <1>2, <1>3, <1>4, <1>5

\* When every worker has been looked at, every missing block is at or above
\* the offset that is recorded.
LEMMA RecordStep ==
  ASSUME IInv, Record, ~Reloads
  PROVE  IInv'
<1> USE RestartAssumption DEF IInv, Record, LowestOffset, LockAfterRecord, copy
<1>0. /\ monitor.value \in -1 .. NumBlocks /\ initial \in 0 .. NumBlocks
      /\ lock = "monitor" /\ up \notin {"starting", "ended"}
  BY DEF TypeOK, Monitors, ScanIsSafe
<1> DEFINE recorded == RecordedOffset(monitor.value)
<1>a. recorded \in 0 .. NumBlocks /\ recorded \in {monitor.value, initial}
  BY <1>0 DEF RecordedOffset
<1>b. cookie' = OffsetCookie(recorded)
  OBVIOUS
<1>c. ASSUME NEW b \in Blocks, b < recorded PROVE b \in written
  <2>1. CASE recorded = initial
    BY <1>c, <2>1 DEF BlocksAccounted
  <2>2. CASE recorded = monitor.value
    <3>1. ~(monitor.value <= b)
      BY <1>0, <1>c, <2>2 DEF Blocks
    <3>2. ~ \E v \in Workers : v > monitor.scanned
      BY DEF Workers
    <3> QED
      BY <3>1, <3>2 DEF ScanIsSafe
  <2> QED
    BY <1>a, <2>1, <2>2
<1>1. TypeOK'
  <2>1. cookie' \in Cookies /\ monitor' \in Monitors
    BY <1>a, <1>b, RecordTypes
  <2> HIDE DEF LowestOffset
  <2> QED
    BY <2>1 DEF TypeOK
<1>2. QueuesInOrder'
  BY DEF QueuesInOrder, QueueInOrder
<1>3. BlocksAccounted'
  BY DEF BlocksAccounted, Owes
<1>4. ScanIsSafe'
  BY DEF ScanIsSafe, Asleep
<1>5. RestartPointIsSafe'
  <2>1. cookie'.offset = recorded
    BY <1>b DEF OffsetCookie
  <2>2. ASSUME NEW b \in 0 .. recorded - 1 PROVE b \in Blocks /\ b < recorded
    BY <1>a DEF Blocks
  <2> QED
    BY <1>c, <2>1, <2>2 DEF RestartPointIsSafe
<1>6. CompleteMeansWritten' /\ (cookie = Completed <=> up = "ended")'
  BY <1>0, <1>b DEF CompleteMeansWritten, OffsetCookie, Completed
<1> QED
  BY <1>1, <1>2, <1>3, <1>4, <1>5, <1>6

-----------------------------------------------------------------------------
\* What Append does to the queue of a connection.
LEMMA AppendQueue ==
  ASSUME NEW q \in Seq(0 .. NumBlocks), NEW x \in 0 .. NumBlocks
  PROVE  /\ Append(q, x) \in Seq(0 .. NumBlocks)
         /\ Len(q) \in Nat /\ Len(Append(q, x)) = Len(q) + 1
         /\ \A i \in 1 .. Len(q) : Append(q, x)[i] = q[i]
         /\ Append(q, x)[Len(q) + 1] = x
OBVIOUS

\* What Head and Tail give of a queue that is not empty.
LEMMA TailQueue ==
  ASSUME NEW q \in Seq(0 .. NumBlocks), q # <<>>
  PROVE  /\ Tail(q) \in Seq(0 .. NumBlocks)
         /\ Len(q) \in Nat \ {0} /\ Len(Tail(q)) = Len(q) - 1
         /\ \A i \in 1 .. Len(q) - 1 : Tail(q)[i] = q[i + 1]
         /\ Head(q) = q[1] /\ Head(q) \in 0 .. NumBlocks
<1>1. Len(q) \in Nat \ {0}
  OBVIOUS
<1>2. Tail(q) \in Seq(0 .. NumBlocks) /\ Len(Tail(q)) = Len(q) - 1
  BY <1>1
<1>3. \A i \in 1 .. Len(q) - 1 : Tail(q)[i] = q[i + 1]
  BY <1>1
<1>4. q[1] \in 0 .. NumBlocks
  <2>1. 1 \in 1 .. Len(q)
    BY <1>1
  <2> QED
    BY <2>1, QueueElement, Zenon
<1>5. Head(q) = q[1]
  OBVIOUS
<1> QED
  BY <1>1, <1>2, <1>3, <1>4, <1>5

\* A block that is assigned goes behind everything its connection carries.
LEMMA AssignStep ==
  ASSUME IInv, NEW w \in Workers, Assign(w)
  PROVE  IInv'
<1> USE RestartAssumption DEF IInv
<1>0. /\ queue \in [Workers -> Seq(0 .. NumBlocks)] /\ next \in 0 .. NumBlocks
      /\ offset \in [Workers -> -1 .. NumBlocks]
  BY DEF TypeOK
<1>1. /\ next' \in 0 .. NumBlocks /\ next <= next'
      /\ queue' = [queue EXCEPT ![w] = Append(queue[w], next)]
      /\ \/ next < NumBlocks /\ next' = next + 1
         \/ /\ next = NumBlocks /\ next' = next /\ pc[w] # "eof"
            /\ \A i \in 1 .. Len(queue[w]) : queue[w][i] # Eof
  BY <1>0 DEF Assign, Eof
<1>2. UNCHANGED <<written, cookie, up, initial, pc, offset, tdAbort, monitor, lock>>
  BY DEF Assign, file
<1>3. TypeOK'
  <2>1. queue' \in [Workers -> Seq(0 .. NumBlocks)]
    BY <1>0, <1>1, AppendQueue
  <2> QED
    BY <1>1, <1>2, <2>1 DEF TypeOK
<1>4. QueuesInOrder'
  <2> SUFFICES ASSUME NEW v \in Workers PROVE QueueInOrder(v)'
    BY DEF QueuesInOrder
  <2>1. /\ QueueInOrder(v) /\ queue[v] \in Seq(0 .. NumBlocks) /\ Len(queue[v]) \in Nat
        /\ \A i \in 1 .. Len(queue[v]) : queue[v][i] \in 0 .. NumBlocks
        /\ offset[v] \in -1 .. NumBlocks
    BY <1>0 DEF QueuesInOrder
  <2>2. CASE v # w
    <3>1. queue'[v] = queue[v]
      BY <1>0, <1>1, <2>2
    <3> QED
      BY <1>0, <1>1, <1>2, <2>1, <3>1 DEF QueueInOrder, Eof
  <2>3. CASE v = w
    <3> DEFINE q == queue'[w]
    <3>1. /\ Len(q) = Len(queue[w]) + 1 /\ q[Len(queue[w]) + 1] = next
          /\ \A i \in 1 .. Len(queue[w]) : q[i] = queue[w][i]
      BY <1>0, <1>1, AppendQueue
    <3> HIDE DEF q
    <3>2. pc[w] # "eof" /\ \A i \in 1 .. Len(queue[w]) : queue[w][i] # Eof
      BY <1>0, <1>1, <2>1, <2>3 DEF QueueInOrder
    <3>3. ASSUME NEW i \in 1 .. Len(q)
          PROVE  /\ offset[w] <= q[i] /\ q[i] <= next
                 /\ q[i] = Eof => i = Len(q) /\ next' = NumBlocks
                 /\ \A j \in 1 .. Len(q) : i <= j => q[i] <= q[j]
      <4>1. CASE i = Len(queue[w]) + 1
        BY <1>0, <1>1, <2>1, <2>3, <3>1, <4>1 DEF QueueInOrder, Eof
      <4>2. CASE i \in 1 .. Len(queue[w])
        <5>1. /\ q[i] = queue[w][i] /\ offset[w] <= q[i] /\ q[i] <= next /\ q[i] # Eof
          BY <2>1, <2>3, <3>1, <3>2, <4>2 DEF QueueInOrder
        <5>2. ASSUME NEW j \in 1 .. Len(q), i <= j PROVE q[i] <= q[j]
          <6>1. CASE j = Len(queue[w]) + 1
            BY <3>1, <5>1, <6>1
          <6>2. CASE j \in 1 .. Len(queue[w])
            BY <2>1, <2>3, <3>1, <4>2, <5>2, <6>2 DEF QueueInOrder
          <6> QED
            BY <2>1, <2>3, <3>1, <6>1, <6>2
        <5> QED
          BY <5>1, <5>2
      <4> QED
        BY <2>1, <2>3, <3>1, <4>1, <4>2
    <3>4. q \in Seq(0 .. NumBlocks)
      BY <1>3 DEF TypeOK, q
    <3>5. \A i \in 1 .. Len(q) : q[i] <= next'
      BY <1>0, <1>1, <3>3, <3>4
    <3>6. offset[w] <= next' /\ (pc[w] = "writing" => offset[w] \in Blocks)
      BY <1>0, <1>1, <2>1, <2>3 DEF QueueInOrder
    <3> QED
      BY <1>2, <2>3, <3>2, <3>3, <3>5, <3>6 DEF QueueInOrder, q
  <2> QED
    BY <2>2, <2>3
<1>5. \A v \in Workers, b \in Blocks : Owes(v, b) => Owes(v, b)'
  <2> SUFFICES ASSUME NEW v \in Workers, NEW b \in Blocks, Owes(v, b)
               PROVE  Owes(v, b)'
    OBVIOUS
  <2>1. ASSUME NEW i \in 1 .. Len(queue[v])
        PROVE  i \in 1 .. Len(queue'[v]) /\ queue'[v][i] = queue[v][i]
    <3>1. CASE v # w
      BY <1>0, <1>1, <3>1
    <3>2. CASE v = w
      BY <1>0, <1>1, <3>2, AppendQueue
    <3> QED
      BY <3>1, <3>2
  <2> QED
    BY <1>2, <2>1 DEF Owes
<1>6. ASSUME NEW b \in Blocks, next <= b, b < next'
      PROVE  \E v \in Workers : Owes(v, b)'
  <2>1. b = next
    BY <1>0, <1>1, <1>6 DEF Blocks
  <2>2. /\ Len(queue[w]) + 1 \in 1 .. Len(queue'[w])
        /\ queue'[w][Len(queue[w]) + 1] = next
    BY <1>0, <1>1, AppendQueue
  <2> QED
    BY <2>1, <2>2 DEF Owes
<1>7. BlocksAccounted' /\ ScanIsSafe'
  <2>1. next' \in Nat
    BY <1>1
  <2> QED
    BY <1>1, <1>2, <1>5, <1>6, <2>1, DebtsKept
<1>8. RestartPointIsSafe' /\ CompleteMeansWritten' /\ (cookie = Completed <=> up = "ended")'
  BY <1>2 DEF RestartPointIsSafe, CompleteMeansWritten
<1> QED
  BY <1>3, <1>4, <1>7, <1>8

\* The block that is received becomes the offset of the worker.
LEMMA ReceiveStep ==
  ASSUME IInv, NEW w \in Workers, Receive(w)
  PROVE  IInv'
<1> USE RestartAssumption DEF IInv
<1> DEFINE q == queue[w]
<1>0. /\ queue \in [Workers -> Seq(0 .. NumBlocks)] /\ next \in 0 .. NumBlocks
      /\ offset \in [Workers -> -1 .. NumBlocks]
      /\ pc \in [Workers -> {"idle", "receiving", "writing", "eof"}]
  BY DEF TypeOK
<1>1. /\ pc[w] = "receiving" /\ queue' = [queue EXCEPT ![w] = Tail(q)]
      /\ \/ /\ q[1] = Eof /\ pc' = [pc EXCEPT ![w] = "eof"] /\ offset' = offset
         \/ /\ q[1] # Eof /\ pc' = [pc EXCEPT ![w] = "writing"]
            /\ offset' = [offset EXCEPT ![w] = q[1]]
  <2>1. Head(q) = q[1]
    BY <1>0, TailQueue DEF Receive
  <2> QED
    BY <2>1 DEF Receive
<1>2. UNCHANGED <<written, cookie, up, initial, next, tdAbort, monitor, lock>>
  BY DEF Receive, file
<1>3. /\ Len(q) \in Nat \ {0} /\ Tail(q) \in Seq(0 .. NumBlocks)
      /\ Len(Tail(q)) = Len(q) - 1 /\ q[1] \in 0 .. NumBlocks
      /\ \A i \in 1 .. Len(q) - 1 : Tail(q)[i] = q[i + 1]
  BY <1>0, TailQueue DEF Receive
<1>4. TypeOK'
  <2>1. queue' \in [Workers -> Seq(0 .. NumBlocks)]
    BY <1>0, <1>1, <1>3
  <2>2. offset' \in [Workers -> -1 .. NumBlocks]
    <3>1. \A x \in 0 .. NumBlocks : [offset EXCEPT ![w] = x] \in [Workers -> -1 .. NumBlocks]
      BY <1>0
    <3> QED
      BY <1>0, <1>1, <1>3, <3>1, Zenon
  <2>3. pc' \in [Workers -> {"idle", "receiving", "writing", "eof"}]
    BY <1>0, <1>1, Zenon
  <2> QED
    BY <1>2, <2>1, <2>2, <2>3 DEF TypeOK
<1>5. QueuesInOrder'
  <2> SUFFICES ASSUME NEW v \in Workers PROVE QueueInOrder(v)'
    BY DEF QueuesInOrder
  <2>1. QueueInOrder(v) /\ QueueInOrder(w)
    BY DEF QueuesInOrder
  <2>2. CASE v # w
    <3>1. queue'[v] = queue[v] /\ offset'[v] = offset[v] /\ pc'[v] = pc[v]
      BY <1>0, <1>1, <2>2
    <3> QED
      BY <1>2, <2>1, <3>1 DEF QueueInOrder
  <2>3. CASE v = w
    <3> DEFINE t == queue'[w]
    <3>1. /\ Len(t) = Len(q) - 1 /\ \A i \in 1 .. Len(t) : t[i] = q[i + 1]
      BY <1>0, <1>1, <1>3
    <3>2. \/ pc'[w] = "eof" /\ q[1] = Eof /\ offset'[w] = offset[w]
          \/ pc'[w] = "writing" /\ q[1] # Eof /\ offset'[w] = q[1]
      BY <1>0, <1>1
    <3>3. 1 \in 1 .. Len(q) /\ q[1] <= next
      BY <1>3, <2>1 DEF QueueInOrder
    <3>a. offset[w] <= next /\ (q[1] = Eof => 1 = Len(q) /\ next = NumBlocks)
      BY <2>1, <3>3, Zenon DEF QueueInOrder
    <3>b. q[1] # Eof => q[1] \in Blocks
      BY <1>3 DEF Blocks, Eof
    <3> HIDE DEF t, q
    <3>4. /\ offset'[w] <= next
          /\ pc'[w] = "writing" => offset'[w] \in Blocks
          /\ pc'[w] = "eof" => Len(t) = 0 /\ next = NumBlocks
      BY <1>3, <3>1, <3>2, <3>3, <3>a, <3>b
    <3>5. ASSUME NEW i \in 1 .. Len(t)
          PROVE  /\ offset'[w] <= t[i] /\ t[i] <= next
                 /\ t[i] = Eof => i = Len(t) /\ next = NumBlocks
                 /\ \A j \in 1 .. Len(t) : i <= j => t[i] <= t[j]
      <4>1. i + 1 \in 1 .. Len(q) /\ 1 <= i + 1 /\ t[i] = q[i + 1]
        BY <1>3, <3>1
      <4>2. ASSUME NEW j \in 1 .. Len(t), i <= j PROVE t[i] <= t[j]
        <5>1. j + 1 \in 1 .. Len(q) /\ i + 1 <= j + 1 /\ t[j] = q[j + 1]
          BY <1>3, <3>1, <4>2
        <5> QED
          BY <2>1, <4>1, <5>1 DEF QueueInOrder, q
      <4>3. /\ offset[w] <= t[i] /\ t[i] <= next /\ q[1] <= t[i]
            /\ t[i] = Eof => i + 1 = Len(q) /\ next = NumBlocks
        BY <2>1, <3>3, <4>1 DEF QueueInOrder, q
      <4>4. offset'[w] <= t[i]
        BY <3>2, <4>3
      <4>5. i + 1 = Len(q) => i = Len(t)
        <5>1. Len(q) \in Nat /\ Len(t) = Len(q) - 1
          BY <1>3, <3>1, Zenon
        <5>2. i \in Int
          OBVIOUS
        <5> QED
          BY <5>1, <5>2
      <4> QED
        BY <4>2, <4>3, <4>4, <4>5
    <3> QED
      BY <1>2, <2>3, <3>4, <3>5 DEF QueueInOrder, t
  <2> QED
    BY <2>2, <2>3
<1>6. \A v \in Workers, b \in Blocks : Owes(v, b) => Owes(v, b)'
  <2> SUFFICES ASSUME NEW v \in Workers, NEW b \in Blocks, Owes(v, b)
               PROVE  Owes(v, b)'
    OBVIOUS
  <2>1. CASE v # w
    <3>1. queue'[v] = queue[v] /\ offset'[v] = offset[v] /\ pc'[v] = pc[v]
      BY <1>0, <1>1, <2>1
    <3> QED
      BY <1>2, <3>1 DEF Owes
  <2>2. CASE v = w
    <3>1. PICK i \in 1 .. Len(q) : q[i] = b
      BY <1>1, <2>2 DEF Owes
    <3>2. CASE i = 1
      <4>1. pc'[w] = "writing" /\ offset'[w] = b
        BY <1>0, <1>1, <3>1, <3>2 DEF Blocks, Eof
      <4> QED
        BY <2>2, <4>1 DEF Owes
    <3>3. CASE i # 1
      <4>1. i - 1 \in 1 .. Len(queue'[w]) /\ queue'[w][i - 1] = b
        BY <1>0, <1>1, <1>3, <3>1, <3>3
      <4> QED
        BY <2>2, <4>1 DEF Owes
    <3> QED
      BY <3>2, <3>3
  <2> QED
    BY <2>1, <2>2
<1>7. BlocksAccounted' /\ ScanIsSafe'
  <2>1. /\ next' \in Nat /\ next <= next' /\ written \subseteq written'
        /\ \A b \in Blocks : ~(next <= b /\ b < next')
    BY <1>0, <1>2 DEF Blocks
  <2> QED
    BY <1>2, <1>6, <2>1, DebtsKept
<1>8. RestartPointIsSafe' /\ CompleteMeansWritten' /\ (cookie = Completed <=> up = "ended")'
  BY <1>2 DEF RestartPointIsSafe, CompleteMeansWritten
<1> QED
  BY <1>4, <1>5, <1>7, <1>8

-----------------------------------------------------------------------------
\* A step of the build that keeps the lowest offset in a register preserves
\* the invariant.
LEMMA NextInvariant ==
  ASSUME IInv, [Next]_vars, ~Reloads
  PROVE  IInv'
<1>1. CASE UNCHANGED vars
  BY <1>1 DEF vars, file, copy, IInv, TypeOK, QueuesInOrder, QueueInOrder,
              BlocksAccounted, ScanIsSafe, Owes, RestartPointIsSafe,
              CompleteMeansWritten
<1>2. CASE \E w \in Workers : Assign(w) \/ Task(w) \/ Receive(w) \/ WriteBlock(w)
  BY <1>2, AssignStep, TaskStep, ReceiveStep, WriteStep
<1> QED
  BY <1>1, <1>2, StartStep, CreateStep, CrashStep, CompleteStep, WakeUpStep,
     ScanStep, RecordStep DEF Next

\* The invariant holds in every state of that build.
LEMMA Invariance == ~Reloads => (Spec => []IInv)
<1> SUFFICES ASSUME ~Reloads PROVE Spec => []IInv
  OBVIOUS
<1>1. IInv /\ [Next]_vars => IInv'
  BY NextInvariant
<1> QED
  BY InitInvariant, <1>1, PTL DEF Spec

\* For every queue depth, file size and number of interruptions: no matter
\* when the process dies, every block below the offset in the restart file is
\* in the destination file (restart.c:157), in the build that loads the lowest
\* offset once.
THEOREM RestartIsSafe == ~Reloads => (Spec => []RestartPointIsSafe)
<1>1. IInv => RestartPointIsSafe
  BY DEF IInv
<1> QED
  BY Invariance, <1>1, PTL

\* In that build a copy that is declared complete is whole, however often it
\* was interrupted and resumed (target_thread.c:85-110).
THEOREM CompletedCopyIsWhole == ~Reloads => (Spec => []CompleteMeansWritten)
<1>1. IInv => CompleteMeansWritten
  BY DEF IInv
<1> QED
  BY Invariance, <1>1, PTL
=============================================================================
