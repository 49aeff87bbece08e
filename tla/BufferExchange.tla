--------------------------- MODULE BufferExchange ---------------------------
(***************************************************************************)
(* The bx program: buffers travel round a sequence of targets, the first   *)
(* of which reads blocks of a file into them and the others write them     *)
(* out.  Every target has a queue of buffers and a queue of idle workers;  *)
(* its thread pairs one of each and releases the worker, which does the    *)
(* I/O, passes the buffer on and queues itself again.                      *)
(*                                                                         *)
(* Queue operations run under the queue's mutex and are single steps.  The *)
(* release of a worker is not protected by the worker's mutex, so its      *)
(* stores and its broadcast, and the worker's test and its wait, are       *)
(* separate steps.                                                         *)
(***************************************************************************)
EXTENDS Integers, Sequences, FiniteSets, Functions

CONSTANTS
  TargetSequence, \* --sequence: target numbers, the input target first
  SequenceIsLast, \* the command line ends with --sequence and its targets
  WorkersOf,      \* bx_td_number_of_worker_threads of each target
  NumBuffers,     \* Number_Of_Buffers
  NumBlocks,      \* transfers it takes to read the input file
  MaxFailures     \* bound: blocks of which pread or pwrite fails or comes up short

ASSUME ExchangeAssumption ==
  /\ TargetSequence \in Seq(Nat) /\ Len(TargetSequence) > 1
  /\ 0 \in Range(TargetSequence) /\ IsInjective(TargetSequence)
  /\ SequenceIsLast \in BOOLEAN
  /\ WorkersOf \in [Range(TargetSequence) -> Nat \ {0}]
  /\ NumBuffers \in Nat \ {0}
  /\ NumBlocks \in Nat \ {0} /\ MaxFailures \in Nat

BxTargets == Range(TargetSequence)
Input == TargetSequence[1]
Outputs == BxTargets \ {Input}
Final == TargetSequence[Len(TargetSequence)]

\* The target after t in the sequence, which closes on its first target.
After(t) ==
  IF t = Final THEN Input
  ELSE TargetSequence[1 + CHOOSE j \in 1 .. Len(TargetSequence) :
                            TargetSequence[j] = t]

\* bx_td_next_buffer_queue: get_sequence stops one target short when the
\* command line ends with the sequence, and leaves that target the zero of
\* the initial memset.
NextQueue(t) == IF t = Final /\ SequenceIsLast THEN 0 ELSE After(t)

Workers == UNION {{t} \X (1 .. WorkersOf[t]) : t \in BxTargets}
Buffers == 1 .. NumBuffers
None == 0

VARIABLES
  tpc, tw, tb, tn,  \* each Target Thread: place, worker and buffer in hand, count
  blk,              \* blocks the input target has scheduled
  bq, wq,           \* buffer queue and worker queue of each target
  wpc,              \* where each Worker Thread is
  released,         \* bx_wd_released
  terminate,        \* BX_WD_TERMINATE
  wbuf, wnext,      \* bx_wd_bufhdrp, bx_wd_next_buffer_queue
  block,            \* the block each buffer is for
  eof,              \* BX_BUFHDR_END_OF_FILE
  collected,        \* buffers the input target has taken back at the end
  good,             \* the buffer holds the data of its block
  file,             \* what each output holds of each block
  \* history
  failed,           \* blocks of which a read or a write failed
  misrouted         \* blocks whose buffer went to the queue of a wrong target

tvars == <<tpc, tw, tb, tn, blk, collected>>
wvars == <<wpc, released, terminate, wbuf, wnext>>
bvars == <<block, eof, good, file, failed, misrouted>>
vars == <<tvars, wvars, bvars, bq, wq>>

\* qb_init puts all buffers on the first target's queue; the structures of
\* the workers are zero.
Init ==
  /\ tpc = [t \in BxTargets |-> IF t = Input THEN "worker" ELSE "buffer"]
  /\ tw = [t \in BxTargets |-> <<t, 1>>] /\ tb = [t \in BxTargets |-> None]
  /\ tn = [t \in BxTargets |-> 0]
  /\ blk = 0
  /\ bq = [t \in BxTargets |-> IF t = Input THEN [i \in Buffers |-> i] ELSE <<>>]
  /\ wq = [t \in BxTargets |-> <<>>]
  /\ wpc = [w \in Workers |-> "start"]
  /\ released = [w \in Workers |-> FALSE]
  /\ terminate = [w \in Workers |-> FALSE]
  /\ wbuf = [w \in Workers |-> None] /\ wnext = [w \in Workers |-> 0]
  /\ block = [b \in Buffers |-> None] /\ eof = [b \in Buffers |-> FALSE]
  /\ collected = {}
  /\ good = [b \in Buffers |-> FALSE]
  /\ file = [t \in Outputs |-> [n \in 1 .. NumBlocks |-> "hole"]]
  /\ failed = {} /\ misrouted = {}

At(t, label) == tpc[t] = label
TGoto(t, label) == tpc' = [tpc EXCEPT ![t] = label]
WGoto(w, label) == wpc' = [wpc EXCEPT ![w] = label]

-----------------------------------------------------------------------------
(* Target Threads *)

\* bx_wd_dequeue: the input target first, an output target once it has a
\* buffer.
GetWorker(t) ==
  /\ At(t, "worker") /\ wq[t] # <<>>
  /\ t = Input => blk < NumBlocks
  /\ tw' = [tw EXCEPT ![t] = Head(wq[t])]
  /\ wq' = [wq EXCEPT ![t] = Tail(@)]
  /\ TGoto(t, IF t = Input THEN "buffer" ELSE "release")
  /\ UNCHANGED <<tb, tn, blk, collected, wvars, bvars, bq>>

\* bh_dequeue in target_input: the buffer gets the next transfer.
InputGetBuffer ==
  /\ At(Input, "buffer") /\ bq[Input] # <<>>
  /\ tb' = [tb EXCEPT ![Input] = Head(bq[Input])]
  /\ bq' = [bq EXCEPT ![Input] = Tail(@)]
  /\ block' = [block EXCEPT ![Head(bq[Input])] = blk + 1]
  /\ good' = [good EXCEPT ![Head(bq[Input])] = FALSE]
  /\ blk' = blk + 1
  /\ TGoto(Input, "release")
  /\ UNCHANGED <<tw, tn, collected, wvars, eof, file, failed, misrouted, wq>>

\* What target_output does with the buffer it took: data to write, or the end.
WithBufferBug(b) == IF block[b] = NumBlocks THEN "terminate" ELSE "worker"
WithBuffer(b) == IF eof[b] THEN "terminate" ELSE "worker"

\* bh_dequeue in target_output.
OutputGetBuffer(t) ==
  /\ t # Input /\ At(t, "buffer") /\ bq[t] # <<>>
  /\ tb' = [tb EXCEPT ![t] = Head(bq[t])]
  /\ bq' = [bq EXCEPT ![t] = Tail(@)]
  /\ TGoto(t, WithBuffer(Head(bq[t])))
  /\ UNCHANGED <<tw, tn, blk, collected, wvars, bvars, wq>>

\* The worker is pointed to the buffer and released, without its mutex.
Release(t) ==
  /\ At(t, "release")
  /\ wbuf' = [wbuf EXCEPT ![tw[t]] = tb[t]]
  /\ released' = [released EXCEPT ![tw[t]] = TRUE]
  /\ TGoto(t, "route")
  /\ UNCHANGED <<tw, tb, tn, blk, collected, wpc, terminate, wnext, bvars, bq,
                 wq>>

\* bx_wd_next_buffer_queue is stored after bx_wd_released.
Route(t) ==
  /\ At(t, "route")
  /\ wnext' = [wnext EXCEPT ![tw[t]] = NextQueue(t)]
  /\ TGoto(t, "wake")
  /\ UNCHANGED <<tw, tb, tn, blk, collected, wpc, released, terminate, wbuf,
                 bvars, bq, wq>>

\* pthread_cond_broadcast reaches the worker only if it already waits.
Wake(t) ==
  /\ At(t, "wake")
  /\ wpc' = [wpc EXCEPT ![tw[t]] = IF @ = "asleep" THEN "test" ELSE @]
  /\ TGoto(t, IF t = Input /\ blk < NumBlocks THEN "worker"
              ELSE IF t = Input THEN "terminate" ELSE "buffer")
  /\ UNCHANGED <<tw, tb, tn, blk, collected, released, terminate, wbuf, wnext,
                 bvars, bq, wq>>

\* TERMINATE is set and broadcast, but the worker is not released.
Terminate(t) ==
  /\ At(t, "terminate") /\ tn[t] < WorkersOf[t] /\ wq[t] # <<>>
  /\ tw' = [tw EXCEPT ![t] = Head(wq[t])]
  /\ wq' = [wq EXCEPT ![t] = Tail(@)]
  /\ terminate' = [terminate EXCEPT ![Head(wq[t])] = TRUE]
  /\ wpc' = [wpc EXCEPT ![Head(wq[t])] = IF @ = "asleep" THEN "test" ELSE @]
  /\ tn' = [tn EXCEPT ![t] = @ + 1]
  /\ UNCHANGED <<tpc, tb, blk, collected, released, wbuf, wnext, bvars, bq>>

\* The input target waits for all its buffers to come back.
CollectCountBug == NumBuffers - 1
CollectCount == NumBuffers

Collect ==
  /\ At(Input, "terminate") /\ tn[Input] = WorkersOf[Input]
  /\ Cardinality(collected) < CollectCount /\ bq[Input] # <<>>
  /\ tb' = [tb EXCEPT ![Input] = Head(bq[Input])]
  /\ bq' = [bq EXCEPT ![Input] = Tail(@)]
  /\ collected' = collected \cup {Head(bq[Input])}
  /\ UNCHANGED <<tpc, tw, tn, blk, wvars, bvars, wq>>

Flagged(b) == [eof EXCEPT ![b] = TRUE]

\* The last buffer collected is flagged; what is enqueued is the buffer the
\* last terminated worker used last.
Finish ==
  /\ At(Input, "terminate") /\ tn[Input] = WorkersOf[Input]
  /\ Cardinality(collected) = CollectCount
  /\ eof' = Flagged(tb[Input])
  /\ LET b == wbuf[tw[Input]]
         q == wnext[tw[Input]] IN
     IF b = None
     THEN TGoto(Input, "crash") /\ UNCHANGED <<bq, collected>>
     ELSE /\ bq' = [bq EXCEPT ![q] = Append(@, b)]
          /\ collected' = collected \ {b}
          /\ TGoto(Input, "done")
  /\ UNCHANGED <<tw, tb, tn, blk, wvars, block, good, file, failed, misrouted, wq>>

OutputDone(t) ==
  /\ t # Input /\ At(t, "terminate") /\ tn[t] = WorkersOf[t]
  /\ TGoto(t, "done")
  /\ UNCHANGED <<tw, tb, tn, blk, collected, wvars, bvars, bq, wq>>

-----------------------------------------------------------------------------
(* Worker Threads: worker_thread_main *)

\* bx_wd_enqueue, then the worker locks its mutex.
QueueSelf(w) ==
  /\ wpc[w] = "start"
  /\ wq' = [wq EXCEPT ![w[1]] = Append(@, w)]
  /\ WGoto(w, "test")
  /\ UNCHANGED <<tvars, released, terminate, wbuf, wnext, bvars, bq>>

ClearReleasedBug(w) == released
ClearReleased(w) == [released EXCEPT ![w] = FALSE]

\* while (1 != bx_wd_released): the test ...
Test(w) ==
  /\ wpc[w] = "test"
  /\ IF released[w]
     THEN /\ released' = ClearReleased(w)
          /\ WGoto(w, IF terminate[w] THEN "exit" ELSE "io")
     ELSE released' = released /\ WGoto(w, "wait")
  /\ UNCHANGED <<tvars, terminate, wbuf, wnext, bvars, bq, wq>>

\* ... and the pthread_cond_wait, which may also return without a broadcast.
Sleep(w) ==
  /\ wpc[w] = "wait"
  /\ WGoto(w, "asleep")
  /\ UNCHANGED <<tvars, released, terminate, wbuf, wnext, bvars, bq, wq>>
SpuriousWakeup(w) ==
  /\ wpc[w] = "asleep"
  /\ WGoto(w, "test")
  /\ UNCHANGED <<tvars, released, terminate, wbuf, wnext, bvars, bq, wq>>

\* pread of the buffer's block, or pwrite of the buffer to its place.  A failure
\* is printed, and the buffer goes on as if nothing had happened.
PerformIo(w) ==
  LET b == wbuf[w]
      n == block[b] IN
  /\ wpc[w] = "io"
  /\ \E ok \in BOOLEAN :
       /\ ok \/ Cardinality(failed) < MaxFailures
       /\ IF w[1] = Input
          THEN good' = [good EXCEPT ![b] = ok] /\ UNCHANGED file
          ELSE /\ file' = IF ok
                          THEN [file EXCEPT ![w[1]][n] = IF good[b] THEN "good" ELSE "stale"]
                          ELSE file
               /\ UNCHANGED good
       /\ failed' = IF ok THEN failed ELSE failed \cup {n}
  /\ WGoto(w, "pass")
  /\ UNCHANGED <<tvars, released, terminate, wbuf, wnext, block, eof, misrouted, bq,
                 wq>>

\* The buffer goes to the queue of the next target, and the worker round.
PassOn(w) ==
  /\ wpc[w] = "pass"
  /\ bq' = [bq EXCEPT ![wnext[w]] = Append(@, wbuf[w])]
  /\ misrouted' = IF wnext[w] = NextQueue(w[1]) THEN misrouted
                  ELSE misrouted \cup {block[wbuf[w]]}
  /\ WGoto(w, "start")
  /\ UNCHANGED <<tvars, released, terminate, wbuf, wnext, block, eof, good, file,
                 failed, wq>>

-----------------------------------------------------------------------------
TargetStep(t) ==
  \/ GetWorker(t) \/ OutputGetBuffer(t) \/ Release(t) \/ Route(t) \/ Wake(t)
  \/ Terminate(t) \/ OutputDone(t)
InputStep == InputGetBuffer \/ Collect \/ Finish
WorkerStep(w) ==
  QueueSelf(w) \/ Test(w) \/ Sleep(w) \/ PerformIo(w) \/ PassOn(w)

Next ==
  \/ InputStep
  \/ \E t \in BxTargets : TargetStep(t)
  \/ \E w \in Workers : WorkerStep(w) \/ SpuriousWakeup(w)

Spec == Init /\ [][Next]_vars

-----------------------------------------------------------------------------
(* Properties *)

HeldByTarget(t, b) ==
  /\ tb[t] = b
  /\ tpc[t] = "release" \/ (t # Input /\ tpc[t] \in {"worker", "terminate", "done"})
HeldByWorker(w, b) ==
  wbuf[w] = b /\ (released[w] \/ wpc[w] \in {"io", "pass"})

\* A buffer is always in exactly one place: once on one queue, or in the
\* hands of one target or one released worker, or collected at the end.  No
\* two I/Os ever use the same memory, and no buffer is lost.
BufferHasOneOwner ==
  \A b \in Buffers :
    1 = Cardinality({p \in BxTargets \X Buffers :
                       p[2] <= Len(bq[p[1]]) /\ bq[p[1]][p[2]] = b})
        + Cardinality({t \in BxTargets : HeldByTarget(t, b)})
        + Cardinality({w \in Workers : HeldByWorker(w, b)})
        + (IF b \in collected THEN 1 ELSE 0)

\* What an output holds of a block is what the input holds of it, unless an I/O on
\* that block failed: no buffer is filled for another block before it is written.
WritesWhatWasRead ==
  \A t \in Outputs, n \in 1 .. NumBlocks : file[t][n] = "stale" => n \in failed

\* "Now we wait for all the buffers to come back from the OUTPUT target at which
\* point we know that all the data has been written to the output device"
\* (bx_target_thread.c:180-182), but for the I/Os that failed.
Whole(n) == \A t \in Outputs : file[t][n] = "good"
AllWrittenAtEnd ==
  At(Input, "done") => \A n \in 1 .. NumBlocks : Whole(n) \/ n \in failed

\* It is true of the blocks whose buffers took the way round: the only other ones
\* are those of workers that ran before target_input or target_output had stored
\* bx_wd_next_buffer_queue (bx_target_thread.c:155-156, 235-236).
RoutedAreWritten ==
  At(Input, "done") =>
    \A n \in 1 .. NumBlocks : Whole(n) \/ n \in failed \cup misrouted

\* An output target that has the flagged buffer, on its queue or taken, has no
\* worker with a buffer left: TERMINATE, which target_output sets without releasing
\* the worker, cuts no write short.
Ending(t) == At(t, "terminate") \/ \E b \in Range(bq[t]) : eof[b]
EndsWithIdleWorkers ==
  \A w \in Workers, b \in Buffers :
    w[1] \in Outputs /\ Ending(w[1]) => ~HeldByWorker(w, b)
=============================================================================
