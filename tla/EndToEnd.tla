------------------------------ MODULE EndToEnd ------------------------------
(***************************************************************************)
(* An end-to-end copy: the Worker Threads of a source target read blocks   *)
(* and send each one over the worker's own TCP connection; the worker at   *)
(* the other end receives it and writes it at the offset the header names. *)
(* When all blocks are issued, every source worker sends an EOF packet,    *)
(* and the destination target ends its pass when all its workers have got  *)
(* theirs.                                                                 *)
(*                                                                         *)
(* With -stoponerror, which the transfer tools always give, a failed read  *)
(* or write aborts its target (td_abort); without it the error is printed  *)
(* and counted, and the pass goes on.                                      *)
(*                                                                         *)
(* A block is its sequence number and whether its content is what the file *)
(* holds.  Storage ordering is the subject of OrderedIo; the XNI transport *)
(* is not modelled here.                                                   *)
(***************************************************************************)
EXTENDS Integers, Sequences, FiniteSets

CONSTANTS
  QueueDepth,   \* td_queue_depth, the same on both sides
  NumOps,       \* td_target_ops of the source
  SocketBuffer, \* packets a connection holds before a sender blocks
  Troubles      \* what may happen together: "limit" (the time limit of the
                \* source expires), "read", "write" (one fails or comes up
                \* short), "break" (connections break)

ASSUME EndToEndAssumption ==
  /\ QueueDepth \in Nat \ {0} /\ NumOps \in Nat /\ SocketBuffer \in Nat \ {0}
  /\ Troubles \subseteq SUBSET {"limit", "read", "write", "break"}

Workers == 1 .. QueueDepth
Blocks == 0 .. NumOps - 1

VARIABLES
  trouble,     \* what may happen in this run
  stopOnError, \* GO_STOP_ON_ERROR, on both sides
  \* source
  spc,       \* the Target Thread
  sw,        \* the worker it got, or the next one to be given its EOF task
  sop,       \* tc_current_op_number
  savail,    \* td_any_worker_thread_available
  sbusy,     \* WTSYNC_BUSY of each worker
  swpc,      \* where each Worker Thread is
  sbuf,      \* its block: sequence number and content
  sstatus,   \* tc_current_io_status # 0
  serrno,    \* target_errno = XDD_RETURN_VALUE_IOERROR
  serrors,   \* tc_current_error_count # 0
  \* network
  chan,      \* packets in flight on each connection
  broken,    \* connections that broke
  \* destination
  dpc, dq, deofs, \* the Target Thread, its scan position and count of EOFs
  davail, dbusy, deof, dwpc, dbuf,
  derrors,   \* tc_current_error_count # 0
  canceled,  \* xgp->canceled of the destination
  file,      \* what the destination file holds of each block
  \* history
  sendFailed

config == <<trouble, stopOnError>>
src == <<spc, sw, sop, savail, sbusy, swpc, sbuf, sstatus, serrno, serrors,
         sendFailed>>
net == <<chan, broken>>
dst == <<dpc, dq, deofs, davail, dbusy, deof, dwpc, dbuf, derrors, canceled, file>>
vars == <<config, src, net, dst>>

NoBlock == [seq |-> -1, data |-> "none"]
Eof == [seq |-> -1, data |-> "eof"]

Init ==
  /\ trouble \in Troubles /\ stopOnError \in BOOLEAN
  /\ spc = "loop" /\ sw = 1 /\ sop = 0 /\ savail = QueueDepth
  /\ sbusy = [w \in Workers |-> FALSE]
  /\ swpc = [w \in Workers |-> "idle"]
  /\ sbuf = [w \in Workers |-> NoBlock]
  /\ sstatus = FALSE /\ serrno = FALSE
  /\ chan = [w \in Workers |-> <<>>] /\ broken = {}
  /\ dpc = "get" /\ dq = 1 /\ deofs = 0 /\ davail = QueueDepth
  /\ dbusy = [w \in Workers |-> FALSE] /\ deof = [w \in Workers |-> FALSE]
  /\ dwpc = [w \in Workers |-> "idle"]
  /\ dbuf = [w \in Workers |-> NoBlock]
  /\ derrors = FALSE /\ canceled = FALSE
  /\ file = [b \in Blocks |-> "hole"]
  /\ serrors = FALSE /\ sendFailed = FALSE

-----------------------------------------------------------------------------
(* Source: xdd_targetpass_e2e_loop_src *)

FirstFree(w) == ~sbusy[w] /\ \A v \in 1 .. w - 1 : sbusy[v]

\* xdd_get_any_available_worker_thread.
SrcGet ==
  /\ spc = "loop" /\ sop < NumOps
  /\ savail > 0
  /\ \E w \in Workers : FirstFree(w) /\ sw' = w
  /\ sbusy' = [sbusy EXCEPT ![sw'] = TRUE]
  /\ savail' = savail - 1
  /\ spc' = "got"
  /\ UNCHANGED <<sop, swpc, sbuf, sstatus, serrno, serrors, sendFailed, net,
                 dst>>

\* td_abort: with -stoponerror an I/O error stops the target and its workers.
SrcAbort == stopOnError /\ serrors

\* xdd_targetpass_e2e_task_setup_src, and the worker is released.
SrcIssue ==
  /\ spc = "got" /\ ~SrcAbort
  /\ swpc' = [swpc EXCEPT ![sw] = "read"]
  /\ sbuf' = [sbuf EXCEPT ![sw].seq = sop]
  /\ sop' = sop + 1
  /\ spc' = "loop"
  /\ UNCHANGED <<sw, savail, sbusy, sstatus, serrno, serrors, sendFailed,
                 net, dst>>

\* xdd_target_ttd_before_io_op finds the time limit expired: the loop is left
\* while the worker is marked busy.
SrcTimeLimit ==
  /\ "limit" \in trouble /\ spc = "got"
  /\ spc' = "eof" /\ sw' = 1
  /\ UNCHANGED <<sop, savail, sbusy, swpc, sbuf, sstatus, serrno, serrors,
                 sendFailed, net, dst>>

\* It finds td_abort set: the worker is given back and the loop left.
SrcStopped ==
  /\ spc = "got" /\ SrcAbort
  /\ sbusy' = [sbusy EXCEPT ![sw] = FALSE]
  /\ spc' = "eof" /\ sw' = 1
  /\ UNCHANGED <<sop, savail, swpc, sbuf, sstatus, serrno, serrors, sendFailed,
                 net, dst>>

SrcAllIssued ==
  /\ spc = "loop" /\ sop = NumOps
  /\ spc' = "eof" /\ sw' = 1
  /\ UNCHANGED <<sop, savail, sbusy, swpc, sbuf, sstatus, serrno, serrors,
                 sendFailed, net, dst>>

\* xdd_targetpass_e2e_eof_src: get each worker specifically, give it the EOF
\* task.
WorkerGot(w) == ~sbusy[w]

SrcEof ==
  /\ spc = "eof" /\ sw <= QueueDepth
  /\ WorkerGot(sw)
  /\ sbusy' = [sbusy EXCEPT ![sw] = TRUE]
  /\ swpc' = [swpc EXCEPT ![sw] = "sendEof"]
  /\ sw' = sw + 1
  /\ UNCHANGED <<spc, sop, savail, sbuf, sstatus, serrno, serrors,
                 sendFailed, net, dst>>

\* Every worker has been got once more.
SrcEnd ==
  /\ spc = "eof" /\ sw > QueueDepth
  /\ \A w \in Workers : ~sbusy[w]
  /\ serrno' = sstatus
  /\ spc' = "end"
  /\ UNCHANGED <<sw, sop, savail, sbusy, swpc, sbuf, sstatus, serrors,
                 sendFailed, net, dst>>

\* A source worker has finished its task and makes itself available.
SrcWorkerFree(w) ==
  /\ swpc' = [swpc EXCEPT ![w] = "idle"]
  /\ sbusy' = [sbusy EXCEPT ![w] = FALSE]
  /\ savail' = savail + 1

\* The block is read.  A short read leaves the rest of the buffer as it was, and
\* is sent all the same unless the error stops the target.
SrcRead(w) ==
  /\ swpc[w] = "read" /\ ~SrcAbort
  /\ \E data \in {"good", "stale"} :
       /\ data = "stale" => "read" \in trouble /\ ~stopOnError
       /\ sbuf' = [sbuf EXCEPT ![w].data = data]
       /\ serrors' = (serrors \/ data = "stale")
  /\ swpc' = [swpc EXCEPT ![w] = "send"]
  /\ UNCHANGED <<spc, sw, sop, savail, sbusy, sstatus, serrno, sendFailed, net,
                 dst>>

\* A read that returns nothing, or fails under -stoponerror: nothing is sent.
SrcReadError(w) ==
  /\ swpc[w] = "read" /\ "read" \in trouble /\ ~SrcAbort
  /\ SrcWorkerFree(w)
  /\ serrors' = TRUE
  /\ UNCHANGED <<spc, sw, sop, sbuf, sstatus, serrno, sendFailed, net, dst>>

\* Once td_abort is set, a worker neither reads nor sends what it has read.
SrcSkipRead(w) ==
  /\ swpc[w] = "read" /\ SrcAbort
  /\ SrcWorkerFree(w)
  /\ UNCHANGED <<spc, sw, sop, sbuf, sstatus, serrno, serrors, sendFailed, net,
                 dst>>

\* sendto may block while the connection is full; on a broken one it fails.
CanSend(w) == w \in broken \/ Len(chan[w]) < SocketBuffer
Transmit(w, packet) ==
  chan' = [chan EXCEPT ![w] = IF w \in broken THEN @ ELSE Append(@, packet)]

\* xdd_e2e_src_send: its status is not looked at.
SrcSend(w) ==
  /\ swpc[w] = "send" /\ CanSend(w)
  /\ Transmit(w, sbuf[w])
  /\ sendFailed' = (sendFailed \/ w \in broken)
  /\ SrcWorkerFree(w)
  /\ UNCHANGED <<spc, sw, sop, sbuf, sstatus, serrno, serrors, broken, dst>>

\* xdd_e2e_eof_source_side: a failure becomes the target's status.
EofStatusBug(w) == FALSE
EofStatus(w) == sstatus \/ w \in broken

SrcSendEof(w) ==
  /\ swpc[w] = "sendEof" /\ CanSend(w)
  /\ Transmit(w, Eof)
  /\ sstatus' = EofStatus(w)
  /\ SrcWorkerFree(w)
  /\ UNCHANGED <<spc, sw, sop, sbuf, serrno, serrors, sendFailed, broken,
                 dst>>

-----------------------------------------------------------------------------
(* The network *)

\* A connection breaks; packets at the end of the stream may be lost.
Break(w) ==
  /\ "break" \in trouble /\ w \notin broken
  /\ broken' = broken \cup {w}
  /\ \E n \in 0 .. Len(chan[w]) :
       chan' = [chan EXCEPT ![w] = SubSeq(@, 1, n)]
  /\ UNCHANGED <<src, dst>>

-----------------------------------------------------------------------------
(* Destination: xdd_targetpass_e2e_loop_dst *)

\* xdd_get_any_available_worker_thread: take one off the count, then scan.
TakeOne == davail - 1
DstTake ==
  /\ dpc = "get" /\ davail > 0
  /\ davail' = TakeOne
  /\ dpc' = "scan" /\ dq' = 1 /\ deofs' = 0
  /\ UNCHANGED <<dbusy, deof, dwpc, dbuf, derrors, canceled, file, src, net>>

\* Workers that have received their EOF are passed over; when all have, the
\* locator returns no worker.
PassOver(w) == dbusy[w] \/ deof[w]

DstScan ==
  /\ dpc = "scan" /\ dq <= QueueDepth /\ PassOver(dq)
  /\ deofs' = IF dbusy[dq] THEN deofs ELSE deofs + 1
  /\ IF deofs' = QueueDepth
     THEN dpc' = "drain" /\ dq' = 1
     ELSE dpc' = "scan" /\ dq' = dq + 1
  /\ UNCHANGED <<davail, dbusy, deof, dwpc, dbuf, derrors, canceled, file, src,
                 net>>

DstFound ==
  /\ dpc = "scan" /\ dq <= QueueDepth /\ ~PassOver(dq)
  /\ dbusy' = [dbusy EXCEPT ![dq] = TRUE]
  /\ dpc' = "got"
  /\ UNCHANGED <<dq, deofs, davail, deof, dwpc, dbuf, derrors, canceled, file,
                 src, net>>

DstNotFound ==
  /\ dpc = "scan" /\ dq > QueueDepth
  /\ dpc' = "get"
  /\ UNCHANGED <<dq, deofs, davail, dbusy, deof, dwpc, dbuf, derrors, canceled, file, src, net>>

DstAbort == stopOnError /\ derrors

\* The worker, back at its barrier, is released to receive a packet.
DstIssue ==
  /\ dpc = "got" /\ ~canceled /\ ~DstAbort /\ dwpc[dq] = "idle"
  /\ dwpc' = [dwpc EXCEPT ![dq] = "recv"]
  /\ dpc' = "get"
  /\ UNCHANGED <<dq, deofs, davail, dbusy, deof, dbuf, derrors, canceled, file,
                 src, net>>

\* A canceled end-to-end run ends in exit(2), which closes every connection.
Exit ==
  /\ dpc' = "exit"
  /\ broken' = Workers
  /\ chan' = [w \in Workers |-> <<>>]
DstCanceled ==
  /\ dpc = "got" /\ canceled
  /\ dbusy' = [dbusy EXCEPT ![dq] = FALSE]
  /\ Exit
  /\ UNCHANGED <<dq, deofs, davail, deof, dwpc, dbuf, derrors, canceled, file,
                 src>>

\* td_abort: the worker is given back and the others are waited for.
DstStopped ==
  /\ dpc = "got" /\ ~canceled /\ DstAbort
  /\ dbusy' = [dbusy EXCEPT ![dq] = FALSE]
  /\ dpc' = "drain" /\ dq' = 1
  /\ UNCHANGED <<deofs, davail, deof, dwpc, dbuf, derrors, canceled, file, src,
                 net>>

\* The workers are got one after the other, in order.
DstDrain ==
  /\ dpc = "drain" /\ dq <= QueueDepth /\ ~dbusy[dq]
  /\ IF canceled THEN Exit /\ dq' = dq
     ELSE dq' = dq + 1 /\ UNCHANGED <<dpc, net>>
  /\ UNCHANGED <<deofs, davail, dbusy, deof, dwpc, dbuf, derrors, canceled, file,
                 src>>

\* The pass ends: in exit(2), with the run marked as aborted, or well.
DstEnd ==
  /\ dpc = "drain" /\ dq > QueueDepth
  /\ IF canceled THEN Exit
     ELSE dpc' = (IF DstAbort THEN "aborted" ELSE "end") /\ UNCHANGED net
  /\ UNCHANGED <<dq, deofs, davail, dbusy, deof, dwpc, dbuf, derrors, canceled,
                 file, src>>

\* An aborted run returns an error; its process closes every connection.
DstAborted ==
  /\ dpc = "aborted"
  /\ Exit
  /\ UNCHANGED <<dq, deofs, davail, dbusy, deof, dwpc, dbuf, derrors, canceled,
                 file, src>>

\* After exit(2) no worker runs on.
Running(w, label) == dpc # "exit" /\ dwpc[w] = label

\* xdd_e2e_dest_receive: one packet.  The EOF packet ends the worker's part.
DstReceive(w) ==
  /\ Running(w, "recv") /\ chan[w] # <<>>
  /\ chan' = [chan EXCEPT ![w] = Tail(@)]
  /\ dbuf' = [dbuf EXCEPT ![w] = Head(chan[w])]
  /\ deof' = [deof EXCEPT ![w] = Head(chan[w]) = Eof]
  /\ dwpc' = [dwpc EXCEPT ![w] = IF Head(chan[w]) = Eof THEN "clear"
                                 ELSE "write"]
  /\ UNCHANGED <<dpc, dq, deofs, davail, dbusy, derrors, canceled, file, src,
                 broken>>

\* The connection was closed before the EOF packet: cancel the run.
ReceiveFailed(w) == canceled' = TRUE /\ deof' = deof

DstReceiveError(w) ==
  /\ Running(w, "recv") /\ chan[w] = <<>> /\ w \in broken
  /\ ReceiveFailed(w)
  /\ dwpc' = [dwpc EXCEPT ![w] = "clear"]
  /\ UNCHANGED <<dpc, dq, deofs, davail, dbusy, dbuf, derrors, file, src, net>>

\* The block is written at the offset its header names, unless canceled.
WritePlaceBug(w) == IF dbuf[w].seq = 0 THEN 0 ELSE dbuf[w].seq - 1
WritePlace(w) == dbuf[w].seq

DstWrite(w) ==
  /\ Running(w, "write") /\ ~canceled /\ ~DstAbort
  /\ file' = [file EXCEPT ![WritePlace(w)] = dbuf[w].data]
  /\ dwpc' = [dwpc EXCEPT ![w] = "clear"]
  /\ UNCHANGED <<dpc, dq, deofs, davail, dbusy, deof, dbuf, derrors, canceled, src,
                 net>>

\* The write fails or writes a part of the block.
DstWriteError(w) ==
  /\ Running(w, "write") /\ ~canceled /\ ~DstAbort /\ "write" \in trouble
  /\ \E data \in {file[WritePlace(w)], "stale"} :
       file' = [file EXCEPT ![WritePlace(w)] = data]
  /\ derrors' = TRUE
  /\ dwpc' = [dwpc EXCEPT ![w] = "clear"]
  /\ UNCHANGED <<dpc, dq, deofs, davail, dbusy, deof, dbuf, canceled, src, net>>

DstSkipWrite(w) ==
  /\ Running(w, "write") /\ (canceled \/ DstAbort)
  /\ dwpc' = [dwpc EXCEPT ![w] = "clear"]
  /\ UNCHANGED <<dpc, dq, deofs, davail, dbusy, deof, dbuf, derrors, canceled, file,
                 src, net>>

\* Mark the worker not busy, then, under another mutex, count it available.
DstClear(w) ==
  /\ Running(w, "clear")
  /\ dbusy' = [dbusy EXCEPT ![w] = FALSE]
  /\ dwpc' = [dwpc EXCEPT ![w] = "count"]
  /\ UNCHANGED <<dpc, dq, deofs, davail, deof, dbuf, derrors, canceled, file,
                 src, net>>
CountAvailableBug(w) == IF deof[w] THEN davail ELSE davail + 1
CountAvailable(w) == davail + 1
DstCount(w) ==
  /\ Running(w, "count")
  /\ davail' = CountAvailable(w)
  /\ dwpc' = [dwpc EXCEPT ![w] = "idle"]
  /\ UNCHANGED <<dpc, dq, deofs, dbusy, deof, dbuf, derrors, canceled, file,
                 src, net>>

-----------------------------------------------------------------------------
SrcTarget ==
  SrcGet \/ SrcIssue \/ SrcTimeLimit \/ SrcStopped \/ SrcAllIssued \/ SrcEof \/ SrcEnd
SrcWorker(w) ==
  SrcRead(w) \/ SrcReadError(w) \/ SrcSkipRead(w) \/ SrcSend(w) \/ SrcSendEof(w)
DstTarget ==
  \/ DstTake \/ DstScan \/ DstFound \/ DstNotFound \/ DstIssue
  \/ DstCanceled \/ DstStopped \/ DstDrain \/ DstEnd \/ DstAborted
DstWorker(w) ==
  \/ DstReceive(w) \/ DstReceiveError(w)
  \/ DstWrite(w) \/ DstWriteError(w) \/ DstSkipWrite(w)
  \/ DstClear(w) \/ DstCount(w)

Next ==
  /\ \/ SrcTarget \/ DstTarget
     \/ \E w \in Workers : SrcWorker(w) \/ DstWorker(w) \/ Break(w)
  /\ UNCHANGED config

\* Threads are scheduled, storage and network make progress.
Fairness ==
  /\ WF_vars(SrcTarget /\ UNCHANGED config) /\ WF_vars(DstTarget /\ UNCHANGED config)
  /\ \A w \in Workers : /\ WF_vars(SrcWorker(w) /\ UNCHANGED config)
                         /\ WF_vars(DstWorker(w) /\ UNCHANGED config)

Spec == Init /\ [][Next]_vars
FairSpec == Spec /\ Fairness

-----------------------------------------------------------------------------
(* Properties *)

\* A failed send of a block, whose status the worker ignores, is reported all
\* the same: the EOF on the same connection fails too and sets target_errno.
SendFailureIsReported == spc = "end" /\ sendFailed => serrno

\* Both programs have ended, and no error was printed: main of the source returns
\* target_errno, and with -stoponerror a counted error is returned too.
Ended == spc = "end" /\ dpc = "end"
Clean == ~serrno /\ ~serrors /\ ~derrors

\* The copy implements what FileCopy promises: when both programs end without an
\* error, the destination holds the whole file, whatever failed and however late,
\* and a block once right is never disturbed.
Outcome ==
  IF Ended THEN IF Clean THEN "complete" ELSE "failed"
  ELSE IF dpc \in {"aborted", "exit"} THEN "failed" ELSE "running"
Promise == INSTANCE FileCopy WITH
  copied <- {b \in Blocks : file[b] = "good"},
  outcome <- Outcome
ImplementsFileCopy == Promise!Spec

\* The expired time limit left a worker marked busy that has no task: the source
\* waits for it for ever.
Expired == spc = "eof" /\ \E w \in Workers : sbusy[w] /\ swpc[w] = "idle"

\* The destination has stopped on an error and waits for a worker in recvfrom,
\* while a source worker cannot send, as nobody receives on its full connection.
Stalled ==
  /\ dpc = "drain" /\ DstAbort
  /\ \E v, w \in Workers : /\ dwpc[v] = "recv" /\ chan[v] = <<>>
                           /\ swpc[w] \in {"send", "sendEof"} /\ ~CanSend(w)

\* Both sides end, the destination by exit(2) if a connection was lost, unless
\* the time limit expired or a stopped destination stalls (README.md).
CopyEnds ==
  \/ <>(Expired \/ (spc = "end" /\ dpc \in {"end", "exit"}))
  \/ <>[]Stalled
=============================================================================
