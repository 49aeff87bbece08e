------------------------------ MODULE Restart ------------------------------
(***************************************************************************)
(* Resuming an interrupted end-to-end copy.  The restart monitor of the    *)
(* destination periodically records the lowest byte offset its Worker      *)
(* Threads are working at; a later run starts there.  The target thread    *)
(* replaces the offset by a completion message when the copy has ended.    *)
(*                                                                         *)
(* Offsets are counted in blocks of td_xfer_size.  The source and the      *)
(* network are reduced to one queue of blocks per connection, since each   *)
(* connection carries blocks in the order in which the source assigned     *)
(* them to it (EndToEnd has the protocol).  The data file and the restart  *)
(* file survive a crash of the process; nothing else does.                 *)
(***************************************************************************)
EXTENDS Integers, Sequences

CONSTANTS
  QueueDepth,      \* td_queue_depth: workers, one connection each
  NumBlocks,       \* blocks in the file
  QueueLimit,      \* bound: blocks in flight on one connection
  MaxCrashes,      \* bound: crashes of the destination
  MaxWriteErrors,  \* bound: failing writes
  Reloads          \* the build loads task_byte_offset anew at every use (clang
                   \* without -O) or keeps it in a register (gcc with -O2)

ASSUME RestartAssumption ==
  /\ QueueDepth \in Nat \ {0} /\ NumBlocks \in Nat \ {0}
  /\ QueueLimit \in Nat \ {0} /\ MaxCrashes \in Nat
  /\ MaxWriteErrors \in Nat /\ Reloads \in BOOLEAN

Workers == 1 .. QueueDepth
Blocks == 0 .. NumBlocks - 1
Eof == NumBlocks

VARIABLES
  written,   \* blocks in the destination file
  cookie,    \* first line of the restart file
  up,        \* the destination process: "down", "starting", "running", "ended"
  initial,   \* initial_restart_offset
  next,      \* next block the source assigns
  queue,     \* per connection: blocks assigned and not yet received
  pc,        \* of each worker
  offset,    \* wd_task.task_byte_offset of each worker
  tdAbort,   \* td_abort
  monitor,   \* the restart monitor: at, its position; lowest, restart_wdp;
             \* value, the offset it loaded last; scanned, cur_wdp
  lock,      \* holder of restart_lock
  crashes, errors

file == <<written, cookie>>
copy == <<initial, next, queue, pc, offset, tdAbort>>
vars == <<file, up, copy, monitor, lock, crashes, errors>>

\* The first line of the restart file.
NoCookie == [says |-> "nothing", offset |-> 0]
Completed == [says |-> "completed", offset |-> 0]
OffsetCookie(n) == [says |-> "offset", offset |-> n]

\* getRestartOffset: a missing, empty or completed cookie counts as offset 0.
RestartOffset(c) == c.offset

Asleep == [at |-> "sleep", lowest |-> 1, value |-> 0, scanned |-> 1]

Init ==
  /\ written = {} /\ cookie = NoCookie
  /\ up = "down" /\ initial = 0 /\ next = 0
  /\ queue = [w \in Workers |-> <<>>]
  /\ pc = [w \in Workers |-> "idle"]
  /\ offset = [w \in Workers |-> 0]
  /\ tdAbort = FALSE
  /\ monitor = Asleep /\ lock = "free"
  /\ crashes = 0 /\ errors = 0

-----------------------------------------------------------------------------
(* Starting and stopping the destination *)

\* xddfunc_restart and xdd_calculate_xfer_info: where the first operation of
\* a resumed copy starts.
FirstBlockBug(start) == IF start = 0 THEN 0 ELSE start + 1
FirstBlock(start) == start

\* A first or a resumed run; opening the restart file for writing empties it.
Start ==
  /\ up = "down"
  /\ up' = "starting"
  /\ initial' = RestartOffset(cookie)
  /\ next' = FirstBlock(RestartOffset(cookie))
  /\ queue' = [w \in Workers |-> <<>>]
  /\ pc' = [w \in Workers |-> "idle"]
  /\ offset' = [w \in Workers |-> 0]
  /\ tdAbort' = FALSE
  /\ monitor' = Asleep /\ lock' = "free"
  /\ cookie' = NoCookie
  /\ UNCHANGED <<written, crashes, errors>>

\* xdd_restart_write_restart_file: what the file says is never below the
\* offset this run started from.
RecordedOffset(value) == IF value > initial THEN value ELSE initial

\* The end of xdd_restart_create_restart_file: the initial offset is written
\* and the monitor releases main, which then releases the targets.
CreateRestartFile ==
  /\ up = "starting"
  /\ up' = "running"
  /\ cookie' = OffsetCookie(RecordedOffset(initial))
  /\ UNCHANGED <<written, copy, monitor, lock, crashes, errors>>

\* The process dies; a run that stopped on an error is ended by whoever
\* watches it.
Crash ==
  /\ up \in {"starting", "running"}
  /\ \/ crashes < MaxCrashes /\ crashes' = crashes + 1
     \/ tdAbort /\ UNCHANGED crashes
  /\ up' = "down"
  /\ UNCHANGED <<file, copy, monitor, lock, errors>>

-----------------------------------------------------------------------------
(* The copy *)

\* The source assigns the next block, or at the end an EOF, to a connection.
Assign(w) ==
  /\ up = "running"
  /\ Len(queue[w]) < QueueLimit
  /\ IF next < NumBlocks
     THEN /\ queue' = [queue EXCEPT ![w] = Append(@, next)]
          /\ next' = next + 1
     ELSE /\ pc[w] # "eof"
          /\ \A i \in 1 .. Len(queue[w]) : queue[w][i] # Eof
          /\ queue' = [queue EXCEPT ![w] = Append(@, Eof)]
          /\ UNCHANGED next
  /\ UNCHANGED <<file, up, initial, pc, offset, tdAbort, monitor, lock,
                 crashes, errors>>

\* xdd_targetpass_e2e_loop_dst gives an available worker its next task, whose
\* offset is not known yet.
Task(w) ==
  /\ up = "running" /\ pc[w] = "idle" /\ ~tdAbort
  /\ pc' = [pc EXCEPT ![w] = "receiving"]
  /\ offset' = [offset EXCEPT ![w] = -1]
  /\ UNCHANGED <<file, up, initial, next, queue, tdAbort, monitor, lock,
                 crashes, errors>>

\* xdd_e2e_before_io_op: the header of the packet tells the offset; an EOF
\* has none.
Receive(w) ==
  /\ up = "running" /\ pc[w] = "receiving" /\ queue[w] # <<>>
  /\ queue' = [queue EXCEPT ![w] = Tail(@)]
  /\ IF Head(queue[w]) = Eof
     THEN pc' = [pc EXCEPT ![w] = "eof"] /\ UNCHANGED offset
     ELSE /\ pc' = [pc EXCEPT ![w] = "writing"]
          /\ offset' = [offset EXCEPT ![w] = Head(queue[w])]
  /\ UNCHANGED <<file, up, initial, next, tdAbort, monitor, lock, crashes,
                 errors>>

\* The write, and with -stoponerror td_abort when it fails, before the worker
\* is available again.  A worker that sees td_abort does not write its block.
WriteBlock(w) ==
  /\ up = "running" /\ pc[w] = "writing"
  /\ pc' = [pc EXCEPT ![w] = "idle"]
  /\ \/ /\ written' = written \cup {offset[w]}
        /\ UNCHANGED <<tdAbort, errors>>
     \/ /\ errors < MaxWriteErrors
        /\ errors' = errors + 1 /\ tdAbort' = TRUE
        /\ UNCHANGED written
     \/ tdAbort /\ UNCHANGED <<written, tdAbort, errors>>
  /\ UNCHANGED <<cookie, up, initial, next, queue, offset, monitor, lock,
                 crashes>>

\* xdd_target_thread after the pass: all workers have seen EOF.
Complete ==
  /\ up = "running" /\ ~tdAbort /\ lock = "free"
  /\ \A w \in Workers : pc[w] = "eof"
  /\ cookie' = Completed
  /\ up' = "ended"
  /\ UNCHANGED <<written, copy, monitor, lock, crashes, errors>>

-----------------------------------------------------------------------------
(* xdd_restart_monitor.  It keeps running while the process ends. *)

\* The lock is taken; a copy that was completed is left alone.
MayRecord == up # "ended"

WakeUp ==
  /\ up \in {"running", "ended"} /\ monitor.at = "sleep" /\ lock = "free"
  /\ MayRecord
  /\ lock' = "monitor"
  /\ monitor' = [at |-> "scan", lowest |-> 1, value |-> offset[1],
                 scanned |-> 1]
  /\ UNCHANGED <<file, up, copy, crashes, errors>>

\* task_byte_offset of restart_wdp, as the build reads it.
LowestOffset == IF Reloads THEN offset[monitor.lowest] ELSE monitor.value

LowerBug(o) == o > LowestOffset
Lower(o) == o < LowestOffset

\* One comparison of the search for the worker with the lowest offset, while
\* the workers go on.
Scan ==
  /\ up \in {"running", "ended"} /\ monitor.at = "scan"
  /\ monitor.scanned < QueueDepth
  /\ LET cur == monitor.scanned + 1 IN
       monitor' = [monitor EXCEPT
         !.scanned = cur,
         !.lowest = IF Lower(offset[cur]) THEN cur ELSE @,
         !.value = IF Lower(offset[cur]) THEN offset[cur] ELSE @]
  /\ UNCHANGED <<file, up, copy, lock, crashes, errors>>

LockAfterRecordBug == "monitor"
LockAfterRecord == "free"

\* The offset of the worker found is written to the restart file.
Record ==
  /\ up \in {"running", "ended"} /\ monitor.at = "scan"
  /\ monitor.scanned = QueueDepth
  /\ cookie' = OffsetCookie(RecordedOffset(LowestOffset))
  /\ lock' = LockAfterRecord
  /\ monitor' = Asleep
  /\ UNCHANGED <<written, up, copy, crashes, errors>>

-----------------------------------------------------------------------------
Next ==
  \/ Start \/ CreateRestartFile \/ Crash \/ Complete
  \/ \E w \in Workers : Assign(w) \/ Task(w) \/ Receive(w) \/ WriteBlock(w)
  \/ WakeUp \/ Scan \/ Record

\* The threads of a running process are scheduled, the source keeps sending,
\* and an interrupted copy is started again.
Fairness ==
  /\ WF_vars(Start) /\ WF_vars(CreateRestartFile)
  /\ WF_vars(Crash /\ tdAbort)
  /\ \A w \in Workers : WF_vars(Assign(w)) /\ WF_vars(Task(w))
                        /\ WF_vars(Receive(w)) /\ WF_vars(WriteBlock(w))
  /\ SF_vars(Complete)
  /\ WF_vars(Scan) /\ WF_vars(Record)

Spec == Init /\ [][Next]_vars
FairSpec == Spec /\ Fairness

-----------------------------------------------------------------------------
(* Properties *)

\* The restart file "contains information regarding the lowest ... byte
\* offsets ... that have been received and written" (restart.c:157): whenever
\* the process dies, every block below the recorded offset is in the file,
\* although the monitor looks at the workers one by one while they go on.
RestartPointIsSafe == 0 .. cookie.offset - 1 \subseteq written

\* A copy declared complete has all its blocks, however often it was
\* interrupted and resumed (target_thread.c:85-110).
CompleteMeansWritten == cookie = Completed => written = Blocks

\* A copy that is interrupted and resumed finitely often is completed, and stays
\* so: the monitor does not replace the completion message by an offset.
CopyCompletes == <>[](cookie = Completed)
=============================================================================
