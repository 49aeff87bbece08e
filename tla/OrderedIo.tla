------------------------------ MODULE OrderedIo ------------------------------
(***************************************************************************)
(* Serial and Loose ordering of the storage I/O of one target: the Worker  *)
(* Threads of a pass synchronise through the Target Offset Table (TOT).    *)
(* Before its I/O a worker waits on the TOT entry of the operation before  *)
(* its own; after its I/O (and, for Loose ordering, also just before it)   *)
(* it posts its own entry and wakes the first worker chained to it.        *)
(*                                                                         *)
(* The wait runs under the entry's mutex.  The post runs under it only up  *)
(* to the change of tot_status: the first waiter is taken off the chain    *)
(* after the mutex was released, so that is a series of separate steps     *)
(* here.  The hand-out of operations to idle workers is TargetPass's; this *)
(* module keeps of it only that operations are handed out in order.        *)
(***************************************************************************)
EXTENDS Integers

CONSTANTS
  QueueDepth,   \* td_queue_depth
  NumOps,       \* td_target_ops
  Multiplier,   \* DEFAULT_TOT_MULTIPLIER
  Orderings,    \* TO_ORDERING_STORAGE_SERIAL, ..._LOOSE: the ones considered
  PrepareCanFail \* things-to-do-before-an-I/O may fail and cancel the run

VARIABLES
  ordering,  \* the ordering of this target, fixed for the run
  wpc,       \* where each Worker Thread is
  op,        \* wd_task.task_op_number
  nextOp,    \* tc_current_op_number of the target
  reg,       \* the local totwp (of a post) or tmpwp (of a wait)
  early,     \* the post in progress is the one before the I/O
  mutex,     \* tot_mutex of each entry: its holder or Nil
  available, \* tot_status = TOT_ENTRY_AVAILABLE
  waitp,     \* tot_waitp: first worker of the entry's chain or Nil
  nextp,     \* totw_nextp of each worker
  released,  \* totw_is_released of each worker
  totOp,     \* tot_op_number of each entry
  done,      \* history: the operations whose I/O was performed
  canceled   \* xgp->canceled

workerVars == <<op, reg, early>>
tableVars == <<mutex, available, waitp, totOp>>
waitVars == <<nextp, released>>
vars == <<wpc, workerVars, nextOp, tableVars, waitVars, done, canceled,
          ordering>>

Workers == 0 .. QueueDepth - 1
Nil == QueueDepth
Ops == 0 .. NumOps - 1

\* tot_init: the number of entries of the table.
TotEntries ==
  IF QueueDepth > NumOps THEN QueueDepth
  ELSE IF NumOps \div QueueDepth > Multiplier * QueueDepth * 1000
  THEN QueueDepth * Multiplier * 30
  ELSE QueueDepth * Multiplier

Slots == 0 .. TotEntries - 1

\* The entry an operation posts, and the entry it waits for.
PostSlot(k) == k % TotEntries
WaitSlot(k) ==
  IF k % TotEntries = 0 THEN TotEntries - 1 ELSE (k % TotEntries) - 1

Init ==
  /\ ordering \in Orderings
  /\ wpc = [w \in Workers |-> "idle"]
  /\ op = [w \in Workers |-> 0]
  /\ nextOp = 0
  /\ reg = [w \in Workers |-> Nil]
  /\ early = [w \in Workers |-> FALSE]
  /\ mutex = [s \in Slots |-> Nil]
  /\ available = [s \in Slots |-> TRUE]
  /\ waitp = [s \in Slots |-> Nil]
  /\ nextp = [w \in Workers |-> Nil]
  /\ released = [w \in Workers |-> FALSE]
  /\ totOp = [s \in Slots |-> -1]
  /\ done = {}
  /\ canceled = FALSE

Goto(w, label) == wpc' = [wpc EXCEPT ![w] = label]

-----------------------------------------------------------------------------
(* The Target Thread hands operation nextOp to an idle worker: nothing     *)
(* keeps the others from getting ahead of a worker that is not scheduled.  *)
MoreOps == nextOp < NumOps

Assign(w) ==
  /\ wpc[w] = "idle" /\ MoreOps /\ ~canceled
  /\ op' = [op EXCEPT ![w] = nextOp]
  /\ nextOp' = nextOp + 1
  /\ Goto(w, "prepare")
  /\ UNCHANGED <<reg, early, tableVars, waitVars, done, canceled>>

\* xdd_worker_thread_ttd_before_io_op: a failure cancels the run, and the
\* worker still takes its place in the order.
Prepare(w) ==
  /\ wpc[w] = "prepare"
  /\ \/ UNCHANGED canceled
     \/ PrepareCanFail /\ canceled' = TRUE
  /\ Goto(w, "wait")
  /\ UNCHANGED <<workerVars, nextOp, tableVars, waitVars, done>>

-----------------------------------------------------------------------------
(* xdd_worker_thread_wait_for_previous_io *)

\* Operation 0 has nothing to wait for; an available entry is taken at once.
WaitPass(w) ==
  LET s == WaitSlot(op[w]) IN
  /\ wpc[w] = "wait"
  /\ \/ op[w] = 0 /\ UNCHANGED available
     \/ /\ op[w] # 0 /\ mutex[s] = Nil /\ available[s]
        /\ available' = [available EXCEPT ![s] = FALSE]
  /\ Goto(w, "check")
  /\ UNCHANGED <<workerVars, nextOp, mutex, waitp, totOp, waitVars, done,
                 canceled>>

\* The workers on the chain that starts at tot_waitp, and the last of them.
Chained(s) ==
  LET follow[n \in 0 .. QueueDepth] ==
        IF n = 0 THEN waitp[s]
        ELSE IF follow[n - 1] = Nil THEN Nil ELSE nextp[follow[n - 1]]
  IN  {follow[n] : n \in 0 .. QueueDepth} \ {Nil}
LastChained(s, v) ==
  IF waitp[s] = Nil THEN v = Nil ELSE v \in Chained(s) /\ nextp[v] = Nil

\* The entry is not available: walk its chain to the end, holding the mutex.
WaitWalk(w) ==
  LET s == WaitSlot(op[w]) IN
  /\ wpc[w] = "wait" /\ op[w] # 0 /\ mutex[s] = Nil /\ ~available[s]
  /\ mutex' = [mutex EXCEPT ![s] = w]
  /\ \E v \in Workers \cup {Nil} :
        LastChained(s, v) /\ reg' = [reg EXCEPT ![w] = v]
  /\ Goto(w, "link")
  /\ UNCHANGED <<op, early, nextOp, available, waitp, totOp, waitVars, done,
                 canceled>>

WaitLink(w) ==
  LET s == WaitSlot(op[w]) IN
  /\ wpc[w] = "link"
  /\ IF reg[w] = Nil
     THEN waitp' = [waitp EXCEPT ![s] = w] /\ UNCHANGED nextp
     ELSE nextp' = [nextp EXCEPT ![reg[w]] = w] /\ UNCHANGED waitp
  /\ Goto(w, "test")
  /\ UNCHANGED <<workerVars, nextOp, mutex, available, totOp, released, done,
                 canceled>>

\* while (1 != totw_is_released) pthread_cond_wait(...), then take the entry.
WaitTest(w) ==
  LET s == WaitSlot(op[w]) IN
  /\ wpc[w] = "test"
  /\ mutex' = [mutex EXCEPT ![s] = Nil]
  /\ IF released[w]
     THEN /\ released' = [released EXCEPT ![w] = FALSE]
          /\ available' = [available EXCEPT ![s] = FALSE]
          /\ Goto(w, "check")
     ELSE Goto(w, "asleep") /\ UNCHANGED <<released, available>>
  /\ UNCHANGED <<workerVars, nextOp, waitp, totOp, nextp, done, canceled>>

\* pthread_cond_wait returns with the mutex, after a signal.
WaitReturn(w) ==
  LET s == WaitSlot(op[w]) IN
  /\ wpc[w] = "signaled" /\ mutex[s] = Nil
  /\ mutex' = [mutex EXCEPT ![s] = w]
  /\ Goto(w, "test")
  /\ UNCHANGED <<workerVars, nextOp, available, waitp, totOp, waitVars, done,
                 canceled>>

\* ... or without one: a condition variable may wake spuriously.
WaitSpurious(w) ==
  /\ wpc[w] = "asleep"
  /\ Goto(w, "signaled")
  /\ UNCHANGED <<workerVars, nextOp, tableVars, waitVars, done, canceled>>

-----------------------------------------------------------------------------
(* The rest of xdd_worker_thread_io and xdd_worker_thread_release_next_io. *)

\* Canceled: no I/O, but release the next worker.  Loose ordering releases
\* it before the I/O, Serial ordering does not.
Check(w) ==
  /\ wpc[w] = "check"
  /\ early' = [early EXCEPT ![w] = ~canceled /\ ordering = "loose"]
  /\ Goto(w, IF canceled \/ ordering = "loose" THEN "post" ELSE "io")
  /\ UNCHANGED <<op, reg, nextOp, tableVars, waitVars, done, canceled>>

PerformIo(w) ==
  /\ wpc[w] = "io"
  /\ done' = done \cup {op[w]}
  /\ early' = [early EXCEPT ![w] = FALSE]
  /\ Goto(w, "post")
  /\ UNCHANGED <<op, reg, nextOp, tableVars, waitVars, canceled>>

\* Where a worker goes after a post.
AfterPost(w) == IF early[w] THEN "io" ELSE "idle"

\* Under the mutex: record the operation and make the entry available.
PostStatus(w) == [available EXCEPT ![PostSlot(op[w])] = TRUE]

Post(w) ==
  LET s == PostSlot(op[w]) IN
  /\ wpc[w] = "post" /\ mutex[s] = Nil
  /\ totOp' = [totOp EXCEPT ![s] = op[w]]
  /\ available' = PostStatus(w)
  /\ Goto(w, "head")
  /\ UNCHANGED <<workerVars, nextOp, mutex, waitp, waitVars, done, canceled>>

\* After the unlock: if (tep->tot_waitp) { totwp = tep->tot_waitp; ... }
PostHead(w) ==
  LET s == PostSlot(op[w]) IN
  /\ wpc[w] = "head"
  /\ IF waitp[s] = Nil
     THEN Goto(w, AfterPost(w)) /\ UNCHANGED reg
     ELSE Goto(w, "unlink") /\ reg' = [reg EXCEPT ![w] = waitp[s]]
  /\ UNCHANGED <<op, early, nextOp, tableVars, waitVars, done, canceled>>

\* tep->tot_waitp = totwp->totw_nextp
PostUnlink(w) ==
  /\ wpc[w] = "unlink"
  /\ waitp' = [waitp EXCEPT ![PostSlot(op[w])] = nextp[reg[w]]]
  /\ Goto(w, "mark")
  /\ UNCHANGED <<workerVars, nextOp, mutex, available, totOp, waitVars, done,
                 canceled>>

\* totwp->totw_is_released = 1
MarkReleased(w) == [released EXCEPT ![reg[w]] = TRUE]

PostMark(w) ==
  /\ wpc[w] = "mark"
  /\ released' = MarkReleased(w)
  /\ Goto(w, "signal")
  /\ UNCHANGED <<workerVars, nextOp, tableVars, nextp, done, canceled>>

\* totwp->totw_nextp = 0; pthread_cond_signal(&totwp->totw_condition)
PostSignal(w) ==
  LET v == reg[w] IN
  /\ wpc[w] = "signal"
  /\ nextp' = [nextp EXCEPT ![v] = Nil]
  /\ wpc' = [wpc EXCEPT ![w] = AfterPost(w),
                        ![v] = IF wpc[v] = "asleep" THEN "signaled" ELSE @]
  /\ UNCHANGED <<workerVars, nextOp, tableVars, released, done, canceled>>

-----------------------------------------------------------------------------
\* The operations were all handed out (or the run was canceled) and every
\* worker is back in the pool.
Drained ==
  /\ nextOp = NumOps \/ canceled
  /\ \A w \in Workers : wpc[w] = "idle"

Step(w) ==
  \/ Prepare(w) \/ WaitPass(w) \/ WaitWalk(w) \/ WaitLink(w) \/ WaitTest(w)
  \/ WaitReturn(w) \/ Check(w) \/ PerformIo(w)
  \/ Post(w) \/ PostHead(w) \/ PostUnlink(w) \/ PostMark(w) \/ PostSignal(w)

Next ==
  /\ \E w \in Workers : Assign(w) \/ Step(w) \/ WaitSpurious(w)
  /\ UNCHANGED ordering

\* Every thread that can take a step is eventually scheduled; mutexes are
\* held for a few steps only.  Spurious wakeups are possible, never assured.
Fairness ==
  /\ WF_vars(\E w \in Workers : Assign(w) /\ UNCHANGED ordering)
  /\ \A w \in Workers : SF_vars(Step(w) /\ UNCHANGED ordering)

Spec == Init /\ [][Next]_vars
FairSpec == Spec /\ Fairness

-----------------------------------------------------------------------------
(* Properties *)

\* The pass drains: a worker that waits on an entry waits "until the current
\* Worker Thread completes its I/O operation and releases the specific tot_entry"
\* (target_offset_table.h:53-56), canceled runs included.
OrderedPassDrains == <>Drained

=============================================================================
