# A TLA+ model of XDD

XDD moves data: it reads or writes *targets* (files or devices) in *passes*, with
`queue_depth` I/O operations of every target in flight, and it copies files
between hosts (end-to-end, E2E). The difficult part of it is how threads hand
work to each other. This directory models that part and the command line that
sets it up, checks both with TLC and proves the central safety properties with
TLAPS. Paths below are relative to the repository root; `base/`, `net/`, ... stand
for `src/base/`, `src/net/`, ...

## 1. The system

### Threads and state

| Part | State | Operations |
| --- | --- | --- |
| options (`client/parse*.c`, `common/target_data.c`) | the plan and its Target Data Structures | two walks over the command line, one handler for each option, building of workers |
| main (`client/xdd.c`, `base/xint_plan.c`) | global flags `canceled`, `abort`, `run_complete`, `run_time_expired` | start targets and support threads one by one, wait for the Results Manager |
| barriers (`common/barrier.c`) | a chain of barriers, occupants of each | initialise, wait, destroy one or all |
| Target Thread (`base/target_thread.c`, `target_pass.c`) | pass number, bytes issued/remaining/completed, `td_abort`, count of available workers | passes, issue loop, drain, cleanup |
| Worker Thread (`base/worker_thread*.c`) | task, BUSY / TARGET_WAITING / EOF flags | wait for a task, perform the I/O, report, become available |
| file descriptors (`base/target_open.c`, `worker_thread_ttd_*.c`) | `td_file_desc`, TO_DIO | open, reopen, change between direct and buffered mode |
| Target Offset Table (`base/target_offset_table.c`) | entries with status, operation number and a chain of waiters | post, wait, for Serial and Loose ordering |
| lockstep ring (`base/lockstep.c`) | per target: state flags, turn, interval | take a turn, wake the next target, end |
| E2E copy (`net/end_to_end.c`, `base/target_pass_e2e_specific.c`) | a connection per worker, headers, EOF marks | send, receive, place by header, EOF |
| XNI transports (`xni/`, `xnet/`) | sockets or queue pairs, buffers, credits | register, connect, request, send, receive, release, close |
| Restart monitor (`base/restart.c`) | restart file, `restart_lock` | scan the workers' offsets, record, complete |
| Results Manager (`client/results_manager.c`) | current pass, averages, combined results | process results between two barriers |
| heartbeat, interactive processor, signals | flags and counters of others | report, step, cancel |
| bx (`bx/`), a separate program | buffer and worker queues of each target | circulate buffers round a sequence of targets |
| transfer tools (`tools/python/`) | flows, restart cookies | start, watch and resume copies |

### How they interact

The command line builds a plan. Main starts the targets one by one, then the
support threads, and meets each at a barrier of two; a target starts its workers
in the same way. All targets and the Results Manager meet at three barriers in
each pass. A target hands a task to a worker through a two-party barrier and gets
the worker back through flags, a counter and condition variables. Ordered workers
meet in the Target Offset Table, lockstep targets in each other's lockstep
structure. The E2E destination's workers are driven by what arrives, over sockets
of their own or over XNI; the restart monitor looks at them from outside.

### What is hard about it

Counters changed under different mutexes or none, flags read before the owner
resets them, early returns that skip barriers, condition variables signalled
without their mutex, descriptors shared by threads that close them, lost and late
messages of a broken connection, crashes between writing data and recording it,
option handlers that run twice. `PROJECT.json` lists these as hazards with the
line where each bites and the properties that cover it.

## 2. Modules

| Module | Models | State and actions |
| --- | --- | --- |
| `PlanData` | the plan and the Target Data Structures (`common/target_data.c`, `base/target_init.c`) | a plan is a record; a pointer to a structure allocated on demand is a sequence of length 0 or 1 |
| `OptionFunctions` | one operator for each `xddfunc_*` of `client/parse_func.c` | takes the plan and the arguments, gives the plan and the return value |
| `Options`, `MCOptions` | the walks of `client/parse.c`, parameter files, the option table | a stack of walks; `MCOptions` has the command lines |
| `PlanStart`, `MCPlanStart` | start of main, targets, workers, support threads; barrier chain and occupants; exit paths; signals, dry run, library start | `pc` and `at` place every thread, `chain` has the pointers of `barrier.c`; at most one call fails |
| `TargetPass` | issue loop, worker locator, worker loop, drain, cleanup of one target | `tpc`/`wpc` are the places of target and workers, `busy`, `waiting`, `avail` the WTSYNC flags and `td_any_worker_thread_available` (loads and stores apart, since two different mutexes protect it), `request`/`opNumber`/`xfer` the task, `result` the fate of every operation |
| `OrderedIo` | Serial and Loose ordering | entry status, mutex, waiter chain; the removal of a waiter is four steps because the code does it after the unlock |
| `Results` | counters of a pass, results, averages, combined results | pure operators; ticks instead of seconds, a rate is a pair |
| `PassBarriers` | passes of all targets, Results Manager, main | a thread is at a label; `Release` lets a full barrier go; `planp->passes++` is a load and a store; the numbers are those of `Results` |
| `Lockstep`, `MCLockstep` | the ring | state flags, counters, turn of each target and the steps of `xdd_lockstep` |
| `DirectIo`, `MCDirectIo` | descriptors, direct I/O, reopen | `fds` is the table of the system, which gives numbers out again, lowest first; a worker's open, the copy of the number and the change of TO_DIO are steps |
| `EndToEnd` | both sides of an E2E copy over sockets | connections are bounded queues that may break and lose their content |
| `FileCopy` | what a copy promises | blocks copied, outcome; implemented by `EndToEnd` (`ImplementsFileCopy`) |
| `XniBuffers`, `XniTcp`, `XniIb`, `Transport` | an E2E copy over XNI: what all protocols share, TCP, InfiniBand, and their composition with the workers | a socket is a stream of headers and data; a queue pair delivers into the oldest posted receive (the verbs library is external) |
| `Restart` | restart monitor, crashes, resumed copies | data file and restart file survive `Crash`; the scan is one step per worker |
| `BufferExchange`, `MCBufferExchange` | bx | queues, the unprotected release of a worker in three steps |
| `TargetPassProofs`, `PassBarriersProofs`, `LockstepProofs`, `EndToEndInvariant`, `EndToEndProofs`, `RestartProofs`, `BufferExchangeProofs` | theorems | see section 5 |

`PlanStart` ends in the state that `PassBarriers` and `TargetPass` start from
(`PassesCanBegin`); `PassBarriers` makes of a whole `TargetPass` one step with
its outcomes.

`MC...` modules only define set-, sequence- and function-valued constants.
Operators named `...Bug` are single deliberate mistakes, next to the definition
they vary; they show that a property notices such a mistake and are used nowhere
else.

Abstractions common to all modules: an I/O is its outcome (all, part or none of
the bytes), time is a free choice of when a limit has expired, messages and log
output are left out, and mutexes that protect a few assignments make these one
step.

## 3. Runs

Deadlock checking is off everywhere: every system here ends by design, or stops
in one of the ways of section 4. A liveness property says what must end where
there is one to state.

| Run | Instance | Shows |
| --- | --- | --- |
| `options` | every line of two targets and two of about 130 option phrases, refused values, rings of four targets, copies to three hosts, parameter files | each option takes effect once, options for one target over those for all; end-to-end structures exist, every worker has its port, a pass moves the bytes asked for |
| `plan_start` | 2 targets of 2 workers, one of them end-to-end, one with a trigger; six choices of support threads, dry run, library and signals; one failing call anywhere | no target runs before all are ready, barrier chain and occupants are true, an undisturbed start reaches the passes |
| `target_pass` | 3 workers, 5 bytes in transfers of 2 (a short last one), 2 passes, errors, stop on error, time limit, failing preparation | tasks exclusive, passes drain and are complete, run ends unless canceled |
| `pass_barriers` | 3 targets, 2 passes or a run time that expires by pass 3, a delay between passes, errors, cancellation, failing reopens | passes aligned, combined results count every operation once, elapsed time covers the passes, main released |
| `lockstep` | 3 targets with different numbers of operations, both end modes, 2 passes, time limit | one target at a time, in turn, the first pass ends |
| `end_to_end` | 2 connections of 1 packet, 3 blocks, with and without `-stoponerror`; connections that break at any time and a time limit, or a read that fails or comes up short, or such a write | implements `FileCopy`, a failed send is reported, both sides end |
| `transport` | 2 workers a side, 2 blocks, TCP with 3 sockets, a reset or a crash, InfiniBand with credits | blocks and frames whole, what is missing at the end lies in sockets that no worker read to the end, no message without a receive buffer, TCP ends |
| `restart` | 2 workers, 4 blocks, 2 crashes, 1 failing write | the recorded offset is safe, a completed copy is whole, completion reached and final |
| `buffer_exchange` | 1 reader, 2 writers, 2 buffers, 3 blocks, one failing or short I/O | a buffer has one owner, nothing is written but what was read, routed blocks are written at the end, outputs end with idle workers |
| `ordered_io` (violation) | 2 workers, 6 operations, table of 4 entries, both orderings, cancellation | `OrderedPassDrains` fails: see below |
| `buffer_exchange_route` (violation) | 1 reader, 1 writer, 2 buffers, 2 blocks | `AllWrittenAtEnd` fails: see below |
| `direct_io_reopen` (violation) | 2 targets with a short last operation, `-dio -reopen`, 2 passes | `OperationsReachTheirFile` fails: see below |

Bounds. Two passes are the least that show state left over from an earlier pass;
three workers the least with one issuing, one finishing and one waking the
target at a time; two connections the least where one breaks and one does not;
three sockets are what the program opens for one target of two workers.
`MaxPasses` forces a run time to expire. `StopOnError` is TRUE in `target_pass`, so
a pass that goes on after a failed operation is covered by the proof of
`PassComplete` only (section 5). `ordered_io` has a table of twice the queue depth;
the program's is at least 20 times the queue depth for a pass of that length. `SocketBuffer` and `Window` are what a
connection holds. `PassTimes`, `RoundTime` and
`PassDelay` are ticks; the delay is longer than a pass so that a wrong
subtraction shows. `Troubles` names what may happen together in one copy: a time
limit and broken connections, or one bad read, or one bad write. `MaxFailures`
bounds the failing I/Os of bx. `Faults` of `PlanStart` names
the kinds of calls that fail, one in a run. `MaxFd` is never reached. `Writable`,
`Cookies`, `CPUS`, `Numeral` and `Address` are the files, numbers and addresses
of the command lines; `BILLION` and `WRAP` (where an unsigned count of bytes wraps)
are scaled to fit TLC's integers. `Reloads` tells
two builds apart: `configure.ac` compiles with `-g` alone under clang, where every
use of a worker's offset is a load, and with autoconf's `-g -O2` under gcc, which
keeps the lowest offset in a register; `restart` is about the second.
`MaxCrashes` and `MaxWriteErrors` bound the faults of `restart`.

Preconditions. `client/parse_func.c:57` gives options for one target precedence over
options for all targets; the code lets the last one win (section 4).
`OptionsTakeEffectOnce` and `RequestsCoverTheBytes` follow the comment, on the
command lines where the two agree (`InPrecedence`). The first also leaves out a
destination given for one target, which both walks add, the second restart offsets
beyond the bytes asked for, `EveryWorkerHasItsPort` a port count given by itself
(section 4).

Fairness. Weak fairness for each thread: the operating system schedules runnable
threads and system calls return; data that was sent arrives unless the connection
breaks. Strong fairness where a step needs a mutex that others hold for a few
steps only (`OrderedIo`), and for the completion in `Restart`, which competes with
a monitor that sleeps at least a second without the lock between scans. Spurious
wakeups, I/O errors, breaks, failing calls, signals, cancellations and crashes are
never assumed to happen, with one exception: a destination that stopped on an
error is ended by whoever watches it (the transfer manager).

### The runs that end in a violation

`ordered_io`: an operation waits for its predecessor at a table entry that it
shares with the operations one table length before and after. The comment in
`common/target_offset_table.h:53-56` says that the chain of waiters makes every
worker wait until the current one "completes its I/O operation and releases the
specific tot_entry". A worker that does not run for the length of a table finds
the entry posted by the later operation and takes that post
(`base/worker_thread_io.c:184`); the operation that the post was for sleeps until
the run is canceled. The trace is a worker with operation 1 that takes the post of
operation 4, for which operation 5 waits.

`buffer_exchange_route`: `bx/bx_target_thread.c:155-156` stores `bx_wd_released`
before `bx_wd_next_buffer_queue`, and a worker that is not asleep tests only the
first. In its first task it may pass the buffer on to the queue that its zeroed
structure names, 0, the input's own. The input counts that buffer as come back
from the output, "at which point we know that all the data has been written to the
output device" (lines 180-182), and its block is written nowhere.
`RoutedAreWritten` is what remains true and passes in `buffer_exchange`.

`direct_io_reopen`: an operation that is not aligned is done through a second
descriptor, which `xdd_target_open` also stores in `td_file_desc`. After the
operation the worker closes it (`base/worker_thread_ttd_after_io_op.c:137`) and
opens nothing in its place, although the comment at line 134 says that it reopens
the file in direct mode. The target keeps a closed number. When another target
opens its file the system gives the number out again, and the first target closes
the other's file at its next reopen, or writes into it. With the built program,
`-dio -reopen -passes 2` and two targets put the second target's data into the
first target's file.

## 4. Other disagreements met while modelling

Points marked (ran) were also seen with the built program.

### Passes, workers and ordering

| Where | What happens |
| --- | --- |
| `base/target_pass.c:169`, `worker_thread.c:145` | increments of `td_any_worker_thread_available` are lost between two mutexes; a later pass uses fewer workers |
| `base/target_cleanup.c:30` | after a cancellation the stop request overwrites the request of a released worker, which stops early, and the target waits at a barrier of two (`RunCompletes` without its first disjunct, `PrepareCanFail`) |
| `base/target_offset_table.c:86` | all table entries start as available, so Serial ordering does not make operation k+1 wait for k |
| `base/worker_thread_io.c:184` | a worker a whole table behind takes the post of a later operation, whose successor sleeps for ever (`ordered_io`) |
| `base/worker_thread_io.c:230` | a waiter that links itself during the unlocked removal is lost: `OrderedIo` has the removal step by step (`ordered_io` finds the stall above first) |
| `base/target_pass.c:52` | with `-stoponerror`, after one target stopped another returns early from its next pass; targets and Results Manager wait at different barriers for ever (ran) |
| `base/target_thread.c`, failed reopen | a failed reopen between passes makes every target skip endpass |
| `base/lockstep.c:172` | in a second pass a target reads its neighbour's PASS_COMPLETE of the first, passes it over, and the neighbour is never woken |
| `base/lockstep.c:139` | an expired time limit leaves only the inner loop |
| `client/parse_func.c`, `-lockstep` | `percent` divides by 100 into an integer, so every interval below 100 is 0; only the first of two separate rings gets a first target |
| `client/results_manager.c:451` | the latency of the averages is divided by the queue depth (ran) |
| `client/results_manager.c:110`, `481` | with `-passdelay` and a run that ends early the combined elapsed time can be negative: the last delay is subtracted although no pass follows (ran) |
| extended statistics | highest and lowest values stay at -1 (ran) |
| `base/target_pass.c:216-226`, `common/timestamp.c:61` | the time stamp table is sized for the passes asked for, and a run time increments them; with a wrapping table the entry goes back to 0 after every operation |
| `common/access_pattern.c` | `-rwratio` does not take precedence over `-op`, the last of them wins |
| `base/target_ttd_before_io_op.c:34`, `base/lockstep.c:112`, `196`, `204` | nobody enters the syncio and lockstep barriers as their owner, so their lists of occupants are never cleared (`OccupantsAreTracked` is about the barriers of the start, which have one) |
| `base/worker_thread_io_for_os.c:90` | the only call of `xdd_verify` is commented out: `-verify` compares nothing |

### Starting a plan

| Where | What happens |
| --- | --- |
| `base/xint_plan.c:105`, `167` | "If anything in the previous target initialization fails, then everything needs to stop right now": the program destroys barriers with threads inside them and does not end (ran: a second target that cannot be opened) |
| `base/xint_plan.c:192` | the failure of creating the Results Manager is tested with `status < 0`; `pthread_create` returns positive errors |
| `base/xint_plan.c:203-206` | a heartbeat that cannot be created gives a warning, and main waits for it at a barrier of two |
| Results Manager, `base/restart.c` | a failed initialisation returns without entering main's barrier |
| `base/restart.c:187-188` | the monitor follows `td_restartp` of every target, also of those without `-restart` |
| `client/parse_table.c:129` | `-dryrun` does not end (ran) |
| `client/parse_table.c:209` | `-interactive`: the barrier is never initialised, the flag tested is not the one set, `run` divides by zero and `exit` waits at the final barrier (ran) |
| `common/barrier.c` | a barrier that is appended does not become the predecessor of the first one, unlike the comment on the circular chain |
| `public/libxdd.c` | `xdd_planattr_set_request_size` and `xdd_planattr_set_retry_flag` return 1 on success; `xdd_plan_wait` always returns 0 |
| `base/heartbeat.c` | the hold-off flag is tested before the display, which may still overlap the Results Manager's |

### Options

| Where | What happens |
| --- | --- |
| `client/parse_func.c:57` | what it says of the precedence of options for one target over options for all: the last one on the line wins (`-reqsize target 1 1 -reqsize 64`) |
| `common/target_data.c:162` | a restart offset beyond the bytes asked for makes the unsigned number of bytes wrap, and with it the number of operations |
| `client/parse.c` | a `-setup` file that can be read ends the program silently after its two walks, because the handler returns the file's SUCCESS as its own status 0 (ran), and one that cannot be read is reported and passed over; the count of arguments left is not what the comment at line 50 says; `xdd_check_option` never matches |
| `-e2e` | a destination for one target is added by both walks; `portcount` is overwritten by a destination; a `port` before the destination is overwritten (952-954) |
| `-datapattern` | the length of a prefix is halved to bytes, while the comments (486, 529) and the display call it nibbles, and the shift that should left-justify the value (522) fits neither |
| `-heartbeat` | the interval given as a number has no effect (`parse_table.c:171`, `parse_func.c:1405`) |
| `-starttrigger`, `-stoptrigger` | the structure is not initialised, unlike the comment `parse.c:456` |
| `-preallocate`, `-pretruncate` | refuse 0 |
| `-extendedstats` | has no effect after the targets |
| `-nomemlock`, `-processlock`, ... | the plan starts with `PLAN_NOPROCLOCK` and `PLAN_NOMEMLOCK` (`xint_plan.c:35`), but `memory.c:25` and `schedule.c:28` test the global flags of that purpose, which only the options set |

### Direct I/O

| Where | What happens |
| --- | --- |
| `base/worker_thread_ttd_after_io_op.c:137` | with `-dio`, several passes and an unaligned last operation, the aligned operations of later passes fail with a bad descriptor and the program still returns 0 (ran); cleanup cannot close the target; one descriptor is lost in each pass (ran) |
| `base/target_open.c` | `-recreatefiles` and `-createnewfiles` with reads abort at the second pass (ran) |

### Copies

| Where | What happens |
| --- | --- |
| `base/target_pass_e2e_specific.c:173` | the worker got before a time limit expired stays BUSY and is waited for at EOF (`Expired` in `EndToEnd`) |
| `base/worker_thread_io.c:314` | "This tells all the other Worker Threads and the Target Thread to abort": a destination that stopped on an error waits for workers that are in `recvfrom`, while the source may be blocked in a send that nobody receives; neither ends (`Stalled`) |
| `base/worker_thread_ttd_after_io_op.c:215` | a failed read of the source is printed and counted, its block is not sent, and without `-stoponerror` both programs may return 0 with a hole in the file; a short read is sent with stale data behind it |
| `base/restart.c:251-259` | built without optimisation (clang, `configure.ac:92-93`) the monitor reads the lowest worker's offset a second time when it records it; the worker may have moved past a block that another has not written (`RestartPointIsSafe` with `Reloads` TRUE) |
| `common/target_data.c:282-302`, `xnet/xnet_end_to_end_init.c:50` | XNI over TCP opens more sockets than there are workers, and each worker ends at the first end of file: data in the remaining sockets is lost and the copy returns 0 (ran: 50,000,000 bytes became 44,040,192); `OnlyUnreadSocketsLose` says what can be lost and where it is |
| `xni/xni_tcp.c:454` | after a failed send socket and buffer stay busy (`xni.h:272-273` says otherwise), and the source does not end |
| `xni/xni_tcp.c:544` | a source that dies between two frames looks like a regular end |
| `xnet/` | a refused connection leaves the source hanging (ran), a destination waits in accept for ever |
| `xni/xni_ib.c:1021-1027` | a message decoded when another worker has seen EOF is dropped; its buffer is posted again (`xni.h:291`) |
| `xni/xni_ib.c:467-470` | credit buffers stay busy when the poll after the send takes their completion |
| XNI with several passes | no EOF ends a pass; a receive after EOF would release a buffer that does not exist |

### bx

| Where | What happens |
| --- | --- |
| `bx/bx_target_thread.c:154` | with target 0 first in the sequence a worker released before its queue number is stored returns its buffer unwritten; the wakeup outside the mutex can be lost |
| `bx/bx_target_thread.c:190` | the flagged buffer and the one that is enqueued may differ; with three targets the end-of-file buffer is not passed on; TERMINATE does not release the worker |
| `bx/bx_user_interface.c:352` | with the sequence as the last argument the last target is not linked to the first (`SequenceIsLast` TRUE) |

Because of these points some properties are conditional: `RunCompletes` on a run
that is not canceled, `UndisturbedRunEnds` on no abort, `FirstPassEnds` on the
first pass and no expired limit, `CopyEnds` on no expired limit and no stalled
destination, `PlanStarts` on no failing call, dry run or interactive processor,
`TransferEnds` on no fault, `RoutedAreWritten` on the way a buffer took. What
`FileCopy` calls complete is a copy whose two programs ended with no error
returned or counted. `Restart` assumes `-stoponerror`, which the transfer tool
always gives; without it a failed write lets the recorded offset pass a hole.

## 5. Proofs

`TargetPassProofs` proves, for every queue depth, size, number of passes and
choice of options (`PassAssumption`), that

* `TypeCorrect`: every variable keeps its type;
* `TasksExclusive`: a task still to be performed is never overwritten;
* `OperationsExclusive`: no operation has two workers;
* `PassesDrain`: an uncanceled pass ends with no operation outstanding;
* `OutcomesFinal`: an operation's outcome does not change within its pass;
* `PassesAreComplete`: a pass that nothing cut short has issued its bytes in
  `NumOps` operations, all done or failed, and has completed all its bytes exactly
  if none failed.

All but the last follow from one inductive invariant, `IInv`. None of the properties is
inductive alone: that the target does not overwrite a task needs that an engaged
worker is BUSY (`EngagedIsBusy`) and that the target holds a worker it selected
and found idle (`WorkerSelected`); the drain needs that workers already visited
stay idle (`Drained`); exclusive operations need that operations in workers'
hands are below the next number and pairwise different (`HeldOperations`) and
that later ones are untouched (`Unissued`). There is one lemma per action, with
one step per conjunct that it may disturb, and `NextInvariant` puts them together.

`PassesAreComplete` needs a second invariant on top of it, `PassInv`. Bytes are
issued in order: until the last one, `XferSize` times the next operation number
have been (`BytesInOrder`), and a task has the size that belongs to its operation
(`HeldSizes`). An issued operation is held by a worker or has an outcome
(`IssuedIsHeld`), and the issuing loop ends early only if something cut the pass
short (`LoopOrder`). The completed bytes are those of the operations done, which is
a number of full transfers and possibly the last one (`BytesAreDone`): the sum over
the operations becomes a cardinality, so that no induction is needed. That this
number is `BytesPerPass` only if all are done uses that the last operation is not
empty (`OpsCoverBytes`, from the rounding in `NumOps`).

`RestartProofs` proves, for every queue depth, number of blocks, crashes, failing
writes and blocks in flight (`RestartAssumption`), and for the build that loads
the lowest offset once (`~Reloads`), that

* `RestartIsSafe`: whenever the process dies, every block below the offset in the
  restart file is in the destination file;
* `CompletedCopyIsWhole`: a copy that is declared complete has all its blocks.

The recorded offset is the minimum of offsets read at different times, so the
property itself says nothing about the scan. The invariant accounts for every
block that was assigned: it is written, or a worker *owes* it (it is on the
worker's connection, or in its hands, or its write failed and the worker keeps its
offset) (`BlocksAccounted`). A connection carries blocks in ascending order behind
the one in the worker's hands (`QueuesInOrder`), so the offset of a worker is not
beyond what it owes (`OffsetBelowDebt`). During a scan a missing block is at or
above the offset found so far, or owed by a worker that has still to be looked at
(`ScanIsSafe`); this survives the steps of the workers because a debt stays with
its worker until the block is written (`DebtsKept`).

`PassBarriersProofs` proves, for every number of targets and passes, with and
without a run time and whatever cancels or aborts the run (`BarrierAssumption`),
`PassesAreShared`: targets in a pass, or waiting for its end or its results, have
the same pass number. `SamePass` compares targets with each other and says
nothing of what brings them to the next pass. The invariant goes by the Results
Manager: as long as the run is neither aborted nor complete, its place gives one
of four phases (`Between`, `Working`, `Processing`, `Displaying`), each of which
says where every target may be and how its `tc_pass_number` compares with
`current_pass_number`. A barrier for all targets and the Results Manager lets
them go only together (`AllTogether`, a counting argument), which moves the
whole system to the next phase. After the run is over the phases no longer hold,
and no target is in a pass.

`LockstepProofs` proves, for every number of targets and operations, every list of
`-lockstep` options, queue depth and number of passes, with and without a time
limit (`LockstepAssumption`), `OnlyOneRuns`: at most one target of the ring issues
I/O or has I/O outstanding. The invariant treats the turn as a token (`HasTurn`):
before a pass only the target marked as the first has it (`First` has one element
at most), in a pass it is handed over in a barrier of two, and no two targets have
it (`OneTurn`). Two more conjuncts are needed: a target that has completed its
pass has nothing left to issue, so waking it gives it no turn (`CompleteIsDone`),
and workers are out only during the turn in which they were given their
operations, since the target drains them before it hands the turn on
(`FlyingInTurn`).

`EndToEndInvariant` and `EndToEndProofs` prove, for every queue depth, number of
blocks and capacity of the connections, and whatever breaks or fails
(`EndToEndAssumption`), that

* `FailedSendsAreReported`: a source that ends its pass after a failed send has
  set its error number;
* `CopyIsFileCopy`: the copy implements `FileCopy`. Every step is a step of
  `FileCopy` or a stutter: the write of a good block is `Copy`, the end of the side
  that ends last is `Complete` or `Fail`, an exit or an abort of the destination is
  `Fail`. It holds with and without `-stoponerror`.

The invariant has two halves. `SourceOrder`, `SourceEnds`, `DestOrder` and
`EofIsLast` are about the threads: BUSY workers, EOF tasks given in order and last,
and nothing behind an EOF on a connection. `OnePlace`, `AllGood` and `NothingLost`
are about the blocks: an issued block is with one source worker, on one connection,
with one destination worker or in the file; what is under way is good unless a read
failed, and so is the file unless a write failed; and a block may be missing only
if an error was counted, the destination has given up, or some connection is broken
and its EOF has not passed. So when both sides have ended with no error, all blocks
are in place. `Reported` says the same of errors: a connection that refused a block also refuses
the EOF that its worker has still to send. There is one lemma per action, and one
for each conjunct that says which variables it depends on.

`BufferExchangeProofs` proves, for every sequence of targets and number of workers
and buffers (`ExchangeAssumption`), `BuffersAreExclusive`: a buffer of bx is always
in exactly one place. The release of a worker is three stores outside its mutex,
so no lock carries the proof. `Order` follows the worker instead: it is on its
target's queue once, or in the target's hands, or released, and only a worker that
waits and has not been released is `Free` to be queued or taken; a released worker
keeps the buffer it was given. `OnePlace` gives each buffer one place. That the
count of places in `BufferHasOneOwner` is 1 follows from it, and that a queue is
never longer than the number of buffers is a pigeonhole argument (`QueueFits`).

Each inductive invariant was checked by TLC on small instances before it was
proved.

Only model-checked, and why:

* All liveness (`RunCompletes`, `UndisturbedRunEnds`, `FirstPassEnds`, `CopyEnds`,
  `TransferEnds`, `CopyCompletes`, `PlanStarts`): the proof system does not handle
  fairness.
* `TurnsGoRound` (the ring is built by recursion over the options),
  `CombinedIsTheSum`, `ElapsedCoversThePasses` and `CreditsAreCovered` (sums,
  minima and maxima over sets): they need induction over data. So does everything
  about `Options`, whose statements are folds over command lines.
* `WritesWhatWasRead`, `RoutedAreWritten` and `EndsWithIdleWorkers`, the properties of
  `PlanStart` and `Transport`: not proved so far.
* `OrderedPassDrains`, `AllWrittenAtEnd` and `OperationsReachTheirFile` are false of
  the code, which is what their runs show.

## 6. Not modelled, and why

* Access patterns: the seek list is computed before the passes, and each operation
  takes its offset from it (`base/target_ttd_before_io_op.c:204-210`,
  `target_pass.c:211`). The modules number the operations of a pass and leave the
  place of each one open. Read-after-write: compiled out. Verification: never called.
* Throttle, time stamps, report thresholds, extended statistics, latencies and
  CPU times: arithmetic on clock values in floating point. The waiting at the
  syncio and trigger barriers during a pass; `PlanStart` has their set-up only.
* Heartbeat reports, result display, help texts, interactive show commands:
  formatting.
* Data patterns, buffer allocation, scheduling, SCSI commands, preallocation:
  calls without state of their own; their outcome is an input.
* `xni_udt.c`: the text of `xni_tcp.c` over another library. Address and memory
  set-up of the transports.
* The setters of the library interface, one assignment each; the lite client and
  server, a front end that starts one plan for each connection.
* The transfer manager's remote servers and the partition of a file over flows;
  `Restart` has the resumption.
* bx options other than the sequence, utilities that read and print, the storage
  profiler, wrappers for other operating systems.
