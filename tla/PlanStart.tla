------------------------------ MODULE PlanStart ------------------------------
(***************************************************************************)
(* The start of a plan: main initialises the plan's barriers and starts    *)
(* one thread after the other, the targets (each starts its workers the    *)
(* same way), the Results Manager and, when asked for, the heartbeat, the  *)
(* restart monitor and the interactive command processor.  It meets each   *)
(* of them at the two-party main_general_init_barrier and finally releases *)
(* the targets from main_targets_waitforstart_barrier.                     *)
(*                                                                         *)
(* Barriers are xdd_barriers (common/barrier.c): a chain, linked through   *)
(* next and prev pointers, of all that are initialised, which the exit     *)
(* paths destroy from the front; and an occupant list for each, which the  *)
(* owner of the barrier clears when it is released.  Destroying a barrier  *)
(* that has occupants is undefined: the call blocks (glibc) or succeeds.   *)
(*                                                                         *)
(* At most one library call fails in a start.  The module ends where the   *)
(* passes begin: PassBarriers and TargetPass take over.                    *)
(***************************************************************************)
EXTENDS Integers, Sequences, FiniteSets, TLC, SequencesExt

CONSTANTS
  NumTargets,   \* planp->number_of_targets
  QueueDepth,   \* td_queue_depth of every target
  E2ETargets, TriggerTargets, \* targets with TO_ENDTOEND, TO_WAITFORSTART
  Options,      \* the combinations of options considered
  Faults        \* what may fail: subset of {create, barrier, target, worker, support}

\* A plan without targets is refused: a barrier for 0 threads cannot be
\* initialised.
ASSUME StartAssumption ==
  /\ NumTargets \in Nat \ {0} /\ QueueDepth \in Nat \ {0}
  /\ E2ETargets \union TriggerTargets \subseteq 1 .. NumTargets
  /\ Options \subseteq [heartbeat : BOOLEAN, restart : BOOLEAN, interactive : BOOLEAN,
                        restarts : SUBSET (1 .. NumTargets),
                        dryrun : BOOLEAN, library : BOOLEAN,
                        signals : SUBSET {"SIGTERM", "SIGUSR1"}]

VARIABLES
  opt,        \* GO_HEARTBEAT, restart_frequency # 0, the targets with a restart
              \* structure, GO_INTERACTIVE, GO_DRYRUN, whether libxdd is used and
              \* the signals that may come
  pc,         \* where each thread is
  at,         \* the barrier a thread is inside, or NULL
  clearing,   \* the barrier whose occupants a released owner has still to clear
  n,          \* how many threads of StartOrder main has started
  w,          \* how many workers each target has started
  available,  \* td_any_worker_thread_available
  chain,      \* barrier_chain_first, _last, _count and the links
  initialized,\* the barriers with XDD_BARRIER_FLAG_INITIALIZED
  occupants,  \* the occupant list of each barrier
  abort,      \* xgp->abort
  code,       \* what main will exit with once the barriers are destroyed
  exit,       \* the exit status of the process
  fault       \* some call has failed

vars == <<opt, pc, at, clearing, n, w, available, chain, initialized,
          occupants, abort, code, exit, fault>>

NULL == <<>>
Targets == 1 .. NumTargets
Workers == 1 .. QueueDepth

(* Threads *)
MAIN == <<"main", 0, 0>>
TARGET(t) == <<"target", t, 0>>
WORKER(t, q) == <<"worker", t, q>>
RESULTS == <<"results_manager", 0, 0>>
HEARTBEAT == <<"heartbeat", 0, 0>>
RESTART == <<"restart_monitor", 0, 0>>
INTERACTIVE == <<"interactive", 0, 0>>
Support == {RESULTS, HEARTBEAT, RESTART, INTERACTIVE}
Threads == {MAIN} \union {TARGET(t) : t \in Targets} \union Support
             \union {WORKER(t, q) : t \in Targets, q \in Workers}

(* Barriers *)
GeneralInit == <<"main_general_init", 0, 0>>
WaitForStart == <<"main_targets_waitforstart", 0, 0>>
SyncIo == <<"main_targets_syncio", 0, 0>>
Final == <<"main_results_final", 0, 0>>
Display == <<"results_targets_display", 0, 0>>
StartPass == <<"results_targets_startpass", 0, 0>>
EndPass == <<"results_targets_endpass", 0, 0>>
WaitForCleanup == <<"results_targets_waitforcleanup", 0, 0>>
WorkerInit(t) == <<"target_worker_thread_init", t, 0>>
PassComplete(t) == <<"targetpass_worker_thread_passcomplete", t, 0>>
EofComplete(t) == <<"targetpass_worker_thread_eofcomplete", t, 0>>
StartTrigger(t) == <<"target_target_starttrigger", t, 0>>
WaitForTask(t, q) == <<"worker_thread_targetpass_wait", t, q>>

PlanBarriers == <<GeneralInit, WaitForStart, SyncIo, Final>>
xdd_results_manager_init == <<Display, StartPass, EndPass, WaitForCleanup>>
xint_target_init_barriers(t) ==
  <<WorkerInit(t), PassComplete(t)>>
  \o (IF t \in E2ETargets THEN <<EofComplete(t)>> ELSE <<>>)
  \o (IF t \in TriggerTargets THEN <<StartTrigger(t)>> ELSE <<>>)

Barriers == Range(PlanBarriers) \union Range(xdd_results_manager_init)
              \union UNION {Range(xint_target_init_barriers(t)) : t \in Targets}
              \union {WaitForTask(t, q) : t \in Targets, q \in Workers}

\* The number of threads each barrier is initialised for.
ThreadsOfBug(b) ==
  CASE b = WaitForStart -> NumTargets
    [] b = SyncIo -> NumTargets
    [] b \in Range(xdd_results_manager_init) -> NumTargets + 1
    [] b[1] = "targetpass_worker_thread_passcomplete" -> QueueDepth + 1
    [] OTHER -> 2
ThreadsOf(b) ==
  CASE b = WaitForStart -> NumTargets + 1
    [] b = SyncIo -> NumTargets
    [] b \in Range(xdd_results_manager_init) -> NumTargets + 1
    [] b[1] = "targetpass_worker_thread_passcomplete" -> QueueDepth + 1
    [] OTHER -> 2

\* The thread that passes owner = 1 to xdd_barrier().
Owner(b) ==
  CASE b \in {GeneralInit, WaitForStart, Final} -> MAIN
    [] b \in Range(xdd_results_manager_init) -> RESULTS
    [] b[1] = "worker_thread_targetpass_wait" -> WORKER(b[2], b[3])
    [] OTHER -> TARGET(b[2])
-----------------------------------------------------------------------------
(* The barrier chain.                                                      *)

xdd_init_barrier_chain ==
  [first |-> NULL, last |-> NULL, count |-> 0,
   next |-> [b \in Barriers |-> NULL], prev |-> [b \in Barriers |-> NULL]]

\* A new barrier is linked at the end.
LinkBug(c, b) ==
  IF c.count = 0
  THEN [c EXCEPT !.first = b, !.last = b, !.next[b] = b, !.prev[b] = b, !.count = 1]
  ELSE [c EXCEPT !.next = [@ EXCEPT ![b] = c.first, ![c.last] = b],
                 !.prev[b] = c.last, !.count = @ + 1]
Link(c, b) ==
  IF c.count = 0
  THEN [c EXCEPT !.first = b, !.last = b, !.next[b] = b, !.prev[b] = b, !.count = 1]
  ELSE [c EXCEPT !.next = [@ EXCEPT ![b] = c.first, ![c.last] = b],
                 !.prev[b] = c.last, !.last = b, !.count = @ + 1]

Unlink(c, b) ==
  LET p == c.prev[b]
      s == c.next[b]
      ends == IF c.count = 1 THEN [first |-> NULL, last |-> NULL]
              ELSE [first |-> IF c.first = b THEN s ELSE c.first,
                    last |-> IF c.last = b THEN p ELSE c.last]
      next == IF c.count = 1 \/ p = NULL THEN c.next ELSE [c.next EXCEPT ![p] = s]
      prev == IF c.count = 1 \/ s = NULL THEN c.prev ELSE [c.prev EXCEPT ![s] = p]
  IN  [first |-> ends.first, last |-> ends.last, count |-> c.count - 1,
       next |-> [next EXCEPT ![b] = NULL], prev |-> [prev EXCEPT ![b] = NULL]]

\* xdd_init_barrier() for each barrier of bs in turn; the ones of failed are
\* not initialised and do not get on the chain.
xdd_init_barrier(bs, failed) ==
  LET good == SelectSeq(bs, LAMBDA b : b \notin failed)
  IN  /\ chain' = FoldLeft(Link, chain, good)
      /\ initialized' = initialized \union Range(good)

\* Which barriers of bs fail: none, or one.
FailingOf(bs) ==
  {{}} \union (IF "barrier" \in Faults /\ ~fault THEN {{b} : b \in Range(bs)} ELSE {})

Inside(b) == {x \in Threads : at[x] = b}

\* xdd_barrier() up to the wait: get on the occupant list and wait.
Enter(x, b, label) ==
  /\ at' = [at EXCEPT ![x] = b]
  /\ occupants' = [occupants EXCEPT ![b] = Append(@, x)]
  /\ pc' = [pc EXCEPT ![x] = label]

\* The barrier releases as many threads as it was initialised for.
Release(b) ==
  /\ exit = "none" /\ b \in initialized
  /\ \E group \in SUBSET Inside(b) :
       /\ Cardinality(group) = ThreadsOf(b)
       /\ at' = [x \in Threads |-> IF x \in group THEN NULL ELSE at[x]]
       /\ clearing' = [x \in Threads |->
            IF x \in group /\ x = Owner(b) THEN b ELSE clearing[x]]
  /\ UNCHANGED <<opt, pc, n, w, available, chain, initialized, occupants,
                 abort, code, exit, fault>>

\* The rest of xdd_barrier() for the owner.
ClearBug(x) ==
  /\ exit = "none" /\ at[x] = NULL /\ clearing[x] # NULL
  /\ clearing' = [clearing EXCEPT ![x] = NULL]
  /\ UNCHANGED <<opt, pc, at, n, w, available, chain, initialized, occupants,
                 abort, code, exit, fault>>
Clear(x) ==
  /\ exit = "none" /\ at[x] = NULL /\ clearing[x] # NULL
  /\ occupants' = [occupants EXCEPT ![clearing[x]] = <<>>]
  /\ clearing' = [clearing EXCEPT ![x] = NULL]
  /\ UNCHANGED <<opt, pc, at, n, w, available, chain, initialized,
                 abort, code, exit, fault>>

\* Thread x is at label and not held by a barrier.
At(x, label) ==
  exit = "none" /\ pc[x] = label /\ at[x] = NULL /\ clearing[x] = NULL
Goto(x, label) == pc' = [pc EXCEPT ![x] = label]
MayFail(kind) == kind \in Faults /\ ~fault
-----------------------------------------------------------------------------
(* xint_plan.c: main.                                                      *)

\* The threads main starts, in order.
StartOrder ==
  [t \in Targets |-> TARGET(t)] \o <<RESULTS>>
  \o (IF opt.heartbeat THEN <<HEARTBEAT>> ELSE <<>>)
  \o (IF opt.restart THEN <<RESTART>> ELSE <<>>)
  \o (IF opt.interactive THEN <<INTERACTIVE>> ELSE <<>>)

Init ==
  /\ opt \in Options
  /\ pc = [x \in Threads |-> IF x = MAIN THEN "start" ELSE "none"]
  /\ at = [x \in Threads |-> NULL]
  /\ clearing = [x \in Threads |-> NULL]
  /\ n = 0
  /\ w = [t \in Targets |-> 0]
  /\ available = [t \in Targets |-> 0]
  /\ chain = xdd_init_barrier_chain
  /\ initialized = {}
  /\ occupants = [b \in Barriers |-> <<>>]
  /\ abort = FALSE /\ fault = FALSE
  /\ code = "none" /\ exit = "none"

\* Leave through xdd_destroy_all_barriers().  xdd exits with TARGET_START_FAILURE
\* when xint_plan_start() fails; xdd_plan_start() of the library returns 1.
Destroy(why) == Goto(MAIN, "destroy") /\ code' = why
StartFailed == Destroy(IF opt.library THEN "returned 1" ELSE "TARGET_START_FAILURE")

xint_plan_start ==
  /\ At(MAIN, "start")
  /\ \E failed \in FailingOf(PlanBarriers) :
       /\ xdd_init_barrier(PlanBarriers, failed)
       /\ \/ failed = {} /\ Goto(MAIN, "create") /\ UNCHANGED code
          \/ failed # {} /\ StartFailed
       /\ fault' = (failed # {})
  /\ UNCHANGED <<opt, at, clearing, n, w, available, occupants, abort, exit>>

\* pthread_create() for the next thread.  A failure for the Results Manager is
\* not noticed (it is tested with status < 0), one for the heartbeat is
\* printed: main goes on to the barrier in both cases.
CreateThread ==
  /\ At(MAIN, "create") /\ n < Len(StartOrder)
  /\ LET x == StartOrder[n + 1]
     IN  \/ /\ pc' = [pc EXCEPT ![MAIN] = "enter", ![x] = "init"]
            /\ UNCHANGED <<code, fault>>
         \/ /\ MayFail("create") /\ fault' = TRUE
            /\ \/ x \notin Support /\ StartFailed
               \/ x \in {RESULTS, HEARTBEAT} /\ Goto(MAIN, "enter") /\ UNCHANGED code
               \/ x \in {RESTART, INTERACTIVE} /\ Destroy("INIT_FAILURE")
  /\ UNCHANGED <<opt, at, clearing, n, w, available, chain, initialized,
                 occupants, abort, exit>>

WaitForThread ==
  /\ At(MAIN, "enter")
  /\ Enter(MAIN, GeneralInit, "check")
  /\ UNCHANGED <<opt, clearing, n, w, available, chain, initialized, abort,
                 code, exit, fault>>

CheckThread ==
  /\ At(MAIN, "check")
  /\ \/ /\ n < NumTargets /\ abort
        /\ StartFailed /\ UNCHANGED n
     \/ /\ ~(n < NumTargets /\ abort)
        /\ Goto(MAIN, "create") /\ n' = n + 1 /\ UNCHANGED code
  /\ UNCHANGED <<opt, at, clearing, w, available, chain, initialized,
                 occupants, abort, exit, fault>>

StartTargets ==
  /\ At(MAIN, "create") /\ n = Len(StartOrder)
  /\ Enter(MAIN, WaitForStart, "started")
  /\ UNCHANGED <<opt, clearing, n, w, available, chain, initialized, abort,
                 code, exit, fault>>

\* main() after xint_plan_start(); xdd_plan_wait() for the library.
PlanStarted ==
  /\ At(MAIN, "started")
  /\ \/ opt.dryrun /\ Destroy("SUCCESS") /\ UNCHANGED <<at, occupants>>
     \/ ~opt.dryrun /\ Enter(MAIN, Final, "finished") /\ UNCHANGED code
  /\ UNCHANGED <<opt, clearing, n, w, available, chain, initialized, abort,
                 exit, fault>>

PlanFinished ==
  /\ At(MAIN, "finished")
  /\ Destroy("SUCCESS")
  /\ UNCHANGED <<opt, at, clearing, n, w, available, chain, initialized,
                 occupants, abort, exit, fault>>

\* One turn of xdd_destroy_all_barriers(); main exits when the chain is empty.
xdd_destroy_barrier ==
  /\ At(MAIN, "destroy")
  /\ LET b == chain.first
     IN  \/ /\ b = NULL /\ exit' = code
            /\ UNCHANGED <<pc, chain, initialized>>
         \/ /\ b \in initialized
            /\ initialized' = initialized \ {b}
            /\ \/ chain' = Unlink(chain, b) /\ UNCHANGED pc
               \/ Inside(b) # {} /\ Goto(MAIN, "stuck") /\ UNCHANGED chain
            /\ UNCHANGED exit
  /\ UNCHANGED <<opt, at, clearing, n, w, available, occupants, abort, code, fault>>
-----------------------------------------------------------------------------
(* target_thread.c and target_init.c.                                      *)

\* xint_target_init() has returned: tell main, or tell it to give up.
Initialised(t) == Enter(TARGET(t), GeneralInit, "initialised")
GiveUp(t) == Initialised(t) /\ abort' = TRUE

\* Up to the workers: open the target, lay out the seek list, initialise
\* lockstep, then the barriers, the Target Offset Table and the end-to-end
\* address; any of them may fail.
xint_target_init(t) ==
  /\ At(TARGET(t), "init")
  /\ \/ /\ MayFail("target") /\ fault' = TRUE /\ GiveUp(t)
        /\ UNCHANGED <<chain, initialized>>
     \/ \E failed \in FailingOf(xint_target_init_barriers(t)) :
          /\ xdd_init_barrier(xint_target_init_barriers(t), failed)
          /\ \/ /\ failed = {} /\ Goto(TARGET(t), "workers")
                /\ UNCHANGED <<at, occupants, abort, fault>>
             \/ /\ failed # {} \/ MayFail("target")
                /\ fault' = TRUE /\ GiveUp(t)
  /\ UNCHANGED <<opt, clearing, n, w, available, code, exit>>

\* Start the workers one by one; with all of them running an XNI target still
\* has to connect.
xint_target_init_start_worker_threads(t) ==
  /\ At(TARGET(t), "workers")
  /\ \/ /\ w[t] < QueueDepth
        /\ pc' = [pc EXCEPT ![TARGET(t)] = "enter", ![WORKER(t, w[t] + 1)] = "init"]
        /\ UNCHANGED <<at, occupants, abort, fault>>
     \/ /\ w[t] < QueueDepth /\ MayFail("create")
        /\ fault' = TRUE /\ GiveUp(t)
     \/ /\ w[t] = QueueDepth /\ Initialised(t)
        /\ UNCHANGED <<abort, fault>>
     \/ /\ w[t] = QueueDepth /\ t \in E2ETargets /\ MayFail("target")
        /\ fault' = TRUE /\ GiveUp(t)
  /\ UNCHANGED <<opt, clearing, n, w, available, chain, initialized, code, exit>>

WaitForWorker(t) ==
  /\ At(TARGET(t), "enter")
  /\ Enter(TARGET(t), WorkerInit(t), "check")
  /\ UNCHANGED <<opt, clearing, n, w, available, chain, initialized, abort,
                 code, exit, fault>>

CheckWorker(t) ==
  /\ At(TARGET(t), "check")
  /\ \/ abort /\ GiveUp(t) /\ UNCHANGED w
     \/ /\ ~abort /\ Goto(TARGET(t), "workers")
        /\ w' = [w EXCEPT ![t] = @ + 1]
        /\ UNCHANGED <<at, occupants, abort>>
  /\ UNCHANGED <<opt, clearing, n, available, chain, initialized, code, exit, fault>>

\* xdd_target_thread() past the init barrier, and past waitforstart.
xdd_target_thread(t) ==
  /\ \/ /\ At(TARGET(t), "initialised") /\ ~abort
        /\ Enter(TARGET(t), WaitForStart, "released")
     \/ /\ At(TARGET(t), "released") /\ ~opt.dryrun
        /\ Enter(TARGET(t), StartPass, "pass")
     \/ /\ \/ At(TARGET(t), "initialised") /\ abort
           \/ At(TARGET(t), "released") /\ opt.dryrun
        /\ Goto(TARGET(t), "gone") /\ UNCHANGED <<at, occupants>>
  /\ UNCHANGED <<opt, clearing, n, w, available, chain, initialized, abort,
                 code, exit, fault>>

\* Mutexes, descriptor and buffers, then the wait barrier; the worker counts
\* itself available before the end-to-end set up that may still fail.
xdd_worker_thread_init(t, q) ==
  LET x == WORKER(t, q)
  IN  /\ At(x, "init")
      /\ Enter(x, WorkerInit(t), "initialised")
      /\ \/ /\ MayFail("worker") /\ abort' = TRUE /\ fault' = TRUE
            /\ UNCHANGED <<chain, initialized, available>>
         \/ \E failed \in FailingOf(<<WaitForTask(t, q)>>) :
              /\ xdd_init_barrier(<<WaitForTask(t, q)>>, failed)
              /\ available' = [available EXCEPT ![t] = IF failed = {} THEN @ + 1 ELSE @]
              /\ \/ failed = {} /\ UNCHANGED <<abort, fault>>
                 \/ /\ failed # {} \/ (t \in E2ETargets /\ MayFail("worker"))
                    /\ abort' = TRUE /\ fault' = TRUE
      /\ UNCHANGED <<opt, clearing, n, w, code, exit>>

xdd_worker_thread(t, q) ==
  LET x == WORKER(t, q)
  IN  /\ At(x, "initialised")
      /\ \/ /\ abort \/ opt.dryrun
            /\ Goto(x, "gone") /\ UNCHANGED <<at, occupants>>
         \/ /\ ~(abort \/ opt.dryrun)
            /\ Enter(x, WaitForTask(t, q), "task")
      /\ UNCHANGED <<opt, clearing, n, w, available, chain, initialized, abort,
                     code, exit, fault>>
-----------------------------------------------------------------------------
(* The support threads.                                                    *)

\* A Results Manager that cannot initialise leaves without main's barrier.
xdd_results_manager ==
  /\ At(RESULTS, "init")
  /\ \/ /\ MayFail("support") /\ fault' = TRUE
        /\ Goto(RESULTS, "gone")
        /\ UNCHANGED <<at, occupants, chain, initialized>>
     \/ \E failed \in FailingOf(xdd_results_manager_init) :
          /\ xdd_init_barrier(xdd_results_manager_init, failed)
          /\ fault' = (fault \/ failed # {})
          /\ \/ failed = {} /\ Enter(RESULTS, GeneralInit, "loop")
             \/ failed # {} /\ Goto(RESULTS, "gone") /\ UNCHANGED <<at, occupants>>
  /\ UNCHANGED <<opt, clearing, n, w, available, abort, code, exit>>

ResultsLoop ==
  /\ At(RESULTS, "loop")
  /\ Enter(RESULTS, StartPass, "startpass")
  /\ UNCHANGED <<opt, clearing, n, w, available, chain, initialized, abort,
                 code, exit, fault>>

\* The heartbeat opens its files and picks its interval.
xdd_heartbeatBug ==
  /\ At(HEARTBEAT, "init")
  /\ Goto(HEARTBEAT, "beating")
  /\ UNCHANGED <<opt, at, occupants, clearing, n, w, available, chain, initialized,
                 abort, code, exit, fault>>
xdd_heartbeat ==
  /\ At(HEARTBEAT, "init")
  /\ Enter(HEARTBEAT, GeneralInit, "beating")
  /\ UNCHANGED <<opt, clearing, n, w, available, chain, initialized, abort,
                 code, exit, fault>>

\* The monitor initialises the lock in the restart structure of every target;
\* a target that has none is a null pointer.
xdd_restart_monitor ==
  /\ At(RESTART, "init")
  /\ \/ /\ opt.restarts # Targets /\ exit' = "SIGSEGV"
        /\ UNCHANGED <<pc, at, occupants, fault>>
     \/ /\ MayFail("support") /\ fault' = TRUE
        /\ Goto(RESTART, "gone") /\ UNCHANGED <<at, occupants, exit>>
     \/ /\ opt.restarts = Targets
        /\ Enter(RESTART, GeneralInit, "monitoring")
        /\ UNCHANGED <<fault, exit>>
  /\ UNCHANGED <<opt, clearing, n, w, available, chain, initialized, abort, code>>

\* The command processor always behaves as the debugger that a signal starts:
\* it initialises no barrier and enters none.
xdd_interactive ==
  /\ At(INTERACTIVE, "init")
  /\ Goto(INTERACTIVE, "commands")
  /\ UNCHANGED <<opt, at, clearing, n, w, available, chain, initialized,
                 occupants, abort, code, exit, fault>>

\* "exit" enters main's final barrier; "run" waits at the interactive barrier,
\* which is all zeroes: the wait divides by its count.  The thread leaves at
\* the end of the input; the other commands only display.
xdd_interactive_parse_command ==
  /\ At(INTERACTIVE, "commands")
  /\ \/ Enter(INTERACTIVE, Final, "gone") /\ UNCHANGED exit
     \/ exit' = "SIGFPE" /\ UNCHANGED <<pc, at, occupants>>
     \/ Goto(INTERACTIVE, "gone") /\ UNCHANGED <<at, occupants, exit>>
  /\ UNCHANGED <<opt, clearing, n, w, available, chain, initialized, abort,
                 code, fault>>

\* SIGUSR1 starts the debugger (one at a time here), the others end the process.
xdd_signal_handler ==
  /\ exit = "none"
  /\ \/ "SIGTERM" \in opt.signals /\ exit' = "SIGTERM" /\ UNCHANGED <<pc, fault>>
     \/ /\ "SIGUSR1" \in opt.signals /\ pc[INTERACTIVE] = "none" /\ ~opt.interactive
        /\ Goto(INTERACTIVE, "init") /\ UNCHANGED <<exit, fault>>
     \/ /\ "SIGUSR1" \in opt.signals /\ pc[INTERACTIVE] = "none" /\ ~opt.interactive
        /\ MayFail("create") /\ fault' = TRUE
        /\ exit' = "1" /\ UNCHANGED pc
  /\ UNCHANGED <<opt, at, clearing, n, w, available, chain, initialized,
                 occupants, abort, code>>
-----------------------------------------------------------------------------
MainStep ==
  \/ xint_plan_start \/ CreateThread \/ WaitForThread \/ CheckThread
  \/ StartTargets \/ PlanStarted \/ PlanFinished \/ xdd_destroy_barrier

TargetStep(t) ==
  \/ xint_target_init(t) \/ xint_target_init_start_worker_threads(t)
  \/ WaitForWorker(t) \/ CheckWorker(t) \/ xdd_target_thread(t)

WorkerStep(t, q) == xdd_worker_thread_init(t, q) \/ xdd_worker_thread(t, q)

SupportStep ==
  \/ xdd_results_manager \/ ResultsLoop \/ xdd_heartbeat \/ xdd_restart_monitor
  \/ xdd_interactive

\* The targets and the Results Manager stay inside startpass: its release is
\* the first step of PassBarriers.
Next ==
  \/ MainStep
  \/ \E t \in Targets : TargetStep(t)
  \/ \E t \in Targets, q \in Workers : WorkerStep(t, q)
  \/ SupportStep
  \/ \E b \in Barriers \ {StartPass} : Release(b)
  \/ \E x \in Threads : Clear(x)
  \/ xdd_interactive_parse_command
  \/ xdd_signal_handler

\* Every thread that can run is scheduled; nobody has to type a command or
\* send a signal.
Fairness ==
  /\ WF_vars(MainStep) /\ WF_vars(SupportStep)
  /\ \A t \in Targets : WF_vars(TargetStep(t))
  /\ \A t \in Targets, q \in Workers : WF_vars(WorkerStep(t, q))
  /\ \A b \in Barriers \ {StartPass} : WF_vars(Release(b))
  /\ \A x \in Threads : WF_vars(Clear(x))

Spec == Init /\ [][Next]_vars /\ Fairness
-----------------------------------------------------------------------------
(* Properties.                                                             *)

Running(t) == pc[TARGET(t)] = "pass" \/ At(TARGET(t), "released")

\* No target is released from main_targets_waitforstart_barrier before all
\* targets, all their workers and every support thread that was asked for have
\* initialised, nor after an initialisation failed (xint_plan_start).
AllOrNone ==
  (\E t \in Targets : Running(t)) =>
    /\ ~abort
    /\ \A t \in Targets : w[t] = QueueDepth /\ available[t] = QueueDepth
    /\ \A x \in Range(StartOrder) : pc[x] \notin {"none", "init"} \/ fault

\* The chain that xdd_destroy_all_barriers() walks reaches, from
\* barrier_chain_first, exactly the barriers that are initialised and ends at
\* barrier_chain_last, whatever failed and however far the destruction got
\* (xdd_init_barrier, xdd_destroy_barrier).
ChainIsComplete ==
  LET walk[i \in 1 .. chain.count] ==
        IF i = 1 THEN chain.first ELSE chain.next[walk[i - 1]]
  IN  pc[MAIN] # "stuck" =>
        /\ chain.count = Cardinality(initialized)
        /\ {walk[i] : i \in 1 .. chain.count} = initialized
        /\ IF chain.count = 0 THEN chain.first = NULL
           ELSE walk[chain.count] = chain.last

\* The occupant list that the debugger shows has every thread inside a barrier
\* and never outgrows it: the owner clears it before anyone can enter for the
\* next round (xdd_barrier).
OccupantsAreTracked ==
  \A b \in Barriers :
    /\ Inside(b) \subseteq Range(occupants[b])
    /\ Len(occupants[b]) <= ThreadsOf(b)

\* What PassBarriers and TargetPass start from: main at the final barrier, the
\* targets and the Results Manager inside startpass, every worker available and
\* waiting for a task.
PassesCanBegin ==
  /\ at[MAIN] = Final /\ at[RESULTS] = StartPass
  /\ \A t \in Targets : at[TARGET(t)] = StartPass /\ available[t] = QueueDepth
  /\ \A t \in Targets, q \in Workers : at[WORKER(t, q)] = WaitForTask(t, q)

\* Unless a call fails, the interactive processor is started or the process ends
\* early, a plan that is not a dry run gets to the initial state of the passes (xint_plan_start).
PlanStarts ==
  <>(PassesCanBegin \/ fault \/ opt.dryrun \/ pc[INTERACTIVE] # "none" \/ exit # "none")

=============================================================================
