------------------------------ MODULE DirectIo ------------------------------
(***************************************************************************)
(* The file descriptors of the targets (base/target_open.c) and direct I/O *)
(* (base/worker_thread_ttd_before_io_op.c and ..._after_io_op.c, as built  *)
(* for Linux).                                                             *)
(*                                                                         *)
(* The workers of a target share its descriptor td_file_desc, which every  *)
(* task copies.  An operation that is not aligned to a page cannot use a   *)
(* descriptor opened with O_DIRECT: its worker clears TO_DIO in the        *)
(* options of the target, opens the file again, sets TO_DIO, and after the *)
(* operation closes what it opened.  With -reopen, -recreatefiles and      *)
(* -createnewfiles the target closes and opens its file between passes.    *)
(* Descriptors are numbers that the system gives out again, lowest first,  *)
(* so a descriptor kept after its close may stand for another file.        *)
(***************************************************************************)
EXTENDS Integers, FiniteSets, FiniteSetsExt, TLC

CONSTANTS
  Configs,  \* the runs considered: [targets, depth, passes, ops, unaligned,
            \* dio, op, mode], unaligned being a set of operation numbers
  MaxFd     \* bound on descriptor numbers

VARIABLES
  cfg,          \* one of Configs
  fds,          \* the open descriptors, with the file and the mode of each
  dir,          \* the file that each name stands for
  created,      \* the number of files created so far
  td_file_desc, \* of each target
  dio,          \* TO_DIO is set in td_target_options of the target
  task,         \* of each worker: [pc, op, fd], the descriptor being
                \* task_file_desc
  issued,       \* operations of the pass handed out so far
  pass,         \* tc_pass_number of each target
  tpc,          \* where each target is
  abort         \* xgp->abort

vars == <<cfg, fds, dir, created, td_file_desc, dio, task, issued, pass, tpc,
          abort>>

Targets == 1 .. cfg.targets
Workers == Targets \X (1 .. cfg.depth)

Aligned(op) == op \notin cfg.unaligned

-----------------------------------------------------------------------------
(* base/target_open.c *)

\* The name changes with the pass if every pass gets a new file.
xdd_target_name(t) == IF cfg.mode = "createnew" THEN <<t, pass[t]>> ELSE <<t, 0>>

\* Only a target that is written may be missing.
xdd_target_existence_check(t) ==
  xdd_target_name(t) \in DOMAIN dir \/ cfg.op = "write"

FreeFd == Min((1 .. MaxFd) \ DOMAIN fds)

Without(f, x) == [y \in DOMAIN f \ {x} |-> f[y]]

close(fd) == fds' = Without(fds, fd)

\* A file that is missing is created; the mode is what TO_DIO says now.
xdd_target_open(t) ==
  LET name == xdd_target_name(t)
      file == IF name \in DOMAIN dir THEN dir[name] ELSE created + 1
  IN  /\ created' = IF name \in DOMAIN dir THEN created ELSE created + 1
      /\ dir' = (name :> file) @@ dir
      /\ fds' = (FreeFd :> [file |-> file, direct |-> dio[t]]) @@ fds
      /\ td_file_desc' = [td_file_desc EXCEPT ![t] = FreeFd]

\* xdd_target_reopen closes the descriptor, and removes the file if every pass
\* is to create it afresh ...
ReopenClose(t) ==
  /\ tpc[t] = "close"
  /\ close(td_file_desc[t])
  /\ dir' = IF cfg.mode = "recreate" THEN Without(dir, xdd_target_name(t)) ELSE dir
  /\ tpc' = [tpc EXCEPT ![t] = "open"]
  /\ UNCHANGED <<cfg, created, td_file_desc, dio, task, issued, pass, abort>>

\* ... and opens the file again, or aborts the run.
ReopenOpen(t) ==
  /\ tpc[t] = "open"
  /\ tpc' = [tpc EXCEPT ![t] = "startpass"]
  /\ IF xdd_target_existence_check(t)
     THEN xdd_target_open(t) /\ UNCHANGED abort
     ELSE abort' = TRUE /\ UNCHANGED <<created, dir, fds, td_file_desc>>
  /\ UNCHANGED <<cfg, dio, task, issued, pass>>

-----------------------------------------------------------------------------
(* A pass: the target hands out operations, its workers perform them. *)

xdd_target_pass_task_setup(t, q) ==
  /\ tpc[t] = "inPass"
  /\ issued[t] < cfg.ops
  /\ task[t, q].pc = "idle"
  /\ issued' = [issued EXCEPT ![t] = @ + 1]
  /\ task' = [task EXCEPT ![t, q] =
       [pc |-> "before", op |-> issued[t] + 1, fd |-> td_file_desc[t]]]
  /\ UNCHANGED <<cfg, fds, dir, created, td_file_desc, dio, pass, tpc, abort>>

At(t, q, label) == task[t, q].pc = label
Goto(t, q, label) == task' = [task EXCEPT ![t, q].pc = label]

\* xdd_dio_before_io_op: nothing to do without TO_DIO or for an operation that
\* is aligned, else TO_DIO is cleared for the open that follows.
NeedsBuffered(t, q) == dio[t] /\ ~Aligned(task[t, q].op)

DioDuringOpen(t, q) == dio[t] /\ ~NeedsBuffered(t, q)

xdd_dio_before_io_op(t, q) ==
  /\ At(t, q, "before")
  /\ Goto(t, q, IF NeedsBuffered(t, q) THEN "open" ELSE "io")
  /\ dio' = [dio EXCEPT ![t] = DioDuringOpen(t, q)]
  /\ UNCHANGED <<cfg, fds, dir, created, td_file_desc, issued, pass, tpc, abort>>

OpenBuffered(t, q) ==
  /\ At(t, q, "open")
  /\ xdd_target_open(t)
  /\ Goto(t, q, "opened")
  /\ UNCHANGED <<cfg, dio, issued, pass, tpc, abort>>

\* "Since the file was re-opened it has a new file descriptor."
UseNewDescriptor(t, q) ==
  /\ task' = [task EXCEPT ![t, q].pc = "io", ![t, q].fd = td_file_desc[t]]
  /\ dio' = [dio EXCEPT ![t] = TRUE]

BeforeIsDone(t, q) ==
  /\ At(t, q, "opened")
  /\ UseNewDescriptor(t, q)
  /\ UNCHANGED <<cfg, fds, dir, created, td_file_desc, issued, pass, tpc, abort>>

\* pread() or pwrite() on task_file_desc.
xdd_io_for_os(t, q) ==
  /\ At(t, q, "io")
  /\ Goto(t, q, "after")
  /\ UNCHANGED <<cfg, fds, dir, created, td_file_desc, dio, issued, pass, tpc,
                 abort>>

\* xdd_dio_after_io_op closes the descriptor of an operation that is not
\* aligned; the shallow open that follows opens nothing.
xdd_dio_after_io_op(t, q) ==
  /\ At(t, q, "after")
  /\ IF NeedsBuffered(t, q) THEN close(task[t, q].fd) ELSE UNCHANGED fds
  /\ task' = [task EXCEPT ![t, q].pc = "idle",
                          ![t, q].fd = IF NeedsBuffered(t, q) THEN 0 ELSE @]
  /\ UNCHANGED <<cfg, dir, created, td_file_desc, dio, issued, pass, tpc, abort>>

-----------------------------------------------------------------------------
(* The passes of a target, which start and end together. *)

EndPass(t) ==
  /\ tpc[t] = "inPass"
  /\ issued[t] = cfg.ops
  /\ \A q \in 1 .. cfg.depth : task[t, q].pc = "idle"
  /\ tpc' = [tpc EXCEPT ![t] = "endpass"]
  /\ UNCHANGED <<cfg, fds, dir, created, td_file_desc, dio, task, issued, pass,
                 abort>>

\* Between two passes, once all targets have ended the first.
NextPass(t) ==
  /\ tpc[t] = "endpass"
  /\ \A u \in Targets : pass[u] > pass[t] \/ tpc[u] = "endpass"
  /\ pass[t] < cfg.passes
  /\ pass' = [pass EXCEPT ![t] = @ + 1]
  /\ tpc' = [tpc EXCEPT ![t] = IF cfg.mode = "keep" THEN "startpass" ELSE "close"]
  /\ UNCHANGED <<cfg, fds, dir, created, td_file_desc, dio, task, issued, abort>>

\* The startpass barrier; an aborted run performs no further pass.
StartPasses ==
  /\ \A t \in Targets : tpc[t] = "startpass"
  /\ tpc' = [t \in Targets |-> IF abort THEN "aborted" ELSE "inPass"]
  /\ issued' = [t \in Targets |-> 0]
  /\ UNCHANGED <<cfg, fds, dir, created, td_file_desc, dio, task, pass, abort>>

\* xdd_target_thread_cleanup, once every target is through.
Cleanup(t) ==
  /\ tpc[t] = "endpass"
  /\ pass[t] = cfg.passes
  /\ \A u \in Targets : pass[u] = cfg.passes /\ tpc[u] \in {"endpass", "done"}
  /\ close(td_file_desc[t])
  /\ tpc' = [tpc EXCEPT ![t] = "done"]
  /\ UNCHANGED <<cfg, dir, created, td_file_desc, dio, task, issued, pass, abort>>

\* xdd_target_init has opened the targets, one after the other.
Init ==
  /\ cfg \in Configs
  /\ fds = [t \in Targets |-> [file |-> t, direct |-> cfg.dio]]
  /\ dir = [n \in {<<t, IF cfg.mode = "createnew" THEN 1 ELSE 0>> : t \in Targets}
              |-> n[1]]
  /\ created = cfg.targets
  /\ td_file_desc = [t \in Targets |-> t]
  /\ dio = [t \in Targets |-> cfg.dio]
  /\ task = [w \in Workers |-> [pc |-> "idle", op |-> 0, fd |-> 0]]
  /\ issued = [t \in Targets |-> 0]
  /\ pass = [t \in Targets |-> 1]
  /\ tpc = [t \in Targets |-> "startpass"]
  /\ abort = FALSE

WorkerStep(t, q) ==
  \/ xdd_dio_before_io_op(t, q) \/ OpenBuffered(t, q) \/ BeforeIsDone(t, q)
  \/ xdd_io_for_os(t, q) \/ xdd_dio_after_io_op(t, q)

TargetStep(t) ==
  \/ \E q \in 1 .. cfg.depth : xdd_target_pass_task_setup(t, q)
  \/ EndPass(t) \/ NextPass(t) \/ ReopenClose(t) \/ ReopenOpen(t) \/ Cleanup(t)

Next ==
  \/ \E t \in Targets :
       TargetStep(t) \/ \E q \in 1 .. cfg.depth : WorkerStep(t, q)
  \/ StartPasses

Spec == Init /\ [][Next]_vars

-----------------------------------------------------------------------------
(* Properties *)

\* Every read and write reaches the file that carries the name of its target:
\* its descriptor is open, and for that file.
OperationsReachTheirFile ==
  \A t \in Targets, q \in 1 .. cfg.depth :
    At(t, q, "io") =>
      /\ task[t, q].fd \in DOMAIN fds
      /\ fds[task[t, q].fd].file = dir[xdd_target_name(t)]
=============================================================================
