------------------------------ MODULE PlanData ------------------------------
(***************************************************************************)
(* The plan and the Target Data Structures that the command line builds    *)
(* (client/parse.c, common/target_data.c, base/target_init.c).             *)
(*                                                                         *)
(* A plan is one record: xdd_plan_t and the parts of the global data that  *)
(* options set.  planp->target_datap[] is a function whose domain is the   *)
(* set of target numbers that have a Target Data Structure.  A pointer to  *)
(* a structure that is allocated on demand is a sequence: <<>> is NULL,    *)
(* <<s>> points to s.  Memory that malloc() returns and nobody initialises *)
(* is a function that is defined only on the members assigned so far.      *)
(***************************************************************************)
EXTENDS Integers, Sequences, FiniteSets, TLC, SequencesExt

CONSTANTS MAX_TARGETS,   \* bound on target numbers (8192 in the code)
          BILLION,       \* nclk ticks in a second
          WRAP           \* where an unsigned count of bytes wraps (2^64 in the code)

ASSUME PlanBounds == MAX_TARGETS \in Nat \ {0} /\ BILLION \in Nat \ {0} /\ WRAP \in Nat \ {0}

Flag(set, f) == set \union {f}
Unflag(set, f) == set \ {f}
-----------------------------------------------------------------------------
(* The structures that hang off a Target Data Structure.                   *)

xdd_get_e2ep ==
    [table |-> <<>>, port_count |-> 0, total_bytes_written |-> 0,
     src_file_path |-> "", src_file_mtime |-> 0]

xdd_get_restartp(t) ==
    IF t.td_restartp # <<>> THEN t
    ELSE [t EXCEPT !.td_restartp =
            <<[filename |-> "", byte_offset |-> 0, flags |-> {}]>>]

xdd_get_rawp(t) ==
    IF t.td_rawp # <<>> THEN t ELSE [t EXCEPT !.td_rawp = << <<>> >>]

xdd_get_trigp(t) ==
    IF t.td_trigp # <<>> THEN t ELSE [t EXCEPT !.td_trigp = << <<>> >>]

xdd_get_esp(t) ==
    IF t.td_esp # <<>> THEN t ELSE [t EXCEPT !.td_esp = << <<>> >>]

xdd_get_throtp(t) ==
    IF t.td_throtp # <<>> THEN t
    ELSE [t EXCEPT !.td_throtp = <<[type |-> "bw", throttle |-> 1, variance |-> 0]>>]

WithE2ep(t) ==
    IF t.td_e2ep # <<>> THEN t ELSE [t EXCEPT !.td_e2ep = <<xdd_get_e2ep>>]

xdd_init_new_target_data(n) ==
    [td_target_number |-> n, td_target_directory |-> "", td_target_basename |-> "",
     td_target_options |-> {},
     td_block_size |-> 1024, td_reqsize |-> 128, td_bytes |-> 0, td_numreqs |-> 0,
     td_start_offset |-> 0, td_pass_offset |-> 0, td_flushwrite |-> 0,
     td_preallocate |-> 0, td_pretruncate |-> 0, td_queue_depth |-> 1,
     td_mem_align |-> 4096, td_processor |-> -1, td_rwratio |-> 0,
     td_start_delay |-> 0, td_start_delay_psec |-> 0, td_op_delay |-> 0,
     td_time_limit |-> 0, td_time_limit_ticks |-> 0, td_report_threshold |-> 0,
     td_retry_count |-> 0, td_last_committed_location |-> 0,
     td_magic_cookie |-> "ff", xni_pcl |-> "none",
     xni_ibdevice |-> "mlx4_0", xni_tcp_congestion |-> "",
     td_dpp |-> [options |-> {}, pattern |-> "", length |-> 1, filename |-> "",
                 prefix |-> "", prefix_length |-> 1],
     td_hb |-> [options |-> {}, interval |-> 0, filename |-> <<>>],
     td_ts_table |-> [options |-> {}, size |-> 0, trigtime |-> 0, trigop |-> 0],
     td_seekhdr |-> [options |-> {}, range |-> 1024 * 1024, seed |-> 72058,
                     interleave |-> 1, stride |-> 0, pattern |-> "sequential",
                     savefile |-> "", loadfile |-> "",
                     NumSeekHistBuckets |-> 100, NumDistHistBuckets |-> 100],
     td_e2ep |-> <<>>, td_lsp |-> <<>>, td_restartp |-> <<>>, td_rawp |-> <<>>,
     td_trigp |-> <<>>, td_esp |-> <<>>, td_throtp |-> <<>>,
     td_xfer_size |-> 0, td_target_bytes_to_xfer_per_pass |-> 0,
     td_target_ops |-> 0, workers |-> <<>>]

\* The structure is created the first time its number is mentioned; what is
\* allocated with it depends on the options met before.
xdd_get_target_datap(p, n) ==
    IF n \in DOMAIN p.target_datap THEN p
    ELSE LET new == xdd_init_new_target_data(n)
             es  == IF "GO_EXTENDED_STATS" \in p.global_options
                    THEN xdd_get_esp(new) ELSE new
             e2e == IF "PLAN_ENDTOEND" \in p.plan_options
                    THEN WithE2ep(es) ELSE es
         IN  [p EXCEPT !.target_datap = (n :> e2e) @@ @]

\* initialization.c and xint_plan.c: the plan before the command line is read.
NewPlan ==
    [target_datap |-> <<>>, number_of_targets |-> 0, number_of_iothreads |-> 0,
     global_options |-> {},
     plan_options |-> {"PLAN_NOPROCLOCK", "PLAN_NOMEMLOCK"}, passes |-> 1, pass_delay |-> 0,
     run_time |-> 0, run_time_ticks |-> 0, restart_frequency |-> 0, syncio |-> 0,
     target_offset |-> 0, gts_time |-> 0, gts_hostname |-> "", gts_port |-> 2000,
     gts_bounce |-> 100, max_errors |-> 0, max_errors_to_print |-> 10, id |-> <<>>,
     format |-> <<>>,
     output |-> "stdout", errout |-> "stderr", csvoutput |-> "",
     combined_output |-> "", ts_output |-> "", ts_binary |-> "ts", abort |-> FALSE]
-----------------------------------------------------------------------------
(* What xdd_parse() does once the options are in place.                    *)

xdd_calculate_xfer_info(t) ==
    LET size  == t.td_reqsize * t.td_block_size
        asked == IF t.td_numreqs # 0 THEN t.td_numreqs * size ELSE t.td_bytes
        resume == /\ t.td_restartp # <<>>
                  /\ "RESTART_FLAG_RESUME_COPY" \in t.td_restartp[1].flags
        left  == IF resume THEN (asked - t.td_restartp[1].byte_offset) % WRAP ELSE asked
    IN  IF size = 0 \/ asked = 0
        THEN [t EXCEPT !.td_xfer_size = size, !.td_target_bytes_to_xfer_per_pass = 0]
        ELSE [t EXCEPT !.td_xfer_size = size,
                !.td_start_offset = IF resume
                    THEN t.td_restartp[1].byte_offset \div t.td_block_size ELSE @,
                !.td_target_bytes_to_xfer_per_pass = left,
                !.td_target_ops = (left \div size) + (IF left % size # 0 THEN 1 ELSE 0)]

\* The number of workers of an end-to-end target and the ports of each host:
\* the ports counted on the command line, or one port for each host, or the
\* queue depth dealt round the hosts one port at a time.
xdd_build_target_data_substructure_e2eBug(t) ==
    LET e     == t.td_e2ep[1]
        hosts == Len(e.table)
        qd    == IF e.port_count > 0 THEN e.port_count
                 ELSE IF t.td_queue_depth <= hosts THEN hosts ELSE t.td_queue_depth
        Share(i) == (qd \div hosts) + (IF i < qd % hosts THEN 1 ELSE 0)
    IN  [t EXCEPT !.td_queue_depth = qd,
                  !.td_e2ep[1].port_count = qd,
                  !.td_e2ep[1].table = IF e.port_count > 0 THEN @
                      ELSE [i \in 1..hosts |-> [@[i] EXCEPT !.port_count = Share(i)]]]
xdd_build_target_data_substructure_e2e(t) ==
    LET e     == t.td_e2ep[1]
        hosts == Len(e.table)
        qd    == IF e.port_count > 0 THEN e.port_count
                 ELSE IF t.td_queue_depth <= hosts THEN hosts ELSE t.td_queue_depth
        Share(i) == (qd \div hosts) + (IF i <= qd % hosts THEN 1 ELSE 0)
    IN  [t EXCEPT !.td_queue_depth = qd,
                  !.td_e2ep[1].port_count = qd,
                  !.td_e2ep[1].table = IF e.port_count > 0 THEN @
                      ELSE [i \in 1..hosts |-> [@[i] EXCEPT !.port_count = Share(i)]]]

\* xint_target_init() walks the address table to give worker after worker its
\* destination; an entry with no port is passed over.
EndPoints(t) ==
    FlattenSeq([i \in 1..Len(t.td_e2ep[1].table) |->
        LET h == t.td_e2ep[1].table[i]
        IN  [k \in 1..h.port_count |-> <<h.hostname, h.base_port + k - 1>>]])

xdd_create_worker_data(t, q) ==
    [number |-> q,
     dest |-> IF "TO_ENDTOEND" \in t.td_target_options /\ q < Len(EndPoints(t))
              THEN EndPoints(t)[q + 1] ELSE <<>>]

BuildTarget(p, n) ==
    LET t     == p.target_datap[n]
        e2e   == "TO_ENDTOEND" \in t.td_target_options
        hosts == e2e /\ t.td_e2ep[1].table # <<>>
        sized == xdd_calculate_xfer_info(
                    IF hosts THEN xdd_build_target_data_substructure_e2e(t) ELSE t)
    IN  [p EXCEPT
            !.abort = @ \/ (e2e /\ ~hosts),
            !.number_of_iothreads = @ + 1 + sized.td_queue_depth,
            !.target_datap[n] = [sized EXCEPT !.workers =
                [q \in 1..sized.td_queue_depth |-> xdd_create_worker_data(sized, q - 1)]]]

xdd_build_target_data_substructure(p) ==
    FoldLeft(BuildTarget, p, [i \in 1..p.number_of_targets |-> i - 1])
=============================================================================
