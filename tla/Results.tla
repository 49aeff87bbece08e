------------------------------ MODULE Results -------------------------------
(***************************************************************************)
(* The numbers that the Results Manager reports (client/results_manager.c):*)
(* what it extracts from the counters of a target after a pass, and how    *)
(* the results of passes are combined into the average of a target and the *)
(* averages of the targets into the results of the run.                    *)
(*                                                                         *)
(* Times are whole clock ticks instead of seconds in double precision, and *)
(* a rate is the pair of the quantity and the time it is divided by.       *)
(* Latencies, CPU times and the high and low marks of the extended         *)
(* statistics are left out.                                                *)
(***************************************************************************)
EXTENDS Integers, FiniteSetsExt

\* The counters of a target (target_counters_t) that are summed up.
Counters == {"bytes_xfered", "bytes_read", "bytes_written", "op_count",
             "read_op_count", "write_op_count", "error_count"}

DOUBLE_MAX == 2147483647

\* The counters of a target that nothing has been added to yet.
NoCounts == [c \in Counters |-> 0]

\* A target's counters at the beginning of a pass.
xdd_init_target_data_before_passBug(old, now) ==
    [counts |-> old.counts, start |-> now, end |-> old.end]
xdd_init_target_data_before_pass(old, now) ==
    [counts |-> NoCounts, start |-> now, end |-> old.end]

\* One operation that ended, well or with an error, under the lock of the
\* target's counters.
xdd_worker_thread_update_target_counters(c, op, size, good) ==
    LET read  == IF op = "read" THEN 1 ELSE 0
        write == IF op = "write" THEN 1 ELSE 0
    IN  [c EXCEPT !.counts =
          IF good
          THEN [@ EXCEPT !.bytes_xfered = @ + size, !.op_count = @ + 1,
                         !.bytes_read = @ + read * size, !.read_op_count = @ + read,
                         !.bytes_written = @ + write * size,
                         !.write_op_count = @ + write]
          ELSE [@ EXCEPT !.error_count = @ + 1]]

\* "This is done to prevent and divide-by-zero problems": -1 is no time.
Elapsed(c) == IF c.end = c.start THEN -1 ELSE c.end - c.start

xdd_extract_pass_results(passNumber, c) ==
    [pass_number |-> passNumber, counts |-> c.counts,
     earliest_start_time_this_pass |-> c.start, latest_end_time_this_pass |-> c.end,
     elapsed_pass_time |-> Elapsed(c)]

\* The average of a target, and the combined results, before anything is
\* combined into them.
NewResults ==
    [pass_number |-> 0, counts |-> NoCounts,
     earliest_start_time_this_run |-> DOUBLE_MAX,
     earliest_start_time_this_pass |-> DOUBLE_MAX,
     latest_end_time_this_run |-> 0, latest_end_time_this_pass |-> 0,
     elapsed_pass_time |-> 0, bandwidth |-> <<0, 1>>, iops |-> <<0, 1>>]

Earlier(a, b) == IF a >= b THEN b ELSE a
Later(a, b) == IF a <= b THEN b ELSE a
Rate(n, time) == IF time = 0 THEN <<-1, 1>> ELSE <<n, time>>

AddCounters(to, from) == [c \in Counters |-> to.counts[c] + from.counts[c]]

WithRates(r) ==
    [r EXCEPT !.bandwidth = Rate(r.counts["bytes_xfered"], r.elapsed_pass_time),
              !.iops = Rate(r.counts["op_count"], r.elapsed_pass_time)]

\* xdd_combine_results(), RESULTS_TARGET_AVG: a pass joins the average.
CombineIntoAverage(to, from) ==
    LET start == Earlier(to.earliest_start_time_this_pass,
                         from.earliest_start_time_this_pass)
        end   == Later(to.latest_end_time_this_pass, from.latest_end_time_this_pass)
    IN  WithRates([to EXCEPT
          !.pass_number = from.pass_number,
          !.counts = AddCounters(to, from),
          !.earliest_start_time_this_pass = start,
          !.earliest_start_time_this_run = IF from.pass_number = 1 THEN start ELSE @,
          !.latest_end_time_this_pass = end,
          !.latest_end_time_this_run = end,
          !.elapsed_pass_time = @ + from.elapsed_pass_time])

\* What process_pass_results does for one target: the average starts afresh
\* in the first pass.
AverageAfterPass(average, passNumber, c) ==
    CombineIntoAverage(IF passNumber = 1 THEN NewResults ELSE average,
                       xdd_extract_pass_results(passNumber, c))

\* What process_run_results makes of the averages of the targets, one
\* xdd_combine_results() for each (RESULTS_COMBINED): the time is that from the
\* first start to the last end without the delays between passes.
CombinedResults(average, passDelay) ==
    LET T     == DOMAIN average
        start == Min({average[t].earliest_start_time_this_run : t \in T})
        end   == Max({average[t].latest_end_time_this_run : t \in T})
    IN  WithRates([NewResults EXCEPT
          !.pass_number = average[Max(T)].pass_number,
          !.counts = [c \in Counters |->
                       MapThenSumSet(LAMBDA t : average[t].counts[c], T)],
          !.earliest_start_time_this_run = start,
          !.latest_end_time_this_run = end,
          !.elapsed_pass_time = IF end <= start THEN -1
                                ELSE end - start - passDelay])
=============================================================================
