-------------------------- MODULE OptionFunctions --------------------------
(***************************************************************************)
(* The option handlers of client/parse_func.c: one operator for each       *)
(* xddfunc_*().  A handler is called with the plan, the command line from  *)
(* the option on (a[1] is argv[0], the option itself), the number of       *)
(* arguments the parser believes are left, and the phase.  Its value is    *)
(* the plan it leaves and its return value: the arguments it consumed, 0   *)
(* for an invalid argument, or -1.                                         *)
(*                                                                         *)
(* Tokens are strings.  Atoi() stands for atoi, atoll and atof, with the   *)
(* value of each number token given by Numeral; ratios are in percent.     *)
(***************************************************************************)
EXTENDS PlanData

CONSTANTS Numeral,    \* the value of every token that starts with a number
          Address,    \* the parts of every "host:base_port,ports" token
          Writable,   \* the files that fopen() can open for writing
          Cookies,    \* the tokens of 32 hexadecimal digits
          CPUS        \* processors of the machine

Atoi(s) == IF s \in DOMAIN Numeral THEN Numeral[s] ELSE 0
Tok(a, i) == IF i <= Len(a) THEN a[i] ELSE ""
IsOption(t) == SubSeq(t, 1, 1) = "-"
Result(p, n) == [plan |-> p, status |-> n]

\* "target n" after the option: n gets its data structure at once.
xdd_parse_target_number(p, a, ac) ==
    IF ~(ac > 1 /\ Tok(a, 2) = "target") THEN [plan |-> p, args |-> 0, tn |-> -1]
    ELSE IF ac < 3 \/ Atoi(Tok(a, 3)) >= MAX_TARGETS
    THEN [plan |-> p, args |-> -1, tn |-> -1]
    ELSE [plan |-> xdd_get_target_datap(p, Atoi(a[3])), args |-> 2, tn |-> Atoi(a[3])]

\* The i-th word after the option and its optional "target n".
Word(a, i) == Tok(a, 1 + i + (IF Tok(a, 2) = "target" THEN 2 ELSE 0))
Number(a, i) == Atoi(Word(a, i))

\* while (tdp): the targets from 0 up to the first one that does not exist.
Connected(p) == {n \in DOMAIN p.target_datap : \A m \in 0..n : m \in DOMAIN p.target_datap}

ForAllTargets(p, Set(_)) ==
    [p EXCEPT !.target_datap = [n \in DOMAIN @ |->
        IF n \in Connected(p) THEN Set(@[n]) ELSE @[n]]]

\* The form of most handlers.  A target-specific option is applied in both
\* phases, any other one to all targets and only in phase 2; n words follow
\* the option, and status is what the checks of their values decided.
SubOption(p, a, ac, ph, n, status, Set(_)) ==
    LET t == xdd_parse_target_number(p, a, ac)
    IN  CASE t.args < 0 -> Result(p, -1)
          [] t.args >= 0 /\ status < 1 -> Result(t.plan, status)
          [] status = 1 /\ t.tn >= 0 ->
                Result([t.plan EXCEPT !.target_datap[t.tn] = Set(@)], t.args + 1 + n)
          [] OTHER -> Result(IF ph = 2 THEN ForAllTargets(p, Set) ELSE p, 1 + n)

\* xdd_parse_arg_count_check()
TooFew(a, ac) == ac <= (IF Tok(a, 2) = "target" THEN 2 ELSE 0) + 1

TargetOption(p, a, ac, ph, n, status, Set(_)) ==
    SubOption(p, a, ac, ph, n, IF TooFew(a, ac) THEN 0 ELSE status, Set)

TargetFlag(p, a, ac, ph, f) ==
    SubOption(p, a, ac, ph, 0, 1, LAMBDA t : [t EXCEPT !.td_target_options = Flag(@, f)])

\* The options that belong to the plan, not to targets.
GlobalFlag(p, f) == Result([p EXCEPT !.global_options = Flag(@, f)], 1)
Phase2Flag(p, ph, f) == IF ph = 2 THEN GlobalFlag(p, f) ELSE Result(p, 1)
PlanOption(p, ac, ph, n, status, q) ==
    CASE ac <= 1 -> Result(p, -1)
      [] ac > 1 /\ ph = 2 -> Result(q, IF status < 1 THEN status ELSE 1 + n)
      [] OTHER -> Result(p, 1 + n)
OpenedIn(p, file, q) == IF file \in Writable THEN q ELSE p

Positive(x, error) == IF x <= 0 THEN error ELSE 1
NotNegative(x, error) == IF x < 0 THEN error ELSE 1
-----------------------------------------------------------------------------
(* Sizes and amounts                                                       *)

xddfunc_blocksize(p, a, ac, ph) ==
    TargetOption(p, a, ac, ph, 1, Positive(Number(a, 1), 0),
                 LAMBDA t : [t EXCEPT !.td_block_size = Number(a, 1)])

BytesBug(p, a, ac, ph, unit) ==
    TargetOption(p, a, ac, ph, 1, 1, LAMBDA t : [t EXCEPT !.td_bytes = Number(a, 1) * unit])
Bytes(p, a, ac, ph, unit) ==
    TargetOption(p, a, ac, ph, 1, 1,
        LAMBDA t : [t EXCEPT !.td_bytes = Number(a, 1) * unit, !.td_numreqs = 0])
xddfunc_bytes(p, a, ac, ph) == Bytes(p, a, ac, ph, 1)
xddfunc_kbytes(p, a, ac, ph) == Bytes(p, a, ac, ph, 1024)
xddfunc_mbytes(p, a, ac, ph) == Bytes(p, a, ac, ph, 1024 * 1024)

xddfunc_numreqs(p, a, ac, ph) ==
    TargetOption(p, a, ac, ph, 1, Positive(Number(a, 1), 0),
        LAMBDA t : [t EXCEPT !.td_numreqs = Number(a, 1), !.td_bytes = 0])
xddfunc_reqsize(p, a, ac, ph) ==
    TargetOption(p, a, ac, ph, 1, Positive(Number(a, 1), 0),
                 LAMBDA t : [t EXCEPT !.td_reqsize = Number(a, 1)])
xddfunc_flushwrite(p, a, ac, ph) ==
    TargetOption(p, a, ac, ph, 1, 1, LAMBDA t : [t EXCEPT !.td_flushwrite = Number(a, 1)])
xddfunc_memalign(p, a, ac, ph) ==
    TargetOption(p, a, ac, ph, 1, 1, LAMBDA t : [t EXCEPT !.td_mem_align = Number(a, 1)])
xddfunc_passoffset(p, a, ac, ph) ==
    TargetOption(p, a, ac, ph, 1, 1, LAMBDA t : [t EXCEPT !.td_pass_offset = Number(a, 1)])
xddfunc_preallocate(p, a, ac, ph) ==
    TargetOption(p, a, ac, ph, 1, Positive(Number(a, 1), -1),
                 LAMBDA t : [t EXCEPT !.td_preallocate = Number(a, 1)])
xddfunc_pretruncate(p, a, ac, ph) ==
    TargetOption(p, a, ac, ph, 1, Positive(Number(a, 1), -1),
                 LAMBDA t : [t EXCEPT !.td_pretruncate = Number(a, 1)])
xddfunc_queuedepth(p, a, ac, ph) ==
    TargetOption(p, a, ac, ph, 1, 1, LAMBDA t : [t EXCEPT !.td_queue_depth = Number(a, 1)])
xddfunc_startoffset(p, a, ac, ph) ==
    TargetOption(p, a, ac, ph, 1, NotNegative(Number(a, 1), 0),
                 LAMBDA t : [t EXCEPT !.td_start_offset = Number(a, 1)])
xddfunc_retry(p, a, ac, ph) ==
    TargetOption(p, a, ac, ph, 1, Positive(Number(a, 1), 0),
                 LAMBDA t : [t EXCEPT !.td_retry_count = Number(a, 1)])
xddfunc_report_threshold(p, a, ac, ph) ==
    TargetOption(p, a, ac, ph, 1, NotNegative(Number(a, 1), 0),
                 LAMBDA t : [t EXCEPT !.td_report_threshold = Number(a, 1) * BILLION])
xddfunc_percentcpu(p, a, ac, ph) == TargetOption(p, a, ac, ph, 1, 1, LAMBDA t : t)
-----------------------------------------------------------------------------
(* Files, ordering, processors, and times of a target                      *)

xddfunc_createnewfiles(p, a, ac, ph) == TargetFlag(p, a, ac, ph, "TO_CREATE_NEW_FILES")
xddfunc_deletefile(p, a, ac, ph) == TargetFlag(p, a, ac, ph, "TO_DELETEFILE")
xddfunc_devicefile(p, a, ac, ph) == TargetFlag(p, a, ac, ph, "TO_DEVICEFILE")
xddfunc_dio(p, a, ac, ph) == TargetFlag(p, a, ac, ph, "TO_DIO")
xddfunc_randomize(p, a, ac, ph) == TargetFlag(p, a, ac, ph, "TO_PASS_RANDOMIZE")
xddfunc_recreatefiles(p, a, ac, ph) == TargetFlag(p, a, ac, ph, "TO_RECREATE")
xddfunc_reopen(p, a, ac, ph) == TargetFlag(p, a, ac, ph, "TO_REOPEN")
xddfunc_sgio(p, a, ac, ph) == TargetFlag(p, a, ac, ph, "TO_SGIO")
xddfunc_sharedmemory(p, a, ac, ph) == TargetFlag(p, a, ac, ph, "TO_SHARED_MEMORY")
xddfunc_syncwrite(p, a, ac, ph) == TargetFlag(p, a, ac, ph, "TO_SYNCWRITE")

\* What each ordering leaves of the two ordering flags of storage or network.
Order(options, what, how) ==
    LET flag(h) == IF what = "network" THEN "TO_ORDERING_NETWORK_" \o h
                                       ELSE "TO_ORDERING_STORAGE_" \o h
    IN  (options \ {flag("SERIAL"), flag("LOOSE")})
            \union (IF how = "none" THEN {} ELSE {flag(how)})

StorageOrdering(p, a, ac, ph, how) ==
    SubOption(p, a, ac, ph, 0, 1,
        LAMBDA t : [t EXCEPT !.td_target_options = Order(@, "storage", how)])
xddfunc_looseordering(p, a, ac, ph) == StorageOrdering(p, a, ac, ph, "LOOSE")
xddfunc_noordering(p, a, ac, ph) == StorageOrdering(p, a, ac, ph, "none")
xddfunc_serialordering(p, a, ac, ph) == StorageOrdering(p, a, ac, ph, "SERIAL")

xddfunc_ordering(p, a, ac, ph) ==
    LET w     == Word(a, 1)
        h     == Word(a, 2)
        stor  == w \in {"storage", "stor", "disk", "both"}
        net   == w \in {"network", "net", "both"}
        how   == CASE h \in {"serial", "ser", "so"} -> "SERIAL"
                   [] h \in {"loose", "lo"} -> "LOOSE"
                   [] h \in {"none", "no"} -> "none"
                   [] OTHER -> "invalid"
        Only(options, what, yes) == IF yes THEN Order(options, what, how) ELSE options
    IN  TargetOption(p, a, ac, ph, 2, IF (stor \/ net) /\ how # "invalid" THEN 1 ELSE 0,
            LAMBDA t : [t EXCEPT !.td_target_options =
                Only(Only(@, "storage", stor), "network", net)])

xddfunc_operation(p, a, ac, ph) ==
    LET w == Word(a, 1)
    IN  TargetOption(p, a, ac, ph, 1, IF w \in {"write", "read", "noop", "nop"} THEN 1 ELSE 0,
            LAMBDA t : [t EXCEPT !.td_rwratio =
                CASE w = "write" -> 0 [] w = "read" -> 100 [] OTHER -> -100])
xddfunc_rwratio(p, a, ac, ph) ==
    TargetOption(p, a, ac, ph, 1, IF Number(a, 1) \in 0..100 THEN 1 ELSE 0,
                 LAMBDA t : [t EXCEPT !.td_rwratio = Number(a, 1)])

Processor(p, a, ac, ph) ==
    SubOption(p, a, ac, ph, 1, IF Number(a, 1) \in 0..(CPUS - 1) THEN 1 ELSE 0,
              LAMBDA t : [t EXCEPT !.td_processor = Number(a, 1)])
xddfunc_processor(p, a, ac, ph) ==
    IF TooFew(a, ac) THEN Result(p, 0) ELSE Processor(p, a, ac, ph)
\* The target form leaves its last argument, the processor, to the parser.
xddfunc_singleproc(p, a, ac, ph) ==
    LET r == Processor(p, a, ac, ph)
    IN  CASE ac < 2 -> Result(p, -1)
          [] r.status = 4 -> Result(r.plan, 3)
          [] OTHER -> r
xddfunc_roundrobin(p, a, ac, ph) ==
    Result(p, CASE ac <= 1 -> -1
                [] ac > 1 /\ Atoi(Tok(a, 2)) \in 1..CPUS -> 2
                [] OTHER -> 0)

xddfunc_operationdelay(p, a, ac, ph) ==
    TargetOption(p, a, ac, ph, 1, Positive(Number(a, 1), 0),
                 LAMBDA t : [t EXCEPT !.td_op_delay = Number(a, 1)])
StartDelay(t, delay) ==
    [t EXCEPT !.td_start_delay = delay, !.td_start_delay_psec = delay * BILLION]
xddfunc_startdelay(p, a, ac, ph) ==
    TargetOption(p, a, ac, ph, 1, NotNegative(Number(a, 1), 0),
                 LAMBDA t : StartDelay(t, Number(a, 1)))
xddfunc_targetstartdelay(p, a, ac, ph) ==
    TargetOption(p, a, ac, ph, 1, NotNegative(Number(a, 1), 0),
                 LAMBDA t : StartDelay(t, Number(a, 1) * t.td_target_number))
xddfunc_timelimit(p, a, ac, ph) ==
    TargetOption(p, a, ac, ph, 1, Positive(Number(a, 1), 0),
        LAMBDA t : [t EXCEPT !.td_time_limit = Number(a, 1),
                             !.td_time_limit_ticks = Number(a, 1) * BILLION])

xddfunc_targetdir(p, a, ac, ph) ==
    TargetOption(p, a, ac, ph, 1, 1, LAMBDA t : [t EXCEPT !.td_target_directory = Word(a, 1)])
xddfunc_cookie(p, a, ac, ph) ==
    TargetOption(p, a, ac, ph, 1, IF Word(a, 1) \in Cookies THEN 1 ELSE -1,
                 LAMBDA t : [t EXCEPT !.td_magic_cookie = Word(a, 1)])
xddfunc_congestion(p, a, ac, ph) ==
    TargetOption(p, a, ac, ph, 1, 1, LAMBDA t : [t EXCEPT !.xni_tcp_congestion = Word(a, 1)])
xddfunc_ibdevice(p, a, ac, ph) ==
    TargetOption(p, a, ac, ph, 1, 1, LAMBDA t : [t EXCEPT !.xni_ibdevice = Word(a, 1)])
xddfunc_xni(p, a, ac, ph) ==
    LET r == TargetOption(p, a, ac, ph, 1, IF Word(a, 1) \in {"tcp", "ib"} THEN 1 ELSE -1,
                          LAMBDA t : [t EXCEPT !.xni_pcl = Word(a, 1)])
    IN  IF r.status < 1 THEN r
        ELSE [r EXCEPT !.plan.plan_options = Flag(@, "PLAN_ENABLE_XNI")]
xddfunc_verify(p, a, ac, ph) ==
    LET w == Word(a, 1)
    IN  TargetOption(p, a, ac, ph, 1, IF w \in {"contents", "location"} THEN 1 ELSE 0,
            LAMBDA t : IF w = "contents"
                       THEN [t EXCEPT !.td_target_options = Flag(@, "TO_VERIFY_CONTENTS")]
                       ELSE [t EXCEPT !.td_target_options = Flag(@, "TO_VERIFY_LOCATION"),
                                      !.td_dpp.options = Flag(@, "DP_sequenced")])
-----------------------------------------------------------------------------
(* Handlers with sub-options                                               *)

\* A flag is named after its word; further spellings of a word are left out.
DpWords == {"random", "randbytarget", "sequenced", "inverse", "replicate",
            "lfpat", "ltpat", "cjtpat", "crpat", "cspat"}

\* xdd_atohex() gives two digits to a byte, with a zero before an odd one.
HexLength(s) == IF Len(s) <= 2 THEN 1 ELSE (Len(s) + 1) \div 2

datapattern_value(d, w, v) ==
    LET e == [d EXCEPT !.options = Flag(@, "DP_" \o w)]
    IN  CASE w = "ascii" -> [e EXCEPT !.pattern = v, !.length = Len(v)]
          [] w = "hex" -> [e EXCEPT !.pattern = v, !.length = HexLength(v)]
          [] w = "prefix" -> [e EXCEPT !.prefix = v, !.prefix_length = HexLength(v)]
          [] w = "file" -> [e EXCEPT !.filename = v]

xddfunc_datapattern(p, a, ac, ph) ==
    LET w == Word(a, 1)
        v == Word(a, 2)
        short == ac <= (IF Tok(a, 2) = "target" THEN 2 ELSE 0) + 2
        Dp(n, status, Set(_)) ==
            TargetOption(p, a, ac, ph, n, status, LAMBDA t : [t EXCEPT !.td_dpp = Set(@)])
    IN  CASE w \in DpWords ->
                Dp(1, 1, LAMBDA d : [d EXCEPT !.options = Flag(@, "DP_" \o w)])
          [] w \in {"ascii", "hex", "prefix", "file"} ->
                Dp(2, IF short THEN 0 ELSE 1, LAMBDA d : datapattern_value(d, w, v))
          [] OTHER -> Dp(1, 1, LAMBDA d : [d EXCEPT !.pattern = w,
                                  !.options = Flag(@, "DP_single")])

\* -e2e destination host[:base_port[,ports]]: one more entry of the table.
e2e_destination(t, address) ==
    LET h == Address[address]
        entry == [hostname |-> h.hostname,
                  base_port |-> IF h.base_port = 0 THEN 40010 ELSE h.base_port,
                  port_count |-> h.port_count]
    IN  [t EXCEPT !.td_target_options = Flag(@, "TO_ENDTOEND"),
                  !.td_e2ep[1].table = Append(@, entry),
                  !.td_e2ep[1].port_count = @ + entry.port_count]

\* -e2e port, portcount: the same number for every entry of the table.
e2e_ports(t, w, n) ==
    LET Set(h) == IF w = "portcount" THEN [h EXCEPT !.port_count = n]
                                     ELSE [h EXCEPT !.base_port = n]
    IN  [t EXCEPT !.td_target_options = Flag(@, "TO_ENDTOEND"),
                  !.td_e2ep[1].table = [i \in DOMAIN @ |-> Set(@[i])]]

\* The end-to-end structures exist before any sub-option is looked at.
e2e_allocateBug(p, a, ac) ==
    LET t == xdd_parse_target_number(p, a, ac)
    IN  CASE Word(a, 1) \in {"issource", "isdestination"} -> t.plan
          [] t.tn >= 0 -> [t.plan EXCEPT !.target_datap[t.tn] = WithE2ep(@)]
          [] OTHER -> ForAllTargets(t.plan, WithE2ep)
e2e_allocate(p, a, ac) ==
    LET t == xdd_parse_target_number(p, a, ac)
    IN  IF t.tn >= 0 THEN [t.plan EXCEPT !.target_datap[t.tn] = WithE2ep(@)]
        ELSE ForAllTargets(t.plan, WithE2ep)

xddfunc_endtoend(p, a, ac, ph) ==
    LET w == Word(a, 1)
        v == Word(a, 2)
        q == e2e_allocate([p EXCEPT !.plan_options = Flag(@, "PLAN_ENDTOEND")], a, ac)
        E2e(n, Set(_)) == TargetOption(q, a, ac, ph, n, 1, Set)
        E2eFlag(f) ==
            E2e(1, LAMBDA t : [t EXCEPT !.td_target_options = Flag(@, f)])
    IN  CASE ac <= 1 -> Result(p, -1)
          [] ac > 1 /\ w \in {"destination", "dest", "host"} ->
                E2e(2, LAMBDA t : e2e_destination(t, v))
          [] ac > 1 /\ w \in {"issource", "issrc"} -> E2eFlag("TO_E2E_SOURCE")
          [] ac > 1 /\ w \in {"isdestination", "isdest"} -> E2eFlag("TO_E2E_DESTINATION")
          [] ac > 1 /\ w \in {"port", "baseport", "portcount"} ->
                E2e(2, LAMBDA t : e2e_ports(t, w, Atoi(v)))
          [] ac > 1 /\ w \in {"sourcemonitor", "srcmon"} -> E2eFlag("TO_E2E_SOURCE_MONITOR")
          [] ac > 1 /\ w \in {"sourcepath", "srcpath"} ->
                E2e(3, LAMBDA t : [t EXCEPT
                    !.td_target_options = Flag(@, "TO_ENDTOEND"),
                    !.td_e2ep[1].src_file_path = v,
                    !.td_e2ep[1].src_file_mtime = Number(a, 3)])
          [] OTHER -> Result(q, 0)

\* The words of -heartbeat.  The handler looks at the word after the option
\* even when that word is "target".
HbWords == {"operations", "bytes", "kbytes", "mbytes", "gbytes", "percent", "bw", "iops",
            "et", "lf", "tod", "elapsed", "target", "hostname", "ignorerestart"}

xddfunc_heartbeat(p, a, ac, ph) ==
    LET w    == Tok(a, 2)
        file == w \in {"output", "out"}
        Set(t) == [t EXCEPT
            !.td_hb.options = IF file THEN @ ELSE Flag(@, "HB_" \o w),
            !.td_hb.filename = IF file THEN <<Tok(a, 3), t.td_target_number>> ELSE @,
            !.td_hb.interval = IF @ = 0 THEN 1 ELSE @]
        r == SubOption(p, a, ac, ph, IF file THEN 2 ELSE 1, 1, Set)
    IN  CASE w = "" -> Result(p, 1)
          [] w \in DOMAIN Numeral -> Result(p, IF Atoi(w) <= 0 THEN -1 ELSE 2)
          [] w # "" /\ w \notin DOMAIN Numeral /\ w \notin HbWords /\ ~file ->
                Result(p, -1)
          [] OTHER -> IF r.status < 1 THEN r
                      ELSE [r EXCEPT !.plan.global_options = Flag(@, "GO_HEARTBEAT")]

\* -lockstep master slave when howlong what howmuch startup completion
lockstep_ring(p, m, s, mode) ==
    LET new  == IF "GO_LOCKSTEP" \in p.global_options THEN {} ELSE {"LS_STATE_I_AM_THE_FIRST"}
        next == p.target_datap[m].td_lsp[1].next
    IN  [p EXCEPT !.global_options = Flag(@, "GO_LOCKSTEP"),
                  !.target_datap[m].td_lsp[1].state = @ \union new,
                  !.target_datap[s].td_lsp[1].next = IF next >= 0 THEN next ELSE m,
                  !.target_datap[m].td_lsp[1].next = s,
                  !.target_datap[m].td_target_options = Flag(@, mode),
                  !.target_datap[s].td_target_options = Flag(@, mode),
                  !.target_datap[s].td_lsp[1].state = Unflag(@, "LS_STATE_I_AM_THE_FIRST")]

\* An interval or a task: its type and its value, negative when it is refused.
lockstep_interval(w, n) ==
    LET Of(type, v, ok) == [type |-> type, value |-> IF ok THEN v ELSE -1]
    IN  CASE w = "time" -> Of("LS_INTERVAL_TIME", n * BILLION, n > 0)
          [] w = "op" -> Of("LS_INTERVAL_OP", n, n > 0)
          [] w = "percent" -> Of("LS_INTERVAL_PERCENT", n \div 100, n \div 100 \in 0..1)
          [] w = "mbytes" -> Of("LS_INTERVAL_BYTES", n * 1024 * 1024, n > 0)
          [] w = "kbytes" -> Of("LS_INTERVAL_BYTES", n * 1024, n > 0)
          [] OTHER -> Of("none", -1, FALSE)

xddfunc_lockstep(p, a, ac, ph) ==
    LET m == Atoi(Tok(a, 2))
        s == Atoi(Tok(a, 3))
        Lsp(t) == IF t.td_lsp # <<>> THEN t
                  ELSE [t EXCEPT !.td_lsp = <<[state |-> {}, next |-> -1,
                                               type |-> "none", value |-> 0]>>]
        q == [xdd_get_target_datap(xdd_get_target_datap(p, m), s)
                EXCEPT !.target_datap[m] = Lsp(@), !.target_datap[s] = Lsp(@)]
        r == IF ph = 1 THEN lockstep_ring(q, m, s, "TO_LOCKSTEP") ELSE q
        when == lockstep_interval(Tok(a, 4), Atoi(Tok(a, 5)))
        what == lockstep_interval(Tok(a, 6), Atoi(Tok(a, 7)))
        startup == IF Tok(a, 8) = "run" THEN "LS_STATE_START_RUN" ELSE "LS_STATE_START_WAIT"
        completion == CASE Tok(a, 9) = "complete" -> "LS_STATE_END_COMPLETE"
                        [] Tok(a, 9) = "stop" -> "LS_STATE_END_STOP"
                        [] OTHER -> "invalid"
        Interval(t, i) == [t EXCEPT !.td_lsp[1].type = i.type, !.td_lsp[1].value = i.value]
    IN  IF when.value < 0 \/ what.value < 0 \/ Tok(a, 6) = "percent" \/ completion = "invalid"
        THEN Result(r, 0)
        ELSE Result([r EXCEPT
                !.target_datap[m] = [Interval(@, when) EXCEPT
                    !.td_lsp[1].state = Flag(@, completion)],
                !.target_datap[s] = [Interval(@, what) EXCEPT
                    !.td_lsp[1].state = @ \union {startup, completion}]], 9)

\* A member of a structure that malloc() left uninitialised gets a value.
Member(f, k, v) == (k :> v) @@ f
\* Only the target form has any effect, in both phases.
xddfunc_readafterwrite(p, a, ac, ph) ==
    LET w == Word(a, 1)
        v == Word(a, 2)
        Bits(f) == IF "raw_trigger" \in DOMAIN f THEN f["raw_trigger"] ELSE {}
        Raw(f) == CASE w = "trigger" -> Member(f, "raw_trigger", Flag(Bits(f), v))
                    [] w = "lag" -> Member(f, "raw_lag", Atoi(v))
                    [] w = "reader" -> Member(f, "raw_hostname", v)
                    [] w = "port" -> Member(f, "raw_port", Atoi(v))
        specific == Tok(a, 2) = "target"
        valid == CASE w = "trigger" -> ~specific \/ v \in {"stat", "mp"}
                   [] OTHER -> w \in {"lag", "reader", "port"}
    IN  SubOption(p, a, ac, ph, 2, IF valid THEN 1 ELSE 0, LAMBDA t :
            IF ~specific THEN t
            ELSE [xdd_get_rawp(t) EXCEPT !.td_rawp[1] = Raw(@),
                                         !.td_target_options = Flag(@, "TO_READAFTERWRITE")])

restart_offset(t, n) ==
    [xdd_get_restartp(WithE2ep(t)) EXCEPT
        !.td_restartp[1].byte_offset = n,
        !.td_restartp[1].flags = Flag(@, "RESTART_FLAG_RESUME_COPY"),
        !.td_e2ep[1].total_bytes_written = n,
        !.td_last_committed_location = n]

xddfunc_restart(p, a, ac, ph) ==
    LET w  == Word(a, 1)
        on == [p EXCEPT !.restart_frequency = IF @ = 0 THEN 1 ELSE @]
        r  == SubOption(p, a, ac, ph, 2, 1, xdd_get_restartp)
        applied == xdd_parse_target_number(p, a, ac).tn >= 0 \/ (ph = 2 /\ Connected(p) # {})
    IN  CASE w = "enable" -> SubOption(on, a, ac, ph, 1, 1, LAMBDA t :
                [xdd_get_restartp(t) EXCEPT !.td_target_options = Flag(@, "TO_RESTART_ENABLE")])
          [] w = "file" -> SubOption(on, a, ac, ph, 2, 1, LAMBDA t :
                [xdd_get_restartp(t) EXCEPT !.td_restartp[1].filename = Word(a, 2)])
          [] w \in {"frequency", "freq"} ->
                [r EXCEPT !.plan.restart_frequency = IF applied THEN Number(a, 2) ELSE @]
          [] w \in {"byteoffset", "offset"} ->
                SubOption(on, a, ac, ph, 2, 1, LAMBDA t : restart_offset(t, Number(a, 2)))
          [] OTHER -> Result(p, 0)

seek_file(h, w, v) ==
    CASE w = "save" -> [h EXCEPT !.options = Flag(@, "SO_SEEK_SAVE"), !.savefile = v]
      [] w = "load" -> [h EXCEPT !.options = Flag(@, "SO_SEEK_LOAD"), !.loadfile = v]
      [] w = "disthist" -> [h EXCEPT !.options = Flag(@, "SO_SEEK_DISTHIST"),
                                     !.NumDistHistBuckets = Atoi(v)]
      [] w = "seekhist" -> [h EXCEPT !.options = Flag(@, "SO_SEEK_SEEKHIST"),
                                     !.NumSeekHistBuckets = Atoi(v)]
seek_pattern(h, w, v) ==
    CASE w = "sequential" -> [h EXCEPT !.options = Unflag(@, "SO_SEEK_RANDOM"), !.pattern = w]
      [] w = "random" -> [h EXCEPT !.options = Flag(@, "SO_SEEK_RANDOM"), !.pattern = w]
      [] w = "stagger" -> [h EXCEPT !.options = Flag(@, "SO_SEEK_STAGGER"),
                                    !.pattern = "staggered", !.stride = Atoi(v)]
      [] w = "interleave" -> [h EXCEPT !.interleave = Atoi(v), !.pattern = "interleaved"]
      [] w = "none" -> [h EXCEPT !.options = Flag(@, "SO_SEEK_NONE"), !.pattern = w]
      [] w = "range" -> [h EXCEPT !.range = Atoi(v)]
      [] w = "seed" -> [h EXCEPT !.seed = Atoi(v)]
xddfunc_seek(p, a, ac, ph) ==
    LET w == Word(a, 1)
        Seek(n, Set(_, _, _)) == SubOption(p, a, ac, ph, n, 1,
            LAMBDA t : [t EXCEPT !.td_seekhdr = Set(@, w, Word(a, 2))])
    IN  CASE w \in {"save", "load", "disthist", "seekhist"} -> Seek(2, seek_file)
          [] w \in {"sequential", "random", "none"} -> Seek(1, seek_pattern)
          [] w \in {"stagger", "interleave", "range", "seed"} -> Seek(2, seek_pattern)
          [] OTHER -> Result(p, 0)

xddfunc_throttle(p, a, ac, ph) ==
    LET w == Word(a, 1)
        n == Number(a, 2)
        valid == CASE w \in {"ops", "bw", "delay"} -> n > 0
                   [] w = "var" -> n > 0 \/ Tok(a, 2) # "target"
                   [] OTHER -> FALSE
    IN  SubOption(p, a, ac, ph, 2, IF ac < 3 \/ ~valid THEN 0 ELSE 1, LAMBDA t :
            IF w = "var" THEN [xdd_get_throtp(t) EXCEPT !.td_throtp[1].variance = n]
            ELSE [xdd_get_throtp(t) EXCEPT !.td_throtp[1].type = w, !.td_throtp[1].throttle = n])

\* The flags each word of -timestamps turns on; "off" turns one off.
timestamp_flags(w) ==
    CASE w = "on" -> {"TS_ON", "TS_ALL"}
      [] w = "wrap" -> {"TS_WRAP"}
      [] w = "oneshot" -> {"TS_ONESHOT"}
      [] w \in {"triggertime", "tt"} -> {"TS_ON", "TS_TRIGTIME"}
      [] w \in {"triggerop", "to"} -> {"TS_ON", "TS_TRIGOP"}
      [] w = "normalize" -> {"TS_ON", "TS_ALL", "TS_NORMALIZE"}
      [] w \in {"output", "append"} ->
            {"TS_ON", "TS_ALL", "TS_APPEND", "TS_DETAILED", "TS_SUMMARY"}
      [] w = "dump" -> {"TS_ON", "TS_ALL", "TS_DUMP"}
      [] w = "summary" -> {"TS_ON", "TS_ALL", "TS_SUMMARY"}
      [] w = "detailed" -> {"TS_ON", "TS_ALL", "TS_DETAILED", "TS_SUMMARY"}
      [] OTHER -> {}

xddfunc_timestamp(p, a, ac, ph) ==
    LET w == Word(a, 1)
        v == Word(a, 2)
        sized == w \in {"size", "triggertime", "tt", "triggerop", "to", "output"}
        Set(t) == [t EXCEPT
            !.td_ts_table.options = (IF w = "off" THEN Unflag(@, "TS_ON") ELSE @)
                                        \union timestamp_flags(w),
            !.td_ts_table.size = IF w = "size" THEN Atoi(v) ELSE @,
            !.td_ts_table.trigtime = IF w \in {"triggertime", "tt"} THEN Atoi(v) ELSE @,
            !.td_ts_table.trigop = IF w \in {"triggerop", "to"} THEN Atoi(v) ELSE @]
        r == SubOption(p, a, ac, ph, IF sized \/ w = "dump" THEN 2 ELSE 1,
                       IF ac < 2 \/ (sized /\ ac < 3) THEN 0 ELSE 1, Set)
    IN  IF r.status < 1 THEN r
        ELSE [r EXCEPT !.plan.ts_output = IF w = "output" THEN v ELSE @,
                       !.plan.ts_binary = IF w = "dump" THEN v ELSE @]

\* -starttrigger and -stoptrigger t1 t2 when howlong: t1 has to know when to
\* trigger t2; the flag that says so is set by -starttrigger only.
trigger_when(w) ==
    CASE w = "time" -> "TIME" [] w = "op" -> "OP" [] w = "percent" -> "PERCENT"
      [] w \in {"mbytes", "kbytes"} -> "BYTES" [] OTHER -> "none"
trigger_value(w, n) ==
    CASE w = "time" -> n * BILLION [] w = "mbytes" -> n * 1024 * 1024
      [] w = "kbytes" -> n * 1024 [] OTHER -> n
Trigp(p, n) == [xdd_get_target_datap(p, n) EXCEPT !.target_datap[n] = xdd_get_trigp(@)]

xddfunc_starttrigger(p, a, ac, ph) ==
    LET t1 == Atoi(Tok(a, 2))
        t2 == Atoi(Tok(a, 3))
        w  == Tok(a, 4)
        n  == Atoi(Tok(a, 5))
        valid == CASE w = "percent" -> n \in 0..100
                   [] OTHER -> trigger_when(w) # "none" /\ n > 0
        q  == xdd_get_target_datap(Trigp(p, t1), t2)
        Types(f) == IF "trigger_types" \in DOMAIN f THEN f["trigger_types"] ELSE {}
        Trigger(f) == Member(Member(Member(f, "start_trigger_target", t2),
                                    "start_trigger_" \o trigger_when(w), trigger_value(w, n)),
                             "trigger_types", Flag(Types(f), "TRIGGER_START" \o trigger_when(w)))
    IN  CASE ac < 5 -> Result(p, -1)
          [] ac >= 5 /\ ~valid -> Result(q, 0)
          [] OTHER -> Result([q EXCEPT !.target_datap[t1].td_trigp[1] = Trigger(@),
                  !.target_datap[t2].td_target_options = Flag(@, "TO_WAITFORSTART")], 5)

xddfunc_stoptrigger(p, a, ac, ph) ==
    LET t1 == Atoi(Tok(a, 2))
        w  == Tok(a, 4)
        Trigger(f) == Member(Member(f, "stop_trigger_target", Atoi(Tok(a, 3))),
                             "stop_trigger_" \o trigger_when(w),
                             trigger_value(w, Atoi(Tok(a, 5))))
    IN  CASE ac < 5 -> Result(p, -1)
          [] ac >= 5 /\ trigger_when(w) = "none" -> Result(Trigp(p, t1), 0)
          [] OTHER -> Result([Trigp(p, t1) EXCEPT !.target_datap[t1].td_trigp[1] = Trigger(@)], 5)
-----------------------------------------------------------------------------
(* Targets                                                                 *)

AddTarget(p, n, name) ==
    LET q == xdd_get_target_datap(p, n)
    IN  [q EXCEPT !.target_datap[n].td_target_basename = name]
AddNamed(p, n, name) ==
    LET q == AddTarget(p, n, name)
    IN  IF name # "null" THEN q
        ELSE [q EXCEPT !.target_datap[n].td_target_options = Flag(@, "TO_NULL_TARGET")]

xddfunc_target(p, a, ac, ph) ==
    IF ph # 1 THEN Result(p, 2)
    ELSE Result([AddTarget(p, p.number_of_targets, Tok(a, 2))
                    EXCEPT !.number_of_targets = @ + 1], 2)

\* -targets N t1 ... tN, or -targets -N t for N targets of the same name;
\* the targets are added to those there are.
xddfunc_targets(p, a, ac, ph) ==
    LET N == Atoi(Tok(a, 2))
        k == p.number_of_targets
        count == IF N < 0 THEN -N ELSE N
        Add(q, j) == AddNamed(q, k + j - 1, Tok(a, IF N < 0 THEN 3 ELSE 2 + j))
    IN  Result(IF ph # 1 THEN p
               ELSE [FoldLeft(Add, p, [j \in 1..count |-> j])
                        EXCEPT !.number_of_targets = k + count],
               IF N < 0 THEN 3 ELSE N + 2)

xddfunc_targetin(p, a, ac, ph) == Result(p, 0)
xddfunc_targetout(p, a, ac, ph) == Result(p, 0)
xddfunc_targetoffset(p, a, ac, ph) ==
    Result([p EXCEPT !.target_offset = Atoi(Tok(a, 2))], 2)
-----------------------------------------------------------------------------
(* The run as a whole                                                      *)

xddfunc_dryrun(p, a, ac, ph) == GlobalFlag(p, "GO_DRYRUN")
xddfunc_extended_stats(p, a, ac, ph) == GlobalFlag(p, "GO_EXTENDED_STATS")
xddfunc_interactive(p, a, ac, ph) == GlobalFlag(p, "GO_INTERACTIVE")
xddfunc_maxpri(p, a, ac, ph) == GlobalFlag(p, "GO_MAXPRI")
xddfunc_stoponerror(p, a, ac, ph) == GlobalFlag(p, "GO_STOP_ON_ERROR")
xddfunc_timerinfo(p, a, ac, ph) == GlobalFlag(p, "GO_TIMER_INFO")
xddfunc_verbose(p, a, ac, ph) == GlobalFlag(p, "GO_VERBOSE")
xddfunc_unverbose(p, a, ac, ph) ==
    Result([p EXCEPT !.global_options = Unflag(@, "GO_VERBOSE")], 1)
xddfunc_nobarrier(p, a, ac, ph) == Phase2Flag(p, ph, "GO_NOBARRIER")
xddfunc_nomemlock(p, a, ac, ph) == Phase2Flag(p, ph, "GO_NOMEMLOCK")
xddfunc_noproclock(p, a, ac, ph) == Phase2Flag(p, ph, "GO_NOPROCLOCK")
xddfunc_processlock(p, a, ac, ph) == Phase2Flag(p, ph, "GO_PLOCK")
xddfunc_reallyverbose(p, a, ac, ph) == Phase2Flag(p, ph, "GO_REALLYVERBOSE")
xddfunc_maxall(p, a, ac, ph) ==
    IF ph = 2 THEN xddfunc_processlock(xddfunc_maxpri(p, a, 1, ph).plan, a, 1, ph)
    ELSE Result(p, 1)
xddfunc_minall(p, a, ac, ph) ==
    IF ph = 2 THEN xddfunc_noproclock(xddfunc_nomemlock(p, a, 1, ph).plan, a, 1, ph)
    ELSE Result(p, 1)
xddfunc_multipath(p, a, ac, ph) == Result(p, 1)

DebugWords == {"io", "e2e", "lockstep", "open", "task", "tot", "ts", "throttle",
               "timelimit", "user1"}
\* An option may follow -debug at once.
xddfunc_debug(p, a, ac, ph) ==
    Result([p EXCEPT !.global_options =
                Flag(@, "GO_DEBUG_" \o (IF Tok(a, 2) \in DebugWords THEN Tok(a, 2) ELSE "all"))],
           IF Tok(a, 2) = "" \/ IsOption(Tok(a, 2)) THEN 1 ELSE 2)

xddfunc_idBug(p, a, ac, ph) ==
    PlanOption(p, ac, 2, 1, 1, [p EXCEPT !.id = Append(@, Tok(a, 2))])
xddfunc_id(p, a, ac, ph) ==
    PlanOption(p, ac, ph, 1, 1, [p EXCEPT !.id = Append(@, Tok(a, 2))])
xddfunc_maxerrors(p, a, ac, ph) ==
    PlanOption(p, ac, ph, 1, Positive(Atoi(Tok(a, 2)), -1),
               [p EXCEPT !.max_errors = Atoi(Tok(a, 2))])
xddfunc_max_errors_to_print(p, a, ac, ph) ==
    PlanOption(p, ac, ph, 1, Positive(Atoi(Tok(a, 2)), -1),
               [p EXCEPT !.max_errors_to_print = Atoi(Tok(a, 2))])
xddfunc_passes(p, a, ac, ph) ==
    PlanOption(p, ac, ph, 1, Positive(Atoi(Tok(a, 2)), -1),
               [p EXCEPT !.passes = Atoi(Tok(a, 2))])
xddfunc_passdelay(p, a, ac, ph) ==
    PlanOption(p, ac, ph, 1, Positive(Atoi(Tok(a, 2)), 0),
               [p EXCEPT !.pass_delay = Atoi(Tok(a, 2))])
xddfunc_runtime(p, a, ac, ph) ==
    PlanOption(p, ac, ph, 1, Positive(Atoi(Tok(a, 2)), 0),
               [p EXCEPT !.run_time = Atoi(Tok(a, 2)),
                         !.run_time_ticks = Atoi(Tok(a, 2)) * BILLION])
xddfunc_starttime(p, a, ac, ph) ==
    IF ac < 2 THEN Result(p, -1)
    ELSE Result([p EXCEPT !.gts_time = Atoi(Tok(a, 2)) * BILLION], 2)
xddfunc_syncio(p, a, ac, ph) ==
    IF ac < 2 THEN Result(p, -1)
    ELSE Result([p EXCEPT !.global_options = Flag(@, "GO_SYNCIO"),
                          !.syncio = Atoi(Tok(a, 2))], 2)
xddfunc_timeserver(p, a, ac, ph) ==
    LET v == Tok(a, 3)
    IN  CASE ac >= 3 /\ Tok(a, 2) = "host" -> Result([p EXCEPT !.gts_hostname = v], 3)
          [] ac >= 3 /\ Tok(a, 2) = "port" -> Result([p EXCEPT !.gts_port = Atoi(v)], 3)
          [] ac >= 3 /\ Tok(a, 2) = "bounce" -> Result([p EXCEPT !.gts_bounce = Atoi(v)], 3)
          [] OTHER -> Result(p, 0)

xddfunc_combinedout(p, a, ac, ph) ==
    PlanOption(p, ac, ph, 1, 1, OpenedIn([p EXCEPT !.combined_output = ""], Tok(a, 2),
        [p EXCEPT !.combined_output = Tok(a, 2), !.global_options = Flag(@, "GO_COMBINED")]))
\* The one output option that checks for its file name in phase 2 only.
xddfunc_csvout(p, a, ac, ph) ==
    IF ph # 2 THEN Result(p, 2)
    ELSE PlanOption(p, ac, ph, 1, 1, OpenedIn([p EXCEPT !.csvoutput = ""], Tok(a, 2),
            [p EXCEPT !.csvoutput = Tok(a, 2), !.global_options = Flag(@, "GO_CSV")]))
xddfunc_errout(p, a, ac, ph) ==
    PlanOption(p, ac, ph, 1, 1, OpenedIn([p EXCEPT !.errout = "stderr"], Tok(a, 2),
                                         [p EXCEPT !.errout = Tok(a, 2)]))
xddfunc_output(p, a, ac, ph) ==
    PlanOption(p, ac, ph, 1, 1, OpenedIn([p EXCEPT !.output = "stdout"], Tok(a, 2),
                                         [p EXCEPT !.output = Tok(a, 2)]))
xddfunc_output_format(p, a, ac, ph) ==
    LET w == Tok(a, 2)
    IN  PlanOption(p, ac, ph, 2, IF w \in {"add", "new"} /\ ac <= 2 THEN -1 ELSE 1,
            CASE w = "add" -> [p EXCEPT !.format = Append(@, Tok(a, 3))]
              [] w = "new" -> [p EXCEPT !.format = <<Tok(a, 3)>>]
              [] OTHER -> p)

xddfunc_help(p, a, ac, ph) == Result(p, IF Tok(a, 2) = "" THEN 1 ELSE -1)
xddfunc_fullhelp(p, a, ac, ph) == Result(p, -1)
\* exit(XDD_RETURN_VALUE_SUCCESS): the handler does not return.
EXITS == -2
xddfunc_version(p, a, ac, ph) == Result(p, EXITS)
=============================================================================
