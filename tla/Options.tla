------------------------------- MODULE Options -------------------------------
(***************************************************************************)
(* The command line parser (client/parse.c, client/parse_table.c).         *)
(*                                                                         *)
(* xdd_parse() walks the command line twice, calling the handler of each   *)
(* option both times; handlers that set every target wait for the second   *)
(* walk.  A -setup file is walked twice as well, inside the first walk of  *)
(* the command line, so the walks form a stack.                            *)
(***************************************************************************)
EXTENDS OptionFunctions

CONSTANTS CommandLines,  \* the command lines to parse, each a sequence of phrases
          ParamFiles     \* the readable -setup files: name -> tokens

VARIABLES cmd,     \* the phrases of the command line
          walks,   \* stack of xdd_parse_args() calls, the innermost first
          plan,
          exit     \* "none" while parsing, "parsed", or the value of exit()

vars == <<cmd, walks, plan, exit>>
-----------------------------------------------------------------------------
(* xdd_func[]                                                              *)

NOT_FOUND == -3
\* The handler of an option, looked up by its name or its short name.
xdd_func_6(p, a, ac, ph) ==
    CASE a[1] \in {"-timelimit", "-tl"} -> xddfunc_timelimit(p, a, ac, ph)
      [] a[1] \in {"-timerinfo", "-ti"} -> xddfunc_timerinfo(p, a, ac, ph)
      [] a[1] \in {"-timeserver", "-tsvr"} -> xddfunc_timeserver(p, a, ac, ph)
      [] a[1] \in {"-timestamps", "-ts"} -> xddfunc_timestamp(p, a, ac, ph)
      [] a[1] \in {"-unverbose", "-unv"} -> xddfunc_unverbose(p, a, ac, ph)
      [] a[1] \in {"-verbose"} -> xddfunc_verbose(p, a, ac, ph)
      [] a[1] \in {"-verify"} -> xddfunc_verify(p, a, ac, ph)
      [] a[1] \in {"-version", "-ver"} -> xddfunc_version(p, a, ac, ph)
      [] a[1] \in {"-writeafterread", "-war"} -> xddfunc_endtoend(p, a, ac, ph)
      [] a[1] \in {"-xni"} -> xddfunc_xni(p, a, ac, ph)
      [] a[1] \in {"-ibdevice"} -> xddfunc_ibdevice(p, a, ac, ph)
      [] OTHER -> Result(p, NOT_FOUND)

xdd_func_5(p, a, ac, ph) ==
    CASE a[1] \in {"-singleproc", "-sp"} -> xddfunc_singleproc(p, a, ac, ph)
      [] a[1] \in {"-startdelay", "-sd"} -> xddfunc_startdelay(p, a, ac, ph)
      [] a[1] \in {"-startoffset", "-sto"} -> xddfunc_startoffset(p, a, ac, ph)
      [] a[1] \in {"-starttime", "-stime"} -> xddfunc_starttime(p, a, ac, ph)
      [] a[1] \in {"-starttrigger", "-st"} -> xddfunc_starttrigger(p, a, ac, ph)
      [] a[1] \in {"-stoponerror", "-soe"} -> xddfunc_stoponerror(p, a, ac, ph)
      [] a[1] \in {"-stoptrigger", "-et"} -> xddfunc_stoptrigger(p, a, ac, ph)
      [] a[1] \in {"-syncio", "-sio"} -> xddfunc_syncio(p, a, ac, ph)
      [] a[1] \in {"-syncwrite", "-sw"} -> xddfunc_syncwrite(p, a, ac, ph)
      [] a[1] \in {"-target"} -> xddfunc_target(p, a, ac, ph)
      [] a[1] \in {"-targetdir", "-td"} -> xddfunc_targetdir(p, a, ac, ph)
      [] a[1] \in {"-targetin", "-tin"} -> xddfunc_targetin(p, a, ac, ph)
      [] a[1] \in {"-targetoffset", "-to"} -> xddfunc_targetoffset(p, a, ac, ph)
      [] a[1] \in {"-targets"} -> xddfunc_targets(p, a, ac, ph)
      [] a[1] \in {"-targetstartdelay", "-tsd"} -> xddfunc_targetstartdelay(p, a, ac, ph)
      [] a[1] \in {"-targetout", "-tout"} -> xddfunc_targetout(p, a, ac, ph)
      [] a[1] \in {"-throttle", "-throt"} -> xddfunc_throttle(p, a, ac, ph)
      [] OTHER -> xdd_func_6(p, a, ac, ph)

xdd_func_4(p, a, ac, ph) ==
    CASE a[1] \in {"-queuedepth", "-qd"} -> xddfunc_queuedepth(p, a, ac, ph)
      [] a[1] \in {"-randomize", "-rand"} -> xddfunc_randomize(p, a, ac, ph)
      [] a[1] \in {"-readafterwrite", "-raw"} -> xddfunc_readafterwrite(p, a, ac, ph)
      [] a[1] \in {"-reallyverbose", "-rv"} -> xddfunc_reallyverbose(p, a, ac, ph)
      [] a[1] \in {"-recreatefiles", "-recreate"} -> xddfunc_recreatefiles(p, a, ac, ph)
      [] a[1] \in {"-reopen", "-reop"} -> xddfunc_reopen(p, a, ac, ph)
      [] a[1] \in {"-reportthreshold", "-rept"} -> xddfunc_report_threshold(p, a, ac, ph)
      [] a[1] \in {"-reqsize", "-rs"} -> xddfunc_reqsize(p, a, ac, ph)
      [] a[1] \in {"-restart", "-rst"} -> xddfunc_restart(p, a, ac, ph)
      [] a[1] \in {"-retry", "-ret"} -> xddfunc_retry(p, a, ac, ph)
      [] a[1] \in {"-roundrobin", "-rr"} -> xddfunc_roundrobin(p, a, ac, ph)
      [] a[1] \in {"-runtime", "-rt"} -> xddfunc_runtime(p, a, ac, ph)
      [] a[1] \in {"-rwratio", "-rw"} -> xddfunc_rwratio(p, a, ac, ph)
      [] a[1] \in {"-seek", "-s"} -> xddfunc_seek(p, a, ac, ph)
      [] a[1] \in {"-serialordering", "-so"} -> xddfunc_serialordering(p, a, ac, ph)
      [] a[1] \in {"-scsigeneric", "-sgio"} -> xddfunc_sgio(p, a, ac, ph)
      [] a[1] \in {"-sharedmemory", "-shm"} -> xddfunc_sharedmemory(p, a, ac, ph)
      [] OTHER -> xdd_func_5(p, a, ac, ph)

xdd_func_3(p, a, ac, ph) ==
    CASE a[1] \in {"-multipath", "-mp"} -> xddfunc_multipath(p, a, ac, ph)
      [] a[1] \in {"-nobarrier", "-nb"} -> xddfunc_nobarrier(p, a, ac, ph)
      [] a[1] \in {"-nomemlock", "-nomlock"} -> xddfunc_nomemlock(p, a, ac, ph)
      [] a[1] \in {"-noordering", "-no"} -> xddfunc_noordering(p, a, ac, ph)
      [] a[1] \in {"-noproclock", "-noplock"} -> xddfunc_noproclock(p, a, ac, ph)
      [] a[1] \in {"-numreqs", "-nr"} -> xddfunc_numreqs(p, a, ac, ph)
      [] a[1] \in {"-operationdelay", "-opdelay"} -> xddfunc_operationdelay(p, a, ac, ph)
      [] a[1] \in {"-operation", "-op"} -> xddfunc_operation(p, a, ac, ph)
      [] a[1] \in {"-ordering", "-or"} -> xddfunc_ordering(p, a, ac, ph)
      [] a[1] \in {"-output", "-o"} -> xddfunc_output(p, a, ac, ph)
      [] a[1] \in {"-outputformat", "-ofmt"} -> xddfunc_output_format(p, a, ac, ph)
      [] a[1] \in {"-passdelay", "-pdelay"} -> xddfunc_passdelay(p, a, ac, ph)
      [] a[1] \in {"-passes", "-p"} -> xddfunc_passes(p, a, ac, ph)
      [] a[1] \in {"-passoffset", "-po"} -> xddfunc_passoffset(p, a, ac, ph)
      [] a[1] \in {"-percentcpu", "-pcpu"} -> xddfunc_percentcpu(p, a, ac, ph)
      [] a[1] \in {"-preallocate", "-pa"} -> xddfunc_preallocate(p, a, ac, ph)
      [] a[1] \in {"-pretruncate", "-pt"} -> xddfunc_pretruncate(p, a, ac, ph)
      [] a[1] \in {"-processlock", "-plock"} -> xddfunc_processlock(p, a, ac, ph)
      [] a[1] \in {"-processor", "-pr"} -> xddfunc_processor(p, a, ac, ph)
      [] OTHER -> xdd_func_4(p, a, ac, ph)

xdd_func_2(p, a, ac, ph) ==
    CASE a[1] \in {"-heartbeat", "-hb"} -> xddfunc_heartbeat(p, a, ac, ph)
      [] a[1] \in {"-help", "-h"} -> xddfunc_help(p, a, ac, ph)
      [] a[1] \in {"-identifier", "-id"} -> xddfunc_id(p, a, ac, ph)
      [] a[1] \in {"-interactive", "-inter"} -> xddfunc_interactive(p, a, ac, ph)
      [] a[1] \in {"-kbytes", "-kb"} -> xddfunc_kbytes(p, a, ac, ph)
      [] a[1] \in {"-lockstep", "-ls"} -> xddfunc_lockstep(p, a, ac, ph)
      [] a[1] \in {"-looseordering", "-lo"} -> xddfunc_looseordering(p, a, ac, ph)
      [] a[1] \in {"-maxall"} -> xddfunc_maxall(p, a, ac, ph)
      [] a[1] \in {"-maxerrors"} -> xddfunc_maxerrors(p, a, ac, ph)
      [] a[1] \in {"-maxerrorstoprint", "-mep"} -> xddfunc_max_errors_to_print(p, a, ac, ph)
      [] a[1] \in {"-maximumpriority", "-maxpri"} -> xddfunc_maxpri(p, a, ac, ph)
      [] a[1] \in {"-mbytes", "-mb"} -> xddfunc_mbytes(p, a, ac, ph)
      [] a[1] \in {"-memalign", "-mal"} -> xddfunc_memalign(p, a, ac, ph)
      [] a[1] \in {"-minall"} -> xddfunc_minall(p, a, ac, ph)
      [] OTHER -> xdd_func_3(p, a, ac, ph)

xdd_func_1(p, a, ac, ph) ==
    CASE a[1] \in {"-blocksize", "-bs"} -> xddfunc_blocksize(p, a, ac, ph)
      [] a[1] \in {"-bytes", "-b"} -> xddfunc_bytes(p, a, ac, ph)
      [] a[1] \in {"-combinedout", "-combo"} -> xddfunc_combinedout(p, a, ac, ph)
      [] a[1] \in {"-congestion"} -> xddfunc_congestion(p, a, ac, ph)
      [] a[1] \in {"-cookie"} -> xddfunc_cookie(p, a, ac, ph)
      [] a[1] \in {"-createnewfiles", "-cnf"} -> xddfunc_createnewfiles(p, a, ac, ph)
      [] a[1] \in {"-csvout", "-csvo"} -> xddfunc_csvout(p, a, ac, ph)
      [] a[1] \in {"-datapattern", "-dp"} -> xddfunc_datapattern(p, a, ac, ph)
      [] a[1] \in {"-debug"} -> xddfunc_debug(p, a, ac, ph)
      [] a[1] \in {"-deletefile", "-del"} -> xddfunc_deletefile(p, a, ac, ph)
      [] a[1] \in {"-devicefile", "-devf"} -> xddfunc_devicefile(p, a, ac, ph)
      [] a[1] \in {"-directio", "-dio"} -> xddfunc_dio(p, a, ac, ph)
      [] a[1] \in {"-dryrun", "-dry"} -> xddfunc_dryrun(p, a, ac, ph)
      [] a[1] \in {"-endtoend", "-e2e"} -> xddfunc_endtoend(p, a, ac, ph)
      [] a[1] \in {"-errout", "-eo"} -> xddfunc_errout(p, a, ac, ph)
      [] a[1] \in {"-extendedstats", "-extstats"} -> xddfunc_extended_stats(p, a, ac, ph)
      [] a[1] \in {"-flushwrite", "-fw"} -> xddfunc_flushwrite(p, a, ac, ph)
      [] a[1] \in {"-fullhelp", "-exthelp"} -> xddfunc_fullhelp(p, a, ac, ph)
      [] OTHER -> xdd_func_2(p, a, ac, ph)

-----------------------------------------------------------------------------
(* xdd_parse_args()                                                        *)

CommandLine == <<"xdd">> \o FlattenSeq(cmd)
argv(w) == IF w.file = "" THEN CommandLine ELSE ParamFiles[w.file]
Walk(file, args, ph) == [file |-> file, phase |-> ph, argi |-> 2, arg_count |-> Len(args) - 1]

\* The next option at or after argi: other tokens are skipped, uncounted.
Option(w) ==
    LET at == {i \in w.argi..Len(argv(w)) : IsOption(argv(w)[i])}
    IN  IF at = {} THEN Len(argv(w)) + 1 ELSE CHOOSE i \in at : \A j \in at : i <= j
Ended(w) == w.arg_count = 0 \/ Option(w) > Len(argv(w))
From(w) == SubSeq(argv(w), Option(w), Len(argv(w)))

Init ==
    /\ cmd \in CommandLines
    /\ walks = <<Walk("", CommandLine, 1)>>
    /\ plan = NewPlan
    /\ exit = "none"

Exit(s) ==
    exit' = CASE s = 0 -> "XDD_RETURN_VALUE_INVALID_ARGUMENT"
              [] s \in {-1, NOT_FOUND} -> "XDD_RETURN_VALUE_INVALID_OPTION"
              [] s = EXITS -> "XDD_RETURN_VALUE_SUCCESS"
              [] OTHER -> "none"

\* One option: its handler is called with the arguments from the option on.
xdd_parse_args ==
    /\ exit = "none" /\ ~Ended(walks[1])
    /\ \E w \in {walks[1]} : \E a \in {From(w)} :
        \E r \in {xdd_func_1(plan, a, w.arg_count, w.phase)} :
           /\ a[1] # "-setup"
           /\ plan' = r.plan
           /\ Exit(r.status)
           /\ walks' = IF r.status < 1 THEN walks
                       ELSE [walks EXCEPT ![1].argi = Option(w) + r.status,
                                          ![1].arg_count = @ - r.status]
    /\ UNCHANGED cmd

\* -setup file: in phase 1 a readable file is walked before the handler ends.
xddfunc_setup ==
    /\ exit = "none" /\ ~Ended(walks[1])
    /\ LET w == walks[1]
           f == Tok(From(w), 2)
       IN  /\ From(w)[1] = "-setup"
           /\ walks' = IF w.phase = 1 /\ f \in DOMAIN ParamFiles
                       THEN <<Walk(f, ParamFiles[f], 1)>> \o walks
                       ELSE [walks EXCEPT ![1].argi = Option(w) + 2,
                                          ![1].arg_count = @ - 2]
    /\ UNCHANGED <<cmd, plan, exit>>

\* The end of the first walk of the command line or of a file.
SecondWalk ==
    /\ exit = "none" /\ Ended(walks[1]) /\ walks[1].phase = 1
    /\ walks' = [walks EXCEPT ![1] = Walk(@.file, argv(@), 2)]
    /\ UNCHANGED <<cmd, plan, exit>>

\* xdd_process_paramfile() returns SUCCESS, which is 0, and so does the handler.
xdd_process_paramfile ==
    /\ exit = "none" /\ Ended(walks[1]) /\ walks[1].phase = 2 /\ walks[1].file # ""
    /\ walks' = Tail(walks)
    /\ Exit(0)
    /\ UNCHANGED <<cmd, plan>>

\* The rest of xdd_parse(), after both walks.
xdd_parse ==
    /\ exit = "none" /\ Ended(walks[1]) /\ walks[1].phase = 2 /\ walks[1].file = ""
    /\ IF 0 \notin DOMAIN plan.target_datap THEN Exit(0) /\ UNCHANGED plan
       ELSE /\ exit' = "parsed"
            /\ plan' = xdd_build_target_data_substructure(plan)
    /\ UNCHANGED <<cmd, walks>>

Next == xdd_parse_args \/ xddfunc_setup \/ SecondWalk \/ xdd_process_paramfile \/ xdd_parse
Spec == Init /\ [][Next]_vars /\ WF_vars(Next)
-----------------------------------------------------------------------------
(* What the parser promises                                                *)

targets == {n \in DOMAIN plan.target_datap : n < plan.number_of_targets}
Uses(c, names) == \E i \in DOMAIN c : c[i][1] \in names
Specific(phrase) == Tok(phrase, 2) = "target"

\* Options that set the same thing.
kinds == {{"-bytes", "-kbytes", "-mbytes", "-numreqs"}, {"-operation", "-rwratio"},
          {"-processor", "-singleproc"}, {"-startdelay", "-targetstartdelay"}, {"-timestamps", "-ts"},
          {"-looseordering", "-noordering", "-serialordering", "-ordering"}}
SameKind(x, y) == x[1] = y[1] \/ \E k \in kinds : {x[1], y[1]} \subseteq k

\* The lines on which the precedence that parse_func.c:57 gives to options for
\* one target is also their order: none of them is followed by one of the same
\* kind for all targets.  (On other lines the code lets the last one win.)
InPrecedence(c) ==
    \A i, j \in DOMAIN c :
        i < j /\ Specific(c[i]) /\ ~Specific(c[j]) => ~SameKind(c[i], c[j])

\* The reference: all targets exist, then each option for all targets takes
\* effect once, then each option for one target.  A call is a phrase and the
\* phase it is met in; phase 0 only creates the target that the phrase names.
OnePassCalls(c) ==
    LET Targets(x) == x[1] \in {"-target", "-targets"}
        creating == [i \in DOMAIN c |-> <<c[i], IF Targets(c[i]) THEN 1 ELSE 0>>]
        effects(x) == CASE x[1] = "-lockstep" -> << <<x, 1>>, <<x, 2>> >>
                        [] x[1] = "-setup" -> <<>>
                        [] OTHER -> << <<x, 2>> >>
        all == SelectSeq(c, LAMBDA x : ~Specific(x))
        one == SelectSeq(c, Specific)
    IN  SelectSeq(creating, LAMBDA s : s[2] = 1 \/ Specific(s[1]))
            \o FlattenSeq([i \in DOMAIN all |-> effects(all[i])])
            \o FlattenSeq([i \in DOMAIN one |-> effects(one[i])])
RECURSIVE Perform(_, _)
Perform(p, calls) ==
    IF calls = <<>> THEN p
    ELSE Perform(LET x == calls[1][1]
                     ph == calls[1][2]
                 IN  IF ph = 0 THEN xdd_get_target_datap(p, Atoi(x[3]))
                     ELSE xdd_func_1(p, x, Len(x), ph).plan,
                 Tail(calls))
OnePass(c) == xdd_build_target_data_substructure(Perform(NewPlan, OnePassCalls(c)))

\* When the structures for extended statistics and end-to-end are allocated
\* depends on what precedes the target; as long as they are zero nothing is
\* told apart by that.
Compared(p) ==
    [p EXCEPT !.target_datap = [n \in {m \in DOMAIN @ : m < p.number_of_targets} |->
        [@[n] EXCEPT !.td_esp = <<>>,
                     !.td_e2ep = IF @ = <<xdd_get_e2ep>> THEN <<>> ELSE @]]]

\* Walking the command line twice gives each option its effect once, options
\* for one target over those for all of them: handlers that run in both phases
\* (the forms for one target, the flags, -lockstep) leave nothing behind that the
\* second walk does not leave, and no option for all targets is lost, repeated or
\* applied after one that has precedence (xdd_parse() with the handlers' phase
\* tests; parse_func.c:57).  Left out are the lines on which the order of the
\* options contradicts their precedence, and the destination of one target,
\* which both walks add.
OptionsTakeEffectOnce ==
    (/\ exit = "parsed" /\ InPrecedence(cmd)
     /\ \A i \in DOMAIN cmd : ~(Specific(cmd[i]) /\ Tok(cmd[i], 4) = "destination"))
        => Compared(plan) = Compared(OnePass(cmd))

\* A target that is part of an end-to-end copy has its end-to-end structure,
\* whatever the order in which -targets and -endtoend are met and whether the
\* option names a target: the build step and the workers follow the pointer.
EndToEndIsAllocated ==
    \A n \in DOMAIN plan.target_datap :
        plan.target_datap[n].td_target_options \intersect
            {"TO_ENDTOEND", "TO_E2E_SOURCE", "TO_E2E_DESTINATION"} # {}
        => plan.target_datap[n].td_e2ep # <<>>

\* Each worker of an end-to-end target gets a host and port of its own, and no
\* port that was asked for is left without a worker, for destinations that are
\* given for all targets and have no -e2e portcount.
EveryWorkerHasItsPort ==
    (/\ exit = "parsed" /\ ~plan.abort
     /\ \A i \in DOMAIN cmd : Uses(<<cmd[i]>>, {"-e2e"}) =>
            ~Specific(cmd[i]) /\ Tok(cmd[i], 2) # "portcount"
     /\ \A i, j \in DOMAIN cmd : cmd[i] = cmd[j] => i = j)
    => \A n \in targets :
        LET t == plan.target_datap[n]
            dests == {t.workers[q].dest : q \in DOMAIN t.workers}
        IN  "TO_ENDTOEND" \in t.td_target_options =>
                /\ <<>> \notin dests
                /\ Cardinality(dests) = Len(t.workers)
                /\ ToSet(EndPoints(t)) = dests

\* The phrase that says how much target n has to transfer: the last one for n,
\* or the last one for all targets; 0 if there is none.
Amount(c, n) ==
    LET amounts == {i \in DOMAIN c : c[i][1] \in {"-bytes", "-kbytes", "-mbytes", "-numreqs"}}
        mine == {i \in amounts : Specific(c[i]) /\ Atoi(c[i][3]) = n}
        all == {i \in amounts : ~Specific(c[i])}
    IN  Max({0} \union (IF mine # {} THEN mine ELSE all))

\* A pass moves exactly the bytes that -bytes, -kbytes, -mbytes and -numreqs ask
\* for, less what a resumed copy has done: enough requests and not one too many
\* (xdd_calculate_xfer_info()).  Left out are the lines on which the order of
\* the options contradicts their precedence, and restart offsets beyond the
\* bytes asked for, which make the count of bytes wrap (target_data.c:162).
RequestsCoverTheBytes ==
    exit = "parsed" /\ InPrecedence(cmd) => \A n \in targets :
        LET t == plan.target_datap[n]
            by == Amount(cmd, n)
            unit == CASE cmd[by][1] = "-bytes" -> 1
                      [] cmd[by][1] = "-kbytes" -> 1024
                      [] cmd[by][1] = "-mbytes" -> 1024 * 1024
                      [] OTHER -> t.td_reqsize * t.td_block_size
            asked == IF by = 0 THEN 0 ELSE Number(cmd[by], 1) * unit
            done == IF t.td_restartp # <<>> /\ asked # 0 THEN t.td_restartp[1].byte_offset ELSE 0
        IN  done <= asked =>
              /\ t.td_target_bytes_to_xfer_per_pass = asked - done
              /\ t.td_target_ops * t.td_xfer_size >= asked - done
              /\ (t.td_target_ops - 1) * t.td_xfer_size < asked - done

=============================================================================
