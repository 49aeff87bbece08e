------------------------------ MODULE MCOptions ------------------------------
(***************************************************************************)
(* Command lines for the parser: two targets and any two of the phrases,   *)
(* in every order of the three, and longer lines for the options whose     *)
(* effect builds up over several phrases.                                  *)
(***************************************************************************)
EXTENDS Options

phrases == {
    <<"-blocksize", "512">>, <<"-blocksize", "target", "1", "2048">>,
    <<"-bytes", "1000000">>, <<"-bytes", "target", "0", "300000">>,
    <<"-kbytes", "400">>, <<"-mbytes", "target", "1", "1">>, <<"-numreqs", "3">>,
    <<"-numreqs", "target", "0", "5">>, <<"-reqsize", "64">>,
    <<"-reqsize", "target", "1", "1">>, <<"-queuedepth", "3">>,
    <<"-queuedepth", "target", "0", "2">>, <<"-flushwrite", "4">>,
    <<"-memalign", "512">>, <<"-passoffset", "2">>, <<"-preallocate", "4096">>,
    <<"-pretruncate", "4096">>, <<"-startoffset", "4">>,
    <<"-startoffset", "target", "1", "8">>, <<"-retry", "2">>,
    <<"-reportthreshold", "1">>, <<"-percentcpu", "50">>, <<"-createnewfiles">>,
    <<"-createnewfiles", "target", "1">>, <<"-deletefile">>,
    <<"-devicefile", "target", "0">>, <<"-dio">>, <<"-randomize">>,
    <<"-recreatefiles">>, <<"-reopen">>, <<"-sgio", "target", "1">>,
    <<"-sharedmemory">>, <<"-syncwrite", "target", "0">>, <<"-looseordering">>,
    <<"-noordering", "target", "0">>, <<"-serialordering">>,
    <<"-serialordering", "target", "1">>, <<"-ordering", "storage", "serial">>,
    <<"-ordering", "both", "none">>, <<"-ordering", "target", "0", "network", "loose">>,
    <<"-operation", "read">>, <<"-operation", "target", "1", "write">>,
    <<"-rwratio", "50">>, <<"-processor", "1">>, <<"-singleproc", "target", "0", "1">>,
    <<"-roundrobin", "2">>, <<"-operationdelay", "2">>, <<"-startdelay", "3">>,
    <<"-startdelay", "target", "0", "1">>, <<"-targetstartdelay", "2">>,
    <<"-timelimit", "4">>, <<"-targetdir", "d">>, <<"-cookie", "beef">>,
    <<"-congestion", "cubic">>, <<"-ibdevice", "mlx5_0">>, <<"-xni", "tcp">>,
    <<"-verify", "contents">>, <<"-verify", "target", "1", "location">>,
    <<"-datapattern", "random">>, <<"-datapattern", "target", "0", "hex", "cafe">>,
    <<"-datapattern", "prefix", "ab">>, <<"-datapattern", "x">>,
    <<"-e2e", "destination", "h1:5000,2">>, <<"-e2e", "destination", "h2">>,
    <<"-e2e", "target", "1", "destination", "h1:5000,2">>, <<"-e2e", "issource">>,
    <<"-e2e", "target", "0", "isdestination">>, <<"-e2e", "port", "6000">>,
    <<"-e2e", "portcount", "2">>, <<"-e2e", "sourcemonitor">>,
    <<"-e2e", "sourcepath", "f", "3">>, <<"-heartbeat", "bw">>, <<"-heartbeat", "10">>,
    <<"-heartbeat", "output", "f">>,
    <<"-lockstep", "0", "1", "op", "1", "op", "1", "wait", "complete">>,
    <<"-lockstep", "1", "2", "time", "1", "kbytes", "4", "run", "stop">>,
    <<"-readafterwrite", "target", "0", "lag", "4">>,
    <<"-readafterwrite", "target", "1", "trigger", "stat">>,
    <<"-readafterwrite", "port", "2000">>, <<"-restart", "enable">>,
    <<"-restart", "target", "0", "file", "f">>, <<"-restart", "frequency", "5">>,
    <<"-restart", "byteoffset", "1024">>, <<"-restart", "byteoffset", "409600">>, <<"-seek", "random">>,
    <<"-seek", "target", "0", "range", "100">>, <<"-seek", "save", "f">>,
    <<"-seek", "stagger", "7">>, <<"-throttle", "bw", "10">>,
    <<"-throttle", "target", "1", "ops", "5">>, <<"-throttle", "var", "2">>,
    <<"-timestamps", "output", "f">>, <<"-ts", "target", "0", "size", "10">>,
    <<"-ts", "off">>, <<"-ts", "dump", "f">>,
    <<"-starttrigger", "0", "1", "op", "3">>, <<"-stoptrigger", "1", "0", "time", "2">>,
    <<"-target", "c">>, <<"-targets", "-2", "null">>, <<"-targetoffset", "3">>,
    <<"-dryrun">>, <<"-extendedstats">>, <<"-interactive">>, <<"-maxall">>,
    <<"-maxpri">>, <<"-minall">>, <<"-multipath">>, <<"-nobarrier">>, <<"-nomemlock">>,
    <<"-stoponerror">>, <<"-timerinfo">>, <<"-verbose">>, <<"-unverbose">>,
    <<"-processlock">>, <<"-reallyverbose">>, <<"-debug">>, <<"-debug", "ts">>,
    <<"-id", "run1">>, <<"-id", "run2">>, <<"-maxerrors", "3">>,
    <<"-maxerrorstoprint", "5">>, <<"-passes", "2">>, <<"-passdelay", "1">>,
    <<"-runtime", "5">>, <<"-starttime", "9">>, <<"-syncio", "4">>,
    <<"-timeserver", "host", "h1">>, <<"-timeserver", "port", "6000">>,
    <<"-combinedout", "f">>, <<"-csvout", "nofile">>, <<"-errout", "f">>,
    <<"-output", "f">>, <<"-outputformat", "add", "f">>, <<"-help">>,
    <<"-setup", "nofile">>}

T == <<"-targets", "2", "a", "b">>
\* The targets first, or named after options that create them or set all of them.
early == {x \in phrases : x[1] \in {"-e2e", "-lockstep", "-restart", "-extendedstats", "-bytes",
                                    "-throttle", "-id", "-starttrigger"}}
Pairs == {<<T, x, y>> : x, y \in phrases}
            \union UNION {{<<x, T, y>>, <<x, y, T>>} : x \in early, y \in phrases}

\* Values and words that handlers refuse, and options that end the program.
refused == {
    <<"-preallocate", "0">>, <<"-ordering", "disk", "upside">>, <<"-rwratio", "101">>,
    <<"-processor", "9">>, <<"-xni", "udt">>, <<"-e2e", "sideways">>,
    <<"-heartbeat", "hot">>, <<"-heartbeat", "0">>,
    <<"-lockstep", "0", "1", "op", "1", "op", "1", "wait", "never">>,
    <<"-restart", "never">>, <<"-starttrigger", "0", "1", "percent", "200">>,
    <<"-targetin", "i">>, <<"-targetout", "i">>, <<"-maxerrors", "0">>,
    <<"-passes", "0">>, <<"-timeserver", "clock", "1">>, <<"-fullhelp">>,
    <<"-version">>, <<"-nosuchoption">>, <<"-setup", "good">>, <<"-blocksize", "0">>,
    <<"-numreqs", "0">>, <<"-verify", "twice">>, <<"-op", "target", "9", "read">>,
    <<"-passdelay", "0">>, <<"-runtime", "0">>, <<"-throttle", "bw", "0">>,
    <<"-seek", "sideways">>, <<"-cookie", "tea">>, <<"-roundrobin", "9">>,
    <<"-readafterwrite", "lead", "3">>, <<"-stoptrigger", "1", "0", "never", "2">>}
Refused == {<<x, T, y>> : x \in refused, y \in {T, <<"-restart", "enable">>}}

\* Rings of three and four targets.
Step(m, s) == <<"-lockstep", m, s, "op", "1", "op", "1", "wait", "complete">>
Numbers == {"0", "1", "2", "3"}
Rings == {<<<<"-targets", "-4", "a">>, Step(m, s), Step(n, r), Step(o, q)>> :
            m \in {"0"}, s \in {"1"}, n, o \in {"0", "1", "2"}, r, q \in Numbers}

\* Several destinations, with and without ports, and a queue depth.
destinations == {<<"-e2e", "destination", a>> : a \in {"h1:5000,2", "h2", "h3:5000,1", "h4"}}
Depth(q) == <<"-queuedepth", q>>
Copies == {<<x, y, z, T, Depth(q)>> : x, y, z \in destinations, q \in {"1", "2", "3", "5"}}
            \union {<<T, Depth(q), x, y>> : x, y \in destinations, q \in {"1", "3", "5"}}

Short == {<<>>, <<T>>, <<<<"-op">>>>, <<T, <<"-op">>>>, <<T, <<"-e2e">>>>, <<T, <<"-op", "target">>>>,
          <<T, <<"-op", "target", "9", "read">>>>, <<<<"stray">>, T, <<"stray">>>>,
          <<<<"-op", "target", "0", "read">>>>, <<<<"-setup", "bad">>, T>>, <<<<"-setup", "empty">>>>}

MCCommandLines == Pairs \union Refused \union Rings \union Copies \union Short
MCParamFiles ==
    [good |-> <<"xdd", "-targets", "1", "a", "-op", "read", "-id", "run1">>,
     bad |-> <<"xdd", "-nosuchoption">>, empty |-> <<"xdd">>]

MCNumeral == ("-2" :> -2) @@ ("0" :> 0) @@ ("1" :> 1) @@ ("2" :> 2) @@ ("3" :> 3)
    @@ ("4" :> 4) @@ ("5" :> 5) @@ ("7" :> 7) @@ ("8" :> 8) @@ ("9" :> 9)
    @@ ("10" :> 10) @@ ("50" :> 50) @@ ("64" :> 64) @@ ("100" :> 100) @@ ("101" :> 101)
    @@ ("200" :> 200) @@ ("400" :> 400) @@ ("512" :> 512) @@ ("1024" :> 1024) @@ ("2000" :> 2000)
    @@ ("2048" :> 2048) @@ ("4096" :> 4096) @@ ("6000" :> 6000) @@ ("300000" :> 300000)
    @@ ("409600" :> 409600) @@ ("1000000" :> 1000000)
MCAddress ==
    LET A(h, b, n) == [hostname |-> h, base_port |-> b, port_count |-> n]
    IN  ("h1:5000,2" :> A("h1", 5000, 2)) @@ ("h2" :> A("h2", 0, 0))
        @@ ("h3:5000,1" :> A("h3", 5000, 1)) @@ ("h4" :> A("h4", 0, 0))
=============================================================================
