------------------------------- MODULE XniTcp -------------------------------
(***************************************************************************)
(* XNI over TCP (xni/xni_tcp.c; xni_udt.c is the same text over UDT).  One *)
(* connection is nsock sockets.  A sender takes the first socket that is   *)
(* not busy and sends header and data on it; a receiver takes a socket     *)
(* that select() found ready, and not busy, and reads header and data.     *)
(*                                                                         *)
(* The stream of a socket is a sequence of parts <<kind, block>>: "h" a    *)
(* header, "d" the data, "f" the end of the stream.  sent[s] is under way, *)
(* arrived[s] is in the receiver's socket buffer.                          *)
(***************************************************************************)
EXTENDS XniBuffers

CONSTANT Window    \* bound: parts one socket holds before send() blocks

ASSUME WindowIsPositive == Window \in Nat \ {0}

VARIABLES
    sent, arrived,   \* the streams
    broken,          \* sockets whose connection was reset
    sbusy, rbusy,    \* sockets[i].busy of the two sides
    eof,             \* sockets[i].eof at the destination
    sock,            \* of each worker: the socket it uses, or 0
    fds,             \* of each destination worker: the select() set
    frame            \* of each destination worker: the parts it read

tcp == <<sent, arrived, broken, sbusy, rbusy, eof, sock, fds, frame>>
Sockets == 1..nsock

TcpInit ==
    /\ sent = [s \in Sockets |-> <<>>] /\ arrived = [s \in Sockets |-> <<>>]
    /\ broken = {} /\ sbusy = {} /\ rbusy = {} /\ eof = {}
    /\ sock = [d \in Sides |-> [w \in Workers |-> 0]]
    /\ fds = [w \in Workers |-> {}]
    /\ frame = [w \in Workers |-> <<>>]
-----------------------------------------------------------------------------
(* tcp_send_target_buffer(), and the request for a new buffer after it.    *)

tcp_locate_socketBug(w) ==
    /\ proto = "tcp" /\ pc["src"][w] = "send"
    /\ LET s == Min(Sockets)
       IN  /\ sbusy' = sbusy \union {s}
           /\ sock' = [sock EXCEPT !["src"][w] = s]
    /\ Goto("src", w, "header")
    /\ UNCHANGED <<config, setup, conn, buf, busy, mem, files>>
    /\ UNCHANGED <<sent, arrived, broken, rbusy, eof, fds, frame>>
tcp_locate_socket(w) ==
    /\ proto = "tcp" /\ pc["src"][w] = "send"
    /\ Sockets \ sbusy # {}
    /\ LET s == Min(Sockets \ sbusy)
       IN  /\ sbusy' = sbusy \union {s}
           /\ sock' = [sock EXCEPT !["src"][w] = s]
    /\ Goto("src", w, "header")
    /\ UNCHANGED <<config, setup, conn, buf, busy, mem, files>>
    /\ UNCHANGED <<sent, arrived, broken, rbusy, eof, fds, frame>>

SendPart(w, kind) ==
    LET s == sock["src"][w] IN
    /\ s \notin broken /\ Len(sent[s]) + Len(arrived[s]) < Window
    /\ sent' = [sent EXCEPT ![s] = Append(@, <<kind, mem["src"][buf["src"][w]]>>)]

\* send() may take the message in pieces, and blocks while the window is full.
tcp_send_header(w) ==
    /\ proto = "tcp" /\ pc["src"][w] = "header"
    /\ SendPart(w, "h")
    /\ Goto("src", w, "data")
    /\ UNCHANGED <<config, setup, conn, buf, busy, mem, files>>
    /\ UNCHANGED <<arrived, broken, sbusy, rbusy, eof, sock, fds, frame>>

\* After the last piece the socket is free, then the buffer (whose contents
\* nobody reads again: 0).
tcp_send_dataBug(w) ==
    /\ proto = "tcp" /\ pc["src"][w] = "data"
    /\ SendPart(w, "d")
    /\ sbusy' = sbusy \ {sock["src"][w]}
    /\ sock' = [sock EXCEPT !["src"][w] = 0]
    /\ buf' = [buf EXCEPT !["src"][w] = 0]
    /\ mem' = [mem EXCEPT !["src"][buf["src"][w]] = 0]
    /\ Goto("src", w, "request")
    /\ UNCHANGED <<config, setup, conn, busy, files>>
    /\ UNCHANGED <<arrived, broken, rbusy, eof, fds, frame>>
tcp_send_data(w) ==
    /\ proto = "tcp" /\ pc["src"][w] = "data"
    /\ SendPart(w, "d")
    /\ sbusy' = sbusy \ {sock["src"][w]}
    /\ sock' = [sock EXCEPT !["src"][w] = 0]
    /\ busy' = [busy EXCEPT !["src"][buf["src"][w]] = FALSE]
    /\ buf' = [buf EXCEPT !["src"][w] = 0]
    /\ mem' = [mem EXCEPT !["src"][buf["src"][w]] = 0]
    /\ Goto("src", w, "request")
    /\ UNCHANGED <<config, setup, conn, files>>
    /\ UNCHANGED <<arrived, broken, rbusy, eof, fds, frame>>

\* An error returns at once: socket and buffer stay busy, and
\* xint_e2e_xni_send() goes on to request another buffer.
tcp_send_error(w) ==
    /\ proto = "tcp" /\ pc["src"][w] \in {"header", "data"}
    /\ sock["src"][w] \in broken
    /\ Goto("src", w, "request")
    /\ UNCHANGED <<config, setup, conn, buf, busy, mem, files, tcp>>

\* Closing flushes: the end of each stream follows what was sent on it.
tcp_close_connection ==
    /\ proto = "tcp" /\ SourceIsDone
    /\ conn' = [conn EXCEPT !["src"] = "closed"]
    /\ sent' = [s \in Sockets |-> Append(sent[s], <<"f", 0>>)]
    /\ UNCHANGED <<config, setup, pc, buf, busy, mem, files>>
    /\ UNCHANGED <<arrived, broken, sbusy, rbusy, eof, sock, fds, frame>>
-----------------------------------------------------------------------------
(* tcp_release_target_buffer() and tcp_receive_target_buffer(), called one *)
(* after the other by xint_e2e_xni_recv().                                 *)

tcp_release_target_buffer(w) ==
    /\ proto = "tcp" /\ DestinationTask(w)
    /\ busy' = [busy EXCEPT !["dst"][buf["dst"][w]] = FALSE]
    /\ buf' = [buf EXCEPT !["dst"][w] = 0]
    /\ mem' = [mem EXCEPT !["dst"][buf["dst"][w]] = 0]
    /\ Goto("dst", w, "grab")
    /\ UNCHANGED <<config, setup, conn, files, tcp>>

tcp_grab_buffer(w) ==
    /\ proto = "tcp" /\ pc["dst"][w] = "grab" /\ FreeBuffers("dst") # {}
    /\ LET b == Min(FreeBuffers("dst"))
       IN  /\ busy' = [busy EXCEPT !["dst"][b] = TRUE]
           /\ buf' = [buf EXCEPT !["dst"][w] = b]
    /\ Goto("dst", w, "select")
    /\ UNCHANGED <<config, setup, conn, mem, files, tcp>>

\* The buffer goes back when nothing was received; EOF ends the worker, an
\* error cancels the run.
NoMessage(w, l) ==
    /\ busy' = [busy EXCEPT !["dst"][buf["dst"][w]] = FALSE]
    /\ buf' = [buf EXCEPT !["dst"][w] = 0]
    /\ Goto("dst", w, l)
    /\ canceled' = (canceled \/ l = "failed")

Readable == {s \in Sockets : arrived[s] # <<>> \/ s \in broken}

\* FD_SET of the sockets without EOF, and select(): blocks until one of them
\* is readable.
tcp_selectBug(w) ==
    /\ proto = "tcp" /\ pc["dst"][w] = "select"
    /\ IF eof # {}
       THEN NoMessage(w, "eof") /\ UNCHANGED fds
       ELSE /\ (Sockets \ eof) \intersect Readable # {}
            /\ fds' = [fds EXCEPT ![w] = (Sockets \ eof) \intersect Readable]
            /\ Goto("dst", w, "pick")
            /\ UNCHANGED <<buf, busy, canceled>>
    /\ UNCHANGED <<config, setup, conn, mem, next, written>>
    /\ UNCHANGED <<sent, arrived, broken, sbusy, rbusy, eof, sock, frame>>
tcp_select(w) ==
    /\ proto = "tcp" /\ pc["dst"][w] = "select"
    /\ IF Sockets \subseteq eof
       THEN NoMessage(w, "eof") /\ UNCHANGED fds
       ELSE /\ (Sockets \ eof) \intersect Readable # {}
            /\ fds' = [fds EXCEPT ![w] = (Sockets \ eof) \intersect Readable]
            /\ Goto("dst", w, "pick")
            /\ UNCHANGED <<buf, busy, canceled>>
    /\ UNCHANGED <<config, setup, conn, mem, next, written>>
    /\ UNCHANGED <<sent, arrived, broken, sbusy, rbusy, eof, sock, frame>>

\* The first of them that is now neither busy nor at its end, or all over again.
tcp_pick_socketBug(w) ==
    /\ proto = "tcp" /\ pc["dst"][w] = "pick"
    /\ LET ready == fds[w] \ eof
       IN  IF ready = {}
           THEN Goto("dst", w, "select") /\ UNCHANGED <<rbusy, sock>>
           ELSE /\ rbusy' = rbusy \union {Min(ready)}
                /\ sock' = [sock EXCEPT !["dst"][w] = Min(ready)]
                /\ Goto("dst", w, "recv")
    /\ fds' = [fds EXCEPT ![w] = {}]
    /\ UNCHANGED <<config, setup, conn, buf, busy, mem, files>>
    /\ UNCHANGED <<sent, arrived, broken, sbusy, eof, frame>>
tcp_pick_socket(w) ==
    /\ proto = "tcp" /\ pc["dst"][w] = "pick"
    /\ LET ready == fds[w] \ (rbusy \union eof)
       IN  IF ready = {}
           THEN Goto("dst", w, "select") /\ UNCHANGED <<rbusy, sock>>
           ELSE /\ rbusy' = rbusy \union {Min(ready)}
                /\ sock' = [sock EXCEPT !["dst"][w] = Min(ready)]
                /\ Goto("dst", w, "recv")
    /\ fds' = [fds EXCEPT ![w] = {}]
    /\ UNCHANGED <<config, setup, conn, buf, busy, mem, files>>
    /\ UNCHANGED <<sent, arrived, broken, sbusy, eof, frame>>

LeaveSocket(w) ==
    /\ rbusy' = rbusy \ {sock["dst"][w]}
    /\ sock' = [sock EXCEPT !["dst"][w] = 0]
    /\ frame' = [frame EXCEPT ![w] = <<>>]

\* recv() of the header, then of the data, into the buffer.
tcp_recv_part(w) ==
    LET s == sock["dst"][w] IN
    /\ proto = "tcp" /\ pc["dst"][w] = "recv"
    /\ s \notin broken /\ arrived[s] # <<>> /\ Head(arrived[s])[1] # "f"
    /\ arrived' = [arrived EXCEPT ![s] = Tail(@)]
    /\ IF frame[w] = <<>>
       THEN /\ frame' = [frame EXCEPT ![w] = <<Head(arrived[s])>>]
            /\ UNCHANGED <<pc, mem, rbusy, sock>>
       ELSE /\ mem' = [mem EXCEPT !["dst"][buf["dst"][w]] = Head(arrived[s])[2]]
            /\ LeaveSocket(w)
            /\ Goto("dst", w, "write")
    /\ UNCHANGED <<config, setup, conn, buf, busy, files>>
    /\ UNCHANGED <<sent, broken, sbusy, eof, fds>>

\* The end of the stream is EOF before a header, an error before the data.
tcp_recv_end(w) ==
    LET s == sock["dst"][w] IN
    /\ proto = "tcp" /\ pc["dst"][w] = "recv"
    /\ s \notin broken /\ arrived[s] # <<>> /\ Head(arrived[s])[1] = "f"
    /\ IF frame[w] = <<>>
       THEN eof' = eof \union {s} /\ NoMessage(w, "eof")
       ELSE UNCHANGED eof /\ NoMessage(w, "failed")
    /\ LeaveSocket(w)
    /\ UNCHANGED <<config, setup, conn, mem, next, written>>
    /\ UNCHANGED <<sent, arrived, broken, sbusy, fds>>

tcp_recv_error(w) ==
    /\ proto = "tcp" /\ pc["dst"][w] = "recv" /\ sock["dst"][w] \in broken
    /\ NoMessage(w, "failed")
    /\ LeaveSocket(w)
    /\ UNCHANGED <<config, setup, conn, mem, next, written>>
    /\ UNCHANGED <<sent, arrived, broken, sbusy, eof, fds>>
-----------------------------------------------------------------------------
(* The network.                                                            *)

\* Parts of one socket arrive in order; sockets are not ordered with each other.
Arrive(s) ==
    /\ proto = "tcp" /\ s \in Sockets /\ s \notin broken /\ sent[s] # <<>>
    /\ arrived' = [arrived EXCEPT ![s] = Append(@, Head(sent[s]))]
    /\ sent' = [sent EXCEPT ![s] = Tail(@)]
    /\ UNCHANGED <<base, broken, sbusy, rbusy, eof, sock, fds, frame>>

Reset(s) ==
    /\ proto = "tcp" /\ s \in Sockets /\ "reset" \in Faults /\ fault = "none"
    /\ conn["src"] = "open" /\ conn["dst"] = "open"
    /\ fault' = "reset" /\ broken' = {s}
    /\ sent' = [sent EXCEPT ![s] = <<>>] /\ arrived' = [arrived EXCEPT ![s] = <<>>]
    /\ UNCHANGED <<proto, nsock, setup, conn, pc, buf, busy, mem, files>>
    /\ UNCHANGED <<sbusy, rbusy, eof, sock, fds, frame>>

\* The source process is killed: the kernel closes its sockets.
Crash ==
    /\ proto = "tcp" /\ "crash" \in Faults /\ fault = "none" /\ conn["src"] = "open"
    /\ fault' = "crash"
    /\ conn' = [conn EXCEPT !["src"] = "failed"]
    /\ pc' = [pc EXCEPT !["src"] = [w \in Workers |-> "dead"]]
    /\ sent' = [s \in Sockets |-> Append(sent[s], <<"f", 0>>)]
    /\ UNCHANGED <<proto, nsock, setup, buf, busy, mem, files>>
    /\ UNCHANGED <<arrived, broken, sbusy, rbusy, eof, sock, fds, frame>>

SendStep(w) ==
    \/ tcp_locate_socket(w) \/ tcp_send_header(w) \/ tcp_send_data(w)
    \/ tcp_send_error(w)

ReceiveStep(w) ==
    \/ tcp_release_target_buffer(w) \/ tcp_grab_buffer(w) \/ tcp_select(w)
    \/ tcp_pick_socket(w) \/ tcp_recv_part(w) \/ tcp_recv_end(w) \/ tcp_recv_error(w)
=============================================================================
