----------------------------- MODULE XniBuffers -----------------------------
(***************************************************************************)
(* The end-to-end workers over XNI, XDD's network interface (xni/xni.h):   *)
(* what does not depend on the protocol behind it.  A source target sends  *)
(* Blocks blocks of a file, a destination target receives and writes them; *)
(* each has QD workers, and each worker registers one target buffer and    *)
(* requests one (base/worker_thread_init.c, xnet/xnet_end_to_end.c).       *)
(* "src" and "dst" are the two processes.  XniTcp and XniIb give the       *)
(* protocols that xni/xni.c dispatches to.                                 *)
(***************************************************************************)
EXTENDS Integers, Sequences, FiniteSets, FiniteSetsExt

CONSTANTS QD,           \* queue depth: workers, and registered buffers, of each side
          Blocks,       \* bound: blocks of the file
          Protocols,    \* xni_pcl: a subset of {"tcp", "ib"}
          SocketCounts, \* values of num_sockets: the plan's number_of_iothreads, one
                        \* for each target and each worker, so QD + 1 at least
          Faults        \* what may go wrong, once: a subset of {"reset", "crash"}

ASSUME XniConstants ==
    /\ QD \in Nat \ {0} /\ Blocks \in Nat \ {0}
    /\ Protocols \subseteq {"tcp", "ib"}
    /\ SocketCounts \subseteq Nat \ {0}
    /\ Faults \subseteq {"reset", "crash"}

VARIABLES
    proto, nsock,           \* the configuration, chosen once
    fault,                  \* what has gone wrong, or "none"
    reg,                    \* ctx->num_registered of each side
    listening, connected, accepted,   \* sockets that have got that far
    conn,                   \* xni_td_conn of each side: "none", "credits", "open", "failed", "closed"
    pc, buf,                \* of each worker: its step, its xni_wd_buf (0 is NULL)
    busy,                   \* tb->busy of each buffer
    mem,                    \* the block each buffer holds
    next,                   \* the source's next block to assign
    canceled,               \* xgp->canceled at the destination
    written                 \* times each block was written at the destination

config == <<proto, nsock, fault>>
setup  == <<reg, listening, connected, accepted>>
files  == <<next, canceled, written>>
base   == <<config, setup, conn, pc, buf, busy, mem, files>>

Sides   == {"src", "dst"}
Workers == 1..QD
EOFTAG  == Blocks + 1       \* what an EOF message leaves in a buffer

\* tcp_accept_connection and tcp_connect open num_sockets connections on
\* consecutive ports; ib_* needs one, to exchange queue pair numbers.
NumPorts == IF proto = "tcp" THEN nsock ELSE 1

BaseInit ==
    /\ proto \in Protocols /\ nsock \in SocketCounts /\ fault = "none"
    /\ proto = "ib" => nsock = Min(SocketCounts)
    /\ reg = [d \in Sides |-> 0]
    /\ listening = 0 /\ connected = 0 /\ accepted = 0
    /\ conn = [d \in Sides |-> "none"]
    /\ pc = [d \in Sides |-> [w \in Workers |-> "init"]]
    /\ buf = [d \in Sides |-> [w \in Workers |-> 0]]
    /\ busy = [d \in Sides |-> [b \in Workers |-> FALSE]]
    /\ mem = [d \in Sides |-> [b \in Workers |-> 0]]
    /\ next = 1 /\ canceled = FALSE
    /\ written = [m \in 1..Blocks |-> 0]

Goto(d, w, l) == pc' = [pc EXCEPT ![d][w] = l]
FreeBuffers(d) == {b \in 1..reg[d] : ~busy[d][b]}
-----------------------------------------------------------------------------
(* Registering, requesting and connecting.                                 *)

\* The target starts its workers one after the other.  A full table refuses
\* the buffer, and the worker does not look at the answer.
xni_register_buffer(d, w) ==
    /\ pc[d][w] = "init"
    /\ \A v \in 1..(w - 1) : pc[d][v] \notin {"init", "request"}
    /\ reg' = [reg EXCEPT ![d] = IF @ < nsock THEN @ + 1 ELSE @]
    /\ Goto(d, w, "request")
    /\ UNCHANGED <<config, listening, connected, accepted, conn, buf, busy, mem, files>>

\* Waits on the condition variable until a buffer is free; takes the first.
xni_request_target_buffer(d, w) ==
    /\ pc[d][w] = "request" /\ FreeBuffers(d) # {}
    /\ LET b == Min(FreeBuffers(d))
       IN  /\ busy' = [busy EXCEPT ![d][b] = TRUE]
           /\ buf' = [buf EXCEPT ![d][w] = b]
    /\ Goto(d, w, "idle")
    /\ UNCHANGED <<config, setup, conn, mem, files>>

WorkersReady(d) == \A w \in Workers : pc[d][w] = "idle"

\* The destination binds and listens on every port, then accepts in order.
Listen ==
    /\ conn["dst"] = "none" /\ WorkersReady("dst") /\ listening < NumPorts
    /\ listening' = listening + 1
    /\ UNCHANGED <<config, reg, connected, accepted, conn, pc, buf, busy, mem, files>>

Accept(done) ==
    /\ conn["dst"] = "none" /\ listening = NumPorts /\ accepted < connected
    /\ accepted' = accepted + 1
    /\ conn' = [conn EXCEPT !["dst"] = IF accepted' = NumPorts THEN done ELSE @]
    /\ UNCHANGED <<config, reg, listening, connected, pc, buf, busy, mem, files>>

\* connect() is refused by a port nobody listens on: target initialisation fails.
Connect ==
    /\ conn["src"] = "none" /\ WorkersReady("src")
    /\ IF connected < listening
       THEN /\ connected' = connected + 1
            /\ conn' = [conn EXCEPT !["src"] = IF connected' = NumPorts THEN "open" ELSE @]
       ELSE /\ conn' = [conn EXCEPT !["src"] = "failed"]
            /\ UNCHANGED connected
    /\ UNCHANGED <<config, reg, listening, accepted, pc, buf, busy, mem, files>>
-----------------------------------------------------------------------------
(* The tasks of the two target threads.                                    *)

\* The source reads the next block into its worker's buffer, and
\* xint_e2e_xni_send() sets its length and offset and sends it.
ReadBlock(w) ==
    /\ conn["src"] = "open" /\ pc["src"][w] = "idle" /\ next <= Blocks
    /\ mem' = [mem EXCEPT !["src"][buf["src"][w]] = next]
    /\ next' = next + 1
    /\ Goto("src", w, "send")
    /\ UNCHANGED <<config, setup, conn, buf, busy, canceled, written>>

\* The pass is over when every block was assigned and every worker is back;
\* then xdd_target_thread_cleanup() closes the connection.
SourceIsDone == conn["src"] = "open" /\ next > Blocks /\ WorkersReady("src")

\* A destination worker is given a task as long as the run is not canceled.
DestinationTask(w) == conn["dst"] = "open" /\ pc["dst"][w] = "idle" /\ ~canceled

\* xdd_io_for_os(): where to, and how much, is taken from the header in the buffer.
WriteBlock(w) ==
    /\ pc["dst"][w] = "write"
    /\ LET m == mem["dst"][buf["dst"][w]]
       IN  written' = IF m \in DOMAIN written THEN [written EXCEPT ![m] = @ + 1] ELSE written
    /\ Goto("dst", w, "idle")
    /\ UNCHANGED <<config, setup, conn, buf, busy, mem, next, canceled>>
-----------------------------------------------------------------------------
AllEnded == \A w \in Workers : pc["dst"][w] = "eof"
=============================================================================
