----------------------------- MODULE Transport ------------------------------
(***************************************************************************)
(* An end-to-end copy over XNI: the workers of both sides with either      *)
(* protocol (xnet/xnet_end_to_end.c, xni/xni.c, xni/xni_tcp.c,             *)
(* xni/xni_ib.c).                                                          *)
(***************************************************************************)
EXTENDS XniTcp, XniIb

vars == <<base, tcp, ib>>

Init == BaseInit /\ TcpInit /\ IbInit

\* The threads of a copy over TCP: a source worker, a destination worker, and
\* the two target threads.
SourceWorker(w) ==
    \/ /\ xni_register_buffer("src", w) \/ xni_request_target_buffer("src", w) \/ ReadBlock(w)
       /\ UNCHANGED <<tcp, ib>>
    \/ SendStep(w) /\ UNCHANGED ib

DestinationWorker(w) ==
    \/ /\ xni_register_buffer("dst", w) \/ xni_request_target_buffer("dst", w) \/ WriteBlock(w)
       /\ UNCHANGED <<tcp, ib>>
    \/ ReceiveStep(w) /\ UNCHANGED ib

SourceTarget ==
    \/ proto = "tcp" /\ Connect /\ UNCHANGED <<tcp, ib>>
    \/ tcp_close_connection /\ UNCHANGED ib

DestinationTarget ==
    (Listen \/ (proto = "tcp" /\ Accept("open"))) /\ UNCHANGED <<tcp, ib>>

Network(s) == Arrive(s) /\ UNCHANGED ib

\* A connection is reset, or the source killed; neither need happen.
Failure == (Crash \/ \E s \in Sockets : Reset(s)) /\ UNCHANGED ib

Next ==
    \/ \E w \in Workers : SourceWorker(w) \/ DestinationWorker(w)
    \/ SourceTarget \/ DestinationTarget
    \/ \E s \in Sockets : Network(s)
    \/ Failure
    \/ IbStep /\ UNCHANGED tcp

\* Every thread runs on, and the network delivers what it was given.
Fairness ==
    /\ \A w \in Workers : WF_vars(SourceWorker(w)) /\ WF_vars(DestinationWorker(w))
    /\ WF_vars(SourceTarget) /\ WF_vars(DestinationTarget)
    /\ \A s \in 1..Max(SocketCounts) : WF_vars(Network(s))

Spec == Init /\ [][Next]_vars /\ Fairness
-----------------------------------------------------------------------------
(* Properties.                                                             *)

Copies(m) ==
    LET stream(s) == arrived[s] \o sent[s]
    IN  Cardinality({w \in Workers : pc["src"][w] \in {"send", "header", "data"}
                                      /\ mem["src"][buf["src"][w]] = m})
      + Cardinality({w \in Workers : pc["dst"][w] = "write"
                                      /\ mem["dst"][buf["dst"][w]] = m})
      + Cardinality({<<s, i>> \in Sockets \X (1..Window + 1) :
                        i <= Len(stream(s)) /\ stream(s)[i] = <<"d", m>>})
      + written[m]

\* With TCP, and while nothing fails, a block that was read is in one place and
\* no other: in the hands of a source worker, on one socket, in the hands of a
\* destination worker, or written.  After a failure it is at most in one.
BlockInOnePlace ==
    proto = "tcp" => \A m \in 1..(next - 1) :
        Copies(m) = 1 \/ (fault # "none" /\ Copies(m) = 0)

\* The header and the data that a receiver puts together were sent together:
\* no two senders and no two receivers are on one socket at a time.
FramesAreWhole ==
    [][\A w \in Workers :
        pc["dst"][w] = "recv" /\ pc'["dst"][w] = "write" =>
            frame[w] = << <<"h", mem'["dst"][buf["dst"][w]]>> >>]_vars

\* A destination worker is done at its first XNI_EOF, which is the end of one
\* socket, and there are more sockets than workers.  What can be lost is only
\* what lies in the sockets that no worker has read to the end: when the workers
\* are done each has ended a socket of its own, and every block is written or
\* still in one of the others (tcp_receive_target_buffer()).
OnlyUnreadSocketsLose ==
    proto = "tcp" /\ fault = "none" /\ AllEnded =>
        /\ Cardinality(eof) = Min({QD, nsock})
        /\ \A m \in 1..Blocks :
            written[m] = 1 \/ \E s \in Sockets \ eof : <<"d", m>> \in ToSet(arrived[s] \o sent[s])

\* Flow control of xni_ib.c: every credit, in whatever hand or message it is,
\* and every message on the way stand for a different posted receive buffer, so
\* that no message ever finds the receive queue empty.
CreditsAreCovered ==
    LET total(seq) == FoldLeft(+, 0, seq)
    IN  credits + total(credit_cq) + total([i \in DOMAIN cwire |-> cwire[i][2]])
        + Cardinality({w \in Workers : pc["src"][w] = "post"}) + Len(wire)
        <= Len(posted)

\* Over TCP the copy comes to its end: the source closes the connection and
\* every destination worker sees EOF, unless the connection was refused or
\* broke, or the source was killed.
TransferEnds ==
    proto = "tcp" =>
        <>(fault # "none" \/ conn["src"] = "failed" \/ (conn["src"] = "closed" /\ AllEnded))

=============================================================================
