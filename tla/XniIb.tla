------------------------------- MODULE XniIb --------------------------------
(***************************************************************************)
(* XNI over InfiniBand verbs (xni/xni_ib.c).  One reliable queue pair; a   *)
(* message needs a receive buffer that the destination has posted, so the  *)
(* destination gives the source one credit for each buffer it posts.       *)
(*                                                                         *)
(* The verbs library is external: a queue pair delivers in order, each     *)
(* message into the oldest posted receive, and reports completions to the  *)
(* completion queue of the side that posted the work.                      *)
(***************************************************************************)
EXTENDS XniBuffers, SequencesExt

VARIABLES
    wire,       \* messages on the way: <<source buffer, contents>>
    posted,     \* the destination's receive queue: buffers, oldest first
    recv_cq,    \* the destination's receive completions: buffers
    send_cq,    \* the source's send completions: buffers
    queued,     \* source buffers whose send_state is QUEUED
    credits,    \* conn->credits of the source
    cwire,      \* credit messages on the way: <<credit buffer, credits>>
    cslots,     \* credit receives the source has posted
    credit_cq,  \* the source's receive completions: credits
    cbusy,      \* busy credit buffers of the destination
    csend_cq,   \* the destination's send completions: credit buffers
    ceof,       \* conn->eof of the destination
    tb,         \* of each destination worker: the buffer it polled, or 0
    eofpost     \* send_eof(): "no", "posted"

ib == <<wire, posted, recv_cq, send_cq, queued, credits, cwire, cslots, credit_cq,
        cbusy, csend_cq, ceof, tb, eofpost>>

IbInit ==
    /\ wire = <<>> /\ posted = <<>> /\ recv_cq = <<>> /\ send_cq = <<>>
    /\ queued = {} /\ credits = 0 /\ cwire = <<>> /\ cslots = 0 /\ credit_cq = <<>>
    /\ cbusy = {} /\ csend_cq = <<>> /\ ceof = FALSE
    /\ tb = [w \in Workers |-> 0] /\ eofpost = "no"

\* max_recv_wr is the number of registered buffers; a slot is free again once
\* its completion was polled.
post_receive(b) == posted' = Append(posted, b)
CanPost == Len(posted) + Len(recv_cq) < QD
-----------------------------------------------------------------------------
(* Connecting.                                                             *)

\* The source posts all its credit buffers before it is connected.
ib_connect ==
    /\ proto = "ib" /\ Connect
    /\ cslots' = IF conn'["src"] = "open" THEN QD ELSE cslots
    /\ UNCHANGED <<wire, posted, recv_cq, send_cq, queued, credits, cwire, credit_cq,
                   cbusy, csend_cq, ceof, tb, eofpost>>

\* The destination posts every registered buffer, the ones its workers hold
\* included, and sends as many credits in its first credit message.
ib_accept_connection ==
    /\ proto = "ib" /\ Accept("credits")
    /\ posted' = [b \in 1..reg["dst"] |-> b]
    /\ cwire' = << <<1, reg["dst"]>> >> /\ cbusy' = {1}
    /\ UNCHANGED <<wire, recv_cq, send_cq, queued, credits, cslots, credit_cq,
                   csend_cq, ceof, tb, eofpost>>
\* send_credits() ends with one poll here too.
ib_accept_poll ==
    /\ proto = "ib" /\ conn["dst"] = "credits"
    /\ conn' = [conn EXCEPT !["dst"] = "open"]
    /\ csend_cq' = IF csend_cq = <<>> THEN <<>> ELSE Tail(csend_cq)
    /\ UNCHANGED <<config, setup, pc, buf, busy, mem, files>>
    /\ UNCHANGED <<wire, posted, recv_cq, send_cq, queued, credits, cwire, cslots,
                   credit_cq, cbusy, ceof, tb, eofpost>>
-----------------------------------------------------------------------------
(* ib_send_target_buffer() and send_eof().                                 *)

\* Credit messages are looked at only when no credit is left, under the
\* credit mutex.
PollCredits ==
    /\ credits = 0 /\ credit_cq # <<>>
    /\ credits' = Head(credit_cq)
    /\ credit_cq' = Tail(credit_cq)
    /\ cslots' = cslots + 1

poll_credits ==
    /\ proto = "ib"
    /\ \/ \E w \in Workers : pc["src"][w] = "send"
       \/ SourceIsDone /\ eofpost = "no"
    /\ PollCredits
    /\ UNCHANGED <<base, wire, posted, recv_cq, send_cq, queued, cwire, cbusy,
                   csend_cq, ceof, tb, eofpost>>

consume_credit(w) ==
    /\ proto = "ib" /\ pc["src"][w] = "send"
    /\ credits > 0 /\ credits' = credits - 1
    /\ Goto("src", w, "post")
    /\ UNCHANGED <<config, setup, conn, buf, busy, mem, files>>
    /\ UNCHANGED <<wire, posted, recv_cq, send_cq, queued, cwire, cslots, credit_cq,
                   cbusy, csend_cq, ceof, tb, eofpost>>

ib_post_send(w) ==
    LET b == buf["src"][w] IN
    /\ proto = "ib" /\ pc["src"][w] = "post"
    /\ queued' = queued \union {b}
    /\ wire' = Append(wire, <<b, mem["src"][b]>>)
    /\ Goto("src", w, "poll")
    /\ UNCHANGED <<config, setup, conn, buf, busy, mem, files>>
    /\ UNCHANGED <<posted, recv_cq, send_cq, credits, cwire, cslots, credit_cq,
                   cbusy, csend_cq, ceof, tb, eofpost>>

\* Whoever polls marks all the buffers whose sends are complete; a worker whose
\* own buffer is marked frees it.
ib_poll_sends(w) ==
    LET b == buf["src"][w]
        sentnow == queued \ Range(send_cq) IN
    /\ proto = "ib" /\ pc["src"][w] = "poll"
    /\ b \notin queued \/ send_cq # <<>>
    /\ send_cq' = IF b \in queued THEN <<>> ELSE send_cq
    /\ queued' = IF b \in queued THEN sentnow ELSE queued
    /\ IF b \in queued'
       THEN UNCHANGED <<pc, buf, busy>>
       ELSE /\ busy' = [busy EXCEPT !["src"][b] = FALSE]
            /\ buf' = [buf EXCEPT !["src"][w] = 0]
            /\ Goto("src", w, "request")
    /\ UNCHANGED <<config, setup, conn, mem, files>>
    /\ UNCHANGED <<wire, posted, recv_cq, credits, cwire, cslots, credit_cq, cbusy,
                   csend_cq, ceof, tb, eofpost>>

\* The EOF message travels in the first buffer, whoever holds it.
ib_send_eof ==
    /\ proto = "ib" /\ SourceIsDone /\ eofpost = "no"
    /\ credits > 0 /\ credits' = credits - 1
    /\ mem' = [mem EXCEPT !["src"][1] = EOFTAG]
    /\ wire' = Append(wire, <<1, EOFTAG>>)
    /\ eofpost' = "posted"
    /\ UNCHANGED <<config, setup, conn, pc, buf, busy, files>>
    /\ UNCHANGED <<posted, recv_cq, send_cq, queued, cwire, cslots, credit_cq, cbusy,
                   csend_cq, ceof, tb>>

ib_close_connection ==
    /\ proto = "ib" /\ conn["src"] = "open" /\ eofpost = "posted" /\ send_cq # <<>>
    /\ send_cq' = Tail(send_cq)
    /\ conn' = [conn EXCEPT !["src"] = "closed"]
    /\ UNCHANGED <<config, setup, pc, buf, busy, mem, files>>
    /\ UNCHANGED <<wire, posted, recv_cq, queued, credits, cwire, cslots, credit_cq,
                   cbusy, csend_cq, ceof, tb, eofpost>>
-----------------------------------------------------------------------------
(* ib_release_target_buffer() and ib_receive_target_buffer().              *)

\* Releasing posts the buffer again.  If the receive queue is full nothing
\* else happens and the worker keeps its pointer; else it sends one credit.
ib_release_target_buffer(w) ==
    /\ proto = "ib" /\ DestinationTask(w)
    /\ IF CanPost
       THEN /\ post_receive(buf["dst"][w])
            /\ buf' = [buf EXCEPT !["dst"][w] = 0]
            /\ Goto("dst", w, "credit")
       ELSE Goto("dst", w, "receive") /\ UNCHANGED <<posted, buf>>
    /\ UNCHANGED <<config, setup, conn, busy, mem, files>>
    /\ UNCHANGED <<wire, recv_cq, send_cq, queued, credits, cwire, cslots, credit_cq,
                   cbusy, csend_cq, ceof, tb, eofpost>>

\* With every credit buffer busy, the completions polled make some free again.
ib_find_credit_buffer ==
    /\ proto = "ib" /\ \E w \in Workers : pc["dst"][w] = "credit"
    /\ cbusy = 1..QD /\ csend_cq # <<>>
    /\ cbusy' = cbusy \ Range(csend_cq)
    /\ csend_cq' = <<>>
    /\ UNCHANGED <<base, wire, posted, recv_cq, send_cq, queued, credits, cwire, cslots,
                   credit_cq, ceof, tb, eofpost>>

send_creditsBug(w) ==
    /\ proto = "ib" /\ pc["dst"][w] = "credit" /\ cbusy # 1..QD
    /\ LET c == Min((1..QD) \ cbusy)
       IN  cbusy' = cbusy \union {c} /\ cwire' = Append(cwire, <<c, 2>>)
    /\ Goto("dst", w, "polled")
    /\ UNCHANGED <<config, setup, conn, buf, busy, mem, files>>
    /\ UNCHANGED <<wire, posted, recv_cq, send_cq, queued, credits, cslots, credit_cq,
                   csend_cq, ceof, tb, eofpost>>
send_credits(w) ==
    /\ proto = "ib" /\ pc["dst"][w] = "credit" /\ cbusy # 1..QD
    /\ LET c == Min((1..QD) \ cbusy)
       IN  cbusy' = cbusy \union {c} /\ cwire' = Append(cwire, <<c, 1>>)
    /\ Goto("dst", w, "polled")
    /\ UNCHANGED <<config, setup, conn, buf, busy, mem, files>>
    /\ UNCHANGED <<wire, posted, recv_cq, send_cq, queued, credits, cslots, credit_cq,
                   csend_cq, ceof, tb, eofpost>>

\* One poll follows the send.  It takes a completion, if there is one, and
\* leaves the credit buffer it stands for busy.
send_credits_poll(w) ==
    /\ proto = "ib" /\ pc["dst"][w] = "polled"
    /\ csend_cq' = IF csend_cq = <<>> THEN <<>> ELSE Tail(csend_cq)
    /\ Goto("dst", w, "receive")
    /\ UNCHANGED <<config, setup, conn, buf, busy, mem, files>>
    /\ UNCHANGED <<wire, posted, recv_cq, send_cq, queued, credits, cwire, cslots,
                   credit_cq, cbusy, ceof, tb, eofpost>>

\* A completion is a message; what it is, is read from the buffer.
ib_poll_receive(w) ==
    /\ proto = "ib" /\ pc["dst"][w] = "receive" /\ ~ceof /\ recv_cq # <<>>
    /\ recv_cq' = Tail(recv_cq)
    /\ tb' = [tb EXCEPT ![w] = Head(recv_cq)]
    /\ ceof' = (mem["dst"][Head(recv_cq)] = EOFTAG)
    /\ Goto("dst", w, "check")
    /\ UNCHANGED <<config, setup, conn, buf, busy, mem, files>>
    /\ UNCHANGED <<wire, posted, send_cq, queued, credits, cwire, cslots, credit_cq,
                   cbusy, csend_cq, eofpost>>

\* Once the loop is left, EOF that anybody has seen wins over the message.
ib_receive_done(w) ==
    /\ proto = "ib"
    /\ pc["dst"][w] = "check" \/ (pc["dst"][w] = "receive" /\ ceof)
    /\ buf' = IF ceof THEN buf ELSE [buf EXCEPT !["dst"][w] = tb[w]]
    /\ Goto("dst", w, IF ceof THEN "eof" ELSE "write")
    /\ tb' = [tb EXCEPT ![w] = 0]
    /\ UNCHANGED <<config, setup, conn, busy, mem, files>>
    /\ UNCHANGED <<wire, posted, recv_cq, send_cq, queued, credits, cwire, cslots,
                   credit_cq, cbusy, csend_cq, ceof, eofpost>>
-----------------------------------------------------------------------------
(* The queue pair.                                                         *)

Deliver ==
    /\ proto = "ib" /\ wire # <<>> /\ posted # <<>>
    /\ wire' = Tail(wire)
    /\ mem' = [mem EXCEPT !["dst"][Head(posted)] = Head(wire)[2]]
    /\ posted' = Tail(posted)
    /\ recv_cq' = Append(recv_cq, Head(posted))
    /\ send_cq' = Append(send_cq, Head(wire)[1])
    /\ UNCHANGED <<config, setup, conn, pc, buf, busy, files>>
    /\ UNCHANGED <<queued, credits, cwire, cslots, credit_cq, cbusy, csend_cq, ceof, tb, eofpost>>

DeliverCredit ==
    /\ proto = "ib" /\ cwire # <<>> /\ cslots > 0
    /\ cwire' = Tail(cwire) /\ cslots' = cslots - 1
    /\ credit_cq' = Append(credit_cq, Head(cwire)[2])
    /\ csend_cq' = Append(csend_cq, Head(cwire)[1])
    /\ UNCHANGED <<base, wire, posted, recv_cq, send_cq, queued, credits, cbusy, ceof, tb, eofpost>>

IbStep ==
    \/ ib_connect \/ ib_accept_connection \/ ib_accept_poll \/ ib_send_eof \/ ib_close_connection
    \/ poll_credits \/ ib_find_credit_buffer \/ Deliver \/ DeliverCredit
    \/ \E w \in Workers : \/ consume_credit(w) \/ ib_post_send(w) \/ ib_poll_sends(w)
                          \/ ib_release_target_buffer(w) \/ send_credits(w)
                          \/ send_credits_poll(w)
                          \/ ib_poll_receive(w) \/ ib_receive_done(w)
=============================================================================
