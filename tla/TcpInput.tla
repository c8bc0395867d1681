------------------------------ MODULE TcpInput ------------------------------
(***************************************************************************)
(* What a segment does to a connection (tcp_in.c): tcp_receive with its    *)
(* handling of acknowledgements, of data in sequence and out of sequence,  *)
(* the state machine of tcp_process, and tcp_input around them.  s is the  *)
(* segment that has arrived.  One on the ooseq queue is [seq, data, len,   *)
(* fin], len being tcp_seg.len, which need not be the length of the data.  *)
(***************************************************************************)
EXTENDS EspconnTcp

-----------------------------------------------------------------------------
(* tcp_receive: the acknowledgement. *)

\* How many leading segments of a queue satisfy a condition.
Leading(q, P(_)) == Cardinality({i \in DOMAIN q : \A j \in 1..i : P(q[j])})

Pbufs(q) == LET f[n \in 0..Len(q)] == IF n = 0 THEN 0 ELSE f[n - 1] + q[n].n
            IN  f[Len(q)]

\* Octets acknowledged without the FINs among the segments freed.
LessFins(acked, q) ==
    Larger(0, acked - Cardinality({i \in DOMAIN q : q[i].fin}))

Grown(p) == IF (p.cwnd + p.mss) % U16 > p.cwnd THEN (p.cwnd + p.mss) % U16
                                               ELSE p.cwnd

UpdateWindow(p, s) ==
    IF \/ LT(p.wl1, s.seq)
       \/ p.wl1 = s.seq /\ LT(p.wl2, s.ack)
       \/ p.wl2 = s.ack /\ s.wnd > p.snd_wnd
    THEN [p EXCEPT !.snd_wnd = s.wnd, !.wl1 = s.seq, !.wl2 = s.ack,
                   !.persist = @ /\ s.wnd = 0]
    ELSE p

\* Nothing new is acknowledged.  The third duplicate retransmits; more than
\* four are not told apart.
OldAck(x, s, edge) ==
    LET p == x.p
        dup == /\ TCPLEN(s) = 0
               /\ Plus(p.wl2, p.snd_wnd) = edge
               /\ p.rtime
               /\ p.lastack = s.ack
        count(y) == IF y.p.dupacks = 3 THEN tcp_rexmit_fast(y)
                    ELSE IF y.p.dupacks = 4 THEN [y EXCEPT !.p.cwnd = Grown(y.p)]
                    ELSE y
    IN  count([x EXCEPT !.p.acked = 0,
                        !.p.dupacks = IF dup THEN Least(@ + 1, 4) ELSE 0])

\* New octets are acknowledged: the congestion window opens and the segments
\* covered are freed.
NewAck(x, s) ==
    LET p == x.p
        acked == Off(s.ack, p.lastack) % U16
        y == [Unflag(x, {"INFR"}) EXCEPT
                !.p.cwnd = IF "INFR" \in p.flags THEN p.ssthresh ELSE @]
        avoid == (y.p.cwnd + (p.mss * p.mss) \div y.p.cwnd) % U16
        k == Leading(p.unacked, LAMBDA q : LEQ(Plus(q.seq, TCPLEN(q)), s.ack))
        gone == AtMost(p.unacked, k)
    IN  [y EXCEPT !.p.nrtx = 0, !.p.dupacks = 0, !.p.lastack = s.ack,
                  !.p.snd_buf = @ + acked, !.p.acked = LessFins(acked, gone),
                  !.p.cwnd = IF @ < p.ssthresh THEN Grown(y.p) ELSE Larger(@, avoid),
                  !.p.unacked = Beyond(@, k), !.p.queuelen = @ - Pbufs(gone),
                  !.p.rtime = k < Len(p.unacked)]

\* Segments queued again by a retransmission may be acknowledged as well.
AckUnsent(x, s) ==
    LET k == Leading(x.p.unsent,
                 LAMBDA q : Between(s.ack, Plus(q.seq, TCPLEN(q)), x.p.snd_nxt))
        gone == AtMost(x.p.unsent, k)
    IN  [x EXCEPT !.p.acked = LessFins(@, gone), !.p.unsent = Beyond(@, k),
                  !.p.queuelen = @ - Pbufs(gone)]

ReceiveAck(x, s) ==
    LET edge == Plus(x.p.snd_wnd, x.p.wl2)
        counted(y) == IF LEQ(s.ack, y.p.lastack) THEN OldAck(y, s, edge)
                      ELSE IF Between(s.ack, Plus(y.p.lastack, 1), y.p.snd_nxt)
                      THEN NewAck(y, s)
                      ELSE [y EXCEPT !.p.acked = 0]
    IN  IF ~s.ackf THEN x
        ELSE AckUnsent(counted([x EXCEPT !.p = UpdateWindow(@, s)]), s)

-----------------------------------------------------------------------------
(* tcp_receive: the data. *)

OoLen(q) == q.len + (IF q.fin THEN 1 ELSE 0)

OoEnd(q) == Plus(q.seq, q.len)

Cut(q, len) == [q EXCEPT !.len = len, !.data = AtMost(@, len)]

InWindow(p, seq) ==
    Between(seq, p.rcv_nxt, Plus(p.rcv_nxt, p.rcv_wnd - 1))

\* What tcp_oos_insert_segment makes of a segment and the ones that follow it.
tcp_oos_insert_segment(c, next) ==
    LET k == Leading(next, LAMBDA q : LEQ(OoEnd(q), OoEnd(c)))
        rest == Beyond(next, k)
        d == [c EXCEPT !.fin = \E i \in 1..k : next[i].fin]
    IN  IF c.fin THEN <<c>>
        ELSE IF rest # <<>> /\ LT(Head(rest).seq, OoEnd(d))
        THEN <<Cut(d, Off(Head(rest).seq, d.seq))>> \o rest
        ELSE <<d>> \o rest

\* The last segment of a list cut where a new one begins.
TrimLast(q, seq) ==
    IF q # <<>> /\ LT(seq, OoEnd(Last(q)))
    THEN [q EXCEPT ![Len(q)] = Cut(@, Off(seq, @.seq))]
    ELSE q

\* A segment that follows all on the queue is cut at the edge of the window,
\* as an unsigned comparison finds it.
AtEdge(p, c) ==
    LET edge == Plus(p.rcv_nxt, p.rcv_wnd)
    IN  IF Plus(c.seq, OoLen(c)) > edge
        THEN [Cut(c, Off(edge, c.seq)) EXCEPT !.fin = FALSE]
        ELSE c

\* Where the segment goes on the ooseq queue, which is sorted: n segments are
\* before it.
Mut_Queued(p, c) == Append(p.ooseq, c)
Queued(p, c) ==
    LET q == p.ooseq
        n == Leading(q, LAMBDA o : LT(o.seq, c.seq))
        before == TrimLast(AtMost(q, n), c.seq)
        after == Beyond(q, n)
    IN  IF q = <<>> THEN <<c>>
        ELSE IF after = <<>>
        THEN IF Last(q).fin THEN q ELSE Append(before, AtEdge(p, c))
        ELSE IF Head(after).seq = c.seq
        THEN IF c.len > Head(after).len
             THEN AtMost(q, n) \o tcp_oos_insert_segment(c, after) ELSE q
        ELSE before \o tcp_oos_insert_segment(c, after)

\* The other end has overrun the window, and AtEdge takes a segment inside it for
\* one that does, as the edge has wrapped around and the segment's end has not: it
\* loses its FIN and gets a length beyond its data.
Overruns(p, c) == LT(Plus(p.rcv_nxt, p.rcv_wnd), OoEnd(c))
Miscut(p, c) ==
    /\ p.ooseq # <<>> /\ LT(Last(p.ooseq).seq, c.seq) /\ ~Last(p.ooseq).fin
    /\ AtEdge(p, c) # c
    /\ LEQ(Plus(c.seq, OoLen(c)), Plus(p.rcv_nxt, p.rcv_wnd))

\* rcv_nxt moves over a segment, whose data goes to the application.
Accept(x, c) ==
    [x EXCEPT !.p = tcp_update_rcv_ann_wnd(
                        [@ EXCEPT !.rcv_nxt = Plus(@, OoLen(c)),
                                  !.rcv_wnd = (@ - OoLen(c)) % U16]).p,
              !.data = @ \o c.data, !.gotfin = @ \/ c.fin]

\* The segments on the queue that have come in sequence follow.
Drain(x) ==
    LET step(y) ==
            LET c == Head(y.p.ooseq)
                z == Accept(y, c)
            IN  IF y.p.ooseq = <<>> \/ c.seq # y.p.rcv_nxt THEN y
                ELSE [z EXCEPT !.p.ooseq = Tail(@),
                               !.p.state = IF c.fin /\ @ = "ESTABLISHED"
                                           THEN "CLOSE_WAIT" ELSE @]
        f[n \in 0..Len(x.p.ooseq)] == IF n = 0 THEN x ELSE step(f[n - 1])
    IN  f[Len(x.p.ooseq)]

\* The end of a segment that has come in sequence cut to the window.
ToWindow(p, c) == IF OoLen(c) > p.rcv_wnd
                  THEN [Cut(c, p.rcv_wnd) EXCEPT !.fin = FALSE] ELSE c

\* Segments on the queue that c covers go, their FIN passing to c, and c is cut
\* where the next one begins; with a FIN of its own c ends the queue.
InSequence(x, c) ==
    LET q == x.p.ooseq
        k == Leading(q, LAMBDA o : LEQ(OoEnd(o), OoEnd(c)))
        take(d, rest) ==
            Accept([x EXCEPT !.p.ooseq = rest],
                   IF rest # <<>> /\ LT(Head(rest).seq, Plus(d.seq, OoLen(d)))
                   THEN Cut(d, Off(Head(rest).seq, d.seq)) ELSE d)
    IN  tcp_ack(Drain(take([c EXCEPT !.fin = @ \/ \E i \in 1..k : q[i].fin],
                           IF c.fin THEN <<>> ELSE Beyond(q, k))))

\* What is left of a segment without what has been received before.
Mut_Trimmed(p, s) ==
    [seq |-> IF LT(s.seq, p.rcv_nxt) THEN p.rcv_nxt ELSE s.seq, data |-> s.data,
     len |-> Len(s.data), fin |-> s.fin]
Trimmed(p, s) ==
    LET trim == IF Between(p.rcv_nxt, Plus(s.seq, 1), Plus(s.seq, TCPLEN(s) - 1))
                THEN Off(p.rcv_nxt, s.seq) ELSE 0
    IN  [seq |-> Plus(s.seq, trim), data |-> Beyond(s.data, trim),
         len |-> Len(s.data) - trim, fin |-> s.fin]

ReceiveData(x, s) ==
    LET p == x.p
        place(y, c) ==
            IF ~InWindow(p, c.seq) THEN tcp_send_empty_ack(y)
            ELSE IF c.seq = p.rcv_nxt THEN InSequence(y, ToWindow(p, c))
            ELSE [tcp_send_empty_ack(y) EXCEPT !.p.ooseq = Queued(p, c),
                                               !.a.miscut = @ \/ Miscut(p, c),
                                               !.a.overrun = @ \/ Overruns(p, c)]
        old(c) == IF LT(c.seq, p.rcv_nxt) THEN place(Flag(x, "ACK_NOW"), c)
                                          ELSE place(x, c)
    IN  IF TCPLEN(s) > 0 THEN old(Trimmed(p, s))
        ELSE IF InWindow(p, s.seq) THEN x ELSE Flag(x, "ACK_NOW")

tcp_receive(x, s) == ReceiveData(ReceiveAck(x, s), s)

-----------------------------------------------------------------------------
(* tcp_process: the state machine. *)

\* A reset is believed if it answers the SYN or is in the window.
ResetAcceptable(p, s) ==
    IF p.state = "SYN_SENT" THEN s.ack = p.snd_nxt
    ELSE Between(s.seq, p.rcv_nxt, Plus(p.rcv_nxt, p.rcv_wnd))

ResetSender(x, s) ==
    [x EXCEPT !.out = Append(@, tcp_rst(s.ack, Plus(s.seq, TCPLEN(s))))]

\* tcp_parseopt: a SYN carries the other end's MSS.
tcp_parseopt(e, p, s) ==
    IF s.syn THEN [p EXCEPT !.mss = Least(TCP_MSS[Peer(e)], TCP_MSS[e])] ELSE p

\* SYN_SENT: the SYN|ACK opens the connection and the client connects.
SynSent(e, x, s) ==
    LET p == x.p
        rest == Tail(p.unacked)
        y == [x EXCEPT
                !.p.state = "ESTABLISHED", !.p.snd_buf = @ + 1,
                !.p.rcv_nxt = Plus(s.seq, 1), !.p.ann_edge = Plus(s.seq, 1),
                !.p.lastack = s.ack, !.p.snd_wnd = s.wnd,
                !.p.wl1 = Plus(s.seq, -1), !.p.ssthresh = p.mss * 10,
                !.p.cwnd = IF @ = 1 THEN 2 * p.mss ELSE p.mss,
                !.p.queuelen = @ - 1, !.p.unacked = rest,
                !.p.rtime = rest # <<>>, !.p.nrtx = IF rest = <<>> THEN @ ELSE 0]
    IN  IF s.ackf /\ s.syn /\ s.ack = Plus(Head(p.unacked).seq, 1)
        THEN Flag(espconn_sent(e, Connected(y, y.a)), "ACK_NOW")
        ELSE IF s.ackf THEN ResetSender(x, s)
        ELSE x

\* SYN_RCVD, refused telling whether espconn_tcp_accept refuses: the pcb is
\* aborted, and there is nobody to tell.
SynRcvd(x, s, refused) ==
    LET open(y) == [y EXCEPT !.p.acked = Larger(0, @ - 1),
                             !.p.cwnd = IF x.p.cwnd = 1 THEN 2 * y.p.mss ELSE y.p.mss]
        finAcked(y) == IF y.gotfin
                       THEN Flag([y EXCEPT !.p.state = "CLOSE_WAIT"], "ACK_NOW")
                       ELSE y
        accepted == Connected([x EXCEPT !.p.state = "ESTABLISHED"], User("server", FALSE))
    IN  IF s.ackf /\ ~Between(s.ack, Plus(x.p.lastack, 1), x.p.snd_nxt)
        THEN ResetSender(x, s)
        ELSE IF s.ackf /\ refused THEN tcp_abort(x)
        ELSE IF s.ackf THEN finAcked(open(tcp_receive(accepted, s)))
        ELSE IF s.syn /\ s.seq = Plus(x.p.rcv_nxt, -1) THEN tcp_rexmit(x)
        ELSE x

\* The states of a connection that is open on at least one side.  Whether the
\* segment acknowledges all that was sent, the FIN at its end, is asked after
\* tcp_receive.
Synchronized(x, s) ==
    LET next(y, all) ==
            LET to(state) == [y EXCEPT !.p.state = state,
                                 !.p.flags = IF y.gotfin THEN @ \cup {"ACK_NOW"} ELSE @]
            IN  CASE x.p.state \in {"ESTABLISHED", "CLOSE_WAIT"} /\ y.gotfin ->
                         to("CLOSE_WAIT")
                  [] x.p.state = "FIN_WAIT_1" /\ y.gotfin /\ ~all -> to("CLOSING")
                  [] x.p.state = "FIN_WAIT_1" /\ ~y.gotfin /\ all -> to("FIN_WAIT_2")
                  [] \/ x.p.state = "FIN_WAIT_1" /\ y.gotfin /\ all
                     \/ x.p.state = "FIN_WAIT_2" /\ y.gotfin
                     \/ x.p.state = "CLOSING" /\ all -> TimeWait(to(y.p.state))
                  [] x.p.state = "LAST_ACK" /\ all -> [y EXCEPT !.closed = TRUE]
                  [] OTHER -> y
        received(y) == next(y, s.ackf /\ s.ack = y.p.snd_nxt)
    IN  received(tcp_receive(x, s))

\* A SYN to a connection that is open is answered and nothing else is done:
\* pcb->acked keeps what an earlier segment has left there.
tcp_process(e, x, s, refused) ==
    LET y == [x EXCEPT !.p = tcp_parseopt(e, @, s)]
    IN  IF s.rst THEN x
        ELSE IF s.syn /\ x.p.state \notin {"SYN_SENT", "SYN_RCVD"}
        THEN Flag(x, "ACK_NOW")
        ELSE IF x.p.state = "SYN_SENT" THEN SynSent(e, y, s)
        ELSE IF x.p.state = "SYN_RCVD" THEN SynRcvd(y, s, refused)
        ELSE Synchronized(y, s)

-----------------------------------------------------------------------------
(* tcp_input. *)

\* A segment for the listening pcb: a new connection, or a reset.
tcp_listen_input(e, x, s, iss) ==
    LET new == [tcp_parseopt(e, tcp_alloc(e, iss), s) EXCEPT
                  !.state = "SYN_RCVD", !.rcv_nxt = Plus(s.seq, 1),
                  !.ann_edge = Plus(s.seq, 1), !.snd_wnd = s.wnd,
                  !.ssthresh = s.wnd, !.wl1 = Plus(s.seq, -1)]
    IN  IF s.ackf
        THEN [x EXCEPT !.out = <<tcp_rst(Plus(s.ack, 1), Plus(s.seq, TCPLEN(s)))>>]
        ELSE IF s.syn THEN tcp_output(tcp_enqueue_flags([x EXCEPT !.p = new], TRUE).x)
        ELSE x

tcp_timewait_input(x, s) ==
    IF s.rst THEN x
    ELSE IF s.syn /\ Between(s.seq, x.p.rcv_nxt, Plus(x.p.rcv_nxt, x.p.rcv_wnd))
    THEN ResetSender(x, s)
    ELSE IF TCPLEN(s) > 0 THEN tcp_output(Flag(x, "ACK_NOW"))
    ELSE x

\* pbuf_free_ooseq_new, when the radio is short of buffers.
pbuf_free_ooseq_new(p) ==
    IF p.state \in {"CLOSED", "TIME_WAIT"} \/ p.ooseq = <<>> THEN p
    ELSE [p EXCEPT !.ooseq = Front(@)]

\* The events of a segment that leaves the connection alive.
Events(e, x) ==
    LET idle(y) == [y EXCEPT !.busy = FALSE]
        sent(y) == IF y.a.crashed THEN y
                   ELSE IF y.data # <<>> /\ "RXCLOSED" \in y.p.flags THEN tcp_abort(y)
                   ELSE tcp_output(idle(EventClosed(EventRecv(e, y))))
    IN  sent(EventSent(e, x))

\* s arrives at end e; iss is the next initial sequence number.
tcp_input(e, p, a, s, refused, iss) ==
    LET idle == Ctx(p, a, FALSE)
        x == Ctx(p, a, TRUE)
        processed(y) == IF y.p.state = "CLOSED" THEN y
                        ELSE IF y.closed THEN tcp_pcb_remove(y)
                        ELSE Events(e, y)
    IN  IF p.state = "CLOSED" /\ e = "server" THEN tcp_listen_input(e, idle, s, iss)
        ELSE IF p.state = "CLOSED" THEN IF s.rst THEN idle ELSE ResetSender(idle, s)
        ELSE IF p.state = "TIME_WAIT" THEN tcp_timewait_input(idle, s)
        ELSE IF s.rst /\ ResetAcceptable(p, s)
        THEN tcp_pcb_remove(EventErr(Unflag(x, {"ACK_DELAY"})))
        ELSE processed(tcp_process(e, x, s, refused))

=============================================================================
