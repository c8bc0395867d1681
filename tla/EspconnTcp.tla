----------------------------- MODULE EspconnTcp -----------------------------
(***************************************************************************)
(* espconn on top of TCP (espconn_tcp.c), and how a connection ends        *)
(* (tcp_close, tcp_abort).  a is an espconn_msg together with what its     *)
(* application has seen:                                                   *)
(*   st     what the application was told of the connection last           *)
(*   todo   lengths of the packets it has yet to pass to espconn_sent      *)
(*   pk     the packet espconn holds (pbuf): len, tot_len acknowledged,    *)
(*          unsent; none when len is 0, as espconn takes one at a time     *)
(*   tail   ptail points to that packet                                    *)
(*   recv   the pcb's recv callback is installed; cb: sent, err and poll   *)
(*   hold   recv_hold_flag, held the octets not returned to the window     *)
(*   wrote  octets taken by tcp_write, told octets the sent callbacks have *)
(*          reported, got and eof what was received                        *)
(*   crashed  a callback went through a NULL or freed pointer              *)
(*   miscut, overrun  history: an out-of-sequence segment was cut at an    *)
(*          edge of the window it does not reach; one went beyond it       *)
(* The events that espconn posts to its own task (SIG_ESPCONN_CLOSE and    *)
(* ERRER) are shown as delivered.                                          *)
(***************************************************************************)
EXTENDS TcpPcb

CONSTANT Packets     \* [end -> lengths of the packets it sends]

NoPacket == [len |-> 0, tot |-> 0, unsent |-> 0]

User(e, hold) ==
    [st |-> "waiting", todo |-> Packets[e], pk |-> NoPacket, tail |-> FALSE,
     recv |-> FALSE, cb |-> TRUE, hold |-> hold, held |-> 0,
     wrote |-> 0, told |-> 0, got |-> <<>>, eof |-> FALSE, crashed |-> FALSE,
     miscut |-> FALSE, overrun |-> FALSE]

-----------------------------------------------------------------------------
(* The end of a connection in TCP. *)

tcp_pcb_purge(p) ==
    IF p.state \in {"CLOSED", "TIME_WAIT"} THEN p
    ELSE [p EXCEPT !.unsent = <<>>, !.unacked = <<>>, !.ooseq = <<>>,
                   !.rtime = FALSE, !.oversize = 0]

TimeWait(x) == [x EXCEPT !.p = [tcp_pcb_purge(@) EXCEPT !.state = "TIME_WAIT"]]

\* A delayed acknowledgement goes out before the pcb is gone.
tcp_pcb_remove(x) ==
    LET y == [x EXCEPT !.p = tcp_pcb_purge(@)]
        z == IF y.p.state # "TIME_WAIT" /\ "ACK_DELAY" \in y.p.flags
             THEN tcp_output(Flag(y, "ACK_NOW")) ELSE y
    IN  [z EXCEPT !.p = NoPcb]

\* TCP_EVENT_ERR: espconn_client_err, esponn_server_err.
EventErr(x) == IF x.a.cb THEN [x EXCEPT !.a.st = "failed", !.a.cb = FALSE,
                                        !.a.recv = FALSE]
                         ELSE x

\* tcp_abandon with a reset.
tcp_abort(x) ==
    IF x.p.state = "TIME_WAIT" THEN tcp_pcb_remove(x)
    ELSE EventErr([tcp_pcb_remove(x) EXCEPT
                     !.out = Append(@, tcp_rst(x.p.snd_nxt, x.p.rcv_nxt))])

\* What tcp_close_shutdown makes of the result f of tcp_send_fin.
FinQueued(f) ==
    LET next == IF f.x.p.state = "CLOSE_WAIT" THEN "LAST_ACK" ELSE "FIN_WAIT_1"
    IN  IF f.ok THEN [f EXCEPT !.x = tcp_output([@ EXCEPT !.p.state = next])] ELSE f

\* A connection with data the application has not taken is reset.
tcp_close(x) ==
    LET y == Flag(x, "RXCLOSED")
    IN  IF x.p.rcv_wnd # TCP_WND
        THEN [ok |-> TRUE,
              x |-> TimeWait([y EXCEPT
                        !.out = Append(@, tcp_rst(x.p.snd_nxt, x.p.rcv_nxt))])]
        ELSE IF x.p.state = "SYN_SENT" THEN [ok |-> TRUE, x |-> tcp_pcb_remove(y)]
        ELSE IF x.p.state \notin {"SYN_RCVD", "ESTABLISHED", "CLOSE_WAIT"}
        THEN [ok |-> TRUE, x |-> y]
        ELSE FinQueued(tcp_send_fin(y))

\* espconn_client_close and espconn_server_close: a close that fails leaves the
\* callbacks as they were.
espconn_close(x) ==
    LET closed(c) == IF c.ok THEN [c.x EXCEPT !.a.cb = FALSE, !.a.st = "closed"]
                     ELSE [c.x EXCEPT !.a.recv = TRUE]
    IN  closed(tcp_close([x EXCEPT !.a.recv = FALSE]))

-----------------------------------------------------------------------------
(* Sending. *)

\* The octets that follow the last one written.
NextOctets(a, n) == [i \in 1..n |-> a.wrote + i]

\* The do-while loop of espconn_tcp_sent: half the length while TCP has no room.
WriteLess(e, x, len) ==
    LET f[n \in 0..len] ==
            LET try(w) == IF w.res = "ERR_MEM" /\ n \div 2 > 1 THEN f[n \div 2]
                          ELSE [w |-> w, n |-> n]
            IN  try(tcp_write(e, x, NextOctets(x.a, n)))
    IN  f[len]

espconn_tcp_sent(e, x) ==
    LET len == Least(Least(x.p.snd_buf, x.a.pk.unsent), 2 * x.p.mss)
        sent(r) == IF r.w.res # "ERR_OK" THEN [x |-> r.w.x, ok |-> FALSE]
                   ELSE [ok |-> TRUE,
                         x |-> tcp_output([r.w.x EXCEPT !.a.wrote = @ + r.n,
                                                        !.a.pk.unsent = @ - r.n])]
    IN  sent(WriteLess(e, x, len))

\* The loop writes what fits of the packet and drops ptail after its end.
espconn_tcp_write(e, x) ==
    LET step(r) ==
            IF ~r.ok \/ r.x.p.snd_buf = 0 \/ ~r.x.a.tail THEN r
            ELSE IF r.x.a.pk.unsent = 0
            THEN [ok |-> TRUE, x |-> [r.x EXCEPT !.a.tail = FALSE]]
            ELSE espconn_tcp_sent(e, r.x)
        f[n \in 0..(x.a.pk.unsent + 1)] ==
            IF n = 0 THEN [x |-> x, ok |-> TRUE] ELSE step(f[n - 1])
    IN  IF "NODELAY" \in x.p.flags /\ x.p.queuelen >= TCP_SND_QUEUELEN THEN x
        ELSE f[x.a.pk.unsent + 1].x

\* espconn_sent of the next packet, if espconn holds none.
espconn_sent(e, x) ==
    LET n == Head(x.a.todo)
    IN  IF x.a.todo = <<>> \/ x.a.pk # NoPacket THEN x
        ELSE espconn_tcp_write(e,
                 [x EXCEPT !.a.todo = Tail(@), !.a.tail = TRUE,
                           !.a.pk = [len |-> n, tot |-> 0, unsent |-> n]])

\* A packet that is acknowledged is freed, though ptail should still point to
\* it, and the application, told so, sends its next one from that very
\* callback.  left is what the acknowledgement covers beyond the packet.
espconn_tcp_finish(e, x) ==
    LET step(r) ==
            LET tot == r.x.a.pk.tot + r.left
            IN  IF r.x.a.pk = NoPacket \/ r.x.a.crashed THEN r
                ELSE IF tot < r.x.a.pk.len
                THEN [x |-> [r.x EXCEPT !.a.pk.tot = tot], left |-> 0]
                ELSE [x |-> espconn_sent(e, [r.x EXCEPT !.a.pk = NoPacket,
                                                !.a.crashed = @ \/ r.x.a.tail]),
                      left |-> tot - r.x.a.pk.len]
        f[n \in 0..(Len(x.a.todo) + 1)] ==
            IF n = 0 THEN [x |-> espconn_tcp_write(e, x), left |-> 0]
            ELSE step(f[n - 1])
    IN  f[Len(x.a.todo) + 1].x

\* TCP_EVENT_SENT: espconn_client_sent, espconn_server_sent.
EventSent(e, x) ==
    IF x.p.acked = 0 \/ ~x.a.cb THEN x
    ELSE IF x.a.pk = NoPacket
    THEN [x EXCEPT !.a.crashed = TRUE, !.a.told = @ + x.p.acked]
    ELSE espconn_tcp_finish(e, [x EXCEPT !.a.pk.tot = @ + x.p.acked,
                                         !.a.told = @ + x.p.acked])

-----------------------------------------------------------------------------
(* Connecting and receiving. *)

\* espconn_client_connect and espconn_tcp_accept: Nagle's algorithm is off.
Connected(x, a) ==
    [Flag(x, "NODELAY") EXCEPT !.a = [a EXCEPT !.st = "connected", !.recv = TRUE]]

\* TCP_EVENT_RECV: espconn_client_recv, espconn_server_recv with data, to which
\* the application of the server answers.
EventRecv(e, x) ==
    LET n == Len(x.data)
        taken == [x EXCEPT !.a.got = @ \o x.data]
        answer(y) == IF e = "server" THEN espconn_sent(e, y) ELSE y
    IN  IF n = 0 THEN x
        ELSE IF ~x.a.recv THEN tcp_recved(x, n)
        ELSE answer(IF x.a.hold THEN [taken EXCEPT !.a.held = @ + n]
                                ELSE tcp_recved(taken, n))

\* TCP_EVENT_CLOSED: the FIN returns its octet of window, and espconn closes.
EventClosed(x) ==
    LET y == [x EXCEPT !.p.rcv_wnd = IF @ # TCP_WND THEN @ + 1 ELSE @]
    IN  IF ~x.gotfin THEN x
        ELSE IF x.a.recv THEN espconn_close([y EXCEPT !.a.eof = TRUE])
        ELSE y

\* espconn_recv_unhold.
espconn_recv_unhold(x) ==
    tcp_recved([x EXCEPT !.a.hold = FALSE, !.a.held = 0], x.a.held)

=============================================================================
