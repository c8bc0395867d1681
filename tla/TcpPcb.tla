------------------------------- MODULE TcpPcb -------------------------------
(***************************************************************************)
(* The operations of lwIP's TCP on one connection, as functions of its     *)
(* control block: what tcp_write, tcp_output, tcp_receive and the others   *)
(* make of a pcb and which segments they hand to IP.                       *)
(*                                                                         *)
(* An octet is its position in the stream its end writes.  A segment of a  *)
(* queue is [seq, data, syn, fin, n], n being the pbufs it is made of; one *)
(* on the wire is [seq, ack, wnd, syn, fin, rst, ackf, data].  Operators   *)
(* work on a context x: the pcb p, its user a (see EspconnTcp), the        *)
(* segments out it has emitted, whether tcp_input is at work on this very  *)
(* pcb (tcp_input_pcb = pcb), and what it passes on to the events          *)
(* (recv_data, TF_GOT_FIN, TF_CLOSED).                                     *)
(***************************************************************************)
EXTENDS Integers, Sequences, FiniteSets, SequencesExt

CONSTANTS
    SeqSpace,          \* sequence numbers there are (2^32)
    U16,               \* values of a u16_t (2^16)
    U8,                \* values of a u8_t (2^8)
    TCP_MSS,           \* [end -> the MSS it announces and allocates for]
    TCP_WND,           \* the receive window
    TCP_SND_BUF,       \* [end -> octets it buffers for sending]
    TCP_SND_QUEUELEN   \* pbufs a pcb may queue

ASSUME TcpSizes ==
    /\ SeqSpace \in Nat /\ SeqSpace % 2 = 0
    /\ U16 \in Nat /\ U16 <= SeqSpace /\ U8 \in Nat \ {0}
    /\ TCP_WND \in 1..(U16 - 1) /\ TCP_SND_QUEUELEN \in Nat

-----------------------------------------------------------------------------
(* Sequence arithmetic (tcp_impl.h): the sign of a 32 bit difference. *)

Plus(a, n) == (a + n) % SeqSpace

Off(a, b) == (a - b) % SeqSpace

Diff(a, b) == IF Off(a, b) >= SeqSpace \div 2 THEN Off(a, b) - SeqSpace
                                              ELSE Off(a, b)
LT(a, b) == Diff(a, b) < 0

LEQ(a, b) == Diff(a, b) <= 0

Between(a, b, c) == LEQ(b, a) /\ LEQ(a, c)

Least(a, b) == IF a <= b THEN a ELSE b

TCPLEN(s) == Len(s.data) + (IF s.syn \/ s.fin THEN 1 ELSE 0)

\* Octets beyond the first k of a sequence, and no more than the first k.
Beyond(d, k) == SubSeq(d, k + 1, Len(d))

AtMost(d, k) == SubSeq(d, 1, Least(k, Len(d)))

\* Where a segment belongs in a queue sorted by sequence number: before the
\* first that is not earlier.
PlaceSorted(q, s) ==
    LET earlier == {i \in DOMAIN q : \A j \in 1..i : LT(q[j].seq, s.seq)}
    IN  InsertAt(q, Cardinality(earlier) + 1, s)

-----------------------------------------------------------------------------
(* A pcb as tcp_alloc leaves it; NoPcb where there is none. *)

Peer(e) == IF e = "client" THEN "server" ELSE "client"

NoPcb == [state |-> "CLOSED"]

tcp_alloc(e, iss) ==
    [state |-> "CLOSED", flags |-> {}, mss |-> TCP_MSS[e],
     snd_nxt |-> iss, lastack |-> iss, snd_lbb |-> iss,
     snd_buf |-> TCP_SND_BUF[e], queuelen |-> 0, oversize |-> 0,
     snd_wnd |-> 0, wl1 |-> 0, wl2 |-> iss, acked |-> 0,
     cwnd |-> 1, ssthresh |-> 0, dupacks |-> 0,
     nrtx |-> 0, rtime |-> FALSE, persist |-> FALSE,
     rcv_nxt |-> 0, rcv_wnd |-> TCP_WND, ann_wnd |-> TCP_WND, ann_edge |-> 0,
     unsent |-> <<>>, unacked |-> <<>>, ooseq |-> <<>>]

Ctx(p, a, busy) == [p |-> p, a |-> a, out |-> <<>>, busy |-> busy,
                    data |-> <<>>, gotfin |-> FALSE, closed |-> FALSE]

Flag(x, f) == [x EXCEPT !.p.flags = @ \cup {f}]

Unflag(x, fs) == [x EXCEPT !.p.flags = @ \ fs]

AckFlags == {"ACK_DELAY", "ACK_NOW"}

-----------------------------------------------------------------------------
(* Emitting segments. *)

Header(p, seq) == [seq |-> seq, ack |-> p.rcv_nxt, wnd |-> p.ann_wnd,
                   syn |-> FALSE, fin |-> FALSE, rst |-> FALSE, ackf |-> TRUE,
                   data |-> <<>>]

\* tcp_output_alloc_header and ip_output: any packet announces the window.
Emit(x, s) == [x EXCEPT !.out = Append(@, s),
                        !.p.ann_edge = Plus(x.p.rcv_nxt, x.p.ann_wnd)]

tcp_send_empty_ack(x) == Unflag(Emit(x, Header(x.p, x.p.snd_nxt)), AckFlags)

\* tcp_zero_window_probe: the FIN, or the first octet of the first segment.
tcp_zero_window_probe(x) ==
    LET q == x.p.unacked \o x.p.unsent
        s == Head(q)
        isFin == s.fin /\ s.data = <<>>
    IN  IF q = <<>> THEN x
        ELSE Emit(x, [Header(x.p, s.seq) EXCEPT !.fin = isFin,
                                                !.data = AtMost(s.data, 1)])

tcp_rst(seq, ack) == [seq |-> seq, ack |-> ack, wnd |-> TCP_WND, syn |-> FALSE,
                      fin |-> FALSE, rst |-> TRUE, ackf |-> TRUE,
                      data |-> <<>>]

\* tcp_output_segment with the flag tcp_output adds.
tcp_output_segment(x, s) ==
    [Emit(x, [Header(x.p, s.seq) EXCEPT !.syn = s.syn, !.fin = s.fin,
                                        !.ackf = x.p.state # "SYN_SENT",
                                        !.data = s.data])
        EXCEPT !.p.rtime = TRUE]

\* Sent, a segment waits for its acknowledgement in the sorted unacked queue:
\* at its end unless it is older than the last one there.
Outstanding(q, s) ==
    IF q # <<>> /\ LT(s.seq, Last(q).seq) THEN PlaceSorted(q, s)
                                          ELSE Append(q, s)

Fits(p, s, wnd) == Off(Plus(s.seq, Len(s.data)), p.lastack) <= wnd

\* Nagle: small segments wait, unless nothing is unacknowledged, it is
\* disabled or suspended, or there is more than a full segment to send.
tcp_do_output_nagle(p) ==
    \/ p.unacked = <<>>
    \/ p.flags \cap {"NODELAY", "INFR"} # {}
    \/ Len(p.unsent) > 1
    \/ p.unsent # <<>> /\ Len(Head(p.unsent).data) >= p.mss

MaySend(p) ==
    /\ p.unsent # <<>>
    /\ Fits(p, Head(p.unsent), Least(p.snd_wnd, p.cwnd))
    /\ tcp_do_output_nagle(p) \/ p.flags \cap {"NAGLEMEMERR", "FIN"} # {}

SendHead(x) ==
    LET s == Head(x.p.unsent)
        y == tcp_output_segment(
                 IF x.p.state = "SYN_SENT" THEN x ELSE Unflag(x, AckFlags), s)
        end == Plus(s.seq, TCPLEN(s))
    IN  [y EXCEPT !.p.unsent = Tail(@),
                  !.p.snd_nxt = IF LT(@, end) THEN end ELSE @,
                  !.p.unacked = Outstanding(@, s)]

\* The while loop of tcp_output, at most n segments of it.
Sending(x) ==
    LET f[n \in 0..Len(x.p.unsent)] ==
            IF n = 0 THEN x
            ELSE LET y == f[n - 1] IN IF MaySend(y.p) THEN SendHead(y) ELSE y
    IN  f[Len(x.p.unsent)]

\* The end of tcp_output: if what is left does not fit the window of the other
\* end, the persist timer runs.
Mut_Rest(x) == [x EXCEPT !.p.oversize = IF x.p.unsent = <<>> THEN 0 ELSE @]
Rest(x) ==
    LET p == x.p
        stuck == p.unsent # <<>> /\ ~Fits(p, Head(p.unsent), p.snd_wnd)
    IN  [Unflag(x, {"NAGLEMEMERR"}) EXCEPT
            !.p.oversize = IF p.unsent = <<>> THEN 0 ELSE @,
            !.p.persist = @ \/ stuck]

MustAck(p) ==
    /\ "ACK_NOW" \in p.flags
    /\ \/ p.unsent = <<>>
       \/ ~Fits(p, Head(p.unsent), Least(p.snd_wnd, p.cwnd))

tcp_output(x) == IF x.busy THEN x
                 ELSE IF MustAck(x.p) THEN tcp_send_empty_ack(x)
                 ELSE Rest(Sending(x))

-----------------------------------------------------------------------------
(* Queueing data, SYN and FIN. *)

\* tcp_enqueue_flags; ok is its result.
tcp_enqueue_flags(x, syn) ==
    LET p == x.p
        s == [seq |-> p.snd_lbb, data |-> <<>>, syn |-> syn, fin |-> ~syn, n |-> 1]
    IN  IF p.queuelen >= TCP_SND_QUEUELEN
        THEN [x |-> Flag(x, "NAGLEMEMERR"), ok |-> FALSE]
        ELSE IF p.snd_buf = 0 THEN [x |-> x, ok |-> FALSE]
        ELSE [ok |-> TRUE,
              x |-> [x EXCEPT !.p.unsent = Append(@, s), !.p.oversize = 0,
                              !.p.snd_lbb = Plus(@, 1), !.p.snd_buf = @ - 1,
                              !.p.queuelen = @ + 1,
                              !.p.flags = @ \cup (IF syn THEN {} ELSE {"FIN"})]]

\* tcp_send_fin: the last unsent segment takes the FIN if it can.
tcp_send_fin(x) ==
    LET q == x.p.unsent
    IN  IF q # <<>> /\ ~Last(q).syn /\ ~Last(q).fin
        THEN [ok |-> TRUE, x |-> [x EXCEPT !.p.unsent[Len(q)].fin = TRUE]]
        ELSE tcp_enqueue_flags(x, FALSE)

WriteStates == {"ESTABLISHED", "CLOSE_WAIT", "SYN_SENT", "SYN_RCVD"}

\* n octets in segments of their own, from sequence number seq.
NewSegments(p, d, seq) ==
    [i \in 1..((Len(d) + p.mss - 1) \div p.mss) |->
        [seq |-> Plus(seq, (i - 1) * p.mss), syn |-> FALSE, fin |-> FALSE, n |-> 1,
         data |-> AtMost(Beyond(d, (i - 1) * p.mss), p.mss)]]

\* A pbuf is allocated for TCP_MSS octets whatever room was asked for; the part
\* of the last one that is not used is unsent_oversize.
Oversize(e, p, used, more, new) ==
    IF new # <<>> THEN TCP_MSS[e] - Len(Last(new).data)
    ELSE IF more > 0 THEN TCP_MSS[e] - more
    ELSE p.oversize - used

\* Of the octets d the first used + more go to the last unsent segment, all but
\* used of these in a pbuf of their own, and the others to the segments new.
Enqueue(e, x, d, used, more, new) ==
    LET p == x.p
        last == Len(p.unsent)
        grown == IF used + more = 0 THEN p.unsent
                 ELSE [p.unsent EXCEPT ![last].data = @ \o AtMost(d, used + more),
                                       ![last].n = @ + (IF more > 0 THEN 1 ELSE 0)]
        queuelen == p.queuelen + (IF more > 0 THEN 1 ELSE 0) + Len(new)
    IN  IF new # <<>> /\ queuelen > TCP_SND_QUEUELEN
        THEN [x |-> Flag(x, "NAGLEMEMERR"), res |-> "ERR_MEM"]
        ELSE [res |-> "ERR_OK",
              x |-> [x EXCEPT !.p.unsent = grown \o new, !.p.queuelen = queuelen,
                              !.p.oversize = Oversize(e, p, used, more, new),
                              !.p.snd_lbb = Plus(@, Len(d)), !.p.snd_buf = @ - Len(d)]]

\* Octets that go to a pbuf added to the last unsent segment, after the used ones
\* that its own pbuf still takes, while it is shorter than the MSS.
Added(p, d, used) ==
    LET last == Last(p.unsent).data
        space == (p.mss - Len(last) - used) % U16
    IN  IF p.unsent = <<>> \/ used = Len(d) \/ last = <<>> THEN 0
        ELSE Least(space, Len(d) - used)

\* tcp_write of the octets d, always copied (LWIP_NETIF_TX_SINGLE_PBUF).
tcp_write(e, x, d) ==
    LET p == x.p
        used == IF p.unsent = <<>> THEN 0 ELSE Least(p.oversize, Len(d))
        fill(more) == Enqueue(e, x, d, used, more,
                          NewSegments(p, Beyond(d, used + more), Plus(p.snd_lbb, used + more)))
    IN  IF p.state \notin WriteStates THEN [x |-> x, res |-> "ERR_CONN"]
        ELSE IF Len(d) > p.snd_buf \/ p.queuelen >= TCP_SND_QUEUELEN
        THEN [x |-> Flag(x, "NAGLEMEMERR"), res |-> "ERR_MEM"]
        ELSE fill(Added(p, d, used))

-----------------------------------------------------------------------------
(* Retransmission. *)

\* tcp_rexmit_rto: all that is unacknowledged is unsent again, but for the
\* last held segments, which the radio driver has not sent yet.
tcp_rexmit_rto(x, held) ==
    LET u == x.p.unacked
        k == Len(u) - Least(held, Len(u))
    IN  IF u = <<>> THEN x
        ELSE tcp_output([x EXCEPT !.p.unsent = AtMost(u, k) \o @,
                                  !.p.unacked = Beyond(u, k),
                                  !.p.nrtx = (@ + 1) % U8])

Mut_tcp_rexmit(x) ==
    IF x.p.unacked = <<>> THEN x
    ELSE [x EXCEPT !.p.unsent = PlaceSorted(@, Head(x.p.unacked)),
                   !.p.nrtx = (@ + 1) % U8]
tcp_rexmit(x) ==
    IF x.p.unacked = <<>> THEN x
    ELSE [x EXCEPT !.p.unsent = PlaceSorted(@, Head(x.p.unacked)),
                   !.p.unacked = Tail(@), !.p.nrtx = (@ + 1) % U8]

Larger(a, b) == IF a >= b THEN a ELSE b

tcp_rexmit_fast(x) ==
    LET y == tcp_rexmit(x)
        half == Larger(Least(x.p.cwnd, x.p.snd_wnd) \div 2, 2 * x.p.mss)
    IN  IF x.p.unacked = <<>> \/ "INFR" \in x.p.flags THEN x
        ELSE [Flag(y, "INFR") EXCEPT !.p.ssthresh = half,
                                     !.p.cwnd = half + 3 * y.p.mss]

-----------------------------------------------------------------------------
(* The receive window. *)

Mut_tcp_update_rcv_ann_wnd(p) == [p |-> [p EXCEPT !.ann_wnd = 0], gain |-> 0]
tcp_update_rcv_ann_wnd(p) ==
    LET edge == Plus(p.rcv_nxt, p.rcv_wnd)
    IN  IF LEQ(Plus(p.ann_edge, Least(TCP_WND \div 2, p.mss)), edge)
        THEN [p |-> [p EXCEPT !.ann_wnd = p.rcv_wnd], gain |-> Off(edge, p.ann_edge)]
        ELSE [p |-> [p EXCEPT !.ann_wnd = IF LT(p.ann_edge, p.rcv_nxt) THEN 0
                                          ELSE Off(p.ann_edge, p.rcv_nxt)],
              gain |-> 0]

tcp_recved(x, len) ==
    LET announce(u) ==
            IF u.gain >= TCP_WND \div 4
            THEN tcp_output(Flag([x EXCEPT !.p = u.p], "ACK_NOW"))
            ELSE [x EXCEPT !.p = u.p]
    IN  announce(tcp_update_rcv_ann_wnd(
                     [x.p EXCEPT !.rcv_wnd = Least((@ + len) % U16, TCP_WND)]))

tcp_ack(x) == IF "ACK_DELAY" \in x.p.flags
              THEN Flag(Unflag(x, {"ACK_DELAY"}), "ACK_NOW")
              ELSE Flag(x, "ACK_DELAY")

=============================================================================
