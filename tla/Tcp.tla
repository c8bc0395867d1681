-------------------------------- MODULE Tcp ---------------------------------
(***************************************************************************)
(* One TCP connection between two devices that run this code: a client     *)
(* that calls espconn_connect and a server that listens, each with its     *)
(* pcb, its espconn and a queue of segments on their way to it.  The       *)
(* network loses, repeats and reorders segments and timers run early, all  *)
(* of it at most MaxFaults times.                                          *)
(*                                                                         *)
(* tcp_slowtmr counts ticks; here what it may find expired is an action    *)
(* each.  With nothing on its way a timer may run out at any time; while   *)
(* segments are, a retransmission or a probe is too early, and a fault.    *)
(***************************************************************************)
EXTENDS TcpInput

CONSTANTS
    ISS,               \* [end -> its first initial sequence number]
    IssStep,           \* what tcp_next_iss adds between two connections
    TCP_MAXRTX, TCP_SYNMAXRTX,
    MaxFaults          \* bound on the faults of a behaviour

VARIABLES pcb, app, net, born, faults

tcpVars == <<pcb, app, net, born, faults>>

End == {"client", "server"}

TcpInit ==
    /\ pcb = [e \in End |-> NoPcb]
    /\ app = [e \in End |-> [User(e, FALSE) EXCEPT !.cb = FALSE]]
    /\ net = [e \in End |-> <<>>]
    /\ born = [e \in End |-> 0]
    /\ faults = 0

\* A context that an operation of end e has left becomes the state.
Done(e, x) ==
    /\ pcb' = [pcb EXCEPT ![e] = x.p]
    /\ app' = [app EXCEPT ![e] = x.a]
    /\ net' = [net EXCEPT ![Peer(e)] = @ \o x.out]

Idle(e) == Ctx(pcb[e], app[e], FALSE)

Costs(n) == faults + n <= MaxFaults /\ faults' = faults + n

\* A device that went through a bad pointer is gone.
Up(e) == ~app[e].crashed

Active(e) == Up(e) /\ pcb[e].state \notin {"CLOSED", "TIME_WAIT"}

Quiet == \A e \in End : net[e] = <<>>

tcp_next_iss(e) == Plus(ISS[e], born[e] * IssStep)

-----------------------------------------------------------------------------
(* The application. *)

\* espconn_connect: espconn_tcp_client and tcp_connect; hold is whether the
\* application will hold back the window (espconn_recv_hold).
Connect(hold) ==
    LET iss == tcp_next_iss("client")
        p == [tcp_alloc("client", iss) EXCEPT
                !.lastack = Plus(iss, -1), !.snd_lbb = Plus(iss, -1),
                !.snd_wnd = TCP_WND, !.ssthresh = 10 * TCP_MSS["client"]]
        syn == tcp_enqueue_flags(Ctx(p, User("client", hold), FALSE), TRUE).x
    IN  /\ born["client"] = 0
        /\ Done("client", tcp_output([syn EXCEPT !.p.state = "SYN_SENT"]))
        /\ born' = [born EXCEPT !["client"] = 1]
        /\ UNCHANGED faults

\* espconn_disconnect, or the server's poll finding the connection idle.  A close
\* that failed may be tried again.
Close(e) ==
    /\ Active(e) /\ app[e].cb
    /\ app[e].st \in {"waiting", "connected"}
    /\ Done(e, espconn_close(Idle(e)))
    /\ UNCHANGED <<born, faults>>

UnholdDue(e) == Active(e) /\ app[e].hold /\ app[e].st = "connected"

Unhold(e) ==
    /\ UnholdDue(e)
    /\ Done(e, espconn_recv_unhold(Idle(e)))
    /\ UNCHANGED <<born, faults>>

-----------------------------------------------------------------------------
(* The network. *)

\* rest is still on its way to e when tcp_input has left the context x.
Arrived(e, rest, short, x) ==
    /\ pcb' = [pcb EXCEPT ![e] = IF short THEN pbuf_free_ooseq_new(x.p) ELSE x.p]
    /\ app' = [app EXCEPT ![e] = x.a]
    /\ net' = [net EXCEPT ![e] = rest, ![Peer(e)] = @ \o x.out]
    /\ born' = IF pcb[e].state = "CLOSED" /\ x.p.state # "CLOSED"
               THEN [born EXCEPT ![e] = @ + 1] ELSE born

\* The i-th segment arrives; a copy may stay behind.  refused and short are
\* whether espconn_tcp_accept refuses and the radio is short of buffers.
Arrive(e, i, copy, refused, short) ==
    /\ i \in DOMAIN net[e]
    /\ Up(e)
    /\ Arrived(e, IF copy THEN net[e] ELSE RemoveAt(net[e], i), short,
               tcp_input(e, pcb[e], app[e], net[e][i], refused, tcp_next_iss(e)))

Deliver(e) == Arrive(e, 1, FALSE, FALSE, FALSE) /\ UNCHANGED faults

Overtake(e) == /\ Costs(1)
               /\ \E i \in 2..Len(net[e]) : Arrive(e, i, FALSE, FALSE, FALSE)

Duplicate(e) == /\ Costs(1)
                /\ \E i \in DOMAIN net[e] : Arrive(e, i, TRUE, FALSE, FALSE)

Refuse == /\ Costs(1)
          /\ pcb["server"].state = "SYN_RCVD"
          /\ Arrive("server", 1, FALSE, TRUE, FALSE)

ShortOfBuffers(e) == /\ Costs(1)
                     /\ Active(e)
                     /\ pcb[e].ooseq # <<>>
                     /\ Arrive(e, 1, FALSE, FALSE, TRUE)

Lose(e) ==
    /\ Costs(1)
    /\ \E i \in DOMAIN net[e] : net' = [net EXCEPT ![e] = RemoveAt(@, i)]
    /\ UNCHANGED <<pcb, app, born>>

-----------------------------------------------------------------------------
(* tcp_slowtmr and tcp_fasttmr. *)

Exhausted(p) ==
    \/ p.state = "SYN_SENT" /\ p.nrtx = TCP_SYNMAXRTX
    \/ p.nrtx = TCP_MAXRTX

\* The pcb is removed and espconn told, if it still listens.
Removed(e) ==
    /\ Done(e, EventErr([Idle(e) EXCEPT !.p = NoPcb]))
    /\ UNCHANGED <<born, faults>>

GiveUpDue(e) == Active(e) /\ Exhausted(pcb[e])

GiveUp(e) == GiveUpDue(e) /\ Removed(e)

\* Stuck in FIN_WAIT_2, SYN_RCVD or LAST_ACK, or at the end of TIME_WAIT.
ExpiryDue(e) ==
    /\ Up(e) /\ Quiet
    /\ pcb[e].state \in {"FIN_WAIT_2", "SYN_RCVD", "LAST_ACK", "TIME_WAIT"}

Expire(e) == ExpiryDue(e) /\ Removed(e)

RetransmitDue(e) ==
    /\ Active(e)
    /\ ~Exhausted(pcb[e]) /\ ~pcb[e].persist
    /\ pcb[e].rtime /\ pcb[e].unacked # <<>>

\* held segments are still with the radio driver and are not queued again.
Retransmit(e) ==
    LET p == pcb[e]
        half == Larger(Least(p.cwnd, p.snd_wnd) \div 2, 2 * p.mss)
        x == [Idle(e) EXCEPT !.p.ssthresh = half, !.p.cwnd = p.mss]
    IN  /\ RetransmitDue(e)
        /\ \E held \in {0, 1} :
              /\ Done(e, tcp_rexmit_rto(x, held))
              /\ Costs((IF Quiet THEN 0 ELSE 1) + held)
        /\ UNCHANGED born

ProbeDue(e) == Active(e) /\ ~Exhausted(pcb[e]) /\ pcb[e].persist

Probe(e) ==
    /\ ProbeDue(e)
    /\ Done(e, tcp_zero_window_probe(Idle(e)))
    /\ Costs(IF Quiet THEN 0 ELSE 1)
    /\ UNCHANGED born

DropOoseq(e) ==
    /\ Active(e) /\ Quiet /\ pcb[e].ooseq # <<>>
    /\ pcb' = [pcb EXCEPT ![e].ooseq = <<>>]
    /\ UNCHANGED <<app, net, born, faults>>

\* The poll of every tick, or for a server of every eighth: espconn_server_poll
\* closes again a connection whose close has failed.
Polled(e) ==
    LET again == e = "server" /\ app[e].cb /\ pcb[e].state # "ESTABLISHED"
                     /\ pcb[e].state # "SYN_RCVD"
    IN  tcp_output(IF again THEN espconn_close(Idle(e)) ELSE Idle(e))

PollDue(e) == Active(e) /\ ~Exhausted(pcb[e]) /\ Polled(e) # Idle(e)

Poll(e) == PollDue(e) /\ Done(e, Polled(e)) /\ UNCHANGED <<born, faults>>

FastTimer(e) ==
    LET x == tcp_output(Flag(Idle(e), "ACK_NOW"))
    IN  /\ Active(e) /\ "ACK_DELAY" \in pcb[e].flags
        /\ Done(e, Unflag(x, AckFlags))
        /\ UNCHANGED <<born, faults>>

-----------------------------------------------------------------------------
TcpNext ==
    \/ \E hold \in BOOLEAN : Connect(hold)
    \/ Refuse
    \/ \E e \in End :
          \/ Close(e) \/ Unhold(e)
          \/ Deliver(e) \/ Overtake(e) \/ Duplicate(e) \/ ShortOfBuffers(e)
          \/ Lose(e)
          \/ GiveUp(e) \/ Expire(e) \/ Retransmit(e) \/ Probe(e)
          \/ DropOoseq(e) \/ Poll(e) \/ FastTimer(e)

\* Segments are delivered unless the network loses them, an application that
\* holds back the window releases it, and tcp_tmr looks at every pcb again and
\* again, however often another one's segments have kept a timer from expiring.
TcpFairness ==
    \A e \in End :
        /\ []<>~(Up(e) /\ net[e] # <<>>) \/ []<><<Deliver(e)>>_tcpVars
        /\ []<>~UnholdDue(e) \/ []<><<Unhold(e)>>_tcpVars
        /\ <>[]~(Quiet /\ RetransmitDue(e)) \/ []<><<Retransmit(e)>>_tcpVars
        /\ <>[]~(Quiet /\ ProbeDue(e)) \/ []<><<Probe(e)>>_tcpVars
        /\ <>[]~ExpiryDue(e) \/ []<><<Expire(e)>>_tcpVars
        /\ []<>~GiveUpDue(e) \/ []<><<GiveUp(e)>>_tcpVars
        /\ []<>~PollDue(e) \/ []<><<Poll(e)>>_tcpVars

TcpSpec == TcpInit /\ [][TcpNext]_tcpVars

TcpLiveSpec == TcpSpec /\ TcpFairness

-----------------------------------------------------------------------------
(* Properties. *)

Open(e) == Active(e) /\ pcb[e].state # "SYN_SENT"

\* A queue of segments covers its stretch of sequence numbers without a gap.
Unbroken(q) ==
    \A i \in 1..(Len(q) - 1) : Plus(q[i].seq, TCPLEN(q[i])) = q[i + 1].seq

\* What a sender still has to get acknowledged, retransmissions included.
Unfinished(p) ==
    LET both == p.unacked \o p.unsent
        f[n \in 0..Len(both)] ==
            IF n = 0 THEN <<>> ELSE PlaceSorted(f[n - 1], both[n])
    IN  f[Len(both)]

\* Every octet, SYN and FIN from the first unacknowledged one to the last
\* written one is on exactly one of the queues unsent and unacked, however the
\* retransmissions of tcp_slowtmr and tcp_receive moved segments between them;
\* snd_buf and snd_queuelen agree with them; and while something is
\* unacknowledged the retransmission timer runs.
SenderInv ==
    \A e \in End : Active(e) =>
        LET p == pcb[e]
            q == Unfinished(p)
            mergedFin == IF q # <<>> /\ Last(q).fin /\ Last(q).data # <<>>
                         THEN 1 ELSE 0
        IN  /\ Unbroken(q)
            /\ q # <<>> => /\ LEQ(Head(q).seq, p.lastack)
                           /\ Plus(Last(q).seq, TCPLEN(Last(q)))
                                  = Plus(p.snd_lbb, mergedFin)
            /\ p.queuelen = Pbufs(q)
            /\ p.snd_buf >= 0
            /\ p.snd_buf + Diff(p.snd_lbb, p.lastack) = TCP_SND_BUF[e]
            /\ p.unacked # <<>> => p.rtime

\* The receive window of tcp_receive is what the application has not given back; no more of it
\* is announced than there is; and what came out of sequence is sorted, apart,
\* beyond rcv_nxt and, a FIN aside, inside the window.  Two things end that: the
\* comparison of tcp_in.c:1505, which does not wrap, has cut a segment wrongly or
\* failed to (miscut); or the peer, whose tcp_receive took its window from an old
\* acknowledgement, has sent beyond the window, of which the first segment out of
\* sequence is not cut (overrun).
ReceiverInv ==
    \A e \in End : Open(e) /\ ~app[e].miscut /\ ~app[e].overrun =>
        LET p == pcb[e]
            q == p.ooseq
            edge == Plus(p.rcv_nxt, p.rcv_wnd)
        IN  /\ p.state \in {"SYN_RCVD", "ESTABLISHED"} =>
                   p.rcv_wnd + app[e].held = TCP_WND
            /\ LEQ(p.ann_edge, edge)
            /\ LEQ(Plus(p.rcv_nxt, p.ann_wnd), edge)
            /\ \A i \in DOMAIN q :
                   /\ q[i].len = Len(q[i].data)
                   /\ LT(p.rcv_nxt, q[i].seq)
                   /\ LEQ(OoEnd(q[i]), edge)
                   /\ i < Len(q) => LEQ(OoEnd(q[i]), q[i + 1].seq) /\ ~q[i].fin

\* Whatever is lost, repeated or overtaken, what espconn hands to the application
\* of an end is what the other end passed to tcp_write, in that order; the end of
\* the stream is seen only after all of it; and an application whose pcb is gone
\* has been told.
InOrder ==
    \A e \in End :
        /\ app[e].got = [i \in DOMAIN app[e].got |-> i]
        /\ Len(app[e].got) <= app[Peer(e)].wrote
        /\ app[e].eof => Len(app[e].got) = app[Peer(e)].wrote
        /\ pcb[e].state = "CLOSED" => app[e].st # "connected"

\* The right edge of the window that an end has announced never moves back
\* (tcp_update_rcv_ann_wnd), so that nothing in flight falls outside of it.
EdgeNeverRetreats ==
    [][\A e \in End : Open(e) /\ pcb'[e].state \notin {"CLOSED", "TIME_WAIT"}
           => LEQ(pcb[e].ann_edge, pcb'[e].ann_edge)]_tcpVars

\* Whatever is lost, what an end has written arrives, unless that end is told
\* that the connection is over or one of the two devices has crashed.
ArrivesOrTold ==
    []<>(\/ \E e \in End : ~Up(e)
         \/ \A e \in End : app[e].st = "connected" =>
                                Len(app[Peer(e)].got) = app[e].wrote)

-----------------------------------------------------------------------------
(* What the code says of itself and two of these devices disprove. *)

\* tcp_receive asserts "tcp_receive: ooseq tcplen > rcv_wnd" of what has come out
\* of sequence: that it still fits the window when the octets before it have come.
OoseqFits ==
    \A e \in End : Open(e) =>
        \A i \in DOMAIN pcb[e].ooseq :
            LET q == pcb[e].ooseq[i]
            IN  Off(Plus(q.seq, OoLen(q)), pcb[e].rcv_nxt) <= pcb[e].rcv_wnd

\* espconn_client_sent is told "The amount of bytes acknowledged": never more
\* octets in all than the other end has received.
Reported == \A e \in End : app[e].told <= Len(app[Peer(e)].got)

=============================================================================
