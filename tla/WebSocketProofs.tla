--------------------------- MODULE WebSocketProofs ---------------------------
(***************************************************************************)
(* Proofs about the WebSocket server (WebSocket), for every pool, set of   *)
(* connections and packet size: the pool is sound and no stream stalls,    *)
(* the handshake is the first thing that a peer is sent, and streams       *)
(* consist of what was asked for.                                          *)
(***************************************************************************)
EXTENDS WebSocket, SequenceTheorems, WellFoundedInduction, TLAPS

-----------------------------------------------------------------------------
(* The inductive invariant                                                 *)

SlotFields == {"esp", "state", "host", "ohdr", "fn", "data", "upgrade", "handshake_ok", "done", "out",
               "context"}
TcpFields == {"st", "est", "unacked", "refused", "byServer", "got", "req", "rx"}
ContextFields == {"live", "stream", "want", "waiting", "size"}
RequestFields == {"upgrade", "good", "first"}

ContextOK(a) ==
    /\ a = [f \in ContextFields |-> a[f]]
    /\ a.live \in BOOLEAN /\ a.stream \in BOOLEAN /\ a.waiting \in BOOLEAN
    /\ a.want \in 0 .. MaxPacket /\ a.size \in 0 .. MaxPacket

\* A slot of the pool, whatever it is used for.
SlotOK(c) ==
    /\ c = [f \in SlotFields |-> c[f]]
    /\ c.esp \in Conns \cup {Nobody, Other}
    /\ c.state \in {ON_URL, HEADERS_END, BODY_END, WS_DATA, WS_DATA_SENT}
    /\ ContextOK(c.context)
    /\ c.done \in BOOLEAN /\ c.out = <<>>

\* A connection: what is still to come of its handshake, and at most one packet
\* that is not acknowledged yet.
TcpOK(t) ==
    /\ t = [f \in TcpFields |-> t[f]] /\ t.req = [f \in RequestFields |-> t.req[f]]
    /\ t.st \in {"free", "open", "closing"}
    /\ t.req.good => t.req.upgrade
    /\ t.req.first \in {"whole", "TEXT", "CLOSE", "IGNORED"}
    /\ t.rx \in {<<>>, <<"end">>, <<"start", "end">>}
    /\ t.got = <<>> \/ \E p : t.got = <<p>>
    /\ ~t.unacked => t.got = <<>>
    /\ t.st = "open" => t.est # "CLOSE"
    /\ t.st # "open" => t.est = "CLOSE" /\ t.got = <<>>

PeerOK(p) ==
    /\ p = [f \in {"greeted", "asked"} |-> p[f]]
    /\ p.greeted \in {0, 101, 400} /\ p.asked \in 0 .. MaxPacket

\* An open connection in its slot.  Before the handshake is answered nothing is on
\* its way; afterwards the application's context is what the peer has asked for,
\* and what is not finished has a packet that waits for its acknowledgement.
Upgraded(c, t, asked) ==
    /\ c.handshake_ok /\ c.upgrade /\ c.context.live
    /\ c.context.waiting => t.unacked
    /\ asked > 0 => c.context.stream /\ c.context.want = asked /\ c.context.waiting
    /\ asked = 0 => ~c.context.stream
Serves(c, t, p) ==
    /\ c.fn # "NULL"
    /\ t.rx # <<>> => p.greeted = 0
    /\ p.greeted = 0 => ~t.unacked /\ ~c.done
    /\ p.greeted = 400 => c.done
    /\ p.greeted # 101 => ~c.handshake_ok /\ p.asked = 0
    /\ p.greeted = 101 => Upgraded(c, t, p.asked)
    /\ c.done => t.unacked

Owned(s) ==
    LET k == slot[s].esp
    IN  k \in Conns =>
          /\ tcp[k].st # "free"
          /\ \A u \in Slots : slot[u].esp = k => u = s
          /\ tcp[k].st = "open" => Serves(slot[s], tcp[k], peer[k])

WsIndInv ==
    /\ slot = [s \in Slots |-> slot[s]] /\ \A s \in Slots : SlotOK(slot[s])
    /\ tcp = [k \in Conns |-> tcp[k]] /\ \A k \in Conns : TcpOK(tcp[k])
    /\ peer = [k \in Conns |-> peer[k]] /\ \A k \in Conns : PeerOK(peer[k])
    /\ \A s \in Slots : Owned(s)

-----------------------------------------------------------------------------
(* What the functions of http_process.c and http_helper.c do to a context  *)

Ctx(x) ==
    /\ x = [f \in {"c", "tcp"} |-> x[f]]
    /\ x.c = [f \in SlotFields |-> x.c[f]]
    /\ x.c.context = [f \in ContextFields |-> x.c.context[f]]
    /\ x.tcp = [f \in TcpFields |-> x.tcp[f]]
    /\ x.tcp.req = [f \in RequestFields |-> x.tcp.req[f]]

\* The parts of a slot that output leaves alone.
SameSlot(x, y) ==
    /\ y.c.esp = x.c.esp /\ y.c.state = x.c.state /\ y.c.fn = x.c.fn /\ y.c.upgrade = x.c.upgrade
    /\ y.c.handshake_ok = x.c.handshake_ok /\ y.c.done = x.c.done /\ y.c.context = x.c.context

\* A packet is handed to espconn, which takes it if no other is on its way: there
\* is one on its way then.
Sends(x, y, token) ==
    /\ Ctx(y) /\ SameSlot(x, y) /\ y.c.out = <<>>
    /\ y.tcp.st = "open" /\ y.tcp.est = "WRITE" /\ y.tcp.unacked
    /\ y.tcp.rx = x.tcp.rx /\ y.tcp.req = x.tcp.req
    /\ x.tcp.unacked => y.tcp.got = x.tcp.got
    /\ ~x.tcp.unacked => y.tcp.got = x.tcp.got \o <<token>>

Takes(t, u, packet) ==
    /\ u = [f \in TcpFields |-> u[f]] /\ u.st = "open" /\ u.est = "WRITE" /\ u.unacked
    /\ u.rx = t.rx /\ u.req = t.req
    /\ t.unacked => u.got = t.got
    /\ ~t.unacked => u.got = t.got \o packet

\* espconn_sent on an open connection.
LEMMA EspconnTakes ==
  ASSUME NEW t, t = [f \in TcpFields |-> t[f]], t.st = "open", NEW packet
  PROVE  Takes(t, espconn_sent(t, packet), packet)
<1> DEFINE u == espconn_sent(t, packet)
<1>1. CASE t.unacked
  <2> DEFINE v == [t EXCEPT !.est = "WRITE", !.refused = TRUE]
  <2>1. /\ v = [f \in TcpFields |-> v[f]] /\ v.st = t.st /\ v.est = "WRITE" /\ v.unacked = t.unacked
        /\ v.rx = t.rx /\ v.req = t.req /\ v.got = t.got
    BY DEF TcpFields
  <2>2. u = v
    <3>1. t.st # "free" /\ ~(t.st = "open" /\ ~t.unacked)
      BY <1>1
    <3>2. QED
      BY <3>1, Zenon DEF espconn_sent
  <2> HIDE DEF u, v
  <2>3. QED
    BY <1>1, <2>1, <2>2, Zenon DEF u, Takes
<1>2. CASE ~t.unacked
  <2> DEFINE v == [t EXCEPT !.est = "WRITE", !.got = @ \o packet, !.unacked = TRUE]
  <2>1. /\ v = [f \in TcpFields |-> v[f]] /\ v.st = t.st /\ v.est = "WRITE" /\ v.unacked = TRUE
        /\ v.rx = t.rx /\ v.req = t.req /\ v.got = t.got \o packet
    BY DEF TcpFields
  <2>2. u = v
    <3>1. t.st # "free" /\ t.st = "open" /\ ~t.unacked
      BY <1>2
    <3>2. QED
      BY <3>1, Zenon DEF espconn_sent
  <2> HIDE DEF u, v
  <2>3. QED
    BY <1>2, <2>1, <2>2, Zenon DEF u, Takes
<1>3. QED
  BY <1>1, <1>2

\* http_transmit of a buffer with one token in it.
LEMMA Emits ==
  ASSUME NEW x, Ctx(x), x.tcp.st = "open", NEW y, Ctx(y), SameSlot(x, y), y.tcp = x.tcp, NEW token,
         y.c.out = <<token>>
  PROVE  Sends(x, http_transmit(y), token)
<1> DEFINE u == espconn_sent(y.tcp, <<token>>)
           z == [y EXCEPT !.tcp = u, !.c.out = <<>>]
<1>1. http_transmit(y) = z
  <2>1. y.c.out # <<>>
    OBVIOUS
  <2>2. y = [f \in {"c", "tcp"} |-> y[f]]
    BY DEF Ctx
  <2>3. [y EXCEPT !.tcp = espconn_sent(@, y.c.out), !.c.out = <<>>] = z
    BY <2>2
  <2>4. QED
    BY <2>1, <2>3, Zenon DEF http_transmit
<1>2. /\ u = [f \in TcpFields |-> u[f]] /\ u.st = "open" /\ u.est = "WRITE" /\ u.unacked
      /\ u.rx = x.tcp.rx /\ u.req = x.tcp.req
      /\ x.tcp.unacked => u.got = x.tcp.got
      /\ ~x.tcp.unacked => u.got = x.tcp.got \o <<token>>
  <2>1. y.tcp = [f \in TcpFields |-> y.tcp[f]] /\ y.tcp.st = "open"
    BY DEF Ctx
  <2>2. Takes(y.tcp, u, <<token>>)
    BY <2>1, EspconnTakes
  <2> HIDE DEF u
  <2>3. QED
    BY <2>2, Zenon DEF Takes
<1> HIDE DEF u
<1>3. /\ z = [f \in {"c", "tcp"} |-> z[f]] /\ z.tcp = u
      /\ z.c = [f \in SlotFields |-> z.c[f]] /\ z.c.out = <<>>
      /\ z.c.esp = y.c.esp /\ z.c.state = y.c.state /\ z.c.fn = y.c.fn /\ z.c.upgrade = y.c.upgrade
      /\ z.c.handshake_ok = y.c.handshake_ok /\ z.c.done = y.c.done /\ z.c.context = y.c.context
  BY DEF Ctx, SlotFields
<1> HIDE DEF z
<1>4. Ctx(z)
  <2>1. y.c.context = [f \in ContextFields |-> y.c.context[f]] /\ x.tcp.req = [f \in RequestFields |-> x.tcp.req[f]]
    BY Zenon DEF Ctx
  <2>2. QED
    BY ONLY <1>2, <1>3, <2>1 DEF Ctx
<1>5. SameSlot(x, z)
  BY <1>3, Zenon DEF SameSlot
<1>6. Sends(x, z, token)
  BY <1>2, <1>3, <1>4, <1>5, Zenon DEF Sends
<1>7. QED
  BY <1>1, <1>6

\* http_write into an empty buffer, and http_transmit.
LEMMA WriteSends ==
  ASSUME NEW x, Ctx(x), x.tcp.st = "open", x.c.out = <<>>, NEW token
  PROVE  Sends(x, http_transmit(http_write(x, token)), token)
<1> DEFINE y == http_write(x, token)
<1>1. Ctx(y) /\ SameSlot(x, y) /\ y.tcp = x.tcp /\ y.c.out = <<token>>
  <2>1. /\ y = [f \in {"c", "tcp"} |-> y[f]] /\ y.tcp = x.tcp
        /\ y.c = [f \in SlotFields |-> y.c[f]] /\ y.c.out = Append(x.c.out, token)
        /\ y.c.esp = x.c.esp /\ y.c.state = x.c.state /\ y.c.fn = x.c.fn /\ y.c.upgrade = x.c.upgrade
        /\ y.c.handshake_ok = x.c.handshake_ok /\ y.c.done = x.c.done /\ y.c.context = x.c.context
    BY DEF Ctx, SlotFields, http_write
  <2> HIDE DEF y
  <2>2. Append(x.c.out, token) = <<token>>
    OBVIOUS
  <2>3. /\ x.tcp = [f \in TcpFields |-> x.tcp[f]] /\ x.tcp.req = [f \in RequestFields |-> x.tcp.req[f]]
        /\ x.c.context = [f \in ContextFields |-> x.c.context[f]]
    BY Zenon DEF Ctx
  <2>4. Ctx(y)
    BY <2>1, <2>3, Zenon DEF Ctx
  <2>5. QED
    BY <2>1, <2>2, <2>4, Zenon DEF SameSlot
<1> HIDE DEF y
<1>2. QED
  BY <1>1, Emits DEF y

-----------------------------------------------------------------------------
(* The context of an open connection between two calls of its functions    *)

Stage(x) == Ctx(x) /\ SlotOK(x.c) /\ TcpOK(x.tcp) /\ x.tcp.st = "open"

\* The slot alone is written.
LEMMA StageWrites ==
  ASSUME NEW x, Stage(x), NEW y, y = [f \in {"c", "tcp"} |-> y[f]], y.tcp = x.tcp, SlotOK(y.c)
  PROVE  Stage(y)
<1>1. y.c = [f \in SlotFields |-> y.c[f]] /\ y.c.context = [f \in ContextFields |-> y.c.context[f]]
  BY Zenon DEF SlotOK, ContextOK
<1>2. y.tcp = [f \in TcpFields |-> y.tcp[f]] /\ y.tcp.req = [f \in RequestFields |-> y.tcp.req[f]]
  BY Zenon DEF Stage, Ctx
<1>3. Ctx(y)
  BY <1>1, <1>2, Zenon DEF Ctx
<1>4. QED
  BY <1>3, Zenon DEF Stage

\* Output leaves a context in order, and what is on its way is the token or what was before.
LEMMA StageSends ==
  ASSUME NEW x, Stage(x), NEW token, NEW y, Sends(x, y, token)
  PROVE  /\ Stage(y)
         /\ x.tcp.unacked => y.tcp.got = x.tcp.got
         /\ ~x.tcp.unacked => y.tcp.got = <<token>>
<1>1. ~x.tcp.unacked => y.tcp.got = <<token>>
  <2>1. ASSUME ~x.tcp.unacked
        PROVE  x.tcp.got = <<>> /\ y.tcp.got = x.tcp.got \o <<token>>
    BY <2>1, Zenon DEF Stage, TcpOK, Sends
  <2>2. <<>> \o <<token>> = <<token>>
    OBVIOUS
  <2>3. QED
    BY <2>1, <2>2, Zenon
<1>2. x.tcp.unacked => y.tcp.got = x.tcp.got
  BY Zenon DEF Sends
<1>3. SlotOK(y.c)
  <2>1. y.c = [f \in SlotFields |-> y.c[f]]
    BY Zenon DEF Sends, Ctx
  <2>2. QED
    BY <2>1, Zenon DEF Sends, SameSlot, Stage, SlotOK
<1>4. TcpOK(y.tcp)
  <2>1. "WRITE" # "CLOSE" /\ "open" \in {"free", "open", "closing"}
    OBVIOUS
  <2>2. y.tcp.got = <<>> \/ \E p : y.tcp.got = <<p>>
    BY <1>1, <1>2, Zenon DEF Stage, TcpOK
  <2>3. y.tcp = [f \in TcpFields |-> y.tcp[f]] /\ y.tcp.req = [f \in RequestFields |-> y.tcp.req[f]]
    BY Zenon DEF Sends, Ctx
  <2>4. /\ y.tcp.req.good => y.tcp.req.upgrade
        /\ y.tcp.req.first \in {"whole", "TEXT", "CLOSE", "IGNORED"}
        /\ y.tcp.rx \in {<<>>, <<"end">>, <<"start", "end">>}
    BY Zenon DEF Sends, Stage, TcpOK
  <2>5. y.tcp.st = "open" /\ y.tcp.est = "WRITE" /\ y.tcp.unacked
    BY Zenon DEF Sends
  <2>6. QED
    BY <2>1, <2>2, <2>3, <2>4, <2>5, Zenon DEF TcpOK
<1>5. Stage(y)
  BY <1>3, <1>4, Zenon DEF Sends, Stage
<1>6. QED
  BY <1>1, <1>2, <1>5

\* Something is written, and the buffer transmitted.
LEMMA StageEmits ==
  ASSUME NEW x, Stage(x), NEW token
  PROVE  Sends(x, http_transmit(http_write(x, token)), token)
<1>1. Ctx(x) /\ x.tcp.st = "open" /\ x.c.out = <<>>
  BY Zenon DEF Stage, SlotOK
<1>2. QED
  BY <1>1, WriteSends

\* Nothing is in the buffer.
LEMMA NothingToSend ==
  ASSUME NEW x, Stage(x)
  PROVE  http_transmit(x) = x
  BY Zenon DEF Stage, SlotOK, http_transmit

\* One field of the slot, or two of the application's context, are written.
Same(x, y) ==
    /\ y.tcp = x.tcp /\ y.c.esp = x.c.esp /\ y.c.fn = x.c.fn /\ y.c.upgrade = x.c.upgrade
    /\ y.c.handshake_ok = x.c.handshake_ok

\* The state of a slot is written.
LEMMA SetState ==
  ASSUME NEW x, Stage(x), NEW v \in {ON_URL, HEADERS_END, BODY_END, WS_DATA, WS_DATA_SENT}
  PROVE  LET y == [x EXCEPT !.c.state = v]
         IN  Stage(y) /\ Same(x, y) /\ y.c.context = x.c.context /\ y.c.done = x.c.done /\ y.c.state = v
<1> DEFINE y == [x EXCEPT !.c.state = v]
<1>1. /\ x = [f \in {"c", "tcp"} |-> x[f]] /\ x.c = [f \in SlotFields |-> x.c[f]]
      /\ SlotOK(x.c)
  BY Zenon DEF Stage, Ctx
<1>2. /\ y = [f \in {"c", "tcp"} |-> y[f]] /\ y.c = [f \in SlotFields |-> y.c[f]] /\ y.tcp = x.tcp
      /\ y.c.state = v /\ y.c.out = x.c.out
      /\ y.c.esp = x.c.esp /\ y.c.fn = x.c.fn /\ y.c.upgrade = x.c.upgrade
      /\ y.c.handshake_ok = x.c.handshake_ok /\ y.c.context = x.c.context /\ y.c.done = x.c.done
  BY <1>1 DEF SlotFields
<1> HIDE DEF y
<1>3. SlotOK(y.c)
  BY <1>1, <1>2, Zenon DEF SlotOK
<1>4. Stage(y)
  BY <1>2, <1>3, StageWrites
<1>5. QED
  BY <1>2, <1>4 DEF Same, y

\* The slot is marked as done.
LEMMA SetDone ==
  ASSUME NEW x, Stage(x)
  PROVE  LET y == [x EXCEPT !.c.done = TRUE]
         IN  Stage(y) /\ Same(x, y) /\ y.c.context = x.c.context /\ y.c.done /\ y.c.state = x.c.state
<1> DEFINE y == [x EXCEPT !.c.done = TRUE]
<1>1. /\ x = [f \in {"c", "tcp"} |-> x[f]] /\ x.c = [f \in SlotFields |-> x.c[f]]
      /\ SlotOK(x.c)
  BY Zenon DEF Stage, Ctx
<1>2. /\ y = [f \in {"c", "tcp"} |-> y[f]] /\ y.c = [f \in SlotFields |-> y.c[f]] /\ y.tcp = x.tcp
      /\ y.c.state = x.c.state /\ y.c.out = x.c.out
      /\ y.c.esp = x.c.esp /\ y.c.fn = x.c.fn /\ y.c.upgrade = x.c.upgrade
      /\ y.c.handshake_ok = x.c.handshake_ok /\ y.c.context = x.c.context /\ y.c.done = TRUE
  BY <1>1 DEF SlotFields
<1> HIDE DEF y
<1>3. SlotOK(y.c)
  <2>1. y.c.done \in BOOLEAN
    BY <1>2, Zenon
  <2>2. QED
    BY <1>1, <1>2, <2>1, Zenon DEF SlotOK
<1>4. Stage(y)
  BY <1>2, <1>3, StageWrites
<1>5. QED
  BY <1>2, <1>4, Zenon DEF Same, y

\* The application's context is replaced.
LEMMA SetContext ==
  ASSUME NEW x, Stage(x), NEW b, ContextOK(b)
  PROVE  LET y == [x EXCEPT !.c.context = b]
         IN  Stage(y) /\ Same(x, y) /\ y.c.context = b /\ y.c.done = x.c.done /\ y.c.state = x.c.state
<1> DEFINE y == [x EXCEPT !.c.context = b]
<1>1. /\ x = [f \in {"c", "tcp"} |-> x[f]] /\ x.c = [f \in SlotFields |-> x.c[f]]
      /\ SlotOK(x.c)
  BY Zenon DEF Stage, Ctx
<1>2. /\ y = [f \in {"c", "tcp"} |-> y[f]] /\ y.c = [f \in SlotFields |-> y.c[f]] /\ y.tcp = x.tcp
      /\ y.c.state = x.c.state /\ y.c.out = x.c.out
      /\ y.c.esp = x.c.esp /\ y.c.fn = x.c.fn /\ y.c.upgrade = x.c.upgrade
      /\ y.c.handshake_ok = x.c.handshake_ok /\ y.c.context = b /\ y.c.done = x.c.done
  BY <1>1 DEF SlotFields
<1> HIDE DEF y
<1>3. SlotOK(y.c)
  BY <1>1, <1>2, Zenon DEF SlotOK
<1>4. Stage(y)
  BY <1>2, <1>3, StageWrites
<1>5. QED
  BY <1>2, <1>4, Zenon DEF Same, y

\* What the application writes in its context.
LEMMA ContextAsked ==
  ASSUME NEW a, ContextOK(a), NEW n \in 0 .. MaxPacket
  PROVE  LET b == [a EXCEPT !.want = n, !.stream = TRUE]
         IN  ContextOK(b) /\ b.live = a.live /\ b.stream /\ b.want = n /\ b.waiting = a.waiting
<1> DEFINE b == [a EXCEPT !.want = n, !.stream = TRUE]
<1>1. /\ a = [f \in ContextFields |-> a[f]] /\ a.live \in BOOLEAN /\ a.stream \in BOOLEAN /\ a.waiting \in BOOLEAN
      /\ a.want \in 0 .. MaxPacket /\ a.size \in 0 .. MaxPacket
  BY Zenon DEF ContextOK
<1>2. /\ b = [f \in ContextFields |-> b[f]] /\ b.live = a.live /\ b.stream = TRUE /\ b.waiting = a.waiting
      /\ b.want = n /\ b.size = a.size
  BY <1>1 DEF ContextFields
<1> HIDE DEF b
<1>3. QED
  BY <1>1, <1>2, Zenon DEF b, ContextOK

\* The stream is stopped; the acknowledgement noted; a packet marked as waiting.
LEMMA ContextWrites ==
  ASSUME NEW a, ContextOK(a)
  PROVE  /\ LET b == [a EXCEPT !.stream = FALSE]
            IN  ContextOK(b) /\ b.live = a.live /\ ~b.stream /\ b.want = a.want /\ b.waiting = a.waiting
         /\ LET b == [a EXCEPT !.waiting = FALSE]
            IN  ContextOK(b) /\ b.live = a.live /\ b.stream = a.stream /\ b.want = a.want /\ ~b.waiting
         /\ LET b == [a EXCEPT !.size = a.want, !.waiting = TRUE]
            IN  ContextOK(b) /\ b.live = a.live /\ b.stream = a.stream /\ b.want = a.want /\ b.waiting
<1>1. /\ a = [f \in ContextFields |-> a[f]] /\ a.live \in BOOLEAN /\ a.stream \in BOOLEAN /\ a.waiting \in BOOLEAN
      /\ a.want \in 0 .. MaxPacket /\ a.size \in 0 .. MaxPacket
  BY Zenon DEF ContextOK
<1>3. LET b == [a EXCEPT !.stream = FALSE]
      IN  ContextOK(b) /\ b.live = a.live /\ ~b.stream /\ b.want = a.want /\ b.waiting = a.waiting
  <2> DEFINE b == [a EXCEPT !.stream = FALSE]
  <2>1. /\ b = [f \in ContextFields |-> b[f]] /\ b.live = a.live /\ b.stream = FALSE /\ b.waiting = a.waiting
        /\ b.want = a.want /\ b.size = a.size
    BY <1>1 DEF ContextFields
  <2> HIDE DEF b
  <2>2. QED
    BY <1>1, <2>1, Zenon DEF b, ContextOK
<1>4. LET b == [a EXCEPT !.waiting = FALSE]
      IN  ContextOK(b) /\ b.live = a.live /\ b.stream = a.stream /\ b.want = a.want /\ ~b.waiting
  <2> DEFINE b == [a EXCEPT !.waiting = FALSE]
  <2>1. /\ b = [f \in ContextFields |-> b[f]] /\ b.live = a.live /\ b.stream = a.stream /\ b.waiting = FALSE
        /\ b.want = a.want /\ b.size = a.size
    BY <1>1 DEF ContextFields
  <2> HIDE DEF b
  <2>2. QED
    BY <1>1, <2>1, Zenon DEF b, ContextOK
<1>5. LET b == [a EXCEPT !.size = a.want, !.waiting = TRUE]
      IN  ContextOK(b) /\ b.live = a.live /\ b.stream = a.stream /\ b.want = a.want /\ b.waiting
  <2> DEFINE b == [a EXCEPT !.size = a.want, !.waiting = TRUE]
  <2>1. /\ b = [f \in ContextFields |-> b[f]] /\ b.live = a.live /\ b.stream = a.stream /\ b.waiting = TRUE
        /\ b.want = a.want /\ b.size = a.want
    BY <1>1 DEF ContextFields
  <2> HIDE DEF b
  <2>2. QED
    BY <1>1, <2>1, Zenon DEF b, ContextOK
<1>6. QED
  BY <1>3, <1>4, <1>5

\* A packet of the stream is handed to espconn.
Streams(x, y) ==
    /\ Stage(y)
    /\ y.c.esp = x.c.esp /\ y.c.fn = x.c.fn /\ y.c.upgrade = x.c.upgrade
    /\ y.c.handshake_ok = x.c.handshake_ok /\ y.c.done = x.c.done
    /\ y.c.context.live = x.c.context.live /\ y.c.context.stream = x.c.context.stream
    /\ y.c.context.want = x.c.context.want /\ y.c.context.waiting
    /\ y.tcp.unacked /\ y.tcp.rx = x.tcp.rx /\ y.tcp.req = x.tcp.req
    /\ x.tcp.unacked => y.tcp.got = x.tcp.got
    /\ ~x.tcp.unacked => y.tcp.got = <<Bin(x.c.context.want)>>

\* ws_app_send_packet, when nothing waits.
LEMMA PacketStreams ==
  ASSUME NEW x, Stage(x), x.c.context.stream, ~x.c.context.waiting
  PROVE  Streams(x, ws_app_send_packet(x))
<1> DEFINE a == x.c.context
           b == [a EXCEPT !.size = a.want, !.waiting = TRUE]
           z == [x EXCEPT !.c.context = b]
           y == http_ws_push_bin(z, a.want)
<1>1. ContextOK(a)
  BY Zenon DEF Stage, SlotOK
<1>2. Packet(a) = a.want
  BY DEF Packet
<1>3. ws_app_send_packet(x) = y
  <2>1. [x EXCEPT !.c.context.size = a.want, !.c.context.waiting = TRUE] = z
    BY DEF Stage, Ctx, SlotFields
  <2>2. ws_app_send_packet(x) = http_ws_push_bin([x EXCEPT !.c.context.size = Packet(a),
                                                         !.c.context.waiting = TRUE], Packet(a))
    BY Zenon DEF ws_app_send_packet
  <2>3. QED
    BY <1>2, <2>1, <2>2, Zenon
<1>4. ContextOK(b) /\ b.live = a.live /\ b.stream = a.stream /\ b.want = a.want /\ b.waiting
  BY <1>1, ContextWrites, Zenon
<1> HIDE DEF b
<1>5. Stage(z) /\ Same(x, z) /\ z.c.context = b /\ z.c.done = x.c.done /\ z.c.state = x.c.state
  BY <1>4, SetContext, Zenon
<1> HIDE DEF z
<1>6. Sends(z, y, Bin(a.want))
  BY <1>5, StageEmits DEF http_ws_push_bin
<1> HIDE DEF y
<1>7. /\ Stage(y)
      /\ z.tcp.unacked => y.tcp.got = z.tcp.got
      /\ ~z.tcp.unacked => y.tcp.got = <<Bin(a.want)>>
  BY <1>5, <1>6, StageSends
<1>8. Streams(x, y)
  BY <1>4, <1>5, <1>6, <1>7, Zenon DEF Streams, Sends, SameSlot, Same
<1>9. QED
  BY <1>3, <1>8

-----------------------------------------------------------------------------
(* The callbacks: a connection that is served stays served                 *)

\* What a peer p may be sent, when q is what it has been told and has asked for
\* afterwards.
Due(token, p, q, req) ==
    IF token.kind = "status" THEN p.greeted = 0 /\ token.status = (IF req.good THEN 101 ELSE 400)
    ELSE p.greeted = 101 /\ (token.kind = "bin" => token.size = q.asked /\ q.asked > 0)

SentOnlyDue(x, y, p, q) ==
    \/ y.tcp.got = x.tcp.got
    \/ ~x.tcp.unacked /\ \E token : y.tcp.got = <<token>> /\ Due(token, p, q, x.tcp.req)

ServedBy(x, y, p, q) ==
    /\ Stage(y) /\ y.c.esp = x.c.esp /\ y.tcp.rx = x.tcp.rx /\ y.tcp.req = x.tcp.req
    /\ Serves(y.c, y.tcp, q)
    /\ SentOnlyDue(x, y, p, q)

\* What Serves says after a 101.
LEMMA ServesUpgraded ==
  ASSUME NEW c, NEW t, NEW p, p.greeted = 101
  PROVE  Serves(c, t, p) <=> /\ c.fn # "NULL" /\ t.rx = <<>> /\ Upgraded(c, t, p.asked)
                             /\ c.done => t.unacked
<1>1. p.greeted # 0 /\ p.greeted # 400
  OBVIOUS
<1>2. QED
  BY <1>1, Zenon DEF Serves

\* ws_app_msg_received
LEMMA MessageServed ==
  ASSUME NEW x, Stage(x), NEW p, PeerOK(p), Serves(x.c, x.tcp, p), p.greeted = 101,
         NEW ask \in -1 .. MaxPacket, NEW q, q.greeted = 101,
         q.asked = IF ask \in 0 .. MaxPacket THEN ask ELSE p.asked
  PROVE  ServedBy(x, http_ws_handle_message(x, ask), p, q)
<1> DEFINE a == x.c.context
           y == ws_app_msg_received(x, ask)
<1>1. /\ p.asked \in 0 .. MaxPacket /\ MaxPacket \in Nat
  BY WsAssumption DEF PeerOK
<1>2. /\ x.c.fn # "NULL" /\ x.tcp.rx = <<>> /\ x.c.handshake_ok /\ x.c.upgrade /\ a.live
      /\ a.waiting => x.tcp.unacked
      /\ p.asked > 0 => a.stream /\ a.want = p.asked /\ a.waiting
      /\ p.asked = 0 => ~a.stream
      /\ x.c.done => x.tcp.unacked
  <2>1. /\ x.c.fn # "NULL" /\ x.tcp.rx = <<>> /\ Upgraded(x.c, x.tcp, p.asked)
        /\ x.c.done => x.tcp.unacked
    BY ServesUpgraded, Zenon
  <2>2. QED
    BY <2>1, Zenon DEF Upgraded
<1>3. ContextOK(a) /\ x = [f \in {"c", "tcp"} |-> x[f]] /\ x.c = [f \in SlotFields |-> x.c[f]]
  BY Zenon DEF Stage, SlotOK, Ctx
<1>4. ServedBy(x, y, p, q)
  <2>1. CASE ask \in 1 .. MaxPacket
    <3> DEFINE b == [a EXCEPT !.want = ask, !.stream = TRUE]
               z == [x EXCEPT !.c.context = b]
    <3>1. q.asked = ask /\ ask > 0 /\ ask # 0 /\ ask \in 0 .. MaxPacket
      BY <2>1
    <3>2. ContextOK(b) /\ b.live = a.live /\ b.stream /\ b.want = ask /\ b.waiting = a.waiting
      BY ONLY <1>3, <3>1, ContextAsked
    <3>3. y = ws_app_send_packet(z)
      <4>1. [x EXCEPT !.c.context.want = ask, !.c.context.stream = TRUE] = z
        BY <1>3 DEF SlotFields
      <4>2. y = ws_app_send_packet([x EXCEPT !.c.context.want = ask, !.c.context.stream = TRUE])
        BY <2>1, <3>1, Zenon DEF ws_app_msg_received
      <4>3. QED
        BY <4>1, <4>2
    <3> HIDE DEF b
    <3>4. Stage(z) /\ Same(x, z) /\ z.c.context = b /\ z.c.done = x.c.done /\ z.c.state = x.c.state
      BY <3>2, SetContext, Zenon
    <3> HIDE DEF z, y
    <3>5. CASE a.waiting
      <4>1. y = z
        BY <3>2, <3>3, <3>4, <3>5, Zenon DEF ws_app_send_packet
      <4>2. Serves(z.c, z.tcp, q)
        <5>1. Upgraded(z.c, z.tcp, q.asked)
          BY <1>2, <3>1, <3>2, <3>4, <3>5, Zenon DEF Upgraded, Same
        <5>2. QED
          BY <1>2, <3>4, <5>1, ServesUpgraded, Zenon DEF Same
      <4>3. QED
        BY <3>4, <4>1, <4>2, Zenon DEF ServedBy, SentOnlyDue, Same
    <3>6. CASE ~a.waiting
      <4>1. Streams(z, y)
        BY <3>2, <3>3, <3>4, <3>6, PacketStreams, Zenon
      <4>2. Serves(y.c, y.tcp, q)
        <5>1. Upgraded(y.c, y.tcp, q.asked)
          BY <1>2, <3>1, <3>2, <3>4, <4>1, Zenon DEF Upgraded, Same, Streams
        <5>2. QED
          BY <1>2, <3>4, <4>1, <5>1, ServesUpgraded, Zenon DEF Same, Streams
      <4>3. /\ x.tcp.unacked => y.tcp.got = x.tcp.got
            /\ ~x.tcp.unacked => y.tcp.got = <<Bin(ask)>>
        BY <3>2, <3>4, <4>1, Zenon DEF Streams, Same
      <4>4. Bin(ask).kind = "bin" /\ Bin(ask).kind # "status" /\ Bin(ask).size = ask
        BY DEF Bin
      <4>5. SentOnlyDue(x, y, p, q)
        BY <3>1, <4>3, <4>4, Zenon DEF SentOnlyDue, Due
      <4>6. QED
        BY <3>4, <4>1, <4>2, <4>5, Zenon DEF ServedBy, Streams, Same
    <3>7. QED
      BY <3>5, <3>6
  <2>2. CASE ask = 0
    <3> DEFINE b == [a EXCEPT !.stream = FALSE]
               z == [x EXCEPT !.c.context = b]
    <3>1. q.asked = 0 /\ ask \notin 1 .. MaxPacket /\ ~(0 > 0)
      BY <1>1, <2>2
    <3>2. ContextOK(b) /\ b.live = a.live /\ ~b.stream /\ b.waiting = a.waiting
      BY <1>3, ContextWrites, Zenon
    <3>3. y = z
      <4>1. [x EXCEPT !.c.context.stream = FALSE] = z
        BY <1>3 DEF SlotFields
      <4>2. y = [x EXCEPT !.c.context.stream = FALSE]
        BY <2>2, <3>1, Zenon DEF ws_app_msg_received
      <4>3. QED
        BY <4>1, <4>2
    <3> HIDE DEF b
    <3>4. Stage(z) /\ Same(x, z) /\ z.c.context = b /\ z.c.done = x.c.done /\ z.c.state = x.c.state
      BY <3>2, SetContext, Zenon
    <3> HIDE DEF z, y
    <3>5. Serves(z.c, z.tcp, q)
      <4>1. Upgraded(z.c, z.tcp, q.asked)
        BY <1>2, <3>1, <3>2, <3>4, Zenon DEF Upgraded, Same
      <4>2. QED
        BY <1>2, <3>4, <4>1, ServesUpgraded, Zenon DEF Same
    <3>6. QED
      BY <3>3, <3>4, <3>5, Zenon DEF ServedBy, SentOnlyDue, Same
  <2>3. CASE ask \notin 0 .. MaxPacket
    <3>1. ask # 0 /\ ask \notin 1 .. MaxPacket /\ q.asked = p.asked
      BY <1>1, <2>3
    <3>2. y = x
      BY <3>1, Zenon DEF ws_app_msg_received
    <3> HIDE DEF y
    <3>3. Serves(x.c, x.tcp, q)
      BY <3>1, ServesUpgraded
    <3>4. QED
      BY <3>2, <3>3, Zenon DEF ServedBy, SentOnlyDue
  <2>4. QED
    BY <1>1, <2>1, <2>2, <2>3
<1> HIDE DEF y
<1>5. http_transmit(y) = y
  BY <1>4, NothingToSend, Zenon DEF ServedBy
<1>6. http_ws_handle_message(x, ask) = http_transmit(y)
  BY <1>2, Zenon DEF http_ws_handle_message, y
<1>7. QED
  BY <1>4, <1>5, <1>6

\* Two callbacks in a row: the second sends only if the first left nothing on its way.
LEMMA ServedTwice ==
  ASSUME NEW x, NEW y, NEW z, NEW p, NEW q, ServedBy(x, y, p, q), ServedBy(y, z, p, q),
         x.tcp.unacked => y.tcp.unacked
  PROVE  ServedBy(x, z, p, q)
<1>1. y.tcp.req = x.tcp.req /\ y.tcp.rx = x.tcp.rx /\ y.c.esp = x.c.esp
  BY Zenon DEF ServedBy
<1>2. SentOnlyDue(x, z, p, q)
  BY <1>1, Zenon DEF ServedBy, SentOnlyDue
<1>3. QED
  BY <1>1, <1>2, Zenon DEF ServedBy

\* A PING is sent.
LEMMA PingServed ==
  ASSUME NEW x, Stage(x), NEW p, p.greeted = 101, NEW q, q.greeted = 101, Serves(x.c, x.tcp, q)
  PROVE  LET y == http_transmit(http_write(x, [kind |-> "ping"]))
         IN  ServedBy(x, y, p, q) /\ y.tcp.unacked
<1> DEFINE token == [kind |-> "ping"]
           y == http_transmit(http_write(x, token))
<1>1. token.kind # "status" /\ token.kind # "bin"
  OBVIOUS
<1> HIDE DEF token
<1>2. Sends(x, y, token)
  BY StageEmits
<1> HIDE DEF y
<1>3. /\ Stage(y)
      /\ x.tcp.unacked => y.tcp.got = x.tcp.got
      /\ ~x.tcp.unacked => y.tcp.got = <<token>>
  BY <1>2, StageSends
<1>4. Serves(y.c, y.tcp, q) /\ y.tcp.unacked
  <2>1. x.c.fn # "NULL" /\ x.tcp.rx = <<>> /\ Upgraded(x.c, x.tcp, q.asked)
    BY ServesUpgraded
  <2>2. Upgraded(y.c, y.tcp, q.asked)
    BY <1>2, <2>1, Zenon DEF Upgraded, Sends, SameSlot
  <2>3. y.c.fn # "NULL" /\ y.tcp.rx = <<>> /\ y.tcp.unacked
    BY <1>2, <2>1, Zenon DEF Sends, SameSlot
  <2>4. QED
    BY <2>2, <2>3, ServesUpgraded, Zenon
<1>5. SentOnlyDue(x, y, p, q)
  BY <1>1, <1>3, Zenon DEF SentOnlyDue, Due
<1>6. ServedBy(x, y, p, q)
  BY <1>2, <1>3, <1>4, <1>5, Zenon DEF ServedBy, Sends, SameSlot
<1>7. QED
  BY <1>4, <1>6 DEF y, token

\* Close: a PING is sent, and the connection is done with.
LEMMA CloseServed ==
  ASSUME NEW x, Stage(x), NEW p, p.greeted = 101, NEW q, q.greeted = 101, Serves(x.c, x.tcp, q)
  PROVE  ServedBy(x, Close(x), p, q)
<1> DEFINE y == http_transmit(http_write(x, [kind |-> "ping"]))
           z == [y EXCEPT !.c.done = TRUE]
<1>1. ServedBy(x, y, p, q) /\ y.tcp.unacked
  BY PingServed
<1> HIDE DEF y
<1>2. Stage(y) /\ Serves(y.c, y.tcp, q)
  BY <1>1, Zenon DEF ServedBy
<1>3. Stage(z) /\ Same(y, z) /\ z.c.context = y.c.context /\ z.c.done /\ z.c.state = y.c.state
  BY <1>2, SetDone
<1> HIDE DEF z
<1>4. Serves(z.c, z.tcp, q)
  <2>1. y.c.fn # "NULL" /\ y.tcp.rx = <<>> /\ Upgraded(y.c, y.tcp, q.asked)
    BY <1>2, ServesUpgraded
  <2>2. Upgraded(z.c, z.tcp, q.asked)
    BY <1>3, <2>1, Zenon DEF Upgraded, Same
  <2>3. z.c.fn # "NULL" /\ z.tcp.rx = <<>> /\ z.tcp.unacked
    BY <1>1, <1>3, <2>1, Zenon DEF Same
  <2>4. QED
    BY <2>2, <2>3, ServesUpgraded, Zenon
<1>5. ServedBy(x, z, p, q)
  BY <1>1, <1>3, <1>4, Zenon DEF ServedBy, SentOnlyDue, Same
<1>6. QED
  BY <1>5 DEF Close, z, y

\* on_websocket_data: a frame, once the handshake has been answered.
LEMMA FrameServed ==
  ASSUME NEW x, Stage(x), NEW p, PeerOK(p), Serves(x.c, x.tcp, p), p.greeted = 101,
         NEW f, f.type \in {"TEXT", "IGNORED", "PING", "CLOSE"}, f.ask \in -1 .. MaxPacket,
         NEW q, q.greeted = 101, q.asked = Asks(f, p.asked)
  PROVE  ServedBy(x, on_websocket_data(x, f), p, q)
<1> DEFINE z == [x EXCEPT !.c.state = WS_DATA]
           y == http_ws_cgi_execute(z, f)
<1>1. Stage(z) /\ Same(x, z) /\ z.c.context = x.c.context /\ z.c.done = x.c.done /\ z.c.state = WS_DATA
  BY SetState
<1> HIDE DEF z
<1>2. Serves(z.c, z.tcp, p)
  <2>1. /\ x.c.fn # "NULL" /\ x.tcp.rx = <<>> /\ Upgraded(x.c, x.tcp, p.asked)
        /\ x.c.done => x.tcp.unacked
    BY ServesUpgraded, Zenon
  <2>2. Upgraded(z.c, z.tcp, p.asked)
    BY <1>1, <2>1, Zenon DEF Upgraded, Same
  <2>3. QED
    BY <1>1, <2>1, <2>2, ServesUpgraded DEF Same
<1>3. y = OnFrame(z, f)
  <2>1. z.c.handshake_ok
    BY <1>2, ServesUpgraded, Zenon DEF Upgraded
  <2>2. f.type # "none"
    OBVIOUS
  <2>3. QED
    BY <1>1, <2>1, <2>2, Zenon DEF http_ws_cgi_execute
<1>4. ServedBy(z, y, p, q)
  <2>1. CASE f.type = "TEXT"
    <3>1. y = http_ws_handle_message(z, f.ask)
      BY <1>3, <2>1 DEF OnFrame
    <3>2. q.asked = IF f.ask \in 0 .. MaxPacket THEN f.ask ELSE p.asked
      BY <2>1, Zenon DEF Asks
    <3>3. QED
      BY <1>1, <1>2, <3>1, <3>2, MessageServed
  <2>2. CASE f.type # "TEXT"
    <3>1. q.asked = p.asked
      BY <2>2, Zenon DEF Asks
    <3>2. Serves(z.c, z.tcp, q)
      BY <1>2, <3>1, ServesUpgraded
    <3>3. CASE f.type = "IGNORED"
      <4>1. y = z
        BY <1>3, <3>3 DEF OnFrame
      <4>2. QED
        BY <1>1, <3>2, <4>1, Zenon DEF ServedBy, SentOnlyDue
    <3>4. CASE f.type = "CLOSE"
      <4>1. y = Close(z)
        BY <1>3, <3>4 DEF OnFrame
      <4>2. QED
        BY <1>1, <3>2, <4>1, CloseServed, Zenon
    <3>5. CASE f.type = "PING"
      <4> DEFINE w == http_transmit(http_write(z, [kind |-> "ping"]))
      <4>1. y = Close(w)
        BY <1>3, <3>5 DEF OnFrame
      <4>2. ServedBy(z, w, p, q) /\ w.tcp.unacked
        BY <1>1, <3>2, PingServed
      <4> HIDE DEF w, y
      <4>3. Stage(w) /\ Serves(w.c, w.tcp, q)
        BY <4>2, Zenon DEF ServedBy
      <4>4. ServedBy(w, y, p, q)
        BY <4>1, <4>3, CloseServed, Zenon
      <4>5. QED
        BY <4>2, <4>4, ServedTwice, Zenon
    <3>6. QED
      BY <2>2, <3>3, <3>4, <3>5
  <2>3. QED
    BY <2>1, <2>2
<1> HIDE DEF y
<1>5. ServedBy(x, y, p, q)
  BY <1>1, <1>4, Zenon DEF ServedBy, SentOnlyDue, Same
<1>6. QED
  BY <1>5 DEF on_websocket_data, y, z

\* Before the whole request is there, nothing happens.
LEMMA NothingYet ==
  ASSUME NEW x, Stage(x), ~x.c.handshake_ok, x.c.state # BODY_END, NEW f
  PROVE  http_ws_cgi_execute(x, f) = x
<1>1. http_ws_cgi_execute(x, f) = http_transmit(http_ws_handle_connect(x))
  BY Zenon DEF http_ws_cgi_execute
<1>2. http_ws_handle_connect(x) = x
  BY Zenon DEF http_ws_handle_connect
<1>3. QED
  BY <1>1, <1>2, NothingToSend, Zenon

StatusToken(status, hdrs) == [kind |-> "status", status |-> status, hdrs |-> hdrs]

\* http_response in an empty buffer.
LEMMA Responds ==
  ASSUME NEW x, Stage(x), NEW n
  PROVE  LET y == http_response(x, n)
         IN  /\ Ctx(y) /\ SameSlot(x, y) /\ y.tcp = x.tcp
             /\ y.c.out = <<StatusToken(n, x.c.ohdr)>>
<1> DEFINE token == StatusToken(n, x.c.ohdr)
           z == http_write(x, token)
           y == [z EXCEPT !.c.ohdr = {}]
<1>1. /\ x = [f \in {"c", "tcp"} |-> x[f]] /\ x.c = [f \in SlotFields |-> x.c[f]] /\ x.c.out = <<>>
      /\ x.tcp = [f \in TcpFields |-> x.tcp[f]] /\ x.tcp.req = [f \in RequestFields |-> x.tcp.req[f]]
      /\ x.c.context = [f \in ContextFields |-> x.c.context[f]]
  BY Zenon DEF Stage, Ctx, SlotOK
<1> HIDE DEF token
<1>2. /\ z = [f \in {"c", "tcp"} |-> z[f]] /\ z.tcp = x.tcp
      /\ z.c = [f \in SlotFields |-> z.c[f]] /\ z.c.out = Append(x.c.out, token)
      /\ z.c.esp = x.c.esp /\ z.c.state = x.c.state /\ z.c.fn = x.c.fn /\ z.c.upgrade = x.c.upgrade
      /\ z.c.handshake_ok = x.c.handshake_ok /\ z.c.done = x.c.done /\ z.c.context = x.c.context
  BY <1>1 DEF SlotFields, http_write
<1> HIDE DEF z
<1>3. /\ y = [f \in {"c", "tcp"} |-> y[f]] /\ y.tcp = z.tcp
      /\ y.c = [f \in SlotFields |-> y.c[f]] /\ y.c.out = z.c.out
      /\ y.c.esp = z.c.esp /\ y.c.state = z.c.state /\ y.c.fn = z.c.fn /\ y.c.upgrade = z.c.upgrade
      /\ y.c.handshake_ok = z.c.handshake_ok /\ y.c.done = z.c.done /\ y.c.context = z.c.context
  BY <1>2 DEF SlotFields
<1> HIDE DEF y
<1>4. Append(x.c.out, token) = <<token>>
  <2>1. Append(<<>>, token) = <<token>>
    OBVIOUS
  <2>2. QED
    BY <1>1, <2>1, Zenon
<1>5. Ctx(y)
  BY <1>1, <1>2, <1>3, Zenon DEF Ctx
<1>6. SameSlot(x, y) /\ y.tcp = x.tcp /\ y.c.out = <<token>>
  BY <1>2, <1>3, <1>4, Zenon DEF SameSlot
<1>7. y = http_response(x, n)
  BY Zenon DEF y, z, token, StatusToken, http_response
<1>8. QED
  BY <1>5, <1>6, <1>7, Zenon DEF token

\* Serves reads these fields of the slot only.
LEMMA ServesSame ==
  ASSUME NEW c, NEW d, NEW t, NEW q, Serves(c, t, q), d.fn = c.fn, d.upgrade = c.upgrade,
         d.handshake_ok = c.handshake_ok, d.done = c.done, d.context = c.context
  PROVE  Serves(d, t, q)
<1>1. d.fn # "NULL" /\ (q.greeted = 0 => ~t.unacked /\ ~d.done)
  BY Zenon DEF Serves
<1>2. (q.greeted = 400 => d.done) /\ (q.greeted # 101 => ~d.handshake_ok /\ q.asked = 0)
  <2>1. q.greeted = 400 => d.done
    BY ONLY Serves(c, t, q), d.done = c.done, Zenon DEF Serves
  <2>2. q.greeted # 101 => ~d.handshake_ok /\ q.asked = 0
    BY ONLY Serves(c, t, q), d.handshake_ok = c.handshake_ok, Zenon DEF Serves
  <2>3. QED
    BY ONLY <2>1, <2>2, Zenon
<1>3. Upgraded(c, t, q.asked) => Upgraded(d, t, q.asked)
  BY Zenon DEF Upgraded
<1>4. q.greeted = 101 => Upgraded(d, t, q.asked)
  BY <1>3, Zenon DEF Serves
<1>5. (t.rx # <<>> => q.greeted = 0) /\ (d.done => t.unacked)
  BY Zenon DEF Serves
<1>6. QED
  BY <1>1, <1>2, <1>4, <1>5, Zenon DEF Serves

\* A status is sent to a peer that has been sent nothing yet.  base is the slot
\* without the buffer that is sent.
Answers(x, y, p, q, token) ==
    /\ ServedBy(x, y, p, q) /\ y.tcp.got = <<token>> /\ y.tcp.unacked /\ y.c.upgrade = x.c.upgrade

\* A status that is sent first is due.
LEMMA StatusServed ==
  ASSUME NEW x, ~x.tcp.unacked, x.tcp.rx = <<>>, NEW p, p.greeted = 0, NEW token, NEW q,
         token.kind = "status", token.status = q.greeted,
         q.greeted = IF x.tcp.req.good THEN 101 ELSE 400,
         NEW base, Stage(base), base.tcp = x.tcp, base.c.esp = x.c.esp, base.c.upgrade = x.c.upgrade,
         \A t : t.unacked /\ t.rx = <<>> => Serves(base.c, t, q),
         NEW y, Sends(base, y, token)
  PROVE  Answers(x, y, p, q, token)
<1>1. /\ Stage(y)
      /\ ~base.tcp.unacked => y.tcp.got = <<token>>
  BY StageSends
<1>2. y.tcp.got = <<token>>
  BY <1>1, Zenon
<1>3. y.tcp.unacked /\ y.tcp.rx = <<>> /\ y.tcp.req = x.tcp.req /\ y.c.esp = x.c.esp /\ y.c.upgrade = x.c.upgrade
  <2>1. y.tcp.unacked /\ y.tcp.rx = base.tcp.rx /\ y.tcp.req = base.tcp.req /\ SameSlot(base, y)
    BY ONLY Sends(base, y, token), Zenon DEF Sends
  <2>2. y.c.esp = base.c.esp /\ y.c.upgrade = base.c.upgrade
    BY ONLY <2>1, Zenon DEF SameSlot
  <2>3. QED
    BY ONLY <2>1, <2>2, base.tcp = x.tcp, x.tcp.rx = <<>>, base.c.esp = x.c.esp, base.c.upgrade = x.c.upgrade
<1>4. Serves(base.c, y.tcp, q)
  BY <1>3, Zenon
<1>5. Serves(y.c, y.tcp, q)
  <2>1. /\ y.c.fn = base.c.fn /\ y.c.upgrade = base.c.upgrade /\ y.c.handshake_ok = base.c.handshake_ok
        /\ y.c.done = base.c.done /\ y.c.context = base.c.context
    BY Zenon DEF Sends, SameSlot
  <2>2. QED
    BY <1>4, <2>1, ServesSame, Zenon
<1>6. SentOnlyDue(x, y, p, q)
  BY <1>2 DEF SentOnlyDue, Due
<1>7. QED
  BY <1>1, <1>2, <1>3, <1>5, <1>6, Zenon DEF ServedBy, Answers

\* http_websocket_HANDSHAKE: the upgrade is accepted.
LEMMA GreetsGood ==
  ASSUME NEW x, Stage(x), ~x.c.handshake_ok, x.c.state = BODY_END, ~x.tcp.unacked, x.c.fn # "NULL",
         x.tcp.rx = <<>>, x.c.upgrade, x.tcp.req.good, NEW p, p.greeted = 0,
         NEW q, q.asked = 0, q.greeted = 101
  PROVE  Answers(x, http_ws_cgi_execute(x, NoFrame), p, q, StatusToken(101, x.c.ohdr))
<1> DEFINE token == StatusToken(101, x.c.ohdr)
           y == http_ws_cgi_execute(x, NoFrame)
           e == [x EXCEPT !.c.out = <<>>]
           r == http_response(e, 101)
           rh == [r EXCEPT !.c.handshake_ok = TRUE]
           rc == [rh EXCEPT !.c.context = NewContext]
           xh == [x EXCEPT !.c.handshake_ok = TRUE]
           base == [xh EXCEPT !.c.context = NewContext]
<1>1. /\ x = [f \in {"c", "tcp"} |-> x[f]] /\ x.c = [f \in SlotFields |-> x.c[f]] /\ x.c.out = <<>>
      /\ x.tcp = [f \in TcpFields |-> x.tcp[f]] /\ x.tcp.req = [f \in RequestFields |-> x.tcp.req[f]]
      /\ SlotOK(x.c)
  BY Zenon DEF Stage, Ctx, SlotOK
<1>2. y = http_transmit(rc)
  <2>1. y = http_transmit(http_ws_handle_connect(x))
    BY Zenon DEF http_ws_cgi_execute
  <2>2. http_ws_handle_connect(x) = rc
    BY Zenon DEF http_ws_handle_connect, ws_app_client_connected
  <2>3. QED
    BY <2>1, <2>2, Zenon
<1>3. token.kind = "status" /\ token.status = 101
  BY DEF StatusToken
<1>4. e = x
  BY <1>1 DEF SlotFields
<1> HIDE DEF e
<1>5. Ctx(r) /\ SameSlot(x, r) /\ r.tcp = x.tcp /\ r.c.out = <<token>>
  <2>1. LET z == http_response(x, 101)
        IN  Ctx(z) /\ SameSlot(x, z) /\ z.tcp = x.tcp /\ z.c.out = <<token>>
    BY Responds
  <2>2. QED
    BY <1>4, <2>1, Zenon
<1> HIDE DEF r, token, y
<1>6. ContextOK(NewContext) /\ NewContext.live /\ ~NewContext.waiting /\ ~NewContext.stream
  <2>1. /\ NewContext = [f \in ContextFields |-> NewContext[f]]
        /\ NewContext.live = TRUE /\ NewContext.stream = FALSE /\ NewContext.waiting = FALSE
        /\ NewContext.want = 0 /\ NewContext.size = 0
    BY DEF NewContext, ContextFields
  <2>2. 0 \in 0 .. MaxPacket
    BY WsAssumption
  <2>3. QED
    BY <2>1, <2>2, Zenon DEF ContextOK
<1>7. /\ xh = [f \in {"c", "tcp"} |-> xh[f]] /\ xh.tcp = x.tcp /\ xh.c = [f \in SlotFields |-> xh.c[f]]
      /\ xh.c.esp = x.c.esp /\ xh.c.state = x.c.state /\ xh.c.fn = x.c.fn /\ xh.c.upgrade = x.c.upgrade
      /\ xh.c.handshake_ok = TRUE /\ xh.c.done = x.c.done /\ xh.c.context = x.c.context /\ xh.c.out = x.c.out
  BY <1>1 DEF SlotFields
<1>8. /\ rh = [f \in {"c", "tcp"} |-> rh[f]] /\ rh.tcp = r.tcp /\ rh.c = [f \in SlotFields |-> rh.c[f]]
      /\ rh.c.esp = r.c.esp /\ rh.c.state = r.c.state /\ rh.c.fn = r.c.fn /\ rh.c.upgrade = r.c.upgrade
      /\ rh.c.handshake_ok = TRUE /\ rh.c.done = r.c.done /\ rh.c.out = r.c.out
  <2>1. r = [f \in {"c", "tcp"} |-> r[f]] /\ r.c = [f \in SlotFields |-> r.c[f]]
    BY <1>5, Zenon DEF Ctx
  <2>2. QED
    BY <2>1 DEF SlotFields
<1> HIDE DEF xh, rh
<1>9. Stage(xh)
  <2>1. SlotOK(xh.c)
    BY <1>1, <1>7, Zenon DEF SlotOK
  <2>2. QED
    BY <1>7, <2>1, StageWrites
<1>10. /\ Stage(base) /\ Same(xh, base) /\ base.c.context = NewContext /\ base.c.done = xh.c.done
       /\ base.c.state = xh.c.state
  BY ONLY <1>6, <1>9, SetContext
<1>11. /\ rc = [f \in {"c", "tcp"} |-> rc[f]] /\ rc.tcp = rh.tcp /\ rc.c = [f \in SlotFields |-> rc.c[f]]
       /\ rc.c.esp = rh.c.esp /\ rc.c.state = rh.c.state /\ rc.c.fn = rh.c.fn /\ rc.c.upgrade = rh.c.upgrade
       /\ rc.c.handshake_ok = rh.c.handshake_ok /\ rc.c.done = rh.c.done /\ rc.c.out = rh.c.out
       /\ rc.c.context = NewContext
  BY <1>8 DEF SlotFields
<1> HIDE DEF base, rc
<1>12. Sends(base, y, token)
  <2>1. rc.tcp = x.tcp /\ base.tcp = x.tcp
    BY <1>5, <1>7, <1>8, <1>10, <1>11, Zenon DEF Same
  <2>2. Ctx(base) /\ base.tcp.st = "open"
    BY <1>10, Zenon DEF Stage
  <2>3. Ctx(rc)
    <3>1. NewContext = [f \in ContextFields |-> NewContext[f]]
      BY <1>6, Zenon DEF ContextOK
    <3>2. QED
      BY ONLY <1>1, <1>11, <2>1, <3>1 DEF Ctx
  <2>4. SameSlot(base, rc)
    <3>1. /\ rc.c.esp = r.c.esp /\ rc.c.state = r.c.state /\ rc.c.fn = r.c.fn /\ rc.c.upgrade = r.c.upgrade
          /\ rc.c.handshake_ok = TRUE /\ rc.c.done = r.c.done
      BY ONLY <1>8, <1>11
    <3>2. /\ base.c.esp = x.c.esp /\ base.c.state = x.c.state /\ base.c.fn = x.c.fn /\ base.c.upgrade = x.c.upgrade
          /\ base.c.handshake_ok = TRUE /\ base.c.done = x.c.done
      BY <1>7, <1>10, Zenon DEF Same
    <3>3. QED
      BY ONLY <1>5, <1>10, <1>11, <3>1, <3>2 DEF SameSlot
  <2>5. rc.c.out = <<token>>
    BY <1>5, <1>8, <1>11, Zenon
  <2>6. Sends(base, http_transmit(rc), token)
    BY <2>1, <2>2, <2>3, <2>4, <2>5, Emits
  <2>7. QED
    BY <1>2, <2>6, Zenon
<1>13. base.tcp = x.tcp /\ base.c.esp = x.c.esp /\ base.c.upgrade = x.c.upgrade /\ base.c.fn = x.c.fn
  BY <1>7, <1>10, Zenon DEF Same
<1>14. ASSUME NEW t, t.unacked /\ t.rx = <<>>
       PROVE  Serves(base.c, t, q)
  <2>1. ~(q.asked > 0)
    OBVIOUS
  <2>2. base.c.handshake_ok /\ base.c.upgrade
    BY <1>7, <1>10, <1>13, Zenon DEF Same
  <2>3. Upgraded(base.c, t, q.asked)
    BY <1>6, <1>10, <2>1, <2>2, Zenon DEF Upgraded
  <2>4. QED
    BY <1>13, <1>14, <2>3, ServesUpgraded, Zenon
<1>15. Answers(x, y, p, q, token)
  <2>1. \A t : t.unacked /\ t.rx = <<>> => Serves(base.c, t, q)
    BY <1>14
  <2>2. token.status = q.greeted /\ q.greeted = IF x.tcp.req.good THEN 101 ELSE 400
    BY <1>3, Zenon
  <2>3. Stage(base)
    BY <1>10, Zenon
  <2>4. QED
    BY <1>3, <1>12, <1>13, <2>1, <2>2, <2>3, StatusServed, Zenon
<1>16. QED
  BY <1>15 DEF y, token

\* A handshake without the headers it needs, or a request that is none.
LEMMA GreetsBad ==
  ASSUME NEW x, Stage(x), ~x.c.handshake_ok, x.c.state = BODY_END, ~x.tcp.unacked, x.c.fn # "NULL",
         x.tcp.rx = <<>>, ~x.tcp.req.good, NEW p, p.greeted = 0,
         NEW q, q.asked = 0, q.greeted = 400
  PROVE  Answers(x, http_ws_cgi_execute(x, NoFrame), p, q, StatusToken(400, x.c.ohdr))
<1> DEFINE token == StatusToken(400, x.c.ohdr)
           y == http_ws_cgi_execute(x, NoFrame)
           r == http_response(x, 400)
           rd == [r EXCEPT !.c.done = TRUE]
           base == [x EXCEPT !.c.done = TRUE]
<1>1. /\ x.tcp = [f \in TcpFields |-> x.tcp[f]] /\ x.tcp.req = [f \in RequestFields |-> x.tcp.req[f]]
      /\ x.c.context = [f \in ContextFields |-> x.c.context[f]]
  BY Zenon DEF Stage, Ctx
<1>2. y = http_transmit(rd)
  <2>1. y = http_transmit(http_ws_handle_connect(x))
    BY Zenon DEF http_ws_cgi_execute
  <2>2. http_ws_handle_connect(x) = rd
    BY Zenon DEF http_ws_handle_connect
  <2>3. QED
    BY ONLY <2>1, <2>2
<1>3. token.kind = "status" /\ token.status = 400
  BY DEF StatusToken
<1>5. Ctx(r) /\ SameSlot(x, r) /\ r.tcp = x.tcp /\ r.c.out = <<token>>
  BY Responds
<1> HIDE DEF r, token, y
<1>8. /\ rd = [f \in {"c", "tcp"} |-> rd[f]] /\ rd.tcp = r.tcp /\ rd.c = [f \in SlotFields |-> rd.c[f]]
      /\ rd.c.esp = r.c.esp /\ rd.c.state = r.c.state /\ rd.c.fn = r.c.fn /\ rd.c.upgrade = r.c.upgrade
      /\ rd.c.handshake_ok = r.c.handshake_ok /\ rd.c.done = TRUE /\ rd.c.out = r.c.out
      /\ rd.c.context = r.c.context
  <2>1. r = [f \in {"c", "tcp"} |-> r[f]] /\ r.c = [f \in SlotFields |-> r.c[f]]
    BY <1>5, Zenon DEF Ctx
  <2>2. QED
    BY ONLY <2>1 DEF SlotFields
<1>10. /\ Stage(base) /\ Same(x, base) /\ base.c.context = x.c.context /\ base.c.done
       /\ base.c.state = x.c.state
  BY SetDone, Zenon
<1>11. base.c.done = TRUE
  <2>1. base.c.done \in BOOLEAN
    BY <1>10, Zenon DEF Stage, SlotOK
  <2> HIDE DEF base
  <2>2. QED
    BY <1>10, <2>1, Zenon
<1> HIDE DEF base, rd
<1>12. Sends(base, y, token)
  <2>1. rd.tcp = x.tcp /\ base.tcp = x.tcp
    BY ONLY <1>5, <1>8, <1>10 DEF Same
  <2>2. Ctx(base) /\ base.tcp.st = "open"
    BY <1>10, Zenon DEF Stage
  <2>3. Ctx(rd)
    <3>1. rd.c.context = x.c.context
      BY <1>5, <1>8, Zenon DEF SameSlot
    <3>2. QED
      BY ONLY <1>1, <1>8, <2>1, <3>1 DEF Ctx
  <2>4. SameSlot(base, rd)
    <3>1. rd.c.esp = base.c.esp /\ rd.c.state = base.c.state /\ rd.c.fn = base.c.fn
      BY ONLY <1>5, <1>8, <1>10 DEF Same, SameSlot
    <3>2. rd.c.upgrade = base.c.upgrade /\ rd.c.handshake_ok = base.c.handshake_ok
      BY ONLY <1>5, <1>8, <1>10 DEF Same, SameSlot
    <3>3. rd.c.done = base.c.done /\ rd.c.context = base.c.context
      BY <1>5, <1>8, <1>10, <1>11, Zenon DEF SameSlot
    <3>4. QED
      BY ONLY <3>1, <3>2, <3>3, Zenon DEF SameSlot
  <2>5. rd.c.out = <<token>>
    BY <1>5, <1>8, Zenon
  <2>6. Sends(base, http_transmit(rd), token)
    BY <2>1, <2>2, <2>3, <2>4, <2>5, Emits
  <2>7. QED
    BY <1>2, <2>6, Zenon
<1>13. /\ base.tcp = x.tcp /\ base.c.esp = x.c.esp /\ base.c.upgrade = x.c.upgrade /\ base.c.fn # "NULL"
       /\ ~base.c.handshake_ok
  BY <1>10 DEF Same
<1>14. ASSUME NEW t, t.unacked /\ t.rx = <<>>
       PROVE  Serves(base.c, t, q)
  <2>1. q.greeted # 0 /\ q.greeted # 101
    OBVIOUS
  <2>2. QED
    BY <1>10, <1>13, <1>14, <2>1, Zenon DEF Serves
<1>15. Answers(x, y, p, q, token)
  <2>1. \A t : t.unacked /\ t.rx = <<>> => Serves(base.c, t, q)
    BY <1>14
  <2>2. token.status = q.greeted /\ q.greeted = IF x.tcp.req.good THEN 101 ELSE 400
    BY <1>3, Zenon
  <2>3. Stage(base)
    BY <1>10, Zenon
  <2>4. QED
    BY <1>3, <1>12, <1>13, <2>1, <2>2, <2>3, StatusServed, Zenon
<1>16. QED
  BY <1>15 DEF y, token

\* The segment that ends the handshake: the parser's callbacks, and the same
\* segment taken for a frame.
Handshaken(x, y, q) ==
    /\ Stage(y) /\ y.c.esp = x.c.esp /\ y.tcp.rx = <<>> /\ y.tcp.req = x.tcp.req
    /\ Serves(y.c, y.tcp, q) /\ \E hdrs : y.tcp.got = <<StatusToken(q.greeted, hdrs)>>

Headed(x, u) == [x EXCEPT !.c.state = HEADERS_END, !.c.upgrade = u]

\* on_headers_complete: the state is set, and the upgrade noted.
LEMMA HeadersEnd ==
  ASSUME NEW x, Stage(x), NEW u, NEW y, y = Headed(x, u)
  PROVE  /\ Stage(y) /\ y.tcp = x.tcp /\ y.c.esp = x.c.esp /\ y.c.fn = x.c.fn /\ y.c.upgrade = u
         /\ y.c.handshake_ok = x.c.handshake_ok /\ y.c.state = HEADERS_END
<1>1. /\ x = [f \in {"c", "tcp"} |-> x[f]] /\ x.c = [f \in SlotFields |-> x.c[f]]
      /\ SlotOK(x.c)
  BY Zenon DEF Stage, Ctx
<1>2. /\ y = [f \in {"c", "tcp"} |-> y[f]] /\ y.c = [f \in SlotFields |-> y.c[f]] /\ y.tcp = x.tcp
      /\ y.c.state = HEADERS_END /\ y.c.out = x.c.out
      /\ y.c.esp = x.c.esp /\ y.c.fn = x.c.fn /\ y.c.upgrade = u
      /\ y.c.handshake_ok = x.c.handshake_ok /\ y.c.context = x.c.context /\ y.c.done = x.c.done
  BY <1>1 DEF SlotFields, Headed
<1>3. SlotOK(y.c)
  BY <1>1, <1>2, Zenon DEF SlotOK
<1>4. Stage(y)
  BY <1>2, <1>3, StageWrites
<1>5. QED
  BY <1>2, <1>4, Zenon

\* The handshake is answered, and the segment that is taken for a frame sends nothing more.
LEMMA HandshakeServed ==
  ASSUME NEW x, Stage(x), ~x.c.handshake_ok, ~x.tcp.unacked, x.c.fn # "NULL", x.tcp.rx = <<>>,
         NEW q, PeerOK(q), q.asked = 0, q.greeted = IF x.tcp.req.good THEN 101 ELSE 400
  PROVE  Handshaken(x, AfterParse(ParseEnd(x)), q)
<1> DEFINE h == [x EXCEPT !.c.state = HEADERS_END, !.c.upgrade = x.tcp.req.upgrade]
           b == [h EXCEPT !.c.state = BODY_END]
           g == http_ws_cgi_execute(b, NoFrame)
           y == AfterParse(g)
           token == StatusToken(q.greeted, b.c.ohdr)
           p == NoPeer
<1>1. /\ Stage(h) /\ h.tcp = x.tcp /\ h.c.esp = x.c.esp /\ h.c.fn = x.c.fn /\ h.c.upgrade = x.tcp.req.upgrade
      /\ h.c.handshake_ok = x.c.handshake_ok /\ h.c.state = HEADERS_END
  <2>1. h = Headed(x, x.tcp.req.upgrade)
    BY Zenon DEF Headed
  <2> HIDE DEF h
  <2>2. QED
    BY ONLY Stage(x), <2>1, HeadersEnd
<1> HIDE DEF h
<1>2. http_ws_cgi_execute(h, NoFrame) = h
  <2>1. HEADERS_END # BODY_END
    BY DEF HEADERS_END, BODY_END
  <2>2. ~h.c.handshake_ok /\ h.c.state # BODY_END
    BY <1>1, <2>1, Zenon
  <2>3. Stage(h)
    BY <1>1, Zenon
  <2>4. QED
    BY <2>2, <2>3, NothingYet
<1>3. ParseEnd(x) = g
  BY <1>2, Zenon DEF ParseEnd, h
<1>4. Stage(b) /\ Same(h, b) /\ b.c.state = BODY_END
  BY <1>1, SetState
<1> HIDE DEF b
<1>5. /\ b.tcp = x.tcp /\ b.c.esp = x.c.esp /\ b.c.fn = x.c.fn /\ b.c.upgrade = x.tcp.req.upgrade
      /\ b.c.handshake_ok = x.c.handshake_ok
  BY ONLY <1>1, <1>4 DEF Same
<1>6. ~b.c.handshake_ok /\ ~b.tcp.unacked /\ b.c.fn # "NULL" /\ b.tcp.rx = <<>>
  BY <1>5, Zenon
<1>7. p.greeted = 0
  BY DEF NoPeer
<1> HIDE DEF p
<1>8. Answers(b, g, p, q, token)
  <2>1. CASE x.tcp.req.good
    <3>1. b.c.upgrade /\ b.tcp.req.good /\ q.greeted = 101
      BY <1>5, <2>1, Zenon DEF Stage, TcpOK
    <3>2. Answers(b, g, p, q, StatusToken(101, b.c.ohdr))
      BY <1>4, <1>6, <1>7, <3>1, GreetsGood, Zenon
    <3>3. QED
      BY <3>1, <3>2, Zenon
  <2>2. CASE ~x.tcp.req.good
    <3>1. ~b.tcp.req.good /\ q.greeted = 400
      BY <1>5, <2>2, Zenon
    <3>2. Answers(b, g, p, q, StatusToken(400, b.c.ohdr))
      BY <1>4, <1>6, <1>7, <3>1, GreetsBad
    <3>3. QED
      BY <3>1, <3>2, Zenon
  <2>3. QED
    BY <2>1, <2>2
<1> HIDE DEF g, token
<1>9. /\ Stage(g) /\ g.c.esp = x.c.esp /\ g.tcp.rx = <<>> /\ g.tcp.req = x.tcp.req /\ Serves(g.c, g.tcp, q)
      /\ g.tcp.got = <<token>> /\ g.tcp.unacked /\ g.c.upgrade = x.tcp.req.upgrade
  BY <1>5, <1>6, <1>8, Zenon DEF Answers, ServedBy
<1>10. Handshaken(x, g, q)
  BY <1>9, Zenon DEF Handshaken, token
<1>11. CASE ~g.c.upgrade
  <2>1. y = g
    BY <1>11, Zenon DEF AfterParse
  <2>2. QED
    BY <1>3, <1>10, <2>1, Zenon
<1>12. CASE g.c.upgrade
  <2> DEFINE f == First(g.tcp.req)
  <2>1. y = on_websocket_data(g, f)
    BY <1>12, Zenon DEF AfterParse
  <2>2. f.type \in {"TEXT", "IGNORED", "PING", "CLOSE"} /\ f.ask = -1
    <3>1. g.tcp.req.first \in {"whole", "TEXT", "CLOSE", "IGNORED"}
      BY <1>9, Zenon DEF Stage, TcpOK
    <3>2. QED
      BY <3>1 DEF First, Frame
  <2> HIDE DEF f, y
  <2>3. CASE x.tcp.req.good
    <3>1. q.greeted = 101
      BY <2>3, Zenon
    <3>2. -1 \notin 0 .. MaxPacket /\ -1 \in -1 .. MaxPacket
      BY WsAssumption
    <3>3. q.asked = Asks(f, q.asked)
      BY ONLY <2>2, <3>2 DEF Asks
    <3>4. ServedBy(g, y, q, q)
      BY <1>9, <2>1, <2>2, <3>1, <3>2, <3>3, FrameServed
    <3>5. y.tcp.got = <<token>>
      BY <1>9, <3>4, Zenon DEF ServedBy, SentOnlyDue
    <3>6. QED
      BY <1>3, <1>9, <3>4, <3>5, Zenon DEF Handshaken, ServedBy, y, token
  <2>4. CASE ~x.tcp.req.good
    <3> DEFINE w == [g EXCEPT !.c.state = WS_DATA]
    <3>1. q.greeted = 400 /\ q.greeted # 101
      BY <2>4
    <3>2. ~g.c.handshake_ok
      BY <1>9, <3>1, Zenon DEF Serves
    <3>3. Stage(w) /\ Same(g, w) /\ w.c.context = g.c.context /\ w.c.done = g.c.done /\ w.c.state = WS_DATA
      BY <1>9, SetState
    <3>4. y = http_ws_cgi_execute(w, f)
      BY <2>1, Zenon DEF on_websocket_data
    <3> HIDE DEF w
    <3>5. WS_DATA # BODY_END
      BY DEF WS_DATA, BODY_END
    <3>6. ~w.c.handshake_ok /\ w.c.state # BODY_END
      BY <3>2, <3>3, <3>5, Zenon DEF Same
    <3>7. y = w
      BY ONLY <3>3, <3>4, <3>6, NothingYet
    <3>8. Serves(w.c, g.tcp, q)
      BY <1>9, <3>3, ServesSame, Zenon DEF Same
    <3>9. w.tcp = g.tcp /\ w.c.esp = g.c.esp
      BY <3>3, Zenon DEF Same
    <3>10. Handshaken(x, w, q)
      BY ONLY <1>9, <3>3, <3>8, <3>9 DEF Handshaken, token
    <3>11. QED
      BY <1>3, <3>7, <3>10, Zenon DEF y
  <2>5. QED
    BY <2>3, <2>4
<1>13. QED
  BY <1>11, <1>12

-----------------------------------------------------------------------------
(* The pool, the connections and their peers after a callback              *)

\* What a slot says of the connection k; the only slot that may hold k.
Holds(c, k, t, q) == c.esp = k => t.st # "free" /\ (t.st = "open" => Serves(c, t, q))
OnlySlot(s, k) == \A u \in Slots \ {s} : slot[u].esp # k

\* A step that concerns the connection k and the slot s, which holds it before,
\* afterwards or both.
OneConnection(s, k, c, t, q) ==
    /\ OnlySlot(s, k) /\ Holds(c, k, t, q) /\ c.esp \in {k, Nobody}
    /\ SlotOK(c) /\ slot' = [slot EXCEPT ![s] = c]
    /\ TcpOK(t) /\ tcp' = [tcp EXCEPT ![k] = t]
    /\ PeerOK(q) /\ peer' = [peer EXCEPT ![k] = q]

\* The invariant after a step of one connection.
LEMMA ConnectionStep ==
  ASSUME WsIndInv, NEW k \in Conns, NEW s \in Slots, NEW c, NEW t, NEW q, OneConnection(s, k, c, t, q)
  PROVE  WsIndInv'
<1> /\ OnlySlot(s, k) /\ Holds(c, k, t, q) /\ c.esp \in {k, Nobody}
    /\ SlotOK(c) /\ slot' = [slot EXCEPT ![s] = c]
    /\ TcpOK(t) /\ tcp' = [tcp EXCEPT ![k] = t]
    /\ PeerOK(q) /\ peer' = [peer EXCEPT ![k] = q]
  BY Zenon DEF OneConnection
<1>1. /\ slot = [u \in Slots |-> slot[u]] /\ \A u \in Slots : SlotOK(slot[u])
      /\ tcp = [j \in Conns |-> tcp[j]] /\ \A j \in Conns : TcpOK(tcp[j])
      /\ peer = [j \in Conns |-> peer[j]] /\ \A j \in Conns : PeerOK(peer[j])
      /\ \A u \in Slots : Owned(u)
  BY Zenon DEF WsIndInv
<1>2. /\ slot' = [u \in Slots |-> slot'[u]] /\ slot'[s] = c /\ \A u \in Slots \ {s} : slot'[u] = slot[u]
  BY <1>1
<1>3. /\ tcp' = [j \in Conns |-> tcp'[j]] /\ tcp'[k] = t /\ \A j \in Conns \ {k} : tcp'[j] = tcp[j]
  BY <1>1
<1>4. /\ peer' = [j \in Conns |-> peer'[j]] /\ peer'[k] = q /\ \A j \in Conns \ {k} : peer'[j] = peer[j]
  BY <1>1
<1>5. \A u \in Slots : SlotOK(slot'[u])
  BY <1>1, <1>2, Zenon
<1>6. \A j \in Conns : TcpOK(tcp'[j])
  BY <1>1, <1>3, Zenon
<1>7. \A j \in Conns : PeerOK(peer'[j])
  BY <1>1, <1>4, Zenon
<1>8. ASSUME NEW u \in Slots, slot'[u].esp \in Conns
      PROVE  /\ tcp'[slot'[u].esp].st # "free"
             /\ \A v \in Slots : slot'[v].esp = slot'[u].esp => v = u
             /\ tcp'[slot'[u].esp].st = "open" => Serves(slot'[u], tcp'[slot'[u].esp], peer'[slot'[u].esp])
  <2>1. CASE u = s
    <3>1. slot'[u].esp = k
      BY <1>2, <1>8, <2>1, WsAssumption
    <3>2. \A v \in Slots : slot'[v].esp = k => v = u
      BY <1>2, <2>1, <3>1, Zenon DEF OnlySlot
    <3>3. slot'[u] = c /\ c.esp = k
      BY <1>2, <2>1, <3>1, Zenon
    <3>4. t.st # "free" /\ (t.st = "open" => Serves(c, t, q))
      BY <3>3, Zenon DEF Holds
    <3>5. QED
      BY <1>3, <1>4, <3>1, <3>2, <3>3, <3>4, Zenon
  <2>2. CASE u # s
    <3> DEFINE j == slot[u].esp
    <3>1. slot'[u] = slot[u] /\ j # k /\ j \in Conns
      BY <1>2, <1>8, <2>2, Zenon DEF OnlySlot
    <3>2. tcp'[j] = tcp[j] /\ peer'[j] = peer[j]
      BY <1>3, <1>4, <3>1, Zenon
    <3>3. /\ tcp[j].st # "free" /\ \A v \in Slots : slot[v].esp = j => v = u
          /\ tcp[j].st = "open" => Serves(slot[u], tcp[j], peer[j])
      BY <1>1, <3>1, Zenon DEF Owned
    <3>4. \A v \in Slots : slot'[v].esp = j => v = u
      <4>1. slot'[s].esp # j
        BY <1>2, <3>1, WsAssumption
      <4>2. QED
        BY <1>2, <3>3, <4>1, Zenon
    <3>5. QED
      BY <3>1, <3>2, <3>3, <3>4, Zenon
  <2>3. QED
    BY <2>1, <2>2
<1>9. \A u \in Slots : Owned(u)'
  BY <1>8, Zenon DEF Owned
<1>10. QED
  BY <1>2, <1>3, <1>4, <1>5, <1>6, <1>7, <1>9, Zenon DEF WsIndInv, Slots

\* The connection k is being closed; the pool is as it was.
LEMMA ConnectionLost ==
  ASSUME WsIndInv, NEW k \in Conns, slot' = slot,
         NEW t, TcpOK(t), t.st = "closing", tcp' = [tcp EXCEPT ![k] = t],
         NEW q, PeerOK(q), peer' = [peer EXCEPT ![k] = q]
  PROVE  WsIndInv'
<1>1. /\ slot = [u \in Slots |-> slot[u]] /\ \A u \in Slots : SlotOK(slot[u])
      /\ tcp = [j \in Conns |-> tcp[j]] /\ \A j \in Conns : TcpOK(tcp[j])
      /\ peer = [j \in Conns |-> peer[j]] /\ \A j \in Conns : PeerOK(peer[j])
      /\ \A u \in Slots : Owned(u)
  BY Zenon DEF WsIndInv
<1>3. /\ tcp' = [j \in Conns |-> tcp'[j]] /\ tcp'[k] = t /\ \A j \in Conns \ {k} : tcp'[j] = tcp[j]
  BY <1>1
<1>4. /\ peer' = [j \in Conns |-> peer'[j]] /\ peer'[k] = q /\ \A j \in Conns \ {k} : peer'[j] = peer[j]
  BY <1>1
<1>6. \A j \in Conns : TcpOK(tcp'[j])
  BY <1>1, <1>3, Zenon
<1>7. \A j \in Conns : PeerOK(peer'[j])
  BY <1>1, <1>4, Zenon
<1>8. ASSUME NEW u \in Slots, slot[u].esp \in Conns
      PROVE  /\ tcp'[slot[u].esp].st # "free"
             /\ \A v \in Slots : slot[v].esp = slot[u].esp => v = u
             /\ tcp'[slot[u].esp].st = "open" => Serves(slot[u], tcp'[slot[u].esp], peer'[slot[u].esp])
  <2> DEFINE j == slot[u].esp
  <2>1. /\ tcp[j].st # "free" /\ \A v \in Slots : slot[v].esp = j => v = u
        /\ tcp[j].st = "open" => Serves(slot[u], tcp[j], peer[j])
    BY <1>1, <1>8, Zenon DEF Owned
  <2>2. CASE j = k
    <3>1. "closing" # "free" /\ "closing" # "open"
      OBVIOUS
    <3>2. tcp'[j].st = "closing"
      BY <1>3, <2>2, Zenon
    <3>3. QED
      BY <2>1, <3>1, <3>2, Zenon
  <2>3. CASE j # k
    <3>1. tcp'[j] = tcp[j] /\ peer'[j] = peer[j]
      BY <1>3, <1>4, <1>8, <2>3, Zenon
    <3>2. QED
      BY <2>1, <3>1, Zenon
  <2>4. QED
    BY <2>2, <2>3
<1>9. \A u \in Slots : Owned(u)'
  BY <1>8, Zenon DEF Owned
<1>10. QED
  BY <1>1, <1>3, <1>4, <1>6, <1>7, <1>9, Zenon DEF WsIndInv, Slots

\* What Commit keeps of a connection.
Settled(t) ==
    [t EXCEPT !.refused = FALSE, !.byServer = FALSE, !.got = IF t.st = "open" THEN @ ELSE <<>>,
              !.req.first = IF t.rx = <<>> THEN "whole" ELSE @]

\* The fields of a connection after Commit.
LEMMA SettledFields ==
  ASSUME NEW t, t = [f \in TcpFields |-> t[f]], t.req = [f \in RequestFields |-> t.req[f]]
  PROVE  LET u == Settled(t)
         IN  /\ u = [f \in TcpFields |-> u[f]] /\ u.req = [f \in RequestFields |-> u.req[f]]
             /\ u.st = t.st /\ u.est = t.est /\ u.unacked = t.unacked /\ u.rx = t.rx
             /\ u.req.good = t.req.good /\ u.req.upgrade = t.req.upgrade
             /\ u.got = IF t.st = "open" THEN t.got ELSE <<>>
             /\ u.req.first = IF t.rx = <<>> THEN "whole" ELSE t.req.first
  BY DEF TcpFields, RequestFields, Settled

\* Commit keeps an open connection in order.
LEMMA SettledOpen ==
  ASSUME NEW t, TcpOK(t), t.st = "open"
  PROVE  LET u == Settled(t)
         IN  TcpOK(u) /\ u.st = "open" /\ u.unacked = t.unacked /\ u.rx = t.rx /\ u.got = t.got
<1> DEFINE u == Settled(t)
<1>1. t = [f \in TcpFields |-> t[f]] /\ t.req = [f \in RequestFields |-> t.req[f]]
  BY Zenon DEF TcpOK
<1>2. /\ u = [f \in TcpFields |-> u[f]] /\ u.req = [f \in RequestFields |-> u.req[f]]
      /\ u.st = t.st /\ u.est = t.est /\ u.unacked = t.unacked /\ u.rx = t.rx
      /\ u.req.good = t.req.good /\ u.req.upgrade = t.req.upgrade
      /\ u.got = IF t.st = "open" THEN t.got ELSE <<>>
      /\ u.req.first = IF t.rx = <<>> THEN "whole" ELSE t.req.first
  BY <1>1, SettledFields
<1> HIDE DEF u
<1>3. u.got = t.got
  BY <1>2, Zenon
<1>4. u.req.first \in {"whole", "TEXT", "CLOSE", "IGNORED"}
  BY <1>2, Zenon DEF TcpOK
<1>5. /\ u.req.good => u.req.upgrade
      /\ ~u.unacked => u.got = <<>>
      /\ u.got = <<>> \/ \E p : u.got = <<p>>
  BY <1>2, <1>3, Zenon DEF TcpOK
<1>6. /\ u.st \in {"free", "open", "closing"} /\ u.rx \in {<<>>, <<"end">>, <<"start", "end">>}
      /\ u.st = "open" => u.est # "CLOSE"
      /\ u.st = "open"
  BY <1>2, Zenon DEF TcpOK
<1>7. TcpOK(u)
  BY <1>2, <1>4, <1>5, <1>6, Zenon DEF TcpOK
<1>8. QED
  BY <1>2, <1>3, <1>6, <1>7 DEF u

\* A connection that the server is closing.
Closing(t) ==
    /\ t = [f \in TcpFields |-> t[f]] /\ t.req = [f \in RequestFields |-> t.req[f]]
    /\ t.st = "closing" /\ t.est = "CLOSE"
    /\ t.req.good => t.req.upgrade
    /\ t.req.first \in {"whole", "TEXT", "CLOSE", "IGNORED"}
    /\ t.rx \in {<<>>, <<"end">>, <<"start", "end">>}

\* Commit puts a connection in order that is being closed.
LEMMA SettledClosing ==
  ASSUME NEW t, Closing(t)
  PROVE  LET u == Settled(t)
         IN  TcpOK(u) /\ u.st = "closing" /\ u.got = <<>>
<1> DEFINE u == Settled(t)
<1>1. t = [f \in TcpFields |-> t[f]] /\ t.req = [f \in RequestFields |-> t.req[f]]
  BY Zenon DEF Closing
<1>2. /\ u = [f \in TcpFields |-> u[f]] /\ u.req = [f \in RequestFields |-> u.req[f]]
      /\ u.st = t.st /\ u.est = t.est /\ u.unacked = t.unacked /\ u.rx = t.rx
      /\ u.req.good = t.req.good /\ u.req.upgrade = t.req.upgrade
      /\ u.got = IF t.st = "open" THEN t.got ELSE <<>>
      /\ u.req.first = IF t.rx = <<>> THEN "whole" ELSE t.req.first
  BY <1>1, SettledFields
<1> HIDE DEF u
<1>3. "closing" # "open" /\ "closing" \in {"free", "open", "closing"}
  OBVIOUS
<1>4. u.got = <<>> /\ u.st = "closing" /\ u.est = "CLOSE"
  BY <1>2, <1>3, Zenon DEF Closing
<1>5. u.req.first \in {"whole", "TEXT", "CLOSE", "IGNORED"}
  BY <1>2, Zenon DEF Closing
<1>6. /\ u.req.good => u.req.upgrade
      /\ u.rx \in {<<>>, <<"end">>, <<"start", "end">>}
  BY <1>2, Zenon DEF Closing
<1>7. TcpOK(u)
  BY <1>2, <1>3, <1>4, <1>5, <1>6, Zenon DEF TcpOK
<1>8. QED
  BY <1>4, <1>7 DEF u

\* What Commit notes of the peer.
Noted(p, asked, g) == [p EXCEPT !.asked = asked, !.greeted = IF @ = 0 THEN g ELSE @]

\* The fields of a peer after Commit.
LEMMA PeerNoted ==
  ASSUME NEW p, PeerOK(p), NEW asked \in 0 .. MaxPacket, NEW g \in {0, 101, 400}
  PROVE  LET q == Noted(p, asked, g)
         IN  PeerOK(q) /\ q.asked = asked /\ q.greeted = IF p.greeted = 0 THEN g ELSE p.greeted
  BY DEF PeerOK, Noted

\* Commit, written with one value per variable.
LEMMA CommitIs ==
  ASSUME WsIndInv, NEW k \in Conns, NEW s \in Slots, NEW x, NEW asked, Commit(s, k, x, asked)
  PROVE  /\ slot' = [slot EXCEPT ![s] = x.c]
         /\ tcp' = [tcp EXCEPT ![k] = Settled(x.tcp)]
         /\ peer' = [peer EXCEPT ![k] = Noted(peer[k], asked, Greeting(x))]
<1>1. peer = [j \in Conns |-> peer[j]] /\ tcp = [j \in Conns |-> tcp[j]]
  BY Zenon DEF WsIndInv
<1>2. peer[k] = [f \in {"greeted", "asked"} |-> peer[k][f]]
  <2>1. PeerOK(peer[k])
    BY Zenon DEF WsIndInv
  <2>2. QED
    BY <2>1, Zenon DEF PeerOK
<1>3. slot' = [slot EXCEPT ![s] = x.c]
  BY Zenon DEF Commit
<1>4. tcp' = [tcp EXCEPT ![k] = Settled(x.tcp)]
  BY DEF Commit, Settled
<1>5. peer' = [peer EXCEPT ![k].asked = asked, ![k].greeted = IF @ = 0 THEN Greeting(x) ELSE @]
  BY Zenon DEF Commit
<1>6. peer' = [peer EXCEPT ![k] = Noted(peer[k], asked, Greeting(x))]
  BY <1>1, <1>2, <1>5 DEF Noted
<1>7. QED
  BY <1>3, <1>4, <1>6

\* Serves reads these fields of the connection only.
LEMMA ServesTcp ==
  ASSUME NEW c, NEW t, NEW u, NEW q, Serves(c, t, q), u.unacked = t.unacked, u.rx = t.rx
  PROVE  Serves(c, u, q)
<1>1. (u.rx # <<>> => q.greeted = 0) /\ (q.greeted = 0 => ~u.unacked /\ ~c.done)
  BY Zenon DEF Serves
<1>2. Upgraded(c, t, q.asked) => Upgraded(c, u, q.asked)
  BY Zenon DEF Upgraded
<1>3. (q.greeted = 101 => Upgraded(c, u, q.asked)) /\ (c.done => u.unacked)
  BY <1>2, Zenon DEF Serves
<1>4. QED
  BY <1>1, <1>3, Zenon DEF Serves

\* A connection is in one slot.
LEMMA OwnSlot ==
  ASSUME WsIndInv, NEW k \in Conns, NEW s \in Slots, slot[s].esp = k
  PROVE  OnlySlot(s, k)
  BY Zenon DEF WsIndInv, Owned, OnlySlot

\* Commit of a connection that is served.
LEMMA CommitOpen ==
  ASSUME WsIndInv, NEW k \in Conns, NEW s \in Slots, slot[s].esp = k,
         NEW x, Stage(x), x.c.esp = k, NEW asked \in 0 .. MaxPacket, Commit(s, k, x, asked),
         NEW g \in {0, 101, 400}, peer[k].greeted = 0 => Greeting(x) = g,
         Serves(x.c, x.tcp, Noted(peer[k], asked, g))
  PROVE  WsIndInv' /\ tcp'[k].got = x.tcp.got /\ peer'[k] = Noted(peer[k], asked, g)
<1> DEFINE t == Settled(x.tcp)
           q == Noted(peer[k], asked, g)
<1>1. /\ slot' = [slot EXCEPT ![s] = x.c]
      /\ tcp' = [tcp EXCEPT ![k] = t]
      /\ peer' = [peer EXCEPT ![k] = Noted(peer[k], asked, Greeting(x))]
  BY CommitIs
<1>2. PeerOK(peer[k]) /\ peer = [j \in Conns |-> peer[j]] /\ tcp = [j \in Conns |-> tcp[j]]
  BY Zenon DEF WsIndInv
<1>3. peer' = [peer EXCEPT ![k] = q]
  <2>1. q = Noted(peer[k], asked, Greeting(x))
    BY <1>2 DEF PeerOK, Noted
  <2>2. QED
    BY <1>1, <2>1, Zenon
<1>4. PeerOK(q)
  BY <1>2, PeerNoted
<1>5. TcpOK(t) /\ t.st = "open" /\ t.unacked = x.tcp.unacked /\ t.rx = x.tcp.rx /\ t.got = x.tcp.got
  BY SettledOpen, Zenon DEF Stage
<1> HIDE DEF t, q
<1>6. Serves(x.c, t, q)
  BY <1>5, ServesTcp DEF q
<1>7. SlotOK(x.c)
  BY Zenon DEF Stage
<1>8. t.st # "free"
  BY <1>5
<1>9. WsIndInv'
  <2>1. OnlySlot(s, k) /\ x.c.esp \in {k, Nobody}
    BY OwnSlot
  <2>2. Holds(x.c, k, t, q)
    BY <1>6, <1>8, Zenon DEF Holds
  <2>3. TcpOK(t) /\ slot' = [slot EXCEPT ![s] = x.c] /\ tcp' = [tcp EXCEPT ![k] = t]
    BY <1>1, <1>5, Zenon
  <2>4. OneConnection(s, k, x.c, t, q)
    BY <1>3, <1>4, <1>7, <2>1, <2>2, <2>3, Zenon DEF OneConnection
  <2>5. QED
    BY ONLY <2>4, ConnectionStep, WsIndInv, k \in Conns, s \in Slots
<1>10. tcp'[k] = t /\ peer'[k] = q
  BY <1>1, <1>2, <1>3
<1>11. QED
  BY <1>5, <1>9, <1>10, Zenon DEF q

\* Commit of a connection that is being closed, and whose slot is free.
LEMMA CommitClosing ==
  ASSUME WsIndInv, NEW k \in Conns, NEW s \in Slots, slot[s].esp = k,
         NEW x, x.c.esp = Nobody, SlotOK(x.c), Closing(x.tcp), Greeting(x) = 0,
         Commit(s, k, x, peer[k].asked)
  PROVE  WsIndInv' /\ tcp'[k].got = <<>>
<1> DEFINE t == Settled(x.tcp)
           q == Noted(peer[k], peer[k].asked, 0)
<1>1. /\ slot' = [slot EXCEPT ![s] = x.c]
      /\ tcp' = [tcp EXCEPT ![k] = t]
      /\ peer' = [peer EXCEPT ![k] = q]
  BY CommitIs
<1>2. PeerOK(peer[k]) /\ peer[k].asked \in 0 .. MaxPacket /\ tcp = [j \in Conns |-> tcp[j]]
  <2>1. PeerOK(peer[k]) /\ tcp = [j \in Conns |-> tcp[j]]
    BY ONLY WsIndInv, k \in Conns, Zenon DEF WsIndInv
  <2>2. QED
    BY ONLY <2>1, Zenon DEF PeerOK
<1>3. PeerOK(q)
  BY <1>2, PeerNoted
<1>4. TcpOK(t) /\ t.st = "closing" /\ t.got = <<>>
  BY SettledClosing, Zenon
<1> HIDE DEF t, q
<1>5. x.c.esp # k /\ x.c.esp \in {k, Nobody}
  BY WsAssumption
<1>6. WsIndInv'
  <2>1. OnlySlot(s, k) /\ Holds(x.c, k, t, q)
    BY <1>5, OwnSlot, Zenon DEF Holds
  <2>2. OneConnection(s, k, x.c, t, q)
    BY <1>1, <1>3, <1>4, <1>5, <2>1, Zenon DEF OneConnection
  <2>3. QED
    BY <2>2, ConnectionStep, Zenon
<1>7. tcp'[k] = t
  BY <1>1, <1>2
<1>8. QED
  BY <1>4, <1>6, <1>7, Zenon

-----------------------------------------------------------------------------
(* The slot a callback is for, and its context                             *)

\* A set of numbers has a least one.
LEMMA LeastSlot ==
  ASSUME NEW S \in SUBSET Nat, S # {}
  PROVE  \E n \in S : \A m \in S : n <= m
<1>1. PICK n \in S : \A m \in S : ~(<<m, n>> \in OpToRel(<, Nat))
  BY NatLessThanWellFounded, WFMin
<1>2. \A m \in S : ~(m < n)
  BY <1>1 DEF OpToRel
<1>3. QED
  BY <1>2

\* http_process_find_connection finds a slot that holds the connection, if there is one.
LEMMA FindsConnection ==
  ASSUME NEW k, SlotsOf(k) # {}
  PROVE  LET s == http_process_find_connection(k)
         IN  s \in Slots /\ slot[s].esp = k
<1>1. SlotsOf(k) \in SUBSET Nat
  BY DEF SlotsOf, Slots
<1>2. \E n \in SlotsOf(k) : \A m \in SlotsOf(k) : n <= m
  BY <1>1, LeastSlot
<1>3. http_process_find_connection(k) \in SlotsOf(k)
  BY <1>2, Zenon DEF http_process_find_connection
<1>4. QED
  BY <1>3, Zenon DEF SlotsOf

\* The context of the slot s, which holds the open connection k.
Opened(s, k) == s \in Slots /\ k \in Conns /\ slot[s].esp = k /\ tcp[k].st = "open"

\* An open connection in its slot is served.
LEMMA OpenContext ==
  ASSUME WsIndInv, NEW s, NEW k, Opened(s, k)
  PROVE  LET x == Context(s, k)
         IN  /\ Stage(x) /\ x.c = slot[s] /\ x.tcp = tcp[k] /\ x.c.esp = k
             /\ Serves(x.c, x.tcp, peer[k]) /\ PeerOK(peer[k])
<1> DEFINE x == Context(s, k)
<1>1. x = [f \in {"c", "tcp"} |-> x[f]] /\ x.c = slot[s] /\ x.tcp = tcp[k]
  BY DEF Context
<1> HIDE DEF x
<1>2. SlotOK(slot[s]) /\ TcpOK(tcp[k]) /\ PeerOK(peer[k]) /\ Owned(s)
  BY Zenon DEF WsIndInv, Opened
<1>3. /\ slot[s] = [f \in SlotFields |-> slot[s][f]]
      /\ slot[s].context = [f \in ContextFields |-> slot[s].context[f]]
      /\ tcp[k] = [f \in TcpFields |-> tcp[k][f]] /\ tcp[k].req = [f \in RequestFields |-> tcp[k].req[f]]
  BY <1>2, Zenon DEF SlotOK, ContextOK, TcpOK
<1>4. Ctx(x)
  BY <1>1, <1>3, Zenon DEF Ctx
<1>5. Stage(x)
  BY <1>1, <1>2, <1>4, Zenon DEF Stage, Opened
<1>6. Serves(slot[s], tcp[k], peer[k])
  BY <1>2, Zenon DEF Owned, Opened
<1>7. QED
  BY <1>1, <1>2, <1>5, <1>6, Zenon DEF x, Opened

\* The connection alone is written.
LEMMA SetTcp ==
  ASSUME NEW x, Stage(x), NEW t, TcpOK(t), t.st = "open"
  PROVE  LET y == [x EXCEPT !.tcp = t]
         IN  Stage(y) /\ y.c = x.c /\ y.tcp = t
<1> DEFINE y == [x EXCEPT !.tcp = t]
<1>1. x = [f \in {"c", "tcp"} |-> x[f]]
  BY Zenon DEF Stage, Ctx
<1>2. y = [f \in {"c", "tcp"} |-> y[f]] /\ y.c = x.c /\ y.tcp = t
  BY <1>1
<1> HIDE DEF y
<1>3. t = [f \in TcpFields |-> t[f]] /\ t.req = [f \in RequestFields |-> t.req[f]]
  BY Zenon DEF TcpOK
<1>4. Ctx(y)
  BY <1>2, <1>3, Zenon DEF Stage, Ctx
<1>5. QED
  BY <1>2, <1>4, Zenon DEF Stage, y

\* AfterReceive marks the connection, and nothing else.
LEMMA AfterReceiveIs ==
  ASSUME NEW y, Stage(y)
  PROVE  LET z == AfterReceive(y)
         IN  /\ Stage(z) /\ z.c = y.c /\ z.tcp.unacked = y.tcp.unacked /\ z.tcp.rx = y.tcp.rx
             /\ z.tcp.got = y.tcp.got
<1> DEFINE t == [y.tcp EXCEPT !.est = "CONNECT"]
           z == [y EXCEPT !.tcp = t]
<1>1. y = [f \in {"c", "tcp"} |-> y[f]] /\ y.tcp = [f \in TcpFields |-> y.tcp[f]] /\ TcpOK(y.tcp) /\ y.tcp.st = "open"
  BY Zenon DEF Stage, Ctx
<1>2. /\ t = [f \in TcpFields |-> t[f]] /\ t.st = y.tcp.st /\ t.est = "CONNECT" /\ t.unacked = y.tcp.unacked
      /\ t.got = y.tcp.got /\ t.req = y.tcp.req /\ t.rx = y.tcp.rx
  BY <1>1 DEF TcpFields
<1>3. AfterReceive(y) = z
  <2>1. [y EXCEPT !.tcp.est = "CONNECT"] = z
    BY <1>1
  <2>2. QED
    BY <1>1, <2>1, Zenon DEF AfterReceive
<1> HIDE DEF t
<1>4. TcpOK(t) /\ t.st = "open"
  <2>1. "CONNECT" # "CLOSE"
    OBVIOUS
  <2>2. QED
    BY <1>1, <1>2, <2>1, Zenon DEF TcpOK
<1>5. Stage(z) /\ z.c = y.c /\ z.tcp = t
  BY <1>4, SetTcp
<1> HIDE DEF z
<1>6. QED
  BY <1>2, <1>3, <1>5, Zenon

-----------------------------------------------------------------------------
(* One lemma per callback: the invariant, and what the peer is sent        *)

SentDue(k) == tcp'[k].got = <<>> \/ \E token : /\ tcp'[k].got = <<token>>
                                               /\ Due(token, peer[k], peer'[k], tcp[k].req)
NothingNew(k) == tcp'[k].got = tcp[k].got

\* ReceiveFrame.
LEMMA FrameStep ==
  ASSUME WsIndInv, NEW k \in Conns, NEW f \in Frames, ReceiveFrame(k, f)
  PROVE  WsIndInv' /\ (NothingNew(k) \/ SentDue(k))
<1> DEFINE s == http_process_find_connection(k)
           x == Context(s, k)
           y == on_websocket_data(x, f)
           z == AfterReceive(y)
           p == peer[k]
           asked == Asks(f, p.asked)
           q == Noted(p, asked, 0)
<1>1. tcp[k].st = "open" /\ p.greeted = 101 /\ SlotsOf(k) # {} /\ Commit(s, k, z, asked)
  BY Zenon DEF ReceiveFrame
<1>2. s \in Slots /\ slot[s].esp = k
  BY <1>1, FindsConnection
<1> HIDE DEF s
<1>3. Opened(s, k)
  BY <1>1, <1>2, Zenon DEF Opened
<1>4. Stage(x) /\ x.tcp = tcp[k] /\ x.c.esp = k /\ Serves(x.c, x.tcp, p) /\ PeerOK(p)
  BY <1>3, OpenContext, Zenon
<1> HIDE DEF x
<1>5. f.type \in {"TEXT", "IGNORED", "PING", "CLOSE"} /\ f.ask \in -1 .. MaxPacket
  <2>1. f \in {Frame("TEXT", n) : n \in -1 .. MaxPacket} \cup {Frame(t, -1) : t \in {"IGNORED", "PING", "CLOSE"}}
    BY Zenon DEF Frames
  <2>2. -1 \in -1 .. MaxPacket
    BY WsAssumption
  <2>3. QED
    BY <2>1, <2>2 DEF Frame
<1>6. asked \in 0 .. MaxPacket
  BY <1>4, <1>5, Zenon DEF Asks, PeerOK
<1> HIDE DEF asked
<1>7. q.greeted = 101 /\ q.asked = asked /\ 101 # 0
  BY <1>1, <1>4, <1>6, PeerNoted
<1> HIDE DEF p, q
<1>8. ServedBy(x, y, p, q)
  BY <1>1, <1>4, <1>5, <1>7, FrameServed DEF asked
<1> HIDE DEF y
<1>9. Stage(y) /\ y.c.esp = k /\ Serves(y.c, y.tcp, q) /\ SentOnlyDue(x, y, p, q)
  BY <1>4, <1>8, Zenon DEF ServedBy
<1>10. /\ Stage(z) /\ z.c = y.c /\ z.tcp.unacked = y.tcp.unacked /\ z.tcp.rx = y.tcp.rx
       /\ z.tcp.got = y.tcp.got
  BY <1>9, AfterReceiveIs
<1> HIDE DEF z
<1>11. Serves(z.c, z.tcp, q) /\ z.c.esp = k
  <2>1. Serves(y.c, z.tcp, q)
    BY <1>9, <1>10, ServesTcp
  <2>2. QED
    BY <1>9, <1>10, <2>1, Zenon
<1>12. WsIndInv' /\ tcp'[k].got = z.tcp.got /\ peer'[k] = q
  <2>1. peer[k].greeted = 0 => Greeting(z) = 0
    BY <1>1, <1>7, Zenon DEF p
  <2>2. Serves(z.c, z.tcp, Noted(peer[k], asked, 0)) /\ Commit(s, k, z, asked) /\ Stage(z) /\ z.c.esp = k
    BY <1>1, <1>10, <1>11, Zenon DEF q, p
  <2>3. 0 \in {0, 101, 400}
    OBVIOUS
  <2>4. WsIndInv' /\ tcp'[k].got = z.tcp.got /\ peer'[k] = Noted(peer[k], asked, 0)
    BY ONLY <1>2, <1>6, <2>1, <2>2, <2>3, CommitOpen, WsIndInv, k \in Conns
  <2>5. QED
    BY <2>4, Zenon DEF q, p
<1>13. NothingNew(k) \/ SentDue(k)
  <2>1. tcp'[k].got = x.tcp.got \/ \E token : tcp'[k].got = <<token>> /\ Due(token, p, q, x.tcp.req)
    BY <1>9, <1>10, <1>12, Zenon DEF SentOnlyDue
  <2>2. QED
    BY <1>4, <1>12, <2>1, Zenon DEF NothingNew, SentDue, p
<1>14. QED
  BY <1>12, <1>13

\* http_process_free_connection
LEMMA FreedSlot ==
  ASSUME NEW c, SlotOK(c)
  PROVE  SlotOK(http_process_free_connection(c)) /\ http_process_free_connection(c).esp = Nobody
<1> DEFINE d == http_process_free_connection(c)
<1>1. c = [f \in SlotFields |-> c[f]]
  BY Zenon DEF SlotOK
<1>2. /\ d = [f \in SlotFields |-> d[f]] /\ d.esp = Nobody /\ d.state = c.state /\ d.out = <<>>
      /\ d.context = c.context /\ d.done = c.done
  BY <1>1 DEF SlotFields, http_process_free_connection
<1> HIDE DEF d
<1>3. SlotOK(d)
  BY <1>2, Zenon DEF SlotOK
<1>4. QED
  BY <1>2, <1>3 DEF d

\* espconn_disconnect of a connection that is open.
LEMMA Disconnects ==
  ASSUME NEW t, TcpOK(t), t.st = "open"
  PROVE  LET u == espconn_disconnect(t)
         IN  Closing(u) /\ u.got = t.got
<1> DEFINE u == [t EXCEPT !.st = "closing", !.est = "CLOSE", !.unacked = FALSE,
                          !.byServer = @ \/ t.st = "open"]
<1>1. t = [f \in TcpFields |-> t[f]] /\ t.est # "CLOSE"
  BY Zenon DEF TcpOK
<1>2. espconn_disconnect(t) = u
  BY <1>1 DEF espconn_disconnect
<1>3. /\ u = [f \in TcpFields |-> u[f]] /\ u.st = "closing" /\ u.est = "CLOSE" /\ u.rx = t.rx /\ u.req = t.req
      /\ u.got = t.got
  BY <1>1 DEF TcpFields
<1> HIDE DEF u
<1>4. Closing(u)
  BY <1>3, Zenon DEF TcpOK, Closing
<1>5. QED
  BY <1>2, <1>3, <1>4, Zenon

\* Nothing is on its way, so no status is.
LEMMA NoGreeting ==
  ASSUME NEW x, x.tcp.got = <<>>
  PROVE  Greeting(x) = 0
  BY DEF Greeting

\* A connection is closed, and its slot freed: the end of Sent and of ReceiveMalformed.
LEMMA ClosedStep ==
  ASSUME WsIndInv, NEW k \in Conns, NEW s \in Slots, slot[s].esp = k, NEW x, Stage(x), x.tcp.got = <<>>,
         Commit(s, k, [x EXCEPT !.tcp = espconn_disconnect(@), !.c = http_process_free_connection(@)],
                peer[k].asked)
  PROVE  WsIndInv' /\ tcp'[k].got = <<>>
<1> DEFINE t == espconn_disconnect(x.tcp)
           c == http_process_free_connection(x.c)
           y == [x EXCEPT !.tcp = espconn_disconnect(@), !.c = http_process_free_connection(@)]
<1>1. x = [f \in {"c", "tcp"} |-> x[f]] /\ SlotOK(x.c) /\ TcpOK(x.tcp) /\ x.tcp.st = "open"
  BY Zenon DEF Stage, Ctx
<1>2. Closing(t) /\ t.got = x.tcp.got
  BY <1>1, Disconnects
<1>3. SlotOK(c) /\ c.esp = Nobody
  BY <1>1, FreedSlot
<1>4. y.tcp = t /\ y.c = c
  BY <1>1
<1> HIDE DEF t, c, y
<1>5. Greeting(y) = 0
  BY <1>2, <1>4, NoGreeting
<1>6. y.c.esp = Nobody /\ SlotOK(y.c) /\ Closing(y.tcp)
  BY <1>2, <1>3, <1>4, Zenon
<1>7. Commit(s, k, y, peer[k].asked)
  BY Zenon DEF y
<1>8. QED
  BY ONLY <1>5, <1>6, <1>7, CommitClosing, WsIndInv, k \in Conns, s \in Slots, slot[s].esp = k

\* ReceiveMalformed.
LEMMA MalformedStep ==
  ASSUME WsIndInv, NEW k \in Conns, ReceiveMalformed(k)
  PROVE  WsIndInv' /\ SentDue(k)
<1> DEFINE s == http_process_find_connection(k)
           x == Context(s, k)
<1>1. /\ tcp[k].st = "open" /\ tcp[k].rx # <<>> /\ SlotsOf(k) # {}
      /\ Commit(s, k, [x EXCEPT !.tcp = espconn_disconnect(@), !.c = http_process_free_connection(@)],
                peer[k].asked)
  BY Zenon DEF ReceiveMalformed, Pending
<1>2. s \in Slots /\ slot[s].esp = k
  BY <1>1, FindsConnection
<1> HIDE DEF s
<1>3. Opened(s, k)
  BY <1>1, <1>2, Zenon DEF Opened
<1>4. Stage(x) /\ x.tcp = tcp[k] /\ Serves(x.c, x.tcp, peer[k])
  BY <1>3, OpenContext, Zenon
<1> HIDE DEF x
<1>5. x.tcp.got = <<>>
  <2>1. ~x.tcp.unacked
    BY <1>1, <1>4, Zenon DEF Serves
  <2>2. QED
    BY <1>4, <2>1, Zenon DEF Stage, TcpOK
<1>6. WsIndInv' /\ tcp'[k].got = <<>>
  BY <1>1, <1>2, <1>4, <1>5, ClosedStep
<1>7. QED
  BY <1>6 DEF SentDue

\* ws_app_msg_sent, for a connection whose packet has just been acknowledged:
\* u is the connection before, x its context with the packet taken off.
LEMMA SentServed ==
  ASSUME NEW x, Stage(x), NEW u, NEW p, Serves(x.c, u, p), PeerOK(p), p.greeted = 101, u.rx = x.tcp.rx,
         ~x.tcp.unacked, x.tcp.got = <<>>, ~x.c.done
  PROVE  LET y == http_ws_cgi_execute([x EXCEPT !.c.state = WS_DATA_SENT], NoFrame)
         IN  /\ Stage(y) /\ y.c.esp = x.c.esp /\ Serves(y.c, y.tcp, p)
             /\ y.tcp.got \in {<<>>, <<Bin(p.asked)>>} /\ (y.tcp.got # <<>> => p.asked > 0)
<1> DEFINE v == [x EXCEPT !.c.state = WS_DATA_SENT]
           a == v.c.context
           b == [a EXCEPT !.waiting = FALSE]
           w == [v EXCEPT !.c.context = b]
           y == ws_app_send_packet(w)
<1>1. Stage(v) /\ Same(x, v) /\ v.c.context = x.c.context /\ v.c.done = x.c.done /\ v.c.state = WS_DATA_SENT
  BY SetState
<1>2. /\ x.c.fn # "NULL" /\ x.tcp.rx = <<>> /\ x.c.handshake_ok /\ x.c.upgrade /\ x.c.context.live
      /\ p.asked > 0 => x.c.context.stream /\ x.c.context.want = p.asked
      /\ p.asked = 0 => ~x.c.context.stream
  <2>1. x.c.fn # "NULL" /\ u.rx = <<>> /\ Upgraded(x.c, u, p.asked)
    BY ServesUpgraded, Zenon
  <2>2. QED
    BY <2>1, Zenon DEF Upgraded
<1>3. p.asked \in Nat
  BY WsAssumption DEF PeerOK
<1> HIDE DEF v
<1>4. ContextOK(a) /\ v.c.handshake_ok /\ a.live /\ v = [f \in {"c", "tcp"} |-> v[f]]
      /\ v.c = [f \in SlotFields |-> v.c[f]]
  BY <1>1, <1>2, Zenon DEF Stage, SlotOK, Same, Ctx
<1>5. http_ws_cgi_execute(v, NoFrame) = y
  <2>1. NoFrame.type = "none"
    BY DEF NoFrame, Frame
  <2>2. http_ws_cgi_execute(v, NoFrame) = ws_app_msg_sent(v)
    BY <1>1, <1>4, <2>1, Zenon DEF http_ws_cgi_execute
  <2>3. [v EXCEPT !.c.context.waiting = FALSE] = w
    BY <1>4 DEF SlotFields
  <2>4. ws_app_msg_sent(v) = ws_app_send_packet([v EXCEPT !.c.context.waiting = FALSE])
    BY <1>4, Zenon DEF ws_app_msg_sent
  <2>5. QED
    BY <2>2, <2>3, <2>4, Zenon
<1>6. ContextOK(b) /\ b.live = a.live /\ b.stream = a.stream /\ b.want = a.want /\ ~b.waiting
  BY <1>4, ContextWrites, Zenon
<1> HIDE DEF b
<1>7. Stage(w) /\ Same(v, w) /\ w.c.context = b /\ w.c.done = v.c.done
  BY ONLY <1>1, <1>6, SetContext
<1> HIDE DEF w
<1>8. /\ w.tcp = x.tcp /\ w.c.esp = x.c.esp /\ w.c.fn # "NULL" /\ w.c.upgrade /\ w.c.handshake_ok
      /\ ~w.c.done /\ w.c.context.live /\ ~w.c.context.waiting
  BY <1>1, <1>2, <1>4, <1>6, <1>7, Zenon DEF Same
<1>9. /\ p.asked > 0 => w.c.context.stream /\ w.c.context.want = p.asked
      /\ p.asked = 0 => ~w.c.context.stream
  BY <1>1, <1>2, <1>6, <1>7, Zenon
<1>10. ~w.tcp.unacked /\ w.tcp.rx = <<>> /\ w.tcp.got = <<>>
  BY <1>2, <1>8, Zenon
<1> HIDE DEF y
<1>11. CASE w.c.context.stream
  <2>1. Streams(w, y)
    BY <1>7, <1>8, <1>11, PacketStreams, Zenon DEF y
  <2>2. p.asked > 0 /\ w.c.context.want = p.asked
    <3>1. p.asked # 0
      BY <1>9, <1>11, Zenon
    <3>2. p.asked > 0
      BY <1>3, <3>1
    <3>3. QED
      BY <1>9, <3>2, Zenon
  <2>3. Stage(y) /\ y.c.esp = x.c.esp /\ y.tcp.got = <<Bin(p.asked)>>
    BY <1>8, <1>10, <2>1, <2>2, Zenon DEF Streams
  <2>4. Serves(y.c, y.tcp, p)
    <3>1. p.asked # 0
      BY <2>2
    <3>2. Upgraded(y.c, y.tcp, p.asked)
      BY <1>8, <1>11, <2>1, <2>2, <3>1, Zenon DEF Streams, Upgraded
    <3>3. y.c.fn # "NULL" /\ y.tcp.rx = <<>> /\ y.tcp.unacked
      BY <1>8, <1>10, <2>1, Zenon DEF Streams
    <3>4. QED
      BY <3>2, <3>3, ServesUpgraded, Zenon
  <2>5. QED
    BY <1>5, <2>2, <2>3, <2>4, Zenon DEF v
<1>12. CASE ~w.c.context.stream
  <2>1. y = w
    BY <1>12, Zenon DEF y, ws_app_send_packet
  <2>2. ~(p.asked > 0)
    BY <1>9, <1>12, Zenon
  <2>3. Serves(w.c, w.tcp, p)
    <3>1. Upgraded(w.c, w.tcp, p.asked)
      BY <1>8, <1>12, <2>2, Zenon DEF Upgraded
    <3>2. QED
      BY <1>8, <1>10, <3>1, ServesUpgraded, Zenon
  <2>4. QED
    BY ONLY <1>5, <1>7, <1>8, <1>10, <2>1, <2>3 DEF v
<1>13. QED
  BY <1>11, <1>12

\* Sent.
LEMMA SentStep ==
  ASSUME WsIndInv, NEW k \in Conns, Sent(k)
  PROVE  WsIndInv' /\ SentDue(k)
<1> DEFINE s == http_process_find_connection(k)
           x0 == Context(s, k)
           t == [x0.tcp EXCEPT !.unacked = FALSE, !.est = "CONNECT", !.got = <<>>]
           x == [x0 EXCEPT !.tcp = t]
           p == peer[k]
<1>1. /\ tcp[k].st = "open" /\ tcp[k].unacked /\ SlotsOf(k) # {}
      /\ Commit(s, k, http_process_sent_cb([x0 EXCEPT !.tcp.unacked = FALSE, !.tcp.est = "CONNECT",
                                                     !.tcp.got = <<>>]), peer[k].asked)
  BY Zenon DEF Sent, Unacked
<1>2. s \in Slots /\ slot[s].esp = k
  BY <1>1, FindsConnection
<1> HIDE DEF s
<1>3. Opened(s, k)
  BY <1>1, <1>2, Zenon DEF Opened
<1>4. Stage(x0) /\ x0.tcp = tcp[k] /\ x0.c.esp = k /\ Serves(x0.c, x0.tcp, p) /\ PeerOK(p)
  BY <1>3, OpenContext, Zenon
<1> HIDE DEF x0
<1>5. /\ x0 = [f \in {"c", "tcp"} |-> x0[f]] /\ x0.tcp = [f \in TcpFields |-> x0.tcp[f]] /\ TcpOK(x0.tcp)
      /\ x0.tcp.st = "open"
  BY <1>4, Zenon DEF Stage, Ctx
<1>6. [x0 EXCEPT !.tcp.unacked = FALSE, !.tcp.est = "CONNECT", !.tcp.got = <<>>] = x
  BY <1>5 DEF TcpFields
<1>7. /\ t = [f \in TcpFields |-> t[f]] /\ t.st = x0.tcp.st /\ t.est = "CONNECT" /\ t.unacked = FALSE
      /\ t.got = <<>> /\ t.req = x0.tcp.req /\ t.rx = x0.tcp.rx
  BY <1>5 DEF TcpFields
<1> HIDE DEF t
<1>8. TcpOK(t) /\ t.st = "open" /\ ~t.unacked
  <2>1. "CONNECT" # "CLOSE"
    OBVIOUS
  <2>2. QED
    BY <1>5, <1>7, <2>1, Zenon DEF TcpOK
<1>9. Stage(x) /\ x.c = x0.c /\ x.tcp = t
  BY <1>4, <1>8, SetTcp
<1> HIDE DEF x
<1>10. Commit(s, k, http_process_sent_cb(x), p.asked)
  BY <1>1, <1>6, Zenon
<1>11. CASE x.c.done
  <2>1. http_process_sent_cb(x) = [x EXCEPT !.tcp = espconn_disconnect(@), !.c = http_process_free_connection(@)]
    BY <1>11, Zenon DEF http_process_sent_cb
  <2>2. Commit(s, k, [x EXCEPT !.tcp = espconn_disconnect(@), !.c = http_process_free_connection(@)],
               peer[k].asked)
    BY <1>10, <2>1, Zenon
  <2>3. x.tcp.got = <<>> /\ Stage(x)
    BY <1>7, <1>9, Zenon
  <2>4. WsIndInv' /\ tcp'[k].got = <<>>
    BY ONLY <1>2, <2>2, <2>3, ClosedStep, WsIndInv, k \in Conns
  <2>5. QED
    BY <2>4 DEF SentDue
<1>12. CASE ~x.c.done
  <2> DEFINE y == http_ws_cgi_execute([x EXCEPT !.c.state = WS_DATA_SENT], NoFrame)
             q == Noted(p, p.asked, 0)
  <2>1. p.greeted = 101
    <3>1. p.greeted # 0 /\ p.greeted # 400
      BY <1>1, <1>4, <1>9, <1>12, Zenon DEF Serves
    <3>2. QED
      BY <1>4, <3>1, Zenon DEF PeerOK
  <2>2. x.c.upgrade
    BY <1>4, <1>9, <2>1, ServesUpgraded, Zenon DEF Upgraded
  <2>3. http_process_sent_cb(x) = y
    <3>1. [x EXCEPT !.c.state = IF x.c.upgrade THEN WS_DATA_SENT ELSE @] = [x EXCEPT !.c.state = WS_DATA_SENT]
      BY <2>2, Zenon
    <3>2. QED
      BY <1>12, <3>1, Zenon DEF http_process_sent_cb
  <2>4. /\ Stage(y) /\ y.c.esp = x.c.esp /\ Serves(y.c, y.tcp, p)
        /\ y.tcp.got \in {<<>>, <<Bin(p.asked)>>} /\ (y.tcp.got # <<>> => p.asked > 0)
    <3>1. Serves(x.c, x0.tcp, p) /\ x0.tcp.rx = x.tcp.rx /\ ~x.tcp.unacked /\ x.tcp.got = <<>>
      BY <1>4, <1>7, <1>8, <1>9, Zenon
    <3>2. QED
      BY <1>4, <1>9, <1>12, <2>1, <3>1, SentServed
  <2> HIDE DEF y
  <2>5. p.asked \in 0 .. MaxPacket /\ 101 # 0
    BY <1>4 DEF PeerOK
  <2>6. q = p
    <3>1. PeerOK(p)
      BY <1>4, Zenon
    <3> HIDE DEF p
    <3>2. QED
      BY ONLY <3>1 DEF PeerOK, Noted
  <2>7. WsIndInv' /\ tcp'[k].got = y.tcp.got /\ peer'[k] = Noted(peer[k], p.asked, 0)
    <3>1. peer[k].greeted = 0 => Greeting(y) = 0
      BY <2>1, <2>5, Zenon
    <3>2. Serves(y.c, y.tcp, Noted(peer[k], p.asked, 0)) /\ Stage(y) /\ y.c.esp = k
      BY <1>4, <1>9, <2>4, <2>6, Zenon
    <3>3. Commit(s, k, y, p.asked)
      BY <1>10, <2>3, Zenon
    <3>4. 0 \in {0, 101, 400}
      OBVIOUS
    <3> HIDE DEF p
    <3>5. QED
      BY ONLY <1>2, <2>5, <3>1, <3>2, <3>3, <3>4, CommitOpen, WsIndInv, k \in Conns
  <2>8. SentDue(k)
    <3>1. CASE y.tcp.got = <<>>
      BY <2>7, <3>1, Zenon DEF SentDue
    <3>2. CASE y.tcp.got # <<>>
      <4> DEFINE token == Bin(p.asked)
      <4>1. token.kind = "bin" /\ token.kind # "status" /\ token.size = p.asked
        BY DEF Bin
      <4> HIDE DEF token
      <4>2. y.tcp.got = <<token>> /\ p.asked > 0
        BY <2>4, <3>2, Zenon DEF token
      <4>3. peer'[k].asked = p.asked
        BY <2>6, <2>7, Zenon
      <4>4. Due(token, p, peer'[k], tcp[k].req)
        BY <2>1, <4>1, <4>2, <4>3, Zenon DEF Due
      <4>5. QED
        BY <2>7, <4>2, <4>4, Zenon DEF SentDue
    <3>3. QED
      BY <3>1, <3>2
  <2>9. QED
    BY <2>7, <2>8
<1>13. QED
  BY <1>11, <1>12

\* The status that is on its way.
LEMMA StatusGreeting ==
  ASSUME NEW x, NEW n, NEW hdrs, x.tcp.got = <<StatusToken(n, hdrs)>>
  PROVE  Greeting(x) = n
<1> DEFINE got == x.tcp.got
           st == {got[i].status : i \in {j \in DOMAIN got : got[j].kind = "status"}}
<1>1. DOMAIN got = {1} /\ got[1] = StatusToken(n, hdrs)
  OBVIOUS
<1>2. StatusToken(n, hdrs).kind = "status" /\ StatusToken(n, hdrs).status = n
  BY DEF StatusToken
<1> HIDE DEF got
<1>3. st = {n}
  BY <1>1, <1>2
<1>4. Greeting(x) = IF st = {} THEN 0 ELSE CHOOSE m \in st : TRUE
  BY DEF Greeting, got
<1> HIDE DEF st
<1>5. QED
  BY <1>3, <1>4

\* What is on its way to a peer with which the handshake has got as far as g.
Greeted(y, g) == IF g = 0 THEN y.tcp.got = <<>> ELSE \E hdrs : y.tcp.got = <<StatusToken(g, hdrs)>>

\* Greeted says what Greeting computes.
LEMMA GreetedIs ==
  ASSUME NEW y, NEW z, NEW g, Greeted(y, g), z.tcp.got = y.tcp.got
  PROVE  Greeting(z) = g
<1>1. CASE g = 0
  <2>1. z.tcp.got = <<>>
    BY <1>1, Zenon DEF Greeted
  <2>2. QED
    BY <1>1, <2>1, NoGreeting, Zenon
<1>2. CASE g # 0
  <2>1. PICK hdrs : z.tcp.got = <<StatusToken(g, hdrs)>>
    BY <1>2, Zenon DEF Greeted
  <2>2. QED
    BY <2>1, StatusGreeting
<1>3. QED
  BY <1>1, <1>2

\* ReceiveHandshake.
LEMMA HandshakeStep ==
  ASSUME WsIndInv, NEW k \in Conns, ReceiveHandshake(k)
  PROVE  WsIndInv' /\ SentDue(k)
<1> DEFINE s == http_process_find_connection(k)
           x0 == Context(s, k)
           t == [x0.tcp EXCEPT !.rx = Tail(@)]
           x == [x0 EXCEPT !.tcp = t]
           y == IF Head(tcp[k].rx) = "start"
                THEN http_ws_cgi_execute([x EXCEPT !.c.state = ON_URL], NoFrame)
                ELSE AfterParse(ParseEnd(x))
           z == AfterReceive(y)
           p == peer[k]
<1>1. /\ tcp[k].st = "open" /\ tcp[k].rx # <<>> /\ SlotsOf(k) # {}
  BY Zenon DEF ReceiveHandshake, Pending
<1>2. s \in Slots /\ slot[s].esp = k
  BY <1>1, FindsConnection
<1>3. Opened(s, k)
  <2> HIDE DEF s
  <2>1. QED
    BY <1>1, <1>2, Zenon DEF Opened
<1>4. Stage(x0) /\ x0.tcp = tcp[k] /\ x0.c.esp = k /\ Serves(x0.c, x0.tcp, p) /\ PeerOK(p)
  BY <1>3, OpenContext, Zenon
<1>5. /\ x0 = [f \in {"c", "tcp"} |-> x0[f]] /\ x0.tcp = [f \in TcpFields |-> x0.tcp[f]] /\ TcpOK(x0.tcp)
      /\ x0.tcp.st = "open"
  <2> HIDE DEF x0
  <2>1. QED
    BY <1>4, Zenon DEF Stage, Ctx
<1>6. [x0 EXCEPT !.tcp.rx = Tail(@)] = x
  <2> HIDE DEF x0
  <2>1. QED
    BY <1>5 DEF TcpFields
<1>7. Commit(s, k, z, p.asked)
  BY <1>6, Zenon DEF ReceiveHandshake
<1> HIDE DEF s, x0
<1>8. p.greeted = 0 /\ p.asked = 0 /\ 0 \in 0 .. MaxPacket
  <2>1. 0 # 101
    OBVIOUS
  <2>2. p.greeted = 0
    BY <1>1, <1>4, Zenon DEF Serves
  <2>3. p.asked = 0
    BY <1>4, <2>1, <2>2, Zenon DEF Serves
  <2>4. QED
    BY <2>2, <2>3, WsAssumption
<1>9. ~x0.tcp.unacked /\ ~x0.c.done /\ ~x0.c.handshake_ok /\ x0.c.fn # "NULL" /\ x0.tcp.got = <<>>
  <2>1. 0 # 101
    OBVIOUS
  <2>2. ~x0.tcp.unacked /\ ~x0.c.done /\ ~x0.c.handshake_ok /\ x0.c.fn # "NULL"
    BY <1>4, <1>8, <2>1, Zenon DEF Serves
  <2>3. QED
    BY <1>5, <2>2, Zenon DEF TcpOK
<1>10. /\ t = [f \in TcpFields |-> t[f]] /\ t.st = x0.tcp.st /\ t.est = x0.tcp.est /\ t.unacked = x0.tcp.unacked
       /\ t.got = x0.tcp.got /\ t.req = x0.tcp.req /\ t.rx = Tail(x0.tcp.rx)
  BY <1>5 DEF TcpFields
<1> HIDE DEF t
<1>11. \/ x0.tcp.rx = <<"end">> /\ Head(x0.tcp.rx) # "start" /\ t.rx = <<>>
       \/ x0.tcp.rx = <<"start", "end">> /\ Head(x0.tcp.rx) = "start" /\ t.rx = <<"end">>
  <2>1. x0.tcp.rx \in {<<"end">>, <<"start", "end">>}
    BY <1>1, <1>4, <1>5, Zenon DEF TcpOK
  <2>2. \A r : r = <<"end">> => Head(r) # "start" /\ Tail(r) = <<>>
    OBVIOUS
  <2>3. \A r : r = <<"start", "end">> => Head(r) = "start" /\ Tail(r) = <<"end">>
    OBVIOUS
  <2>4. QED
    BY <1>10, <2>1, <2>2, <2>3, Zenon
<1>12. TcpOK(t) /\ t.st = "open"
  <2>1. t.rx \in {<<>>, <<"end">>, <<"start", "end">>}
    BY <1>11, Zenon
  <2>2. QED
    BY <1>5, <1>10, <2>1, Zenon DEF TcpOK
<1>13. Stage(x) /\ x.c = x0.c /\ x.tcp = t
  BY <1>4, <1>12, SetTcp
<1> HIDE DEF x
<1>14. /\ ~x.tcp.unacked /\ ~x.c.done /\ ~x.c.handshake_ok /\ x.c.fn # "NULL" /\ x.tcp.got = <<>>
       /\ x.c.esp = k /\ x.tcp.req = tcp[k].req
  <2>1. ~t.unacked /\ t.got = <<>> /\ t.req = tcp[k].req
    BY <1>4, <1>9, <1>10, Zenon
  <2>2. ~x.tcp.unacked /\ x.tcp.got = <<>> /\ x.tcp.req = tcp[k].req
    <3>1. x.tcp = t
      BY <1>13, Zenon
    <3>2. QED
      BY ONLY <2>1, <3>1
  <2>3. ~x.c.done /\ ~x.c.handshake_ok /\ x.c.fn # "NULL" /\ x.c.esp = k
    <3>1. x.c = x0.c
      BY <1>13, Zenon
    <3>2. ~x0.c.done /\ ~x0.c.handshake_ok /\ x0.c.fn # "NULL" /\ x0.c.esp = k
      BY <1>4, <1>9, Zenon
    <3>3. QED
      BY ONLY <3>1, <3>2
  <2>4. QED
    BY <2>2, <2>3
<1>15. ASSUME NEW g \in {0, 101, 400}, Stage(y), y.c.esp = k, Serves(y.c, y.tcp, Noted(p, 0, g)),
              Greeted(y, g)
       PROVE  WsIndInv' /\ tcp'[k].got = y.tcp.got /\ peer'[k] = Noted(p, 0, g)
  <2> HIDE DEF y, p
  <2>1. /\ Stage(z) /\ z.c = y.c /\ z.tcp.unacked = y.tcp.unacked /\ z.tcp.rx = y.tcp.rx
        /\ z.tcp.got = y.tcp.got
    BY <1>15, AfterReceiveIs
  <2> HIDE DEF z
  <2>2. Serves(z.c, z.tcp, Noted(p, 0, g)) /\ z.c.esp = k
    <3>1. Serves(y.c, z.tcp, Noted(p, 0, g))
      BY <1>15, <2>1, ServesTcp
    <3>2. QED
      BY <1>15, <2>1, <3>1, Zenon
  <2>3. Greeting(z) = g
    BY <1>15, <2>1, GreetedIs
  <2>4. Commit(s, k, z, 0) /\ Stage(z) /\ Serves(z.c, z.tcp, Noted(peer[k], 0, g))
    BY <1>7, <1>8, <2>1, <2>2, Zenon DEF p
  <2>5. peer[k].greeted = 0 => Greeting(z) = g
    BY <2>3, Zenon
  <2>6. g \in {0, 101, 400} /\ 0 \in 0 .. MaxPacket /\ z.c.esp = k
    BY <1>8, <1>15, <2>2, Zenon
  <2>7. WsIndInv' /\ tcp'[k].got = z.tcp.got /\ peer'[k] = Noted(peer[k], 0, g)
    BY ONLY <1>2, <2>4, <2>5, <2>6, CommitOpen, WsIndInv, k \in Conns
  <2>8. QED
    BY <2>1, <2>7, Zenon DEF p
<1>16. CASE Head(x0.tcp.rx) = "start"
  <2> DEFINE w == [x EXCEPT !.c.state = ON_URL]
  <2>1. Stage(w) /\ Same(x, w) /\ w.c.context = x.c.context /\ w.c.done = x.c.done /\ w.c.state = ON_URL
    BY <1>13, SetState
  <2>2. ON_URL # BODY_END
    BY DEF ON_URL, BODY_END
  <2> HIDE DEF w
  <2>3. Stage(w) /\ ~w.c.handshake_ok /\ w.c.state # BODY_END
    BY <1>14, <2>1, <2>2, Zenon DEF Same
  <2>4. http_ws_cgi_execute(w, NoFrame) = w
    BY ONLY <2>3, NothingYet
  <2>5. y = w
    BY <1>4, <1>16, <2>4, Zenon DEF w
  <2> HIDE DEF y
  <2>6. Noted(p, 0, 0) = p
    <3>1. PeerOK(p) /\ p.greeted = 0 /\ p.asked = 0
      BY <1>4, <1>8, Zenon
    <3> HIDE DEF p
    <3>2. QED
      BY ONLY <3>1 DEF PeerOK, Noted
  <2>7. Serves(w.c, w.tcp, p)
    <3>1. 0 # 400 /\ 0 # 101
      OBVIOUS
    <3>2. w.c.fn # "NULL" /\ ~w.tcp.unacked /\ ~w.c.done /\ ~w.c.handshake_ok
      BY <1>14, <2>1, Zenon DEF Same
    <3>3. QED
      BY <1>8, <3>1, <3>2, Zenon DEF Serves
  <2>8. y.tcp.got = <<>> /\ y.c.esp = k /\ Stage(y) /\ Serves(y.c, y.tcp, Noted(p, 0, 0))
    BY <1>14, <2>1, <2>5, <2>6, <2>7, Zenon DEF Same
  <2>9. 0 \in {0, 101, 400}
    OBVIOUS
  <2>10. WsIndInv' /\ tcp'[k].got = y.tcp.got
    <3>1. Greeted(y, 0)
      BY <2>8, Zenon DEF Greeted
    <3>2. QED
      BY <1>15, <2>8, <2>9, <3>1, Zenon
  <2>11. QED
    BY <2>8, <2>10, Zenon DEF SentDue
<1>17. CASE Head(x0.tcp.rx) # "start"
  <2> DEFINE g == IF x.tcp.req.good THEN 101 ELSE 400
             q == Noted(p, 0, g)
  <2>1. x.tcp.rx = <<>>
    BY <1>11, <1>13, <1>17, Zenon
  <2>2. y = AfterParse(ParseEnd(x))
    BY <1>4, <1>17, Zenon
  <2>3. g \in {0, 101, 400} /\ g # 0
    OBVIOUS
  <2> HIDE DEF g, y
  <2>4. PeerOK(q) /\ q.asked = 0 /\ q.greeted = g
    BY <1>4, <1>8, <2>3, PeerNoted
  <2> HIDE DEF q
  <2>5. Handshaken(x, y, q)
    BY <1>13, <1>14, <2>1, <2>2, <2>4, HandshakeServed DEF g
  <2>6. /\ Stage(y) /\ y.c.esp = k /\ Serves(y.c, y.tcp, Noted(p, 0, g))
        /\ \E hdrs : y.tcp.got = <<StatusToken(g, hdrs)>>
    BY <1>14, <2>4, <2>5, Zenon DEF Handshaken, q
  <2>7. WsIndInv' /\ tcp'[k].got = y.tcp.got
    <3>1. Greeted(y, g)
      BY <2>3, <2>6, Zenon DEF Greeted
    <3>2. QED
      BY <1>15, <2>3, <2>6, <3>1, Zenon
  <2>8. SentDue(k)
    <3>1. PICK hdrs : y.tcp.got = <<StatusToken(g, hdrs)>>
      BY <2>6
    <3> DEFINE token == StatusToken(g, hdrs)
    <3>2. token.kind = "status" /\ token.status = g
      BY DEF StatusToken
    <3> HIDE DEF token
    <3>3. g = IF tcp[k].req.good THEN 101 ELSE 400
      BY <1>14, Zenon DEF g
    <3>4. Due(token, p, peer'[k], tcp[k].req)
      BY <1>8, <3>2, <3>3, Zenon DEF Due
    <3>5. QED
      BY <2>7, <3>1, <3>4, Zenon DEF SentDue, token
  <2>9. QED
    BY <2>7, <2>8
<1>18. QED
  BY <1>16, <1>17

-----------------------------------------------------------------------------
(* Connections come and go                                                 *)

\* A connection that has just been accepted.
LEMMA AcceptedIs ==
  ASSUME NEW h \in Handshakes
  PROVE  LET t == Accepted(h)
         IN  /\ TcpOK(t) /\ t.st = "open" /\ t.got = <<>> /\ ~t.unacked
<1> DEFINE t == Accepted(h)
<1>1. /\ h = [f \in RequestFields |-> h[f]] /\ (h.good => h.upgrade)
      /\ h.first \in {"whole", "TEXT", "CLOSE", "IGNORED"}
  <2>1. CASE \E first \in {"whole", "TEXT", "CLOSE"} : h = Handshake(TRUE, TRUE, first)
    <3>1. PICK first \in {"whole", "TEXT", "CLOSE"} : h = Handshake(TRUE, TRUE, first)
      BY <2>1
    <3>2. /\ h = [f \in RequestFields |-> h[f]] /\ h.upgrade = TRUE /\ h.first = first
      BY <3>1 DEF Handshake, RequestFields
    <3>3. QED
      BY <3>2, Zenon
  <2>2. CASE h = Handshake(TRUE, FALSE, "IGNORED") \/ h = Handshake(FALSE, FALSE, "whole")
    <3>1. h = [f \in RequestFields |-> h[f]] /\ h.good = FALSE /\ h.first \in {"IGNORED", "whole"}
      BY <2>2 DEF Handshake, RequestFields
    <3>2. QED
      BY <3>1, Zenon
  <2>3. QED
    BY <2>1, <2>2 DEF Handshakes
<1>2. NoConn = [f \in TcpFields |-> NoConn[f]] /\ NoConn.got = <<>> /\ NoConn.unacked = FALSE
  BY DEF NoConn, TcpFields
<1>3. Segments(h) \in {<<>>, <<"end">>, <<"start", "end">>}
  BY Zenon DEF Segments
<1>4. /\ t = [f \in TcpFields |-> t[f]] /\ t.st = "open" /\ t.est = "CONNECT" /\ t.got = NoConn.got
      /\ t.unacked = NoConn.unacked /\ t.req = h /\ t.rx = Segments(h)
  BY <1>2 DEF Accepted, TcpFields
<1> HIDE DEF t
<1>5. "CONNECT" # "CLOSE" /\ "open" \in {"free", "open", "closing"}
  OBVIOUS
<1>6. t.unacked = FALSE /\ t.got = <<>>
  BY <1>2, <1>4, Zenon
<1>7. TcpOK(t)
  BY <1>1, <1>3, <1>4, <1>5, <1>6, Zenon DEF TcpOK
<1>8. QED
  BY <1>4, <1>6, <1>7, Zenon DEF t

\* A peer that has been sent nothing.
LEMMA NoPeerIs == PeerOK(NoPeer) /\ NoPeer.greeted = 0 /\ NoPeer.asked = 0
<1>1. 0 \in 0 .. MaxPacket
  BY WsAssumption
<1>2. QED
  BY <1>1 DEF NoPeer, PeerOK

\* http_new_connection takes a slot from whoever held it before.
LEMMA NewConnection ==
  ASSUME NEW c, SlotOK(c), NEW k \in Conns
  PROVE  LET d == http_new_connection(c, k)
         IN  SlotOK(d) /\ d.esp = k /\ d.fn # "NULL" /\ ~d.done /\ ~d.handshake_ok
<1> DEFINE d == http_new_connection(c, k)
<1>1. c = [f \in SlotFields |-> c[f]]
  BY Zenon DEF SlotOK
<1>2. /\ d = [f \in SlotFields |-> d[f]] /\ d.esp = k /\ d.fn = "app_callback" /\ d.done = FALSE
      /\ d.handshake_ok = FALSE /\ d.state = c.state /\ d.context = c.context /\ d.out = <<>>
  BY <1>1 DEF SlotFields, http_new_connection
<1> HIDE DEF d
<1>3. "app_callback" # "NULL"
  OBVIOUS
<1>4. SlotOK(d)
  BY <1>2, Zenon DEF SlotOK
<1>5. QED
  BY <1>2, <1>3, <1>4, Zenon DEF d

\* Connect.
LEMMA ConnectStep ==
  ASSUME WsIndInv, NEW k \in Conns, NEW h \in Handshakes, Connect(k, h)
  PROVE  WsIndInv' /\ SentDue(k)
<1> DEFINE s == http_process_find_connection(Nobody)
           c == http_new_connection(slot[s], k)
           t == Accepted(h)
<1>1. /\ tcp[k].st = "free" /\ SlotsOf(Nobody) # {}
      /\ tcp' = [tcp EXCEPT ![k] = t] /\ peer' = [peer EXCEPT ![k] = NoPeer]
      /\ slot' = [slot EXCEPT ![s] = http_new_connection(@, k)]
  BY Zenon DEF Connect
<1>2. s \in Slots /\ slot[s].esp = Nobody
  BY <1>1, FindsConnection
<1> HIDE DEF s
<1>3. slot' = [slot EXCEPT ![s] = c]
  BY <1>1
<1>4. SlotOK(slot[s]) /\ tcp = [j \in Conns |-> tcp[j]]
  BY <1>2, Zenon DEF WsIndInv
<1>5. SlotOK(c) /\ c.esp = k /\ c.fn # "NULL" /\ ~c.done /\ ~c.handshake_ok
  BY <1>4, NewConnection
<1>6. TcpOK(t) /\ t.st = "open" /\ t.got = <<>> /\ ~t.unacked
  BY AcceptedIs
<1> HIDE DEF c, t
<1>7. OnlySlot(s, k)
  BY <1>1, Zenon DEF WsIndInv, Owned, OnlySlot
<1>8. Holds(c, k, t, NoPeer)
  <2>1. 0 # 400 /\ 0 # 101 /\ "open" # "free"
    OBVIOUS
  <2>2. Serves(c, t, NoPeer)
    BY <1>5, <1>6, <2>1, NoPeerIs, Zenon DEF Serves
  <2>3. QED
    BY <1>6, <2>1, <2>2, Zenon DEF Holds
<1>9. OneConnection(s, k, c, t, NoPeer)
  <2>1. c.esp \in {k, Nobody}
    BY <1>5
  <2>2. QED
    BY <1>1, <1>3, <1>5, <1>6, <1>7, <1>8, <2>1, NoPeerIs, Zenon DEF OneConnection
<1>10. WsIndInv'
  BY ONLY <1>2, <1>9, ConnectionStep, WsIndInv, k \in Conns
<1>11. tcp'[k] = t
  BY <1>1, <1>4
<1>12. QED
  BY <1>6, <1>10, <1>11, Zenon DEF SentDue

\* ConnectOverflow.
LEMMA OverflowStep ==
  ASSUME WsIndInv, NEW k \in Conns, NEW h \in Handshakes, ConnectOverflow(k, h)
  PROVE  WsIndInv' /\ SentDue(k)
<1> DEFINE a == Accepted(h)
           t == espconn_disconnect(a)
<1>1. /\ slot' = slot /\ tcp' = [tcp EXCEPT ![k] = t] /\ peer' = [peer EXCEPT ![k] = NoPeer]
  BY Zenon DEF ConnectOverflow
<1>2. TcpOK(a) /\ a.st = "open" /\ a.got = <<>>
  BY AcceptedIs
<1> HIDE DEF a
<1>3. Closing(t) /\ t.got = <<>>
  BY <1>2, Disconnects
<1> HIDE DEF t
<1>4. TcpOK(t) /\ t.st = "closing"
  <2>1. "closing" \in {"free", "open", "closing"} /\ "closing" # "open"
    OBVIOUS
  <2>2. QED
    BY <1>3, <2>1, Zenon DEF Closing, TcpOK
<1>5. PeerOK(NoPeer)
  BY NoPeerIs
<1>6. WsIndInv'
  BY ONLY <1>1, <1>4, <1>5, ConnectionLost, WsIndInv, k \in Conns
<1>7. tcp'[k] = t
  <2>1. tcp = [j \in Conns |-> tcp[j]]
    BY Zenon DEF WsIndInv
  <2>2. QED
    BY <1>1, <2>1
<1>8. QED
  BY <1>3, <1>6, <1>7, Zenon DEF SentDue

\* PeerClose.
LEMMA PeerCloseStep ==
  ASSUME WsIndInv, NEW k \in Conns, PeerClose(k)
  PROVE  WsIndInv' /\ SentDue(k)
<1> DEFINE o == tcp[k]
           t == [o EXCEPT !.st = "closing", !.est = "CLOSE", !.unacked = FALSE, !.got = <<>>]
<1>1. /\ slot' = slot /\ peer' = peer
      /\ tcp' = [tcp EXCEPT ![k].st = "closing", ![k].est = "CLOSE", ![k].unacked = FALSE, ![k].got = <<>>]
  BY Zenon DEF PeerClose
<1>2. TcpOK(o) /\ PeerOK(peer[k]) /\ tcp = [j \in Conns |-> tcp[j]] /\ peer = [j \in Conns |-> peer[j]]
  BY Zenon DEF WsIndInv
<1>3. o = [f \in TcpFields |-> o[f]]
  <2> HIDE DEF o
  <2>1. QED
    BY <1>2, Zenon DEF TcpOK
<1>4. tcp' = [tcp EXCEPT ![k] = t] /\ tcp'[k] = t
  <2>1. tcp = [j \in Conns |-> tcp[j]]
    BY <1>2, Zenon
  <2>2. QED
    BY <1>1, <1>3, <2>1 DEF TcpFields
<1> HIDE DEF o
<1>5. /\ t = [f \in TcpFields |-> t[f]] /\ t.st = "closing" /\ t.est = "CLOSE" /\ t.unacked = FALSE
      /\ t.got = <<>> /\ t.req = o.req /\ t.rx = o.rx
  BY <1>3 DEF TcpFields
<1> HIDE DEF t
<1>6. TcpOK(t)
  <2>1. "closing" \in {"free", "open", "closing"} /\ "closing" # "open"
    OBVIOUS
  <2>2. QED
    BY <1>2, <1>5, <2>1, Zenon DEF TcpOK
<1>7. peer' = [peer EXCEPT ![k] = peer[k]] /\ PeerOK(peer[k])
  <2>1. peer = [j \in Conns |-> peer[j]]
    BY <1>2, Zenon
  <2>2. peer' = [peer EXCEPT ![k] = peer[k]]
    BY <1>1, <2>1
  <2>3. QED
    BY <1>2, <2>2, Zenon
<1>8. WsIndInv'
  <2>1. slot' = slot /\ tcp' = [tcp EXCEPT ![k] = t] /\ t.st = "closing"
    BY <1>1, <1>4, <1>5, Zenon
  <2>2. QED
    BY ONLY <1>6, <1>7, <2>1, ConnectionLost, WsIndInv, k \in Conns
<1>9. QED
  BY <1>4, <1>5, <1>8, Zenon DEF SentDue

\* An espconn block that is free.
LEMMA NoConnIs == TcpOK(NoConn) /\ NoConn.got = <<>>
<1> DEFINE t == NoConn
<1>1. /\ t = [f \in TcpFields |-> t[f]] /\ t.req = [f \in RequestFields |-> t.req[f]]
      /\ t.st = "free" /\ t.est = "CLOSE" /\ t.got = <<>> /\ t.rx = <<>>
      /\ t.req.good = FALSE /\ t.req.first = "whole"
  BY DEF NoConn, Handshake, TcpFields, RequestFields
<1>2. "free" \in {"free", "open", "closing"} /\ "free" # "open"
  OBVIOUS
<1> HIDE DEF t
<1>3. TcpOK(t)
  BY <1>1, <1>2, Zenon DEF TcpOK
<1>4. QED
  BY <1>1, <1>3 DEF t

\* The sweep frees every slot whose connection is closing, that of k among them.
LEMMA DisconnectedStep ==
  ASSUME WsIndInv, NEW k \in Conns, Disconnected(k)
  PROVE  WsIndInv' /\ SentDue(k)
<1>1. /\ tcp[k].st = "closing"
      /\ tcp' = [tcp EXCEPT ![k] = NoConn] /\ peer' = [peer EXCEPT ![k] = NoPeer]
      /\ slot' = [s \in Slots |-> IF slot[s].esp \in Conns /\ ShouldClose(slot[s].esp)
                                  THEN http_process_free_connection(slot[s]) ELSE slot[s]]
  BY Zenon DEF Disconnected
<1>2. /\ slot = [u \in Slots |-> slot[u]] /\ \A u \in Slots : SlotOK(slot[u])
      /\ tcp = [j \in Conns |-> tcp[j]] /\ \A j \in Conns : TcpOK(tcp[j])
      /\ peer = [j \in Conns |-> peer[j]] /\ \A j \in Conns : PeerOK(peer[j])
      /\ \A u \in Slots : Owned(u)
  BY Zenon DEF WsIndInv
<1>3. TcpOK(NoConn) /\ NoConn.got = <<>>
  BY NoConnIs
<1>4. /\ tcp' = [j \in Conns |-> tcp'[j]] /\ tcp'[k] = NoConn /\ \A j \in Conns \ {k} : tcp'[j] = tcp[j]
  BY <1>1, <1>2
<1>5. /\ peer' = [j \in Conns |-> peer'[j]] /\ peer'[k] = NoPeer /\ \A j \in Conns \ {k} : peer'[j] = peer[j]
  BY <1>1, <1>2
<1>6. \A j \in Conns : TcpOK(tcp'[j])
  BY <1>2, <1>3, <1>4, Zenon
<1>7. \A j \in Conns : PeerOK(peer'[j])
  BY <1>2, <1>5, NoPeerIs, Zenon
<1>8. slot' = [u \in Slots |-> slot'[u]]
  BY <1>1
<1>9. ASSUME NEW u \in Slots
      PROVE  SlotOK(slot'[u]) /\ (slot'[u].esp = Nobody \/ (slot'[u] = slot[u] /\ ~(slot[u].esp \in Conns /\ ShouldClose(slot[u].esp))))
  <2>1. slot'[u] = IF slot[u].esp \in Conns /\ ShouldClose(slot[u].esp)
                   THEN http_process_free_connection(slot[u]) ELSE slot[u]
    BY <1>1, Zenon
  <2>2. SlotOK(http_process_free_connection(slot[u])) /\ http_process_free_connection(slot[u]).esp = Nobody
    BY <1>2, FreedSlot
  <2>3. QED
    BY <1>2, <2>1, <2>2, Zenon
<1>10. ASSUME NEW u \in Slots, slot'[u].esp \in Conns
       PROVE  /\ tcp'[slot'[u].esp].st # "free"
              /\ \A v \in Slots : slot'[v].esp = slot'[u].esp => v = u
              /\ tcp'[slot'[u].esp].st = "open" => Serves(slot'[u], tcp'[slot'[u].esp], peer'[slot'[u].esp])
  <2> DEFINE j == slot[u].esp
  <2>1. slot'[u] = slot[u] /\ j \in Conns /\ ~ShouldClose(j)
    <3>1. slot'[u].esp # Nobody
      BY <1>10, WsAssumption
    <3>2. QED
      BY <1>9, <1>10, <3>1, Zenon
  <2>2. j # k
    <3>1. "closing" # "open"
      OBVIOUS
    <3>2. tcp[k].est = "CLOSE"
      BY <1>1, <1>2, <3>1, Zenon DEF TcpOK
    <3>3. QED
      BY <2>1, <3>2, Zenon DEF ShouldClose
  <2>3. tcp'[j] = tcp[j] /\ peer'[j] = peer[j]
    BY <1>4, <1>5, <2>1, <2>2, Zenon
  <2>4. /\ tcp[j].st # "free" /\ \A v \in Slots : slot[v].esp = j => v = u
        /\ tcp[j].st = "open" => Serves(slot[u], tcp[j], peer[j])
    BY <1>2, <2>1, Zenon DEF Owned
  <2>5. \A v \in Slots : slot'[v].esp = j => v = u
    <3>1. j # Nobody
      BY <2>1, WsAssumption
    <3>2. QED
      BY <1>9, <2>4, <3>1, Zenon
  <2>6. QED
    BY <2>1, <2>3, <2>4, <2>5, Zenon
<1>11. \A u \in Slots : Owned(u)'
  BY <1>10, Zenon DEF Owned
<1>12. \A u \in Slots : SlotOK(slot'[u])
  BY <1>9, Zenon
<1>13. WsIndInv'
  BY <1>4, <1>5, <1>6, <1>7, <1>8, <1>11, <1>12, Zenon DEF WsIndInv, Slots
<1>14. QED
  BY <1>3, <1>4, <1>13, Zenon DEF SentDue

-----------------------------------------------------------------------------
(* The theorems                                                            *)

\* The invariant holds at the start.
LEMMA WsInit == Init => WsIndInv
<1> SUFFICES ASSUME Init PROVE WsIndInv
  OBVIOUS
<1>1. PICK used \in SUBSET Slots : slot = [s \in Slots |->
         [esp |-> IF s \in used THEN Other ELSE Nobody, state |-> ON_URL, host |-> "unsaved", ohdr |-> {},
          fn |-> "NULL", data |-> NoData, upgrade |-> FALSE, handshake_ok |-> FALSE, done |-> FALSE, out |-> <<>>,
          context |-> NoContext]]
  BY Zenon DEF Init
<1>2. tcp = [k \in Conns |-> NoConn] /\ peer = [k \in Conns |-> NoPeer]
  BY Zenon DEF Init
<1>3. slot = [s \in Slots |-> slot[s]] /\ tcp = [k \in Conns |-> tcp[k]] /\ peer = [k \in Conns |-> peer[k]]
  BY <1>1, <1>2
<1>4. ContextOK(NoContext)
  <2> DEFINE a == NoContext
  <2>1. /\ a = [f \in ContextFields |-> a[f]] /\ a.live = FALSE /\ a.stream = FALSE /\ a.waiting = FALSE
        /\ a.want = 0 /\ a.size = 0
    BY DEF NoContext, NewContext, ContextFields
  <2>2. 0 \in 0 .. MaxPacket
    BY WsAssumption
  <2> HIDE DEF a
  <2>3. ContextOK(a)
    BY <2>1, <2>2, Zenon DEF ContextOK
  <2>4. QED
    BY <2>3 DEF a
<1>5. ASSUME NEW s \in Slots
      PROVE  SlotOK(slot[s]) /\ slot[s].esp \in {Nobody, Other}
  <2> DEFINE c == slot[s]
  <2>1. /\ c = [f \in SlotFields |-> c[f]] /\ c.esp \in {Nobody, Other} /\ c.state = ON_URL /\ c.done = FALSE
        /\ c.out = <<>> /\ c.context = NoContext
    BY <1>1 DEF SlotFields
  <2> HIDE DEF c
  <2>2. c.esp \in Conns \cup {Nobody, Other} /\ c.state \in {ON_URL, HEADERS_END, BODY_END, WS_DATA, WS_DATA_SENT}
    BY <2>1
  <2>3. SlotOK(c)
    BY <1>4, <2>1, <2>2, Zenon DEF SlotOK
  <2>4. QED
    BY <2>1, <2>3 DEF c
<1>6. \A k \in Conns : TcpOK(tcp[k])
  BY <1>2, NoConnIs, Zenon
<1>7. \A k \in Conns : PeerOK(peer[k])
  BY <1>2, NoPeerIs, Zenon
<1>8. \A s \in Slots : Owned(s)
  <2>1. \A s \in Slots : slot[s].esp \notin Conns
    BY <1>5, WsAssumption
  <2>2. QED
    BY <2>1, Zenon DEF Owned
<1>9. QED
  BY <1>3, <1>5, <1>6, <1>7, <1>8, Zenon DEF WsIndInv

\* What a step may send to a peer, whoever the step is for: nothing, what is on
\* its way already, or what is due.
OnlyDue == \A k \in Conns : NothingNew(k) \/ SentDue(k)

\* The connection a step is for, and all the others.
LEMMA Others ==
  ASSUME WsIndInv, NEW k \in Conns, NEW t, tcp' = [tcp EXCEPT ![k] = t], NothingNew(k) \/ SentDue(k)
  PROVE  OnlyDue
<1>1. \A j \in Conns \ {k} : tcp'[j] = tcp[j]
  BY DEF WsIndInv
<1>2. QED
  BY <1>1, Zenon DEF OnlyDue, NothingNew

\* Every step keeps the invariant, and sends what is due.
LEMMA WsStep == WsIndInv /\ [Next]_vars => WsIndInv' /\ OnlyDue
<1> SUFFICES ASSUME WsIndInv, [Next]_vars PROVE WsIndInv' /\ OnlyDue
  OBVIOUS
<1>1. CASE UNCHANGED vars
  <2>1. slot' = slot /\ tcp' = tcp /\ peer' = peer
    BY <1>1 DEF vars
  <2>2. WsIndInv'
    BY <2>1 DEF WsIndInv, Owned, Slots
  <2>3. QED
    BY <2>1, <2>2, Zenon DEF OnlyDue, NothingNew
<1>2. ASSUME NEW k \in Conns, WsIndInv', NothingNew(k) \/ SentDue(k), NEW t, tcp' = [tcp EXCEPT ![k] = t]
      PROVE  WsIndInv' /\ OnlyDue
  BY <1>2, Others
<1>3. ASSUME NEW k \in Conns, NEW h \in Handshakes, Connect(k, h)
      PROVE  WsIndInv' /\ OnlyDue
  <2>1. tcp' = [tcp EXCEPT ![k] = Accepted(h)]
    BY <1>3, Zenon DEF Connect
  <2>2. WsIndInv' /\ SentDue(k)
    BY <1>3, ConnectStep
  <2>3. QED
    BY <1>2, <2>1, <2>2, Zenon
<1>4. ASSUME NEW k \in Conns, NEW h \in Handshakes, ConnectOverflow(k, h)
      PROVE  WsIndInv' /\ OnlyDue
  <2>1. tcp' = [tcp EXCEPT ![k] = espconn_disconnect(Accepted(h))]
    BY <1>4, Zenon DEF ConnectOverflow
  <2>2. WsIndInv' /\ SentDue(k)
    BY <1>4, OverflowStep
  <2>3. QED
    BY <1>2, <2>1, <2>2, Zenon
<1>5. ASSUME NEW k \in Conns, NEW s, NEW x, NEW asked, Commit(s, k, x, asked), WsIndInv', NothingNew(k) \/ SentDue(k)
      PROVE  WsIndInv' /\ OnlyDue
  <2>1. tcp' = [tcp EXCEPT ![k] = Settled(x.tcp)]
    BY <1>5 DEF Commit, Settled
  <2>2. QED
    BY <1>2, <1>5, <2>1, Zenon
<1>6. ASSUME NEW k \in Conns, ReceiveHandshake(k)
      PROVE  WsIndInv' /\ OnlyDue
  <2>1. \E s, x, asked : Commit(s, k, x, asked)
    BY <1>6, Zenon DEF ReceiveHandshake
  <2>2. WsIndInv' /\ SentDue(k)
    BY <1>6, HandshakeStep
  <2>3. QED
    BY <1>5, <2>1, <2>2, Zenon
<1>7. ASSUME NEW k \in Conns, ReceiveMalformed(k)
      PROVE  WsIndInv' /\ OnlyDue
  <2>1. \E s, x, asked : Commit(s, k, x, asked)
    BY <1>7, Zenon DEF ReceiveMalformed
  <2>2. WsIndInv' /\ SentDue(k)
    BY <1>7, MalformedStep
  <2>3. QED
    BY <1>5, <2>1, <2>2, Zenon
<1>8. ASSUME NEW k \in Conns, NEW f \in Frames, ReceiveFrame(k, f)
      PROVE  WsIndInv' /\ OnlyDue
  <2>1. \E s, x, asked : Commit(s, k, x, asked)
    BY <1>8, Zenon DEF ReceiveFrame
  <2>2. WsIndInv' /\ (NothingNew(k) \/ SentDue(k))
    BY <1>8, FrameStep
  <2>3. QED
    BY <1>5, <2>1, <2>2, Zenon
<1>9. ASSUME NEW k \in Conns, Sent(k)
      PROVE  WsIndInv' /\ OnlyDue
  <2>1. \E s, x, asked : Commit(s, k, x, asked)
    BY <1>9, Zenon DEF Sent
  <2>2. WsIndInv' /\ SentDue(k)
    BY <1>9, SentStep
  <2>3. QED
    BY <1>5, <2>1, <2>2, Zenon
<1>10. ASSUME NEW k \in Conns, PeerClose(k)
       PROVE  WsIndInv' /\ OnlyDue
  <2>1. tcp' = [tcp EXCEPT ![k].st = "closing", ![k].est = "CLOSE", ![k].unacked = FALSE, ![k].got = <<>>]
    BY <1>10, Zenon DEF PeerClose
  <2>2. tcp' = [tcp EXCEPT ![k] = tcp'[k]]
    BY <2>1 DEF WsIndInv
  <2>3. WsIndInv' /\ SentDue(k)
    BY <1>10, PeerCloseStep
  <2>4. QED
    BY <1>2, <2>2, <2>3, Zenon
<1>11. ASSUME NEW k \in Conns, Disconnected(k)
       PROVE  WsIndInv' /\ OnlyDue
  <2>1. tcp' = [tcp EXCEPT ![k] = NoConn]
    BY <1>11, Zenon DEF Disconnected
  <2>2. WsIndInv' /\ SentDue(k)
    BY <1>11, DisconnectedStep
  <2>3. QED
    BY <1>2, <2>1, <2>2, Zenon
<1>12. QED
  BY <1>1, <1>3, <1>4, <1>6, <1>7, <1>8, <1>9, <1>10, <1>11, Zenon DEF Next

\* The invariant implies what the run checks.
LEMMA WsSafe == WsIndInv => WebSocketInv
<1> SUFFICES ASSUME WsIndInv PROVE WebSocketInv
  OBVIOUS
<1>1. /\ \A s \in Slots : SlotOK(slot[s]) /\ Owned(s)
      /\ \A k \in Conns : TcpOK(tcp[k]) /\ PeerOK(peer[k])
      /\ peer = [k \in Conns |-> peer[k]]
  BY Zenon DEF WsIndInv
<1>2. ASSUME NEW s \in Slots
      PROVE  /\ slot[s].esp \in Conns \cup {Nobody, Other}
             /\ slot[s].state \in {ON_URL, HEADERS_END, BODY_END, WS_DATA, WS_DATA_SENT}
             /\ slot[s].context \in [live : BOOLEAN, stream : BOOLEAN, want : 0 .. MaxPacket,
                                     waiting : BOOLEAN, size : 0 .. MaxPacket]
             /\ slot[s].done \in BOOLEAN /\ slot[s].out = <<>>
  <2> DEFINE a == slot[s].context
  <2>1. ContextOK(a)
    BY <1>1, Zenon DEF SlotOK
  <2> HIDE DEF a
  <2>2. a \in [live : BOOLEAN, stream : BOOLEAN, want : 0 .. MaxPacket, waiting : BOOLEAN, size : 0 .. MaxPacket]
    BY <2>1 DEF ContextOK, ContextFields
  <2>3. QED
    BY <1>1, <2>2, Zenon DEF SlotOK, a
<1>3. ASSUME NEW k \in Conns
      PROVE  Len(tcp[k].got) <= 1 /\ tcp[k].st \in {"free", "open", "closing"}
  <2>1. tcp[k].got = <<>> \/ \E p : tcp[k].got = <<p>>
    BY <1>1, Zenon DEF TcpOK
  <2>2. Len(<<>>) <= 1 /\ \A p : Len(<<p>>) <= 1
    OBVIOUS
  <2>3. Len(tcp[k].got) <= 1
    BY <2>1, <2>2, Zenon
  <2>4. QED
    BY <1>1, <2>3, Zenon DEF TcpOK
<1>4. peer \in [Conns -> [greeted : {0, 101, 400}, asked : 0 .. MaxPacket]]
  <2>1. \A k \in Conns : peer[k] \in [greeted : {0, 101, 400}, asked : 0 .. MaxPacket]
    BY <1>1 DEF PeerOK
  <2>2. QED
    BY <1>1, <2>1
<1>5. TypeOK
  BY <1>2, <1>3, <1>4, Zenon DEF TypeOK
<1>6. SlotOwnership
  BY <1>1 DEF SlotOwnership, Owned, SlotsOf
<1>7. SentWillCome
  <2> SUFFICES ASSUME NEW s \in Slots, slot[s].esp \in Conns, tcp[slot[s].esp].st = "open",
                      slot[s].done \/ peer[slot[s].esp].asked > 0
               PROVE  tcp[slot[s].esp].unacked
    BY Zenon DEF SentWillCome
  <2> DEFINE k == slot[s].esp
             c == slot[s]
             t == tcp[k]
             p == peer[k]
  <2>1. Serves(c, t, p)
    BY <1>1, Zenon DEF Owned
  <2> HIDE DEF c, t, p
  <2>2. CASE c.done
    BY <2>1, <2>2, Zenon DEF Serves, t
  <2>3. CASE p.asked > 0
    <3>1. p.asked # 0
      BY <2>3
    <3>2. p.greeted = 101
      BY <2>1, <3>1, Zenon DEF Serves
    <3>3. Upgraded(c, t, p.asked)
      BY <2>1, <3>2, Zenon DEF Serves
    <3>4. QED
      BY <2>3, <3>3, Zenon DEF Upgraded, t
  <2>4. QED
    BY <2>2, <2>3, Zenon DEF c, p
<1>8. QED
  BY <1>5, <1>6, <1>7 DEF WebSocketInv

\* WebSocketInv (TypeOK, SlotOwnership, SentWillCome): whatever peers send, and in
\* whatever order requests, frames, acknowledgements and ends of connections are
\* handled, each slot of connection_poll holds a connection of its own that is
\* still there, and a stream or a close that is due has a sent callback to come.
THEOREM WebSocketCorrect == Spec => []WebSocketInv
<1>1. Init => WsIndInv
  BY WsInit
<1>2. WsIndInv /\ [Next]_vars => WsIndInv'
  BY WsStep
<1>3. WsIndInv => WebSocketInv
  BY WsSafe
<1>4. QED
  BY <1>1, <1>2, <1>3, PTL DEF Spec

\* A packet that espconn takes is due.
LEMMA NewIsDue ==
  ASSUME WsIndInv, [Next]_vars, NEW k \in Conns, NewPacket(k)
  PROVE  Due(tcp'[k].got[1], peer[k], peer'[k], tcp[k].req)
<1>1. SentDue(k)
  <2>1. CASE Sent(k)
    BY <2>1, SentStep
  <2>2. CASE tcp[k].got = <<>>
    <3>1. NothingNew(k) \/ SentDue(k)
      BY WsStep, Zenon DEF OnlyDue
    <3>2. QED
      BY <2>2, <3>1, Zenon DEF NothingNew, SentDue
  <2>3. QED
    BY <2>1, <2>2, Zenon DEF NewPacket
<1>2. PICK token : tcp'[k].got = <<token>> /\ Due(token, peer[k], peer'[k], tcp[k].req)
  BY <1>1, Zenon DEF SentDue, NewPacket
<1>3. tcp'[k].got[1] = token
  BY <1>2
<1>4. QED
  BY <1>2, <1>3, Zenon

\* HandshakeFirst: the first thing that a peer is sent is the status its handshake
\* deserves, once; frames come after a 101 only.
THEOREM HandshakeComesFirst == Spec => HandshakeFirst
<1>1. Init => WsIndInv
  BY WsInit
<1>2. WsIndInv /\ [Next]_vars => WsIndInv'
  BY WsStep
<1>3. ASSUME WsIndInv, [Next]_vars
      PROVE  \A k \in Conns : NewPacket(k) =>
                LET p == tcp'[k].got[1]
                IN  IF p.kind = "status"
                    THEN peer[k].greeted = 0 /\ p.status = (IF tcp[k].req.good THEN 101 ELSE 400)
                    ELSE peer[k].greeted = 101
  <2> TAKE k \in Conns
  <2> HAVE NewPacket(k)
  <2>1. Due(tcp'[k].got[1], peer[k], peer'[k], tcp[k].req)
    BY <1>3, NewIsDue
  <2>2. QED
    BY <2>1, Zenon DEF Due
<1>4. QED
  BY <1>1, <1>2, <1>3, PTL DEF Spec, HandshakeFirst

\* PacketsAsAsked: a peer is streamed packets of the size it asked for last, and
\* none after its request to stop.
THEOREM StreamsAsAsked == Spec => PacketsAsAsked
<1>1. Init => WsIndInv
  BY WsInit
<1>2. WsIndInv /\ [Next]_vars => WsIndInv'
  BY WsStep
<1>3. ASSUME WsIndInv, [Next]_vars
      PROVE  \A k \in Conns : NewPacket(k) /\ tcp'[k].got[1].kind = "bin" =>
                tcp'[k].got[1].size = peer'[k].asked /\ peer'[k].asked > 0
  <2>1. "bin" # "status"
    OBVIOUS
  <2>2. QED
    BY <1>3, <2>1, NewIsDue, Zenon DEF Due
<1>4. QED
  BY <1>1, <1>2, <1>3, PTL DEF Spec, PacketsAsAsked
==============================================================================
