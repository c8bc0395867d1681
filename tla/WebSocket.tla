------------------------------ MODULE WebSocket ------------------------------
(***************************************************************************)
(* The WebSocket server (http/http_websocket_server.c) and the speed test  *)
(* that app.c runs on it (http/ws_app.c), over the connection pool and the *)
(* espconn callbacks of http/http_process.c.  Output and espconn are those *)
(* of HttpCgi.                                                             *)
(*                                                                         *)
(* A peer opens a connection with one request, in one segment or two, and  *)
(* sends frames once it has seen the server's 101.  A segment is looked at *)
(* up to the end of its first frame only, so a frame here is a segment.    *)
(* The wire format of frames is in Codecs.                                 *)
(***************************************************************************)
EXTENDS HttpCgi, FiniteSets

CONSTANTS
    NSlots,         \* MAX_CONNECTIONS
    Conns,          \* addresses of espconn blocks
    Other,          \* the connections of the HTTP server, in slots of the same pool
    MaxPacket,      \* the largest packet that may be asked for: 1024
    MaxAccepts      \* bound: how many connections are accepted

ASSUME WsAssumption ==
    /\ NSlots \in Nat \ {0} /\ MaxAccepts \in Nat /\ MaxPacket \in Nat \ {0}
    /\ Nobody \notin Conns /\ Other \notin Conns /\ Other # Nobody

VARIABLES
    slot,       \* connection_poll
    tcp,        \* the espconn blocks
    peer,       \* per connection: what its peer has seen and asked for
    accepts,    \* connections accepted so far
    crashed     \* a store through a garbage pointer stopped the firmware

vars == <<slot, tcp, peer, accepts, crashed>>

Slots == 1 .. NSlots

\* http_process.h
WS_DATA == 5
WS_DATA_SENT == 6

\* struct ws_app_context, zeroed; packet is NULL as long as size is 0.
NewContext == [live |-> TRUE, stream |-> FALSE, want |-> 0, waiting |-> FALSE, size |-> 0]
NoContext == [NewContext EXCEPT !.live = FALSE]

\* A request for the WebSocket port: the parser takes it for an upgrade; the
\* headers the handshake needs are there; and, when it comes in two segments,
\* what the first byte of the second one means as a frame.
Handshake(upgrade, good, first) == [upgrade |-> upgrade, good |-> good, first |-> first]
Handshakes ==
    {Handshake(TRUE, TRUE, first) : first \in {"whole", "TEXT", "CLOSE"}}
      \cup {Handshake(TRUE, FALSE, "IGNORED"), Handshake(FALSE, FALSE, "whole")}

\* A frame: its type, and for a text what it asks for: a stream of packets of
\* that size, 0 for the end of it, -1 for nothing (or a size out of range).  INVALID, CONTINUATION and PONG
\* frames are not acted on.
Frame(type, ask) == [type |-> type, ask |-> ask]
Frames == {Frame("TEXT", n) : n \in -1 .. MaxPacket}
            \cup {Frame(t, -1) : t \in {"IGNORED", "PING", "CLOSE"}}

\* Received(k): the segments of the handshake that are still to come.
Segments(h) == IF h.first = "whole" THEN <<"end">> ELSE <<"start", "end">>

NoConn == [st |-> "free", est |-> "CLOSE", unacked |-> FALSE, refused |-> FALSE,
           byServer |-> FALSE, got |-> <<>>, req |-> Handshake(FALSE, FALSE, "whole"), rx |-> <<>>]

NoPeer == [greeted |-> 0, asked |-> 0]

\* http_process_init.  The HTTP server may hold slots of the pool all the time.
Init ==
    /\ \E used \in SUBSET Slots : slot = [s \in Slots |->
         [esp |-> IF s \in used THEN Other ELSE Nobody, state |-> ON_URL, host |-> "unsaved", ohdr |-> {}, fn |-> "NULL", data |-> NoData,
          upgrade |-> FALSE, handshake_ok |-> FALSE, done |-> FALSE, out |-> <<>>,
          context |-> NoContext]]
    /\ tcp = [k \in Conns |-> NoConn]
    /\ peer = [k \in Conns |-> NoPeer]
    /\ accepts = 0
    /\ crashed = FALSE

SlotsOf(k) == {s \in Slots : slot[s].esp = k}
http_process_find_connection(k) == CHOOSE s \in SlotsOf(k) : \A t \in SlotsOf(k) : s <= t

Context(s, k) == [c |-> slot[s], tcp |-> tcp[k]]

-----------------------------------------------------------------------------
(* ws_app.c.                                                               *)

Bin(n) == [kind |-> "bin", size |-> n]

\* ws_write_frame fills the output buffer.
http_ws_push_bin(x, n) == http_transmit(http_write(x, Bin(n)))

\* Mutant: a packet that has been allocated is never replaced.
Mut_Packet(a) == IF a.size = 0 THEN a.want ELSE a.size

\* The packet is allocated again when another size has been asked for.
Packet(a) == IF a.size # a.want THEN a.want ELSE a.size

\* Marked as waiting whether or not espconn has taken the packet.
ws_app_send_packet(x) ==
    LET a == x.c.context
    IN  IF a.waiting \/ ~a.stream THEN x
        ELSE http_ws_push_bin([x EXCEPT !.c.context.size = Packet(a),
                                        !.c.context.waiting = TRUE], Packet(a))

\* Mutant: the answer to a packet does not clear the mark.
Mut_ws_app_msg_sent(x) == ws_app_send_packet(x)

ws_app_msg_sent(x) ==
    IF x.c.context.live THEN ws_app_send_packet([x EXCEPT !.c.context.waiting = FALSE]) ELSE x

\* The context of the slot's last connection, if it had one, is not freed.
ws_app_client_connected(x) == [x EXCEPT !.c.context = NewContext]

ws_app_msg_received(x, ask) ==
    CASE ask \in 1 .. MaxPacket ->
           ws_app_send_packet([x EXCEPT !.c.context.want = ask, !.c.context.stream = TRUE])
      [] ask = 0 -> [x EXCEPT !.c.context.stream = FALSE]
      [] OTHER   -> x

-----------------------------------------------------------------------------
(* http_websocket_server.c.                                                *)

\* Nothing happens before the request is complete.  http_websocket_HANDSHAKE
\* empties the output buffer first.
http_ws_handle_connect(x) ==
    CASE x.c.state # BODY_END -> x
      [] x.c.state = BODY_END /\ x.tcp.req.good ->
           ws_app_client_connected(
             [http_response([x EXCEPT !.c.out = <<>>], 101) EXCEPT !.c.handshake_ok = TRUE])
      [] OTHER -> [http_response(x, 400) EXCEPT !.c.done = TRUE]

\* The application never asks for the connection to be closed.
http_ws_handle_message(x, ask) ==
    IF x.c.fn = "NULL" THEN x ELSE http_transmit(ws_app_msg_received(x, ask))

\* The answer is a PING with two bytes, and the connection is done with.
Close(x) == [http_transmit(http_write(x, [kind |-> "ping"])) EXCEPT !.c.done = TRUE]

\* The PING case runs on into the CLOSE case.
OnFrame(x, f) ==
    CASE f.type = "TEXT"    -> http_ws_handle_message(x, f.ask)
      [] f.type = "PING"    -> Close(http_transmit(http_write(x, [kind |-> "ping"])))
      [] f.type = "CLOSE"   -> Close(x)
      [] f.type = "IGNORED" -> x

\* f is the frame in body.data, Frame("none", -1) when that is NULL.
http_ws_cgi_execute(x, f) ==
    CASE ~x.c.handshake_ok -> http_transmit(http_ws_handle_connect(x))
      [] x.c.handshake_ok /\ f.type = "none" ->
           IF x.c.state = WS_DATA_SENT THEN ws_app_msg_sent(x) ELSE x
      [] OTHER -> IF x.c.state = WS_DATA THEN OnFrame(x, f) ELSE x

NoFrame == Frame("none", -1)

-----------------------------------------------------------------------------
(* The callbacks of http_process.c and http_ws_connect_callback.           *)

\* Per connection, what the peer has been sent by this step: its handshake's
\* status, and, if it has just sent a frame, what it now asks for.
Greeting(x) ==
    LET st == {x.tcp.got[i].status : i \in {j \in DOMAIN x.tcp.got : x.tcp.got[j].kind = "status"}}
    IN  IF st = {} THEN 0 ELSE CHOOSE n \in st : TRUE

\* (What the server did to the connection, and the request once it is complete,
\* say nothing more about what is to come.)
Commit(s, k, x, asked) ==
    /\ slot' = [slot EXCEPT ![s] = x.c]
    /\ tcp' = [tcp EXCEPT ![k] = [x.tcp EXCEPT
                  !.refused = FALSE, !.byServer = FALSE,
                  !.got = IF x.tcp.st = "open" THEN @ ELSE <<>>,
                  !.req.first = IF x.tcp.rx = <<>> THEN "whole" ELSE @]]
    /\ peer' = [peer EXCEPT ![k].asked = asked,
                            ![k].greeted = IF @ = 0 THEN Greeting(x) ELSE @]
    /\ UNCHANGED <<accepts, crashed>>

\* Mutant: handshake_ok keeps its value.
Mut_http_new_connection(c, k) ==
    [c EXCEPT !.esp = k, !.done = FALSE, !.out = <<>>, !.upgrade = FALSE, !.fn = "app_callback"]

\* http_new_connection and http_ws_connect_callback.  The state, the response
\* headers and the context are those of the slot's last connection.
http_new_connection(c, k) ==
    [c EXCEPT !.esp = k, !.done = FALSE, !.out = <<>>, !.upgrade = FALSE, !.fn = "app_callback",
              !.handshake_ok = FALSE]

Accepted(h) == [NoConn EXCEPT !.st = "open", !.est = "CONNECT", !.req = h, !.rx = Segments(h)]

Connect(k, h) ==
    /\ ~crashed /\ tcp[k].st = "free" /\ accepts < MaxAccepts /\ SlotsOf(Nobody) # {}
    /\ tcp' = [tcp EXCEPT ![k] = Accepted(h)]
    /\ LET s == http_process_find_connection(Nobody)
       IN  slot' = [slot EXCEPT ![s] = http_new_connection(@, k)]
    /\ peer' = [peer EXCEPT ![k] = NoPeer]
    /\ accepts' = accepts + 1
    /\ UNCHANGED crashed

\* Connection pool overflow: no value is returned, and http_ws_connect_callback
\* stores through it.
ConnectOverflow(k, h) ==
    /\ ~crashed /\ tcp[k].st = "free" /\ accepts < MaxAccepts /\ SlotsOf(Nobody) = {}
    /\ tcp' = [tcp EXCEPT ![k] = espconn_disconnect(Accepted(h))]
    /\ peer' = [peer EXCEPT ![k] = NoPeer]
    /\ accepts' = accepts + 1
    /\ crashed' \in BOOLEAN
    /\ UNCHANGED slot

\* on_websocket_data
on_websocket_data(x, f) == http_ws_cgi_execute([x EXCEPT !.c.state = WS_DATA], f)

\* The callbacks of the parser for the segment that ends the handshake: the
\* parser sees the upgrade with the last header, and runs on_headers_complete,
\* then on_message_complete.
ParseEnd(x) ==
    LET hdrs == http_ws_cgi_execute([x EXCEPT !.c.state = HEADERS_END,
                                              !.c.upgrade = x.tcp.req.upgrade], NoFrame)
    IN  http_ws_cgi_execute([hdrs EXCEPT !.c.state = BODY_END], NoFrame)

\* http_process_received_cb hands the whole segment that ends the handshake to
\* on_websocket_data as well.
First(h) == Frame(IF h.first = "whole" THEN "IGNORED" ELSE h.first, -1)
AfterParse(x) == IF x.c.upgrade THEN on_websocket_data(x, First(x.tcp.req)) ELSE x

AfterReceive(x) == IF x.tcp.st = "open" THEN [x EXCEPT !.tcp.est = "CONNECT"] ELSE x

Pending(k) == tcp[k].st = "open" /\ tcp[k].rx # <<>>

ReceiveHandshake(k) ==
    /\ ~crashed /\ Pending(k) /\ SlotsOf(k) # {}
    /\ LET s == http_process_find_connection(k)
           x == [Context(s, k) EXCEPT !.tcp.rx = Tail(@)]
           y == IF Head(tcp[k].rx) = "start"
                THEN http_ws_cgi_execute([x EXCEPT !.c.state = ON_URL], NoFrame)
                ELSE AfterParse(ParseEnd(x))
       IN  Commit(s, k, AfterReceive(y), peer[k].asked)

\* The parser rejects the request.
ReceiveMalformed(k) ==
    /\ ~crashed /\ Pending(k) /\ SlotsOf(k) # {}
    /\ LET s == http_process_find_connection(k)
           x == Context(s, k)
       IN  Commit(s, k, [x EXCEPT !.tcp = espconn_disconnect(@),
                                  !.c = http_process_free_connection(@)], peer[k].asked)

\* A frame; what the parser says of it is ignored, as upgrade is set.
Asks(f, old) == IF f.type = "TEXT" /\ f.ask \in 0 .. MaxPacket THEN f.ask ELSE old

ReceiveFrame(k, f) ==
    /\ ~crashed /\ tcp[k].st = "open" /\ peer[k].greeted = 101 /\ SlotsOf(k) # {}
    /\ LET s == http_process_find_connection(k)
       IN  Commit(s, k, AfterReceive(on_websocket_data(Context(s, k), f)), Asks(f, peer[k].asked))

\* Mutant: a connection that is done is not closed.
Mut_http_process_sent_cb(x) ==
    http_ws_cgi_execute([x EXCEPT !.c.state = IF x.c.upgrade THEN WS_DATA_SENT ELSE @], NoFrame)

http_process_sent_cb(x) ==
    IF x.c.done THEN [x EXCEPT !.tcp = espconn_disconnect(@),
                               !.c = http_process_free_connection(@)]
    ELSE http_ws_cgi_execute([x EXCEPT !.c.state = IF x.c.upgrade THEN WS_DATA_SENT ELSE @], NoFrame)

Unacked(k) == tcp[k].st = "open" /\ tcp[k].unacked /\ SlotsOf(k) # {}

\* The peer has acknowledged the packet it was sent.
Sent(k) ==
    /\ ~crashed /\ Unacked(k)
    /\ LET s == http_process_find_connection(k)
           x == [Context(s, k) EXCEPT !.tcp.unacked = FALSE, !.tcp.est = "CONNECT",
                                      !.tcp.got = <<>>]
       IN  Commit(s, k, http_process_sent_cb(x), peer[k].asked)

\* The peer closes or resets the connection, or falls silent for 240 s.
PeerClose(k) ==
    /\ ~crashed /\ tcp[k].st = "open"
    /\ tcp' = [tcp EXCEPT ![k].st = "closing", ![k].est = "CLOSE", ![k].unacked = FALSE,
                           ![k].got = <<>>]
    /\ UNCHANGED <<slot, peer, accepts, crashed>>

ShouldClose(k) == tcp[k].est = "CLOSE"

\* espconn calls back with the listening connection, which no slot holds, so
\* http_process_disconnect_cb sweeps the pool: the CGI is not called with
\* HTTPD_STATE_WS_CLIENT_DISCONNECT, and ws_app_client_disconnected never runs.
\* (http_ws_cgi_execute would only run it with body.data set, which it is not.)
Disconnected(k) ==
    /\ ~crashed /\ tcp[k].st = "closing"
    /\ tcp' = [tcp EXCEPT ![k] = NoConn]
    /\ peer' = [peer EXCEPT ![k] = NoPeer]
    /\ slot' = [s \in Slots |-> IF slot[s].esp \in Conns /\ ShouldClose(slot[s].esp)
                                THEN http_process_free_connection(slot[s]) ELSE slot[s]]
    /\ UNCHANGED <<accepts, crashed>>

Next ==
    \/ \E k \in Conns, h \in Handshakes : Connect(k, h)
    \/ \E k \in Conns, h \in Handshakes : ConnectOverflow(k, h)
    \/ \E k \in Conns : ReceiveHandshake(k)
    \/ \E k \in Conns : ReceiveMalformed(k)
    \/ \E k \in Conns, f \in Frames : ReceiveFrame(k, f)
    \/ \E k \in Conns : Sent(k)
    \/ \E k \in Conns : PeerClose(k)
    \/ \E k \in Conns : Disconnected(k)

Spec == Init /\ [][Next]_vars

\* Peers that stay acknowledge what they get, and espconn's task runs.  (The
\* acknowledgement of a packet that is followed by an equal one leaves the state
\* as it is, so this is said of connections that are done.)
Fairness ==
    \A k \in Conns :
        /\ \/ []<>~(~crashed /\ Unacked(k) /\ \E s \in SlotsOf(k) : slot[s].done)
           \/ []<><<Sent(k)>>_vars
        /\ WF_vars(Disconnected(k))

LiveSpec == Spec /\ Fairness

-----------------------------------------------------------------------------
(* Properties.                                                             *)

\* Every variable has its type: what espconn holds for a connection is at most
\* one packet, of the kinds the server sends.
TypeOK ==
    /\ \A s \in Slots :
         /\ slot[s].esp \in Conns \cup {Nobody, Other}
         /\ slot[s].state \in {ON_URL, HEADERS_END, BODY_END, WS_DATA, WS_DATA_SENT}
         /\ slot[s].context \in [live : BOOLEAN, stream : BOOLEAN, want : 0 .. MaxPacket,
                                 waiting : BOOLEAN, size : 0 .. MaxPacket]
         /\ slot[s].done \in BOOLEAN /\ slot[s].out = <<>>
    /\ \A k \in Conns : Len(tcp[k].got) <= 1 /\ tcp[k].st \in {"free", "open", "closing"}
    /\ peer \in [Conns -> [greeted : {0, 101, 400}, asked : 0 .. MaxPacket]]

\* Slots and connections match: no two slots hold one connection, and no slot
\* holds an espconn block that has been freed.
SlotOwnership ==
    \A s \in Slots : slot[s].esp \in Conns =>
        /\ tcp[slot[s].esp].st # "free"
        /\ SlotsOf(slot[s].esp) = {s}

\* The packet that espconn takes in this step.
NewPacket(k) ==
    tcp'[k].got # <<>> /\ (tcp[k].got = <<>> \/ Sent(k))

\* A peer is answered its handshake first, once, and with the status that is due;
\* after a 400 it is sent nothing more.  (handshake_ok of a slot is not that of
\* the connection before.)
HandshakeFirst ==
    [][\A k \in Conns : NewPacket(k) =>
          LET p == tcp'[k].got[1]
          IN  IF p.kind = "status"
              THEN peer[k].greeted = 0 /\ p.status = (IF tcp[k].req.good THEN 101 ELSE 400)
              ELSE peer[k].greeted = 101]_vars

\* Whatever peers do, each is streamed packets of the size it asked for last, and
\* none once its request to stop has been read: not those of the slot's previous
\* connection, and not the packet allocated for an earlier request.
PacketsAsAsked ==
    [][\A k \in Conns : NewPacket(k) /\ tcp'[k].got[1].kind = "bin" =>
          tcp'[k].got[1].size = peer'[k].asked /\ peer'[k].asked > 0]_vars

\* The packet that was asked for during the handshake, or while another was on
\* its way, is refused by espconn and lost; but a stream never stalls: as long as
\* one is asked for, a packet waits to be acknowledged, and its callback will send
\* the next one.  So does a connection marked as done, which only that callback
\* closes.
SentWillCome ==
    \A s \in Slots : LET k == slot[s].esp
                     IN  k \in Conns /\ tcp[k].st = "open" /\ (slot[s].done \/ peer[k].asked > 0)
                           => tcp[k].unacked

\* The pool with upgraded connections: slots are owned, and what is not finished
\* has a callback to come.
WebSocketInv == TypeOK /\ SlotOwnership /\ SentWillCome

\* A peer that has closed, pinged or been refused is let go: a slot whose
\* connection is done becomes free.
DoneEnds == \A s \in Slots : slot[s].done /\ slot[s].esp # Nobody ~> slot[s].esp = Nobody \/ crashed

-----------------------------------------------------------------------------
(* What the repository says of the server and the code does not do.        *)

\* ws_app.c, ws_app_client_disconnected: "//clean up".  A slot that is free keeps
\* no context of the connection that has left.
ContextsFreed == \A s \in Slots : slot[s].esp = Nobody => ~slot[s].context.live
=============================================================================
