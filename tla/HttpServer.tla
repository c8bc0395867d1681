------------------------------ MODULE HttpServer ------------------------------
(***************************************************************************)
(* The HTTP server: the connection pool and the callbacks of               *)
(* http/http_process.c, run by espconn (TCP), by the http_parser library   *)
(* and by one-shot timers, and dispatching to the CGIs of HttpCgi.         *)
(*                                                                         *)
(* One action is one callback.  A request reaches the parser in pieces of  *)
(* any size, so the events the parser raises are received one by one: any  *)
(* other callback may come in between.  A peer sends one request per       *)
(* connection and does not ask for a protocol upgrade.                     *)
(*                                                                         *)
(* A member of Conns is the address of an espconn block.  espconn takes a  *)
(* block for every connection it accepts and frees it when the connection  *)
(* has ended, so an address serves one connection after another.           *)
(***************************************************************************)
EXTENDS HttpCgi, FiniteSets

CONSTANTS
    NSlots,         \* MAX_CONNECTIONS, the size of connection_poll
    Conns,          \* addresses of espconn blocks
    Requests,       \* the requests peers send
    PeerMayClose,   \* a peer may go away, or fall silent until the TCP timeout
    MaxAccepts      \* bound: how many connections are accepted

ASSUME ServerAssumption ==
    /\ NSlots \in Nat \ {0} /\ MaxAccepts \in Nat
    /\ Nobody \notin Conns /\ PeerMayClose \in BOOLEAN
    /\ Requests \subseteq [url : STRING, method : STRING, host : {"missing", "domain", "other"},
                           body : {"none", "valid", "invalid"}, malformed : BOOLEAN]

VARIABLES
    slot,       \* connection_poll
    tcp,        \* the espconn blocks
    timers,     \* per slot: the timer of the CGI's status block is armed, and
                \* how many armed timers earlier connections left behind
    scanning,   \* wifi_status.scanning
    station,    \* the wifi station
    accepts,    \* connections accepted so far
    crashed     \* a store through a garbage pointer stopped the firmware

vars == <<slot, tcp, timers, scanning, station, accepts, crashed>>

Slots == 1 .. NSlots

\* http_process_init clears connection_poll.
http_process_init ==
    [s \in Slots |->
       [esp |-> Nobody, state |-> ON_URL, url |-> "", method |-> "DELETE", host |-> "unsaved",
        ohdr |-> {}, save |-> FALSE, body |-> "none", fn |-> "NULL", data |-> NoData,
        file |-> "", done |-> FALSE, out |-> <<>>]]

\* What the parser raises for the request q.
Events(q) ==
    <<"url">> \o (IF q.host = "missing" THEN <<>> ELSE <<"host">>)
      \o <<"headers">> \o (IF q.body = "none" THEN <<>> ELSE <<"body", "rest">>)
      \o <<"end">>

NoRequest == [url |-> "", method |-> "DELETE", host |-> "missing", body |-> "none",
              malformed |-> FALSE]

NoConn == [st |-> "free", est |-> "CLOSE", unacked |-> FALSE, refused |-> FALSE,
           byServer |-> FALSE, got |-> <<>>, req |-> NoRequest, rx |-> <<>>]

Init ==
    /\ slot = http_process_init
    /\ tcp = [k \in Conns |-> NoConn]
    /\ timers = [s \in Slots |-> [own |-> FALSE, old |-> 0]]
    /\ scanning = FALSE
    /\ station = "idle"
    /\ accepts = 0
    /\ crashed = FALSE

-----------------------------------------------------------------------------
\* The slots of connection k; the callbacks take the first one.
SlotsOf(k) == {s \in Slots : slot[s].esp = k}
http_process_find_connection(k) == Min(SlotsOf(k))

\* The execution context of a callback for slot s and connection k.
Context(s, k) ==
    [c |-> slot[s], r |-> "NEXT_RULE", scan |-> scanning, timer |-> timers[s].own,
     tcp |-> tcp[k], station |-> station]

\* The timer of a slot that has been freed stays armed, with the slot as its
\* argument.
TimerAfter(x, old) ==
    IF x.c.esp = Nobody /\ x.timer THEN [own |-> FALSE, old |-> old + 1]
                                   ELSE [own |-> x.timer, old |-> old]

Commit(s, k, x, old) ==
    /\ slot' = [slot EXCEPT ![s] = x.c]
    /\ tcp' = [tcp EXCEPT ![k] = x.tcp]
    /\ timers' = [timers EXCEPT ![s] = TimerAfter(x, old)]
    /\ scanning' = x.scan
    /\ station' = x.station
    /\ UNCHANGED <<accepts, crashed>>

-----------------------------------------------------------------------------
\* http_new_connection leaves the state, the url and the cached response
\* headers of the slot's last connection.
http_new_connection(c, k) ==
    [c EXCEPT !.esp = k, !.host = "unsaved", !.done = FALSE, !.out = <<>>,
              !.save = FALSE, !.body = "none", !.method = "DELETE"]

Accepted(q) == [NoConn EXCEPT !.st = "open", !.est = "CONNECT", !.req = q, !.rx = Events(q)]

Connect(k, q) ==
    /\ ~crashed /\ tcp[k].st = "free" /\ accepts < MaxAccepts
    /\ SlotsOf(Nobody) # {}
    /\ tcp' = [tcp EXCEPT ![k] = Accepted(q)]
    /\ LET s == Min(SlotsOf(Nobody))
       IN  slot' = [slot EXCEPT ![s] = http_new_connection(@, k)]
    /\ accepts' = accepts + 1
    /\ UNCHANGED <<timers, scanning, station, crashed>>

\* Connection pool overflow: http_new_connection closes the connection and
\* returns no value, and its caller stores the dispatcher through that value.
ConnectOverflow(k, q) ==
    /\ ~crashed /\ tcp[k].st = "free" /\ accepts < MaxAccepts
    /\ SlotsOf(Nobody) = {}
    /\ tcp' = [tcp EXCEPT ![k] = espconn_disconnect(Accepted(q))]
    /\ accepts' = accepts + 1
    /\ crashed' \in BOOLEAN
    /\ UNCHANGED <<slot, timers, scanning, station>>

-----------------------------------------------------------------------------
\* The parser's callbacks.
on_url(x) ==
    http_execute_cgi([x EXCEPT !.c.state = ON_URL, !.c.url = x.tcp.req.url,
                               !.c.method = x.tcp.req.method])

\* on_header_field and on_header_value: saved if a CGI has asked for it.
on_header(x) ==
    IF x.c.host = "missing" THEN [x EXCEPT !.c.host = x.tcp.req.host] ELSE x

on_headers_complete(x) == http_execute_cgi([x EXCEPT !.c.state = HEADERS_END])

\* The body arrives in pieces, and is kept if a CGI has asked for it.
on_body(x, sofar) ==
    http_execute_cgi([x EXCEPT !.c.state = ON_BODY, !.c.body = IF x.c.save THEN sofar ELSE @])

\* Mutant: the body is freed before the CGI has seen it.
Mut_on_message_complete(x) ==
    http_execute_cgi([x EXCEPT !.c.state = BODY_END,
                               !.c.body = IF x.c.save /\ @ # "none" THEN "freed" ELSE @])

\* The saved body is freed, but body.data still points to it.
on_message_complete(x) ==
    [http_execute_cgi([x EXCEPT !.c.state = BODY_END])
       EXCEPT !.c.body = IF x.c.save /\ @ # "none" THEN "freed" ELSE @]

http_parser_execute(ev, x) ==
    CASE ev = "url"     -> on_url(x)
      [] ev = "host"    -> on_header(x)
      [] ev = "headers" -> on_headers_complete(x)
      [] ev = "body"    -> on_body(x, "part")
      [] ev = "rest"    -> on_body(x, x.tcp.req.body)
      [] ev = "end"     -> on_message_complete(x)

Pending(k) == tcp[k].st = "open" /\ tcp[k].rx # <<>>

\* http_process_received_cb.  espconn then sets the state of a connection that
\* is still open to ESPCONN_CONNECT.
AfterReceive(x) == IF x.tcp.st = "open" THEN [x EXCEPT !.tcp.est = "CONNECT"] ELSE x

Receive(k) ==
    /\ ~crashed /\ Pending(k)
    /\ IF SlotsOf(k) = {}
       THEN /\ tcp' = [tcp EXCEPT ![k] = espconn_disconnect(@)]
            /\ UNCHANGED <<slot, timers, scanning, station, accepts, crashed>>
       ELSE LET s == http_process_find_connection(k)
                x == [Context(s, k) EXCEPT !.tcp.rx = Tail(@)]
            IN  Commit(s, k, AfterReceive(http_parser_execute(Head(tcp[k].rx), x)), timers[s].old)

\* The parser rejects what it is given: the connection is closed.
ReceiveMalformed(k) ==
    /\ ~crashed /\ Pending(k) /\ tcp[k].req.malformed /\ SlotsOf(k) # {}
    /\ LET s == http_process_find_connection(k)
           x == Context(s, k)
       IN  Commit(s, k, [x EXCEPT !.tcp = espconn_disconnect(@),
                                  !.c = http_process_free_connection(@)], timers[s].old)

\* Mutant: the CGI is not called again.
Mut_http_process_sent_cb(x) ==
    IF x.c.done THEN [x EXCEPT !.tcp = espconn_disconnect(@),
                               !.c = http_process_free_connection(@)]
    ELSE x

\* The peer has acknowledged the packet: espconn_tcp_finish, then
\* http_process_sent_cb.
http_process_sent_cb(x) ==
    IF x.c.done THEN [x EXCEPT !.tcp = espconn_disconnect(@),
                               !.c = http_process_free_connection(@)]
    ELSE http_execute_cgi(x)

Unacked(k) == tcp[k].st = "open" /\ tcp[k].unacked /\ SlotsOf(k) # {}

Sent(k) ==
    /\ ~crashed /\ Unacked(k)
    /\ LET s == http_process_find_connection(k)
           x == [Context(s, k) EXCEPT !.tcp.unacked = FALSE, !.tcp.est = "CONNECT"]
       IN  Commit(s, k, http_process_sent_cb(x), timers[s].old)

-----------------------------------------------------------------------------
\* espconn_server_close without a call of the server: the peer closed or reset
\* the connection, or nothing was received or acknowledged for 30 s.
PeerClose(k) ==
    /\ ~crashed /\ PeerMayClose /\ tcp[k].st = "open"
    /\ tcp' = [tcp EXCEPT ![k].st = "closing", ![k].est = "CLOSE", ![k].unacked = FALSE]
    /\ UNCHANGED <<slot, timers, scanning, station, accepts, crashed>>

\* Mutant: a connection the peer has closed is not recognized.
Mut_ShouldClose(k) == tcp[k].st = "free"

\* The connections http_process_disconnect_cb is to free: those whose espconn
\* reads as closed.
ShouldClose(k) == tcp[k].est = "CLOSE"

\* espconn_tcp_disconnect_successful (or espconn_tcp_reconnect, after an error)
\* frees the block and calls back with the listening connection, which no slot
\* holds: http_process_disconnect_cb sweeps the pool.  It reads the state of the
\* block just freed, which nothing has been allocated over yet.
Disconnected(k) ==
    /\ ~crashed /\ tcp[k].st = "closing"
    /\ tcp' = [tcp EXCEPT ![k].st = "free"]
    /\ LET swept == {s \in Slots : slot[s].esp # Nobody /\ ShouldClose(slot[s].esp)}
       IN  /\ slot' = [s \in Slots |-> IF s \in swept THEN http_process_free_connection(slot[s])
                                                      ELSE slot[s]]
           /\ timers' = [s \in Slots |->
                IF s \in swept /\ timers[s].own
                THEN [own |-> FALSE, old |-> timers[s].old + 1] ELSE timers[s]]
    /\ UNCHANGED <<scanning, station, accepts, crashed>>

-----------------------------------------------------------------------------
\* A timer expires: http_execute_cgi for its slot.
CgiTimer(s) ==
    /\ ~crashed /\ timers[s].own
    /\ LET k == slot[s].esp
       IN  Commit(s, k, http_execute_cgi([Context(s, k) EXCEPT !.timer = FALSE]), timers[s].old)

\* A timer that a connection before the present one has left behind.
LeftTimer(s) ==
    /\ ~crashed /\ timers[s].old > 0
    /\ IF slot[s].esp = Nobody
       THEN /\ timers' = [timers EXCEPT ![s].old = @ - 1]
            /\ UNCHANGED <<slot, tcp, scanning, station, accepts, crashed>>
       ELSE LET k == slot[s].esp
            IN  Commit(s, k, http_execute_cgi(Context(s, k)), timers[s].old - 1)

\* The wifi library: http_wifi_api_scan_callback, and the end of an attempt of
\* the station to connect.
ScanDone ==
    /\ ~crashed /\ scanning
    /\ scanning' = FALSE
    /\ UNCHANGED <<slot, tcp, timers, station, accepts, crashed>>

StationSettles ==
    /\ ~crashed /\ station = "connecting"
    /\ station' \in {"failed", "gotip"}
    /\ UNCHANGED <<slot, tcp, timers, scanning, accepts, crashed>>

Next ==
    \/ \E k \in Conns, q \in Requests : Connect(k, q)
    \/ \E k \in Conns, q \in Requests : ConnectOverflow(k, q)
    \/ \E k \in Conns : Receive(k)
    \/ \E k \in Conns : ReceiveMalformed(k)
    \/ \E k \in Conns : Sent(k)
    \/ \E k \in Conns : PeerClose(k)
    \/ \E k \in Conns : Disconnected(k)
    \/ \E s \in Slots : CgiTimer(s)
    \/ \E s \in Slots : LeftTimer(s)
    \/ ScanDone
    \/ StationSettles

Spec == Init /\ [][Next]_vars

\* A peer that does not go away sends all of its request and acknowledges what
\* it receives, the espconn task and the timers run, and the wifi library ends
\* every scan and every attempt to connect.
Fairness ==
    /\ \A k \in Conns :
         /\ []<>~(~crashed /\ Pending(k)) \/ []<><<Receive(k)>>_vars
         /\ []<>~(~crashed /\ Unacked(k)) \/ []<><<Sent(k)>>_vars
         /\ WF_vars(Disconnected(k))
    /\ \A s \in Slots : []<>~(~crashed /\ timers[s].own) \/ []<><<CgiTimer(s)>>_vars
    /\ WF_vars(ScanDone)
    /\ WF_vars(StationSettles)

LiveSpec == Spec /\ Fairness

-----------------------------------------------------------------------------
(* Properties.                                                             *)

SlotType(c) ==
    /\ c.esp \in Conns \cup {Nobody}
    /\ c.state \in {ON_URL, HEADERS_END, ON_BODY, BODY_END}
    /\ c.host \in {"unsaved", "missing", "domain", "other"}
    /\ c.body \in {"none", "part", "valid", "invalid", "freed"}
    /\ c.save \in BOOLEAN /\ c.done \in BOOLEAN
    /\ c.fn \in {"NULL"} \cup {Rules[i].cgi : i \in DOMAIN Rules}
    /\ \/ c.data \in {NoData, 1, 2, 99}
       \/ c.file \in DOMAIN FileSize /\ c.data \in 0 .. FileSize[c.file]
    /\ c.fn = "file_system" /\ c.data # NoData => c.data <= FileSize[c.file]

\* Every variable has its type.  In particular the read position of the file a
\* slot serves (rofs.c, f_read) never passes the end of the file.
TypeOK ==
    /\ \A s \in Slots : SlotType(slot[s])
    /\ \A k \in Conns : /\ tcp[k].st \in {"free", "open", "closing"}
                        /\ tcp[k].est \in {"CONNECT", "WRITE", "CLOSE"}
    /\ timers \in [Slots -> [own : BOOLEAN, old : Nat]]
    /\ scanning \in BOOLEAN /\ crashed \in BOOLEAN
    /\ station \in {"idle", "connecting", "failed", "gotip"}

\* Slots and connections match: no two slots hold one connection, and no slot
\* holds an espconn block that has been freed, which the sweep of the disconnect
\* callback has to recognize by its state alone.
SlotOwnership ==
    \A s \in Slots : slot[s].esp # Nobody =>
        /\ tcp[slot[s].esp].st # "free"
        /\ SlotsOf(slot[s].esp) = {s}

\* The pool, whatever comes between a close and its callback: slots of the right
\* type, each with a connection of its own.
PoolInv == TypeOK /\ SlotOwnership

\* The headers of the request have reached the server.
HeadersIn(k) == \A i \in DOMAIN tcp[k].rx : tcp[k].rx[i] \notin {"url", "host", "headers"}

\* The server says nothing to a peer whose request headers it has not seen:
\* "request is finished and we should start sending response"
\* (http_server_cgi_execute) is never true of an earlier connection's request.
NoAnswerBeforeRequest ==
    \A k \in Conns : tcp[k].got # <<>> => HeadersIn(k)

\* http_transmit never offers espconn a packet it refuses: not while the one
\* before is unacknowledged, and not to a connection that is being closed.
NoPacketRefused == \A k \in Conns : ~tcp[k].refused

\* The answer a request is due, as far as the code defines it.
Target(url) ==
    LET hits == {i \in DOMAIN Rewrites : Rewrites[i].url = url}
    IN  IF hits = {} THEN url ELSE Rewrites[Min(hits)].to

FilePieces(f) ==
    [i \in 1 .. (FileSize[f] + BufSize - 1) \div BufSize |->
       [kind |-> "file", file |-> f, pos |-> (i - 1) * BufSize,
        len |-> IF i * BufSize <= FileSize[f] THEN BufSize ELSE FileSize[f] % BufSize]]

ApiPaths == {ApiUrls[i].url : i \in DOMAIN ApiUrls}
BodyPaths == {ApiUrls[i].url : i \in {j \in DOMAIN ApiUrls : ApiUrls[j].body}}

Status(n) == [kind |-> "status", status |-> n]

ApiAnswer(q) ==
    CASE q.url \in BodyPaths /\ q.body # "valid" -> <<Status(400)>>
      [] q.url = "/api/wifi/disconnect"          -> <<Status(200)>>
      [] OTHER                                   -> <<Status(200), Json>>

FileAnswer(q) ==
    CASE q.host = "missing" -> <<Status(400)>>
      [] q.host = "other"   -> <<Status(302)>>
      [] q.host = "domain" /\ q.method = "OPTIONS" -> <<Status(200)>>
      [] q.host = "domain" /\ q.method # "OPTIONS" ->
           IF Target(q.url) \in DOMAIN FileSize
           THEN <<Status(200)>> \o FilePieces(Target(q.url)) ELSE <<Status(404)>>

Answer(q) == IF q.url \in ApiPaths THEN ApiAnswer(q) ELSE FileAnswer(q)

\* What the peer was sent, header lines left out.
Seen(k) ==
    [i \in DOMAIN tcp[k].got |->
       IF tcp[k].got[i].kind = "status" THEN Status(tcp[k].got[i].status) ELSE tcp[k].got[i]]

\* Whatever else the server is doing, a peer is sent nothing but a prefix of the
\* answer its own request is due (one status line first, then every piece of the
\* file once and in order, or the JSON), and all of it before the server closes,
\* unless the parser has rejected the rest of the request.
AnswersRequest ==
    \A k \in Conns : tcp[k].got # <<>> =>
        /\ IsPrefix(Seen(k), Answer(tcp[k].req))
        /\ tcp[k].byServer /\ (tcp[k].rx = <<>> \/ ~tcp[k].req.malformed)
             => Seen(k) = Answer(tcp[k].req)

\* A parser callback never frees the slot it runs for: http_parser_execute would
\* go on with it, and http_process_received_cb free its buffer a second time.
ParserKeepsSlot ==
    [][\A s \in Slots : LET k == slot[s].esp
                        IN  k # Nobody /\ tcp[k].st = "open" /\ tcp'[k].rx # tcp[k].rx
                              => slot'[s].esp = k]_vars

\* A CGI that is done has freed its status block, with the timer in it: the timer
\* is not armed any more, and is not left behind armed when the slot is freed in
\* the same step.  (Said of peers that stay: a timer left by another connection
\* may call a CGI while its own timer is armed.)
NoTimerInFreedBlock ==
    [][\A s \in Slots : slot'[s].done =>
          ~timers'[s].own /\ timers'[s].old <= timers[s].old]_vars

\* A connection whose request is complete is never left without anything that
\* calls its CGI again: a packet to be acknowledged, or an armed timer.  (Said of
\* connections that only one slot holds; see SlotOwnership.)
SomethingWillCall ==
    \A s \in Slots : LET k == slot[s].esp
                     IN  k # Nobody /\ tcp[k].st = "open" /\ tcp[k].rx = <<>> /\ SlotsOf(k) = {s}
                           => tcp[k].unacked \/ timers[s].own

\* Every connection that has a slot ends, and returns its slot: no CGI waits for
\* a callback, a timer or an acknowledgement that never comes.
SlotsReturned ==
    \A s \in Slots : (slot[s].esp # Nobody) ~> (slot[s].esp = Nobody)

-----------------------------------------------------------------------------
(* What the repository says of the server and the code does not do.        *)

Statuses(k) == {tcp[k].got[i].status : i \in {j \in DOMAIN tcp[k].got : tcp[k].got[j].kind = "status"}}

\* README.md: "Host check, means we can ensure server is on here.com and not
\* there.com".  Nobody who asks for another host gets a 200.  (The method check
\* and the CORS header are passed over in the same way: an API function is
\* attached at the URL, before any of them has something to look at.)
HostEnforced ==
    \A k \in Conns : 200 \in Statuses(k) => tcp[k].req.host = "domain"
=============================================================================
