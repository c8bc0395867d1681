------------------------------- MODULE HttpCgi -------------------------------
(***************************************************************************)
(* The CGI layer of the HTTP server: what one call of the dispatcher       *)
(* http_server_cgi_execute (http/http_server.c) does to the connection it  *)
(* is called for, through the rules of http/cgi.c and the API functions of *)
(* http/cgi_wifi.c and http/cgi_relay.c, as app.c binds them.              *)
(*                                                                         *)
(* The firmware is single threaded: a callback runs to completion.  Every  *)
(* operator below maps an execution context x to the context after the     *)
(* call.  A context holds all that a CGI may read or change:               *)
(*    c     the http_connection of the pool slot                           *)
(*    r     what the last CGI returned                                     *)
(*    scan  wifi_status.scanning                                           *)
(*    timer the ETSTimer inside the status block c.data is armed           *)
(*    tcp   the TCP connection behind c.esp, as espconn keeps it:          *)
(*          st  the block is "free", or its connection "open" or "closing" *)
(*          est espconn->state: "CONNECT", "WRITE" or "CLOSE"              *)
(*          unacked, refused, byServer: a packet waits for its             *)
(*          acknowledgement; one was not taken; the server closed          *)
(*          got what the peer was sent, rx what it has yet to send of req  *)
(*    station  the connection status of the wifi station: "idle",          *)
(*          "connecting", "failed" or "gotip"                              *)
(* Texts are abstracted to tokens: a status line with the headers cached   *)
(* for it, a piece of a file, a JSON document.                             *)
(***************************************************************************)
EXTENDS Integers, Sequences, SequencesExt

CONSTANTS
    FileSize,   \* size of each file of the ROM file system, by path
    BufSize,    \* HTTP_BUFFER_SIZE
    Nobody      \* the NULL espConnection of a free slot

ASSUME CgiAssumption == BufSize \in Nat \ {0} /\ FileSize \in [DOMAIN FileSize -> Nat]

\* http_process.h: the points of a request at which the dispatcher is called.
ON_URL == 0
HEADERS_END == 2
ON_BODY == 3
BODY_END == 4

\* cgi.data is NULL.  Otherwise it is status->state of an API function, or the
\* read position of the open file.
NoData == -1

\* app.c: the rewrites of the demo application.
Rewrites ==
    << [url |-> "/", to |-> "/index.html"],
       [url |-> "/speed-test", to |-> "/speed_test.html"],
       [url |-> "/cats", to |-> "/cats.html"] >>

\* app.c: the API table, without checkInternet, which runs the HTTP client.
Api(url, cgi, body) ==
    [url |-> url, cgi |-> cgi, method |-> "POST", body |-> body, arg |-> ""]
ApiUrls ==
    << Api("/api/wifi/status", "wifi_get_status", FALSE),
       Api("/api/wifi/scan", "wifi_scan", FALSE),
       Api("/api/wifi/connect", "wifi_connect_ap", TRUE),
       Api("/api/wifi/disconnect", "wifi_disconnect", FALSE),
       Api("/api/relay/state", "relay_status", FALSE),
       Api("/api/relay/toggle", "relay_toggle", TRUE),
       Api("/api/dht/read", "dht_read", FALSE) >>

Wildcard(cgi) == [url |-> "*", cgi |-> cgi, method |-> "ANY", body |-> FALSE, arg |-> ""]

\* http_server_bind_urls: the rule chain.
Rules ==
    << Wildcard("check_host"), Wildcard("cors") >>
    \o [i \in DOMAIN Rewrites |->
          [url |-> Rewrites[i].url, cgi |-> "url_rewrite", method |-> "ANY",
           body |-> FALSE, arg |-> Rewrites[i].to]]
    \o ApiUrls
    \o << Wildcard("file_system") >>

-----------------------------------------------------------------------------
(* Output: http_helper.c and the transmit functions of http_process.c.     *)

http_SET_HEADER(x, h) == [x EXCEPT !.c.ohdr = @ \cup {h}]

http_write(x, token) == [x EXCEPT !.c.out = Append(@, token)]

\* http_response_STATUS and http_end_headers: the status line, then the cached
\* headers, which are thereby used up.
http_response(x, status) ==
    [http_write(x, [kind |-> "status", status |-> status, hdrs |-> x.c.ohdr])
       EXCEPT !.c.ohdr = {}]

\* espconn_sent marks the connection ESPCONN_WRITE, also one that is being
\* closed, and takes the packet only if the connection is open and no other
\* packet waits for its acknowledgement (pbuf_num is 1).
espconn_sent(tcp, packet) ==
    CASE tcp.st = "free" -> [tcp EXCEPT !.refused = TRUE]
      [] tcp.st = "open" /\ ~tcp.unacked ->
           [tcp EXCEPT !.est = "WRITE", !.got = @ \o packet, !.unacked = TRUE]
      [] OTHER -> [tcp EXCEPT !.est = "WRITE", !.refused = TRUE]

\* The result of espconn_send is not looked at: a packet that is not taken is
\* gone with the buffer.
http_transmit(x) ==
    IF x.c.out = <<>> THEN x
    ELSE [x EXCEPT !.tcp = espconn_sent(@, x.c.out), !.c.out = <<>>]

\* Closing takes two steps: the connection is ESPCONN_CLOSE now, and espconn's
\* task ends it later.
espconn_disconnect(tcp) ==
    IF tcp.st = "free" \/ tcp.est = "CLOSE" THEN tcp
    ELSE [tcp EXCEPT !.st = "closing", !.est = "CLOSE", !.unacked = FALSE,
                     !.byServer = @ \/ tcp.st = "open"]

\* Does not touch c.state, c.url, c.ohdr, c.done, and leaves armed timers armed.
http_process_free_connection(c) ==
    [c EXCEPT !.esp = Nobody, !.fn = "NULL", !.data = NoData,
              !.host = "unsaved", !.out = <<>>]

http_send_response(x) ==
    IF x.c.out = <<>> /\ x.c.done
    THEN [x EXCEPT !.tcp = espconn_disconnect(@), !.c = http_process_free_connection(@)]
    ELSE http_transmit(x)

-----------------------------------------------------------------------------
(* The rules of cgi.c.                                                     *)

Return(x, r) == [x EXCEPT !.r = r]

\* The Host header is to be saved.  (The headers cgi_cors saves only decide on
\* further headers of the answer and are left out.)
http_set_save_header(x) ==
    IF x.c.host = "unsaved" THEN [x EXCEPT !.c.host = "missing"] ELSE x

\* Mutant: the Host header is looked at before it can have arrived.
Mut_cgi_check_host(x) ==
    IF x.c.host # "domain" THEN Return(http_response(http_set_save_header(x), 302), "DONE")
                           ELSE Return(x, "NEXT_RULE")

cgi_check_host(x) ==
    CASE x.c.state = ON_URL ->
           Return(http_set_save_header(x), "NEXT_RULE")
      [] x.c.state = HEADERS_END /\ x.c.host \in {"unsaved", "missing"} ->
           Return(http_response(x, 400), "DONE")
      [] x.c.state = HEADERS_END /\ x.c.host = "other" ->
           Return(http_response(x, 302), "DONE")
      [] OTHER -> Return(x, "NEXT_RULE")

cgi_cors(x) ==
    LET allow == http_SET_HEADER(x, "Access-Control-Allow-Origin")
    IN  CASE x.c.state = HEADERS_END /\ x.c.method = "OPTIONS" ->
               Return(http_response(allow, 200), "DONE")
          [] x.c.state = HEADERS_END /\ x.c.method # "OPTIONS" ->
               Return(allow, "NEXT_RULE")
          [] OTHER -> Return(x, "NEXT_RULE")

cgi_url_rewrite(x, to) ==
    Return(IF x.c.state = HEADERS_END THEN [x EXCEPT !.c.url = to] ELSE x, "NEXT_RULE")

\* Mutant: the last byte of the file is forgotten.
Mut_Remaining(x) == FileSize[x.c.file] - x.c.data - 1

\* One read of the open file: f_read, then the end of file test.
Remaining(x) == FileSize[x.c.file] - x.c.data

ReadLen(x) == IF Remaining(x) < BufSize THEN Remaining(x) ELSE BufSize

cgi_file_system(x) ==
    CASE x.c.state < BODY_END -> Return(x, "NEXT_RULE")
      [] x.c.state >= BODY_END /\ x.c.data = NoData /\ x.c.url \notin DOMAIN FileSize ->
           Return(x, "NOTFOUND")
      [] x.c.state >= BODY_END /\ x.c.data = NoData /\ x.c.url \in DOMAIN FileSize ->
           Return([http_response(http_SET_HEADER(x, "Content-Length"), 200)
                     EXCEPT !.c.data = 0, !.c.file = x.c.url], "MORE")
      [] OTHER ->
           LET piece == [kind |-> "file", file |-> x.c.file, pos |-> x.c.data, len |-> ReadLen(x)]
               y     == IF ReadLen(x) > 0 THEN http_write(x, piece) ELSE x
           IN  IF ReadLen(x) = Remaining(x)
               THEN Return(y, "DONE")
               ELSE Return([y EXCEPT !.c.data = @ + ReadLen(x)], "MORE")

cgi_enforce_method(x, method) ==
    IF x.c.state = BODY_END /\ x.c.method # method
    THEN Return(http_response(x, 400), "DONE")
    ELSE Return(x, "NEXT_RULE")

cgi_enforce_body(x) ==
    CASE x.c.state = ON_URL -> Return([x EXCEPT !.c.save = TRUE], "NEXT_RULE")
      [] x.c.state >= BODY_END /\ x.c.body = "none" -> Return(http_response(x, 400), "DONE")
      [] OTHER -> Return(x, "NEXT_RULE")

\* http_server_flag_check: the general checks of a rule, before its CGI.
http_server_flag_check(x, rule) ==
    LET y == IF rule.method = "ANY" THEN Return(x, "NEXT_RULE")
                                    ELSE cgi_enforce_method(x, rule.method)
    IN  IF y.r # "DONE" /\ rule.body THEN cgi_enforce_body(y) ELSE y

-----------------------------------------------------------------------------
(* The API functions, once the whole request is there.                     *)

Json == [kind |-> "json"]
Goto(x, state) == Return([x EXCEPT !.c.data = state], "MORE")
JsonHeader(x) == http_response(http_SET_HEADER(x, "Content-Type"), 200)
Arm(x) == [x EXCEPT !.timer = TRUE]

http_wifi_api_get_status(x) ==
    CASE x.c.data = NoData -> Goto(JsonHeader(x), 1)
      [] x.c.data = 1      -> Goto(http_write(x, Json), 99)
      [] OTHER             -> Return(x, "DONE")

\* Mutant: the timer runs on when the scan is over.
Mut_http_wifi_api_scan(x) ==
    CASE x.c.data = NoData -> Goto(JsonHeader([x EXCEPT !.scan = TRUE]), 1)
      [] x.c.data # NoData /\ x.scan -> Return(Arm(x), "MORE")
      [] x.c.data = 1 /\ ~x.scan -> Goto(http_write(Arm(x), Json), 99)
      [] OTHER -> Return(x, "DONE")

\* The first call asks for a scan unless one is under way; later calls poll
\* wifi_status.scanning, from the sent callback or from a timer of 500 ms.
http_wifi_api_scan(x) ==
    CASE x.c.data = NoData -> Goto(JsonHeader([x EXCEPT !.scan = TRUE]), 1)
      [] x.c.data # NoData /\ x.scan -> Return(Arm(x), "MORE")
      [] x.c.data = 1 /\ ~x.scan ->
           Goto(http_write([x EXCEPT !.timer = FALSE], Json), 99)
      [] OTHER -> Return(x, "DONE")

wifi_station_disconnect(x) == [x EXCEPT !.station = "idle"]
wifi_station_connect(x) == [x EXCEPT !.station = "connecting"]

\* Mutant: the timer is not armed again while the station is connecting.
Mut_http_wifi_api_connect_ap(x) ==
    CASE x.c.data = NoData /\ x.c.body # "valid" -> Goto(http_response(x, 400), 99)
      [] x.c.data = NoData /\ x.c.body = "valid" -> Goto(Arm(x), 1)
      [] x.c.data = 1 -> Goto(Arm(wifi_station_connect(x)), 2)
      [] x.c.data = 2 /\ x.station = "connecting" -> Return(x, "MORE")
      [] x.c.data = 2 /\ x.station # "connecting" -> Goto(http_write(JsonHeader(x), Json), 99)
      [] OTHER -> Return(x, "DONE")

http_wifi_api_connect_ap(x) ==
    CASE x.c.data = NoData /\ x.c.body # "valid" -> Goto(http_response(x, 400), 99)
      [] x.c.data = NoData /\ x.c.body = "valid" -> Goto(Arm(x), 1)
      [] x.c.data = 1 -> Goto(Arm(wifi_station_connect(wifi_station_disconnect(x))), 2)
      [] x.c.data = 2 /\ x.station = "connecting" -> Return(Arm(x), "MORE")
      [] x.c.data = 2 /\ x.station # "connecting" ->
           Goto(http_write(JsonHeader(IF x.station = "failed" THEN wifi_station_disconnect(x) ELSE x),
                           Json), 99)
      [] OTHER -> Return(x, "DONE")

http_wifi_api_disconnect(x) ==
    Return(http_response(wifi_station_disconnect(x), 200), "DONE")

http_relay_api_status(x) == Return(http_write(JsonHeader(x), Json), "DONE")

http_relay_api_toggle(x) ==
    Return(IF x.c.body = "valid" THEN http_write(JsonHeader(x), Json)
                                 ELSE http_response(x, 400), "DONE")

http_dht_api_read(x) == Return(http_write(JsonHeader(x), Json), "DONE")

\* Every API function first waits for the whole body and says so with MORE.
ApiCall(cgi, x) ==
    IF x.c.state < BODY_END THEN Return(x, "MORE")
    ELSE
    CASE cgi = "wifi_get_status"  -> http_wifi_api_get_status(x)
      [] cgi = "wifi_scan"        -> http_wifi_api_scan(x)
      [] cgi = "wifi_connect_ap"  -> http_wifi_api_connect_ap(x)
      [] cgi = "wifi_disconnect"  -> http_wifi_api_disconnect(x)
      [] cgi = "relay_status"     -> http_relay_api_status(x)
      [] cgi = "relay_toggle"     -> http_relay_api_toggle(x)
      [] cgi = "dht_read"         -> http_dht_api_read(x)

\* conn->cgi.function(conn)
Call(cgi, arg, x) ==
    CASE cgi = "check_host"  -> cgi_check_host(x)
      [] cgi = "cors"        -> cgi_cors(x)
      [] cgi = "url_rewrite" -> cgi_url_rewrite(x, arg)
      [] cgi = "file_system" -> cgi_file_system(x)
      [] OTHER               -> ApiCall(cgi, x)

-----------------------------------------------------------------------------
(* The dispatcher.                                                         *)

Detach(x) == [x EXCEPT !.c.fn = "NULL"]
Finish(x) == [x EXCEPT !.c.fn = "NULL", !.c.done = TRUE]
Final(x) == x.c.state = BODY_END
SendIfFinal(final, x) == IF final THEN http_send_response(x) ELSE x

\* Mutant: the answer is not written.
Mut_NotFound(final, x) == IF final THEN http_send_response(Finish(x)) ELSE x

\* The end of the dispatcher: nobody answered a complete request.
NotFound(final, x) ==
    IF final THEN http_send_response(Finish(http_response(x, 404))) ELSE x

\* Mutant: a CGI that has more to do is taken for one that does not know the
\* request.
Mut_RunAttached(x) ==
    LET y == Call(x.c.fn, "", x)
        z == SendIfFinal(Final(x), IF y.r = "DONE" THEN Finish(y) ELSE y)
    IN  IF y.r = "DONE" THEN z ELSE NotFound(Final(x), z)

\* A CGI is attached: only that one is called.
RunAttached(x) ==
    LET y == Call(x.c.fn, "", x)
        z == SendIfFinal(Final(x), IF y.r = "DONE" THEN Finish(y) ELSE y)
    IN  IF y.r \in {"MORE", "DONE"} THEN z ELSE NotFound(Final(x), z)

\* One rule that matches the url of the request.
ApplyRule(x, rule) ==
    LET checked == http_server_flag_check(x, rule)
        y == IF checked.r = "DONE" THEN checked
             ELSE Call(rule.cgi, rule.arg, [checked EXCEPT !.c.fn = rule.cgi])
    IN  CASE y.r = "DONE" -> http_send_response(Finish(y))
          [] y.r = "MORE" -> SendIfFinal(Final(x), y)
          [] OTHER        -> Detach(SendIfFinal(Final(x), y))

\* One turn of the loop over the rules.
TryRule(x, rule) ==
    IF x.r \in {"DONE", "MORE"} \/ rule.url \notin {"*", x.c.url} THEN x ELSE ApplyRule(x, rule)

\* The rules in order, until one is done with the request or keeps it.
RunChain(x) ==
    LET after[i \in 0 .. Len(Rules)] ==
            IF i = 0 THEN Return(x, "NEXT_RULE") ELSE TryRule(after[i - 1], Rules[i])
        y == after[Len(Rules)]
    IN  IF y.r \in {"DONE", "MORE"} THEN y ELSE NotFound(Final(x), y)

http_server_cgi_execute(x) ==
    IF x.c.done THEN x
    ELSE IF x.c.fn # "NULL" THEN RunAttached(x) ELSE RunChain(x)

\* A call for a slot that has been freed does nothing.
http_execute_cgi(x) ==
    IF x.c.esp = Nobody THEN x ELSE http_server_cgi_execute(x)
=============================================================================
