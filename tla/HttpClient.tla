------------------------------ MODULE HttpClient ------------------------------
(***************************************************************************)
(* The HTTP client (http/http_client.c) and its only user, the API call    *)
(* /api/wifi/checkInternet (http/cgi_wifi.c): the connection that made the *)
(* call waits while a client connection, in a slot of the same pool, asks  *)
(* the resolver for an address, connects and fetches a page.               *)
(*                                                                         *)
(* The two find each other through pointers to pool slots, and so does the *)
(* resolver; a slot is reused as soon as it is free.  A call is taken up   *)
(* when its request is complete; dispatching it is in HttpServer, the      *)
(* resolver in Dns.  Connections of other requests come and go in the pool *)
(* (Other).                                                                *)
(***************************************************************************)
EXTENDS Integers, Sequences, FiniteSets

CONSTANTS
    NSlots,         \* MAX_CONNECTIONS
    MaxChecks       \* bound: how many calls are made

ASSUME ClientAssumption == NSlots \in Nat /\ MaxChecks \in Nat

VARIABLES
    slot,       \* connection_poll
    asking,     \* per slot: how many queries the resolver holds for it
    checks,     \* calls made so far
    reached,    \* some server has answered a client with status 200
    strayed,    \* the resolver ran the CGI of a connection that did not ask
    crashed     \* the firmware has stopped

clientVars == <<slot, asking, checks, reached, strayed, crashed>>

Slots == 1 .. NSlots

\* use: what the slot is used for; reverse: for a client, the slot of the call;
\* data: status->state of the call, 0 for NULL; timer: timeout_timer is armed;
\* link: the client's TCP connection; unacked: a packet waits for its
\* acknowledgement; got: what the peer that made the call was sent.
FreeSlot == [use |-> "free", reverse |-> 0, data |-> 0, timer |-> FALSE, link |-> "none",
             unacked |-> FALSE, got |-> <<>>]

ClientInit ==
    /\ slot = [s \in Slots |-> FreeSlot]
    /\ asking = [s \in Slots |-> 0]
    /\ checks = 0
    /\ reached = FALSE /\ strayed = FALSE /\ crashed = FALSE

Unused == {s \in Slots : slot[s].use = "free"}
FirstOf(S) == CHOOSE s \in S : \A t \in S : s <= t

\* http_process_free_connection: the resolver is not told.
Freed(pool, s) == [pool EXCEPT ![s] = FreeSlot]

-----------------------------------------------------------------------------
(* The call: http_wifi_api_check_internet, and what the dispatcher does    *)
(* with its result.                                                        *)

\* A packet that espconn does not take, because another one is on its way, is
\* gone with the buffer.
Transmit(q, token) ==
    IF q.unacked THEN q ELSE [q EXCEPT !.got = Append(@, token), !.unacked = TRUE]

http_wifi_api_check_internet(pool, s) ==
    LET q == pool[s]
    IN  CASE q.data = 2  -> [pool EXCEPT ![s] = [Transmit(q, 1) EXCEPT !.data = 99]]
          [] q.data = 3  -> [pool EXCEPT ![s] = [Transmit(q, 0) EXCEPT !.data = 99]]
          [] q.data = 99 -> Freed(pool, s)
          [] OTHER       -> pool

\* http_client_new, http_client_GET and http_client_dns: a slot, a query and the
\* timer.
NewClient(s) == [FreeSlot EXCEPT !.use = "client", !.reverse = s, !.timer = TRUE]
NewCall == [FreeSlot EXCEPT !.use = "call", !.data = 1, !.got = <<200>>, !.unacked = TRUE]

CheckInternet ==
    /\ ~crashed /\ checks < MaxChecks /\ Cardinality(Unused) >= 2
    /\ LET s == FirstOf(Unused)
           c == FirstOf(Unused \ {s})
       IN  /\ slot' = [slot EXCEPT ![s] = NewCall, ![c] = NewClient(s)]
           /\ asking' = [asking EXCEPT ![c] = @ + 1]
    /\ checks' = checks + 1
    /\ UNCHANGED <<reached, strayed, crashed>>

\* There is no slot for the client: http_new_connection returns no value, and
\* http_client_new stores through it.
CheckWithoutSlot ==
    /\ ~crashed /\ checks < MaxChecks /\ Cardinality(Unused) = 1
    /\ slot' = [slot EXCEPT ![FirstOf(Unused)] = NewCall]
    /\ checks' = checks + 1
    /\ crashed' \in BOOLEAN
    /\ UNCHANGED <<asking, reached, strayed>>

-----------------------------------------------------------------------------
(* The client: http_client_cgi_execute with http_wifi_api_check_internet_cb*)

\* The callback finds that the call is gone: its slot is free.
Aborted(pool, c) == pool[pool[c].reverse].use = "free"

\* The callback brings the result to the call.  A slot that another connection
\* has taken in the meantime is not told from the call's: its CGI is run, with
\* the result written to what is now its data.
Told(pool, c, result) ==
    LET q == pool[c].reverse
    IN  IF pool[q].use = "call"
        THEN http_wifi_api_check_internet([pool EXCEPT ![q].data = result], q) ELSE pool
Misdirected(pool, c) == pool[pool[c].reverse].use \notin {"call", "free"}

\* Mutant: a page of any status will do.
Mut_Verdict(status) == 2

Verdict(status) == IF status = 200 THEN 2 ELSE 3

\* The result is in: the client is closed and its slot free.
Finish(c, result) ==
    /\ slot' = IF Aborted(slot, c) THEN Freed(slot, c)
                                   ELSE Freed(Told(slot, c, result), c)
    /\ crashed' \in IF Misdirected(slot, c) THEN BOOLEAN ELSE {FALSE}

\* http_client_dns_found_cb.  Without an address the program reads through NULL;
\* so it does if the slot is free.  If the slot is not a client's, the CGI of its
\* connection is run.
DnsNotFound(c) ==
    /\ ~crashed /\ asking[c] > 0
    /\ asking' = [asking EXCEPT ![c] = @ - 1]
    /\ crashed' = TRUE
    /\ UNCHANGED <<slot, checks, reached, strayed>>

\* espconn_connect may fail at once, which nobody notices.  A client that is
\* already on its way stays as it is.
Connecting(p, link) == [p EXCEPT !.timer = FALSE, !.link = IF @ = "none" THEN link ELSE @]

DnsFound(c) ==
    /\ ~crashed /\ asking[c] > 0
    /\ asking' = [asking EXCEPT ![c] = @ - 1]
    /\ strayed' = (strayed \/ slot[c].use \notin {"client", "free"})
    /\ crashed' = (slot[c].use = "free")
    /\ slot' \in IF slot[c].use # "client" THEN {slot}
                  ELSE IF Aborted(slot, c) THEN {Freed(slot, c)}
                  ELSE {[slot EXCEPT ![c] = Connecting(@, link)] : link \in {"connecting", "stuck"}}
    /\ UNCHANGED <<checks, reached>>

\* Mutant: the timer only notes the result.
Mut_http_client_dns_timeout(c) ==
    slot' = [Told(slot, c, 3) EXCEPT ![c].timer = FALSE] /\ crashed' = FALSE

\* http_client_dns_timeout, a second after the query.  It clears
\* espConnection->reverse, which http_client_dns_found_cb does not look at.
http_client_dns_timeout(c) == Finish(c, 3)

DnsTimeout(c) ==
    /\ ~crashed /\ slot[c].use = "client" /\ slot[c].timer
    /\ http_client_dns_timeout(c)
    /\ UNCHANGED <<asking, checks, reached, strayed>>

\* http_client_connect_callback: the request is sent.
Connected(c) ==
    /\ ~crashed /\ slot[c].link = "connecting"
    /\ slot' = IF Aborted(slot, c) THEN Freed(slot, c)
               ELSE [slot EXCEPT ![c].link = "open", ![c].unacked = TRUE]
    /\ UNCHANGED <<asking, checks, reached, strayed, crashed>>

\* http_process_reconnect_cb: the call is not told.
ConnectFailed(c) ==
    /\ ~crashed /\ slot[c].link = "connecting"
    /\ slot' = Freed(slot, c)
    /\ UNCHANGED <<asking, checks, reached, strayed, crashed>>

\* http_process_sent_cb for the client's request.
ClientSent(c) ==
    /\ ~crashed /\ slot[c].link = "open" /\ slot[c].unacked
    /\ slot' = IF Aborted(slot, c) THEN Freed(slot, c) ELSE [slot EXCEPT ![c].unacked = FALSE]
    /\ UNCHANGED <<asking, checks, reached, strayed, crashed>>

\* The answer is complete.
Response(c, status) ==
    /\ ~crashed /\ slot[c].link = "open"
    /\ Finish(c, Verdict(status))
    /\ reached' = (reached \/ status = 200)
    /\ UNCHANGED <<asking, checks, strayed>>

\* The server closes the connection before it has answered.
ServerCloses(c) ==
    /\ ~crashed /\ slot[c].link = "open"
    /\ slot' = Freed(slot, c)
    /\ UNCHANGED <<asking, checks, reached, strayed, crashed>>

\* The end of the connection is the end of the answer: the parser's callback frees
\* the slot, and http_process_disconnect_cb frees its buffer a second time.
ResponseEndsWithConnection(c, status) ==
    /\ ~crashed /\ slot[c].link = "open"
    /\ slot' = IF Aborted(slot, c) THEN Freed(slot, c)
                                   ELSE Freed(Told(slot, c, Verdict(status)), c)
    /\ crashed' \in BOOLEAN
    /\ reached' = (reached \/ status = 200)
    /\ UNCHANGED <<asking, checks, strayed>>

-----------------------------------------------------------------------------
(* The connection that made the call, and others.                          *)

CallSent(s) ==
    /\ ~crashed /\ slot[s].use = "call" /\ slot[s].unacked
    /\ slot' = http_wifi_api_check_internet([slot EXCEPT ![s].unacked = FALSE], s)
    /\ UNCHANGED <<asking, checks, reached, strayed, crashed>>

\* The peer leaves, or nothing was sent or received for 30 s.
Leaves(s) ==
    /\ ~crashed /\ slot[s].use \in {"call", "other"}
    /\ slot' = Freed(slot, s)
    /\ UNCHANGED <<asking, checks, reached, strayed, crashed>>

Other ==
    /\ ~crashed /\ Unused # {}
    /\ slot' = [slot EXCEPT ![FirstOf(Unused)] = [FreeSlot EXCEPT !.use = "other"]]
    /\ UNCHANGED <<asking, checks, reached, strayed, crashed>>

Statuses == {200, 404}

ClientNext ==
    \/ CheckInternet
    \/ CheckWithoutSlot
    \/ Other
    \/ \E c \in Slots :
         \/ DnsNotFound(c)
         \/ DnsFound(c)
         \/ DnsTimeout(c)
         \/ Connected(c)
         \/ ConnectFailed(c)
         \/ ClientSent(c)
         \/ \E status \in Statuses : Response(c, status)
         \/ ServerCloses(c)
         \/ \E status \in Statuses : ResponseEndsWithConnection(c, status)
         \/ CallSent(c)
         \/ Leaves(c)

ClientSpec == ClientInit /\ [][ClientNext]_clientVars

\* TCP ends every attempt to connect.  Nothing in the program or below it ends the
\* wait for the answer of a server that has taken the connection.
Settles(c) == Connected(c) \/ ConnectFailed(c)

-----------------------------------------------------------------------------
(* Properties.                                                             *)

\* Every variable has its type: a client points to a slot, and only its timer is
\* armed.
ClientTypeOK ==
    /\ \A s \in Slots :
         /\ slot[s].use \in {"free", "call", "client", "other"}
         /\ slot[s].reverse \in (IF slot[s].use = "client" THEN Slots \ {s} ELSE {0})
         /\ slot[s].data \in {0, 1, 99}
         /\ slot[s].link \in {"none", "connecting", "stuck", "open"}
         /\ slot[s].use # "client" => ~slot[s].timer /\ slot[s].link = "none"
    /\ asking \in [Slots -> 0 .. MaxChecks]
    /\ checks \in 0 .. MaxChecks

\* A peer is told that the Internet is there only if a page has been fetched, and
\* told one thing only for as long as its connection is the only one to have
\* called: "status" 1 is never the answer to a DNS failure, to another status or
\* to a late timer.
Results(s) == {i \in DOMAIN slot[s].got : slot[s].got[i] # 200}
ResultTrue ==
    \A s \in Slots :
        /\ \A i \in Results(s) : slot[s].got[i] = 1 => reached
        /\ checks = 1 => Cardinality(Results(s)) <= 1

\* A client waits for something: its timer, the end of an attempt to connect, or
\* the server.  (The one that espconn_connect has not begun to connect is stuck.)
ClientWaits ==
    \A c \in Slots : slot[c].use = "client" => slot[c].timer \/ slot[c].link # "none"

\* The clients in the pool: each waits for something, and none reports
\* an Internet that was not reached.
HttpClientInv == ClientTypeOK /\ ResultTrue /\ ClientWaits

\* Whatever the resolver does, and whether or not the call is still there, a client
\* gives back its slot or gets its connection.  From then on it depends on the
\* server: http_new_connection calls espconn_regist_time for NULL instead of for a
\* client, so one whose server stays silent keeps its slot, as does one whose
\* espconn_connect failed at once.
ClientsEnd ==
    \A c \in Slots :
        []<>(slot[c].use # "client" \/ slot[c].link \in {"open", "stuck"} \/ crashed)

-----------------------------------------------------------------------------
\* http_client_dns_timeout: "put null so if dns query response arrives, it wont
\* trigger execute again".  No answer of the resolver runs the CGI of another
\* connection, which has got the slot since.
LateAnswerIgnored == ~strayed
=============================================================================
