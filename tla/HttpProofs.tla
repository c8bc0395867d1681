----------------------------- MODULE HttpProofs -----------------------------
(***************************************************************************)
(* Proofs about the HTTP server: HttpServer over the dispatcher and the    *)
(* CGIs of HttpCgi, for every size of the pool, every set of connections,  *)
(* files and requests.                                                     *)
(***************************************************************************)
EXTENDS HttpServer, SequenceLemmas

\* The API functions, those that arm a timer and where these are bound.
ApiFns == {"wifi_get_status", "wifi_scan", "wifi_connect_ap", "wifi_disconnect",
           "relay_status", "relay_toggle", "dht_read"}
TimerFns == {"wifi_scan", "wifi_connect_ap"}
TimerPaths == {"/api/wifi/scan", "/api/wifi/connect"}

\* The configurations the theorems are about: no request makes a CGI wait for a
\* timer, or peers stay until they are answered.  In the others a timer may call a
\* CGI for a connection that is being closed, and the properties do not hold.
Calm == \A q \in Requests : q.url \notin TimerPaths
Quiet == ~PeerMayClose \/ Calm

-----------------------------------------------------------------------------
(* Types                                                                   *)

Url == {q.url : q \in Requests} \cup {"", "/index.html", "/speed_test.html", "/cats.html"}
Method == {q.method : q \in Requests} \cup {"DELETE"}
Header == {"Access-Control-Allow-Origin", "Content-Length", "Content-Type"}

Token ==
    [kind : {"status"}, status : Nat, hdrs : SUBSET Header]
      \cup [kind : {"file"}, file : Url, pos : Int, len : Int] \cup {Json}

RuleFns == {Rules[i].cgi : i \in DOMAIN Rules}

SlotSet ==
    [esp : Conns \cup {Nobody}, state : {ON_URL, HEADERS_END, ON_BODY, BODY_END},
     url : Url, method : Method, host : {"unsaved", "missing", "domain", "other"},
     ohdr : SUBSET Header, save : BOOLEAN, body : {"none", "part", "valid", "invalid", "freed"},
     fn : {"NULL"} \cup RuleFns, data : Int, file : Url, done : BOOLEAN, out : Seq(Token)]

RequestSet ==
    [url : Url, method : Method, host : {"missing", "domain", "other"},
     body : {"none", "valid", "invalid"}, malformed : BOOLEAN]

EventSet == {"url", "host", "headers", "body", "rest", "end"}

ConnSet ==
    [st : {"free", "open", "closing"}, est : {"CONNECT", "WRITE", "CLOSE"}, unacked : BOOLEAN,
     refused : BOOLEAN, byServer : BOOLEAN, got : Seq(Token), req : RequestSet, rx : Seq(EventSet)]

Ctx ==
    [c : SlotSet, r : {"NEXT_RULE", "DONE", "MORE", "NOTFOUND"}, scan : BOOLEAN, timer : BOOLEAN,
     tcp : ConnSet, station : {"idle", "connecting", "failed", "gotip"}]

\* Where a CGI is in what it serves, and what it may leave behind in c.data.
InFile(c) == c.file \in DOMAIN FileSize /\ c.data \in 0 .. FileSize[c.file]
Serves(c) ==
    \/ c.fn = "file_system" /\ InFile(c)
    \/ c.fn \in {"wifi_get_status", "wifi_scan", "wifi_connect_ap"} /\ c.data \in {1, 2, 99}
DataOK(c) == c.data \in {NoData, 1, 2, 99} \/ InFile(c)

-----------------------------------------------------------------------------
(* The inductive invariant                                                 *)

\* What is left of a request: its events in their order, the last one "end".
Rank(e) == CASE e = "url" -> 0 [] e = "host" -> 1 [] e = "headers" -> 2
             [] e = "body" -> 3 [] e = "rest" -> 4 [] e = "end" -> 5
IsRest(rx) ==
    /\ \A i, j \in 1 .. Len(rx) : i < j => Rank(rx[i]) < Rank(rx[j])
    /\ \A i \in 1 .. Len(rx) :
         rx[i] \in {"url", "host"} => i < Len(rx) /\ rx[i + 1] \in {"host", "headers"}
    /\ rx # <<>> => rx[Len(rx)] = "end"
HeadersGone(rx) == \A i \in 1 .. Len(rx) : rx[i] \notin {"url", "host", "headers"}

\* A slot whose CGI has not said anything yet,
Waits(x) ==
    /\ ~x.c.done /\ x.c.out = <<>> /\ x.c.data = NoData /\ ~x.timer /\ ~x.tcp.unacked
    /\ x.c.fn \in {"NULL"} \cup ApiFns

\* one whose answer is complete but not acknowledged,
Answered(x) ==
    x.c.done /\ x.c.out = <<>> /\ ~x.timer /\ x.tcp.unacked /\ x.c.fn = "NULL" /\ DataOK(x.c)

\* and one in the middle of its answer: it waits for the acknowledgement of a packet
\* or for its timer, never for both.
Serving(x) ==
    /\ x.c.state = BODY_END /\ ~x.c.done /\ x.c.out = <<>> /\ Serves(x.c)
    /\ x.timer <=> ~x.tcp.unacked
    /\ x.timer => x.c.fn \in TimerFns

\* Where a slot is depends on what has been received of the request.
Stage(x) ==
    \/ /\ x.tcp.rx # <<>> /\ x.tcp.rx[1] = "url"
       /\ Waits(x) /\ x.c.fn = "NULL"
    \/ /\ x.tcp.rx # <<>> /\ x.tcp.rx[1] \in {"host", "headers"}
       /\ Waits(x) /\ x.c.state = ON_URL
    \/ /\ x.tcp.rx # <<>> /\ x.tcp.rx[1] \in {"body", "rest", "end"}
       /\ x.c.state \in {HEADERS_END, ON_BODY}
       /\ Waits(x) \/ Answered(x)
    \/ /\ x.tcp.rx = <<>>
       /\ x.c.state = BODY_END
       /\ Serving(x) \/ Answered(x)

\* A slot that holds a connection.  A connection that is being closed is recognized
\* as such by the sweep, and no timer calls its CGI any more.
Held(x) ==
    \/ x.tcp.st = "open" /\ Stage(x)
    \/ x.tcp.st = "closing" /\ x.tcp.est = "CLOSE" /\ ~x.timer /\ DataOK(x.c)
         /\ (x.c.fn = "file_system" => Serves(x.c))

Free(c) == c.fn = "NULL" /\ c.data = NoData /\ c.out = <<>>

HttpTypes ==
    /\ slot \in [Slots -> SlotSet]
    /\ tcp \in [Conns -> ConnSet]
    /\ timers \in [Slots -> [own : BOOLEAN, old : {0}]]
    /\ scanning \in BOOLEAN /\ crashed \in BOOLEAN
    /\ station \in {"idle", "connecting", "failed", "gotip"}

SlotsHeld ==
    \A s \in Slots : IF slot[s].esp = Nobody THEN Free(slot[s]) /\ ~timers[s].own
                     ELSE Held(Context(s, slot[s].esp))

SlotsApart == \A s, t \in Slots : slot[s].esp = slot[t].esp /\ slot[s].esp # Nobody => s = t

\* Every connection, with a slot or without one.
ConnFine(k) ==
    /\ IsRest(k.rx) /\ ~k.refused
    /\ k.st = "open" => k.est # "CLOSE"
    /\ k.got # <<>> => HeadersGone(k.rx)
    /\ Calm => k.req.url \notin TimerPaths

\* No timers where no request makes a CGI wait for one.
NoTimers ==
    Calm => \A s \in Slots : /\ ~timers[s].own /\ slot[s].fn \notin TimerFns
                             /\ slot[s].url \notin TimerPaths

HttpInv == HttpTypes /\ SlotsHeld /\ SlotsApart /\ (\A k \in Conns : ConnFine(tcp[k])) /\ NoTimers

-----------------------------------------------------------------------------
(* One CGI                                                                 *)

\* What no CGI touches.
Frame(x, y) ==
    /\ y \in Ctx /\ y.tcp = x.tcp
    /\ y.c.esp = x.c.esp /\ y.c.state = x.c.state /\ y.c.done = x.c.done /\ y.c.fn = x.c.fn
    /\ x.c.url \notin TimerPaths => y.c.url \notin TimerPaths

\* What most of them leave alone, too.
Calls(x, y) == Frame(x, y) /\ y.c.data = x.c.data /\ y.c.file = x.c.file /\ y.timer = x.timer
Says(x, y) == Calls(x, y) /\ y.c.out # <<>>
Silent(x, y) == Calls(x, y) /\ y.c.out = x.c.out

\* Appending a token gives a sequence of tokens that is not empty.
LEMMA Appended ==
  ASSUME NEW s \in Seq(Token), NEW t \in Token
  PROVE  Append(s, t) \in Seq(Token) /\ Append(s, t) # <<>>
<1>1. Append(s, t) \in Seq(Token) /\ Len(Append(s, t)) = Len(s) + 1 /\ Len(s) \in Nat
  OBVIOUS
<1>2. QED
  BY <1>1

\* http_SET_HEADER says nothing and leaves the connection alone.
LEMMA SetHeader ==
  ASSUME NEW x \in Ctx, NEW h \in Header
  PROVE  Silent(x, http_SET_HEADER(x, h)) /\ http_SET_HEADER(x, h).r = x.r
BY DEF Ctx, SlotSet, http_SET_HEADER, Silent, Calls, Frame

\* http_write adds to what is to be sent, and changes nothing else a CGI keeps.
LEMMA Writes ==
  ASSUME NEW x \in Ctx, NEW t \in Token
  PROVE  Says(x, http_write(x, t))
<1>1. Append(x.c.out, t) \in Seq(Token) /\ Append(x.c.out, t) # <<>>
  BY Appended DEF Ctx, SlotSet
<1>2. QED
  BY <1>1 DEF Ctx, SlotSet, http_write, Says, Calls, Frame

\* Return changes the result alone.
LEMMA Returns ==
  ASSUME NEW x \in Ctx, NEW r \in {"NEXT_RULE", "DONE", "MORE", "NOTFOUND"}
  PROVE  Silent(x, Return(x, r)) /\ Return(x, r).r = r /\ Return(x, r).c = x.c
BY DEF Ctx, Return, Silent, Calls, Frame

\* Calls compose: what was said stays said.
LEMMA Composed ==
  ASSUME NEW x, NEW y, NEW z
  PROVE  /\ Silent(x, y) /\ Silent(y, z) => Silent(x, z)
         /\ Silent(x, y) /\ Says(y, z) => Says(x, z)
         /\ Says(x, y) /\ Silent(y, z) => Says(x, z)
         /\ Says(x, y) /\ Says(y, z) => Says(x, z)
         /\ Silent(x, y) \/ Says(x, y) => y \in Ctx
BY DEF Silent, Says, Calls, Frame

\* http_response says something: a status line.
LEMMA Responds ==
  ASSUME NEW x \in Ctx, NEW n \in Nat
  PROVE  Says(x, http_response(x, n))
<1> DEFINE t == [kind |-> "status", status |-> n, hdrs |-> x.c.ohdr]
           w == http_write(x, t)
<1>1. t \in Token
  BY DEF Token, Ctx, SlotSet
<1>2. Says(x, w)
  BY <1>1, Writes
<1>3. http_response(x, n) = [w EXCEPT !.c.ohdr = {}]
  BY DEF http_response
<1> HIDE DEF w
<1>4. w \in Ctx
  BY <1>2, Composed
<1>5. Silent(w, [w EXCEPT !.c.ohdr = {}])
  BY <1>4 DEF Ctx, SlotSet, Silent, Calls, Frame
<1>6. QED
  BY <1>2, <1>3, <1>5, Composed

\* http_set_save_header says nothing.
LEMMA SavesHeader ==
  ASSUME NEW x \in Ctx
  PROVE  Silent(x, http_set_save_header(x))
BY DEF Ctx, SlotSet, http_set_save_header, Silent, Calls, Frame

\* The contract of a CGI that is called with nothing to be sent and no timer armed.
Ready(x) ==
    /\ x \in Ctx /\ x.c.out = <<>> /\ ~x.timer
    /\ x.c.data = NoData \/ (x.c.state = BODY_END /\ Serves(x.c))

Early(x, y) ==
    /\ ~y.timer /\ y.c.data = NoData /\ y.r \in {"NEXT_RULE", "MORE", "DONE"}
    /\ y.r = "DONE" => y.c.out # <<>> /\ x.c.state = HEADERS_END
    /\ y.r # "DONE" => y.c.out = <<>>
    /\ y.r = "MORE" => x.c.fn \in ApiFns

Passes(x, y) == y.c.out = <<>> /\ ~y.timer /\ x.c.data = NoData /\ y.c.data = NoData
Goes(x, y) == Serves(y.c) /\ (y.timer <=> y.c.out = <<>>) /\ (y.timer => y.c.fn \in TimerFns)
Ends(x, y) == ~y.timer /\ DataOK(y.c) /\ (x.c.data = NoData => y.c.out # <<>>)

Late(x, y) ==
    /\ y.r \in {"NEXT_RULE", "NOTFOUND"} => Passes(x, y)
    /\ y.r = "MORE" => Goes(x, y)
    /\ y.r = "DONE" => Ends(x, y)

Result(x, y) ==
    /\ Frame(x, y)
    /\ x.c.state # BODY_END => Early(x, y)
    /\ x.c.state = BODY_END => Late(x, y)

States == {ON_URL, HEADERS_END, ON_BODY, BODY_END}

\* A context that is ready has its type, and only a CGI that serves keeps data.
LEMMA ReadyFacts ==
  ASSUME NEW x, Ready(x)
  PROVE  /\ x \in Ctx /\ x.c.out = <<>> /\ ~x.timer /\ x.c.state \in States
         /\ x.c.state # BODY_END => x.c.data = NoData
         /\ x.c.fn \notin {"file_system", "wifi_get_status", "wifi_scan", "wifi_connect_ap"}
              => x.c.data = NoData
         /\ DataOK(x.c)
BY DEF Ready, Ctx, SlotSet, Serves, DataOK, InFile, States

\* A CGI that says nothing and passes the request on,
LEMMA PassesOn ==
  ASSUME NEW x, Ready(x), x.c.data = NoData, NEW y, Silent(x, y), y.r = "NEXT_RULE"
  PROVE  Result(x, y)
BY ReadyFacts DEF Result, Silent, Calls, Early, Late, Passes

\* or ends it with an answer.
LEMMA EndsIt ==
  ASSUME NEW x, Ready(x), x.c.data = NoData, NEW y, Says(x, y), y.r = "DONE",
         x.c.state \in {HEADERS_END, BODY_END}
  PROVE  Result(x, y)
BY ReadyFacts DEF Result, Says, Calls, Early, Late, Ends, DataOK

\* A response followed by DONE.
LEMMA ResponseEnds ==
  ASSUME NEW x \in Ctx, NEW n \in Nat
  PROVE  LET y == Return(http_response(x, n), "DONE") IN Says(x, y) /\ y.r = "DONE"
<1>1. Says(x, http_response(x, n)) /\ http_response(x, n) \in Ctx
  BY Responds, Composed
<1>2. QED
  BY <1>1, Returns, Composed

\* NEXT_RULE alone.
LEMMA PassReturns ==
  ASSUME NEW x \in Ctx
  PROVE  LET y == Return(x, "NEXT_RULE") IN Silent(x, y) /\ y.r = "NEXT_RULE"
BY Returns

\* cgi_check_host keeps the contract,
LEMMA ChecksHost ==
  ASSUME NEW x, Ready(x), x.c.fn = "check_host"
  PROVE  Result(x, cgi_check_host(x))
<1>0. x \in Ctx /\ x.c.data = NoData /\ x.c.state \in States
  BY ReadyFacts
<1>1. CASE x.c.state = ON_URL
  <2>1. cgi_check_host(x) = Return(http_set_save_header(x), "NEXT_RULE")
    BY <1>1 DEF cgi_check_host, ON_URL, HEADERS_END
  <2>2. Silent(x, http_set_save_header(x)) /\ http_set_save_header(x) \in Ctx
    BY <1>0, SavesHeader, Composed
  <2>3. Silent(x, Return(http_set_save_header(x), "NEXT_RULE"))
        /\ Return(http_set_save_header(x), "NEXT_RULE").r = "NEXT_RULE"
    BY <2>2, PassReturns, Composed
  <2>4. QED
    BY <1>0, <2>1, <2>3, PassesOn
<1>2. CASE x.c.state = HEADERS_END /\ x.c.host \in {"unsaved", "missing"}
  <2>1. cgi_check_host(x) = Return(http_response(x, 400), "DONE")
    BY <1>2 DEF cgi_check_host, ON_URL, HEADERS_END
  <2>2. QED
    BY <1>0, <1>2, <2>1, ResponseEnds, EndsIt
<1>3. CASE x.c.state = HEADERS_END /\ x.c.host = "other"
  <2>1. cgi_check_host(x) = Return(http_response(x, 302), "DONE")
    BY <1>3 DEF cgi_check_host, ON_URL, HEADERS_END
  <2>2. QED
    BY <1>0, <1>3, <2>1, ResponseEnds, EndsIt
<1>4. CASE /\ x.c.state # ON_URL
           /\ ~(x.c.state = HEADERS_END /\ x.c.host \in {"unsaved", "missing"})
           /\ ~(x.c.state = HEADERS_END /\ x.c.host = "other")
  <2>1. cgi_check_host(x) = Return(x, "NEXT_RULE")
    BY <1>4 DEF cgi_check_host
  <2>2. QED
    BY <1>0, <2>1, PassReturns, PassesOn
<1>5. QED
  BY <1>1, <1>2, <1>3, <1>4

\* and so do cgi_cors,
LEMMA Cors ==
  ASSUME NEW x, Ready(x), x.c.fn = "cors"
  PROVE  Result(x, cgi_cors(x))
<1> DEFINE allow == http_SET_HEADER(x, "Access-Control-Allow-Origin")
<1>0. x \in Ctx /\ x.c.data = NoData /\ x.c.state \in States
  BY ReadyFacts
<1>a. Silent(x, allow) /\ allow \in Ctx
  BY <1>0, SetHeader, Composed DEF Header
<1>b. cgi_cors(x) = CASE x.c.state = HEADERS_END /\ x.c.method = "OPTIONS" ->
                           Return(http_response(allow, 200), "DONE")
                      [] x.c.state = HEADERS_END /\ x.c.method # "OPTIONS" ->
                           Return(allow, "NEXT_RULE")
                      [] OTHER -> Return(x, "NEXT_RULE")
  BY DEF cgi_cors
<1> HIDE DEF allow
<1>1. CASE x.c.state = HEADERS_END /\ x.c.method = "OPTIONS"
  <2>1. cgi_cors(x) = Return(http_response(allow, 200), "DONE")
    BY <1>1, <1>b
  <2>2. LET y == Return(http_response(allow, 200), "DONE") IN Says(allow, y) /\ y.r = "DONE"
    BY <1>a, ResponseEnds
  <2>3. Says(x, cgi_cors(x)) /\ cgi_cors(x).r = "DONE"
    BY <1>a, <2>1, <2>2, Composed
  <2>4. QED
    BY <1>0, <1>1, <2>3, EndsIt
<1>2. CASE x.c.state = HEADERS_END /\ x.c.method # "OPTIONS"
  <2>1. cgi_cors(x) = Return(allow, "NEXT_RULE")
    BY <1>2, <1>b
  <2>2. Silent(x, cgi_cors(x)) /\ cgi_cors(x).r = "NEXT_RULE"
    BY <1>a, <2>1, PassReturns, Composed
  <2>3. QED
    BY <1>0, <2>2, PassesOn
<1>3. CASE x.c.state # HEADERS_END
  <2>1. cgi_cors(x) = Return(x, "NEXT_RULE")
    BY <1>3, <1>b
  <2>2. QED
    BY <1>0, <2>1, PassReturns, PassesOn
<1>4. QED
  BY <1>1, <1>2, <1>3

\* cgi_url_rewrite, which never leads to a path bound to a timer,
LEMMA Rewrite ==
  ASSUME NEW x, Ready(x), x.c.fn = "url_rewrite", NEW to \in Url, to \notin TimerPaths
  PROVE  Result(x, cgi_url_rewrite(x, to))
<1>0. x \in Ctx /\ x.c.data = NoData
  BY ReadyFacts
<1> DEFINE w == IF x.c.state = HEADERS_END THEN [x EXCEPT !.c.url = to] ELSE x
<1>1. Silent(x, w) /\ w \in Ctx
  BY <1>0 DEF Silent, Calls, Frame, Ctx, SlotSet
<1>2. cgi_url_rewrite(x, to) = Return(w, "NEXT_RULE")
  BY DEF cgi_url_rewrite
<1> HIDE DEF w
<1>3. Silent(x, cgi_url_rewrite(x, to)) /\ cgi_url_rewrite(x, to).r = "NEXT_RULE"
  BY <1>1, <1>2, PassReturns, Composed
<1>4. QED
  BY <1>0, <1>3, PassesOn

\* (a change of c.data,
LEMMA SetsData ==
  ASSUME NEW x \in Ctx, NEW n \in Int
  PROVE  LET y == [x EXCEPT !.c.data = n]
         IN  /\ y \in Ctx /\ Frame(x, y) /\ y.c.out = x.c.out /\ y.timer = x.timer /\ y.r = x.r
             /\ y.c.data = n /\ y.c.file = x.c.file
BY DEF Ctx, SlotSet, Frame

\* and one of c.data and c.file)
LEMMA SetsFile ==
  ASSUME NEW x \in Ctx, NEW f \in Url
  PROVE  LET y == [x EXCEPT !.c.data = 0, !.c.file = f]
         IN  /\ y \in Ctx /\ Frame(x, y) /\ y.c.out = x.c.out /\ y.timer = x.timer
             /\ y.c.data = 0 /\ y.c.file = f
<1> DEFINE w == [x EXCEPT !.c.data = 0]
<1>1. w \in Ctx /\ Frame(x, w) /\ w.c.out = x.c.out /\ w.timer = x.timer /\ w.c.data = 0
  BY SetsData
<1>2. [x EXCEPT !.c.data = 0, !.c.file = f] = [w EXCEPT !.c.file = f]
  BY Zenon DEF w
<1> HIDE DEF w
<1>3. LET y == [w EXCEPT !.c.file = f]
      IN  y \in Ctx /\ Frame(w, y) /\ y.c.out = w.c.out /\ y.timer = w.timer
          /\ y.c.data = w.c.data /\ y.c.file = f
  BY <1>1 DEF Ctx, SlotSet, Frame
<1>4. QED
  BY <1>1, <1>2, <1>3 DEF Frame

\* f_read never passes the end of the file, and reads something unless it is there.
LEMMA Reads ==
  ASSUME NEW x \in Ctx, InFile(x.c)
  PROVE  /\ Remaining(x) \in Nat /\ ReadLen(x) \in Nat
         /\ ReadLen(x) # Remaining(x) => ReadLen(x) > 0 /\ x.c.data + ReadLen(x) \in 0 .. FileSize[x.c.file]
BY CgiAssumption DEF Remaining, ReadLen, InFile

\* cgi_file_system, which stays inside its file,
LEMMA ServesFile ==
  ASSUME NEW x, Ready(x), x.c.fn = "file_system"
  PROVE  Result(x, cgi_file_system(x))
<1>0. x \in Ctx /\ x.c.state \in States /\ x.c.out = <<>> /\ ~x.timer
  BY ReadyFacts
<1>1. CASE x.c.state < BODY_END
  <2>1. cgi_file_system(x) = Return(x, "NEXT_RULE") /\ x.c.data = NoData
    BY <1>0, <1>1, ReadyFacts DEF cgi_file_system, States, ON_URL, HEADERS_END, ON_BODY, BODY_END
  <2>2. QED
    BY <1>0, <2>1, PassReturns, PassesOn
<1>2. ASSUME x.c.state = BODY_END, x.c.data = NoData, x.c.url \notin DOMAIN FileSize
      PROVE  Result(x, cgi_file_system(x))
  <2>1. cgi_file_system(x) = Return(x, "NOTFOUND")
    BY <1>2 DEF cgi_file_system, BODY_END
  <2>2. Silent(x, cgi_file_system(x)) /\ cgi_file_system(x).r = "NOTFOUND"
    BY <1>0, <2>1, Returns
  <2>3. QED
    BY <1>0, <1>2, <2>2 DEF Result, Silent, Calls, Late, Passes
<1>3. ASSUME x.c.state = BODY_END, x.c.data = NoData, x.c.url \in DOMAIN FileSize
      PROVE  Result(x, cgi_file_system(x))
  <2> DEFINE h == http_SET_HEADER(x, "Content-Length")
             w == http_response(h, 200)
             v == [w EXCEPT !.c.data = 0, !.c.file = x.c.url]
  <2>1. cgi_file_system(x) = Return(v, "MORE")
    BY <1>3 DEF cgi_file_system, BODY_END
  <2>2. Silent(x, h) /\ h \in Ctx
    BY <1>0, SetHeader, Composed DEF Header
  <2> HIDE DEF h
  <2>3. Says(x, w) /\ w \in Ctx
    BY <2>2, Responds, Composed
  <2> HIDE DEF w
  <2>4. v \in Ctx /\ Frame(w, v) /\ v.c.out = w.c.out /\ v.timer = w.timer
        /\ v.c.data = 0 /\ v.c.file = x.c.url
    <3>1. x.c.url \in Url
      BY <1>0 DEF Ctx, SlotSet
    <3>2. QED
      BY <2>3, <3>1, SetsFile
  <2> HIDE DEF v
  <2> DEFINE y == Return(v, "MORE")
  <2>5. Silent(v, y) /\ y.r = "MORE"
    BY <2>4, Returns
  <2> HIDE DEF y
  <2>6. Frame(x, y) /\ y.c.out # <<>> /\ ~y.timer /\ y.c.data = 0 /\ y.c.file = x.c.url
    BY <1>0, <2>3, <2>4, <2>5 DEF Says, Silent, Calls, Frame
  <2>7. Serves(y.c)
    BY <1>3, <2>6, CgiAssumption DEF Serves, InFile, Frame
  <2>8. Result(x, y)
    BY <1>3, <2>5, <2>6, <2>7 DEF Result, Late, Goes
  <2>9. QED
    BY <2>1, <2>8 DEF y
<1>4. ASSUME x.c.state = BODY_END, x.c.data # NoData PROVE Result(x, cgi_file_system(x))
  <2> DEFINE piece == [kind |-> "file", file |-> x.c.file, pos |-> x.c.data, len |-> ReadLen(x)]
             w == IF ReadLen(x) > 0 THEN http_write(x, piece) ELSE x
             v == [w EXCEPT !.c.data = @ + ReadLen(x)]
  <2>1. cgi_file_system(x) = IF ReadLen(x) = Remaining(x) THEN Return(w, "DONE") ELSE Return(v, "MORE")
    BY <1>4 DEF cgi_file_system, BODY_END
  <2>2. InFile(x.c)
    BY <1>4 DEF Ready, Serves
  <2>3. piece \in Token
    BY <1>0, <2>2, Reads DEF Token, Ctx, SlotSet
  <2>4. /\ Silent(x, w) \/ Says(x, w)
        /\ ReadLen(x) > 0 => Says(x, w)
    <3>1. Says(x, http_write(x, piece))
      BY <1>0, <2>3, Writes
    <3>2. Silent(x, x)
      BY <1>0 DEF Silent, Calls, Frame
    <3>3. QED
      BY <3>1, <3>2
  <2> HIDE DEF w, piece
  <2>5. w \in Ctx /\ Calls(x, w)
    BY <2>4, Composed DEF Silent, Says
  <2>6. CASE ReadLen(x) = Remaining(x)
    <3> DEFINE y == Return(w, "DONE")
    <3>1. Silent(w, y) /\ y.r = "DONE"
      BY <2>5, Returns
    <3> HIDE DEF y
    <3>2. Frame(x, y) /\ ~y.timer /\ y.c.data = x.c.data /\ y.c.file = x.c.file
      BY <1>0, <2>5, <3>1 DEF Silent, Calls, Frame
    <3>3. DataOK(y.c)
      BY <2>2, <3>2 DEF DataOK, InFile
    <3>4. Result(x, y)
      BY <1>4, <3>1, <3>2, <3>3 DEF Result, Late, Ends
    <3>5. QED
      BY <2>1, <2>6, <3>4 DEF y
  <2>7. CASE ReadLen(x) # Remaining(x)
    <3>1. ReadLen(x) \in Nat /\ ReadLen(x) > 0 /\ x.c.data + ReadLen(x) \in 0 .. FileSize[x.c.file]
          /\ x.c.data \in Int /\ x.c.file \in DOMAIN FileSize
      BY <1>0, <2>2, <2>7, Reads DEF InFile, Ctx, SlotSet
    <3>2. Says(x, w)
      BY <2>4, <3>1
    <3>3. v \in Ctx /\ Frame(w, v) /\ v.c.out = w.c.out /\ v.timer = w.timer
          /\ v.c.data = w.c.data + ReadLen(x) /\ v.c.file = w.c.file
      <4>1. w.c.data + ReadLen(x) \in Int
        BY <2>5, <3>1 DEF Calls
      <4>2. QED
        BY <2>5, <4>1, SetsData
    <3> HIDE DEF v
    <3> DEFINE y == Return(v, "MORE")
    <3>4. Silent(v, y) /\ y.r = "MORE"
      BY <3>3, Returns
    <3> HIDE DEF y
    <3>5. Frame(x, y) /\ y.c.out # <<>> /\ ~y.timer /\ y.c.data = x.c.data + ReadLen(x)
          /\ y.c.file = x.c.file
      BY <1>0, <3>2, <3>3, <3>4 DEF Says, Silent, Calls, Frame
    <3>6. Serves(y.c)
      BY <3>1, <3>5 DEF Serves, InFile, Frame
    <3>7. Result(x, y)
      BY <1>4, <3>4, <3>5, <3>6 DEF Result, Late, Goes
    <3>8. QED
      BY <2>1, <2>7, <3>7 DEF y
  <2>8. QED
    BY <2>6, <2>7
<1>5. x.c.state < BODY_END \/ x.c.state = BODY_END
  BY <1>0 DEF States, ON_URL, HEADERS_END, ON_BODY, BODY_END
<1>6. QED
  BY <1>1, <1>2, <1>3, <1>4, <1>5

-----------------------------------------------------------------------------
(* The API functions                                                       *)

\* (an API function that changes its state and goes on,
LEMMA GoesTo ==
  ASSUME NEW x \in Ctx, NEW n \in Int
  PROVE  LET y == Goto(x, n)
         IN  /\ Frame(x, y) /\ y.c.out = x.c.out /\ y.timer = x.timer /\ y.c.data = n
             /\ y.r = "MORE"
<1> DEFINE w == [x EXCEPT !.c.data = n]
<1>1. w \in Ctx /\ Frame(x, w) /\ w.c.out = x.c.out /\ w.timer = x.timer /\ w.c.data = n
  BY SetsData
<1>2. Goto(x, n) = Return(w, "MORE")
  BY DEF Goto
<1> HIDE DEF w
<1>3. Silent(w, Return(w, "MORE")) /\ Return(w, "MORE").r = "MORE"
  BY <1>1, Returns
<1>4. QED
  BY <1>1, <1>2, <1>3 DEF Silent, Calls, Frame

\* one that writes the header of a JSON answer,
LEMMA SaysJson ==
  ASSUME NEW x \in Ctx
  PROVE  Says(x, JsonHeader(x)) /\ JsonHeader(x) \in Ctx
         /\ Says(x, http_write(x, Json)) /\ http_write(x, Json) \in Ctx
<1> DEFINE h == http_SET_HEADER(x, "Content-Type")
<1>1. Silent(x, h) /\ h \in Ctx
  BY SetHeader, Composed DEF Header
<1>2. JsonHeader(x) = http_response(h, 200)
  BY DEF JsonHeader
<1> HIDE DEF h
<1>3. Says(x, JsonHeader(x))
  <2>1. 200 \in Nat
    OBVIOUS
  <2>2. Says(h, http_response(h, 200))
    BY <1>1, <2>1, Responds, Zenon
  <2>3. QED
    BY ONLY <1>1, <1>2, <2>2, Composed
<1>4. Json \in Token
  BY DEF Token
<1>5. Says(x, http_write(x, Json))
  BY <1>4, Writes
<1>6. QED
  BY <1>3, <1>5, Composed

\* arms its timer,
LEMMA Arms ==
  ASSUME NEW x \in Ctx
  PROVE  Arm(x) \in Ctx /\ Frame(x, Arm(x)) /\ Arm(x).timer /\ Arm(x).c = x.c
BY DEF Ctx, Arm, Frame

\* or changes the state of the wifi station)
LEMMA SetsWifi ==
  ASSUME NEW x \in Ctx, NEW b \in BOOLEAN
  PROVE  /\ Silent(x, [x EXCEPT !.scan = b])
         /\ Silent(x, wifi_station_connect(x))
         /\ Silent(x, wifi_station_disconnect(x))
         /\ ~x.timer => Silent(x, [x EXCEPT !.timer = FALSE])
BY DEF Ctx, Silent, Calls, Frame, wifi_station_connect, wifi_station_disconnect

\* An API function that goes on after it has written something,
LEMMA WritesOn ==
  ASSUME NEW x, Ready(x), x.c.state = BODY_END, NEW n \in {1, 2, 99},
         x.c.fn \in {"wifi_get_status", "wifi_scan", "wifi_connect_ap"},
         NEW w, Says(x, w)
  PROVE  Result(x, Goto(w, n))
<1> DEFINE y == Goto(w, n)
<1>1. w \in Ctx /\ n \in Int /\ ~x.timer
  BY ReadyFacts DEF Says, Calls, Frame
<1>2. Frame(w, y) /\ y.c.out = w.c.out /\ y.timer = w.timer /\ y.c.data = n /\ y.r = "MORE"
  BY <1>1, GoesTo
<1> HIDE DEF y
<1>3. Frame(x, y) /\ y.c.out # <<>> /\ ~y.timer
  BY <1>1, <1>2 DEF Says, Calls, Frame
<1>4. Serves(y.c)
  BY <1>2, <1>3 DEF Serves, Frame
<1>5. Result(x, y)
  BY <1>2, <1>3, <1>4 DEF Result, Late, Goes
<1>6. QED
  BY <1>5 DEF y

\* one that waits for its timer,
LEMMA WaitsOn ==
  ASSUME NEW x, Ready(x), x.c.state = BODY_END, x.c.fn \in TimerFns,
         NEW y, Frame(x, y), y.c.out = <<>>, y.timer, y.c.data \in {1, 2, 99}, y.r = "MORE"
  PROVE  Result(x, y)
<1>1. Serves(y.c)
  BY DEF Serves, Frame, TimerFns
<1>2. QED
  BY <1>1 DEF Result, Late, Goes, Frame

\* and one that was called again and is done.
LEMMA DoneNow ==
  ASSUME NEW x, Ready(x), x.c.state = BODY_END, x.c.data # NoData
  PROVE  Result(x, Return(x, "DONE"))
<1>1. x \in Ctx /\ ~x.timer /\ DataOK(x.c)
  BY ReadyFacts
<1>2. Silent(x, Return(x, "DONE")) /\ Return(x, "DONE").r = "DONE" /\ Return(x, "DONE").c = x.c
  BY <1>1, Returns
<1>3. QED
  BY <1>1, <1>2 DEF Result, Silent, Calls, Late, Ends

\* http_wifi_api_get_status,
LEMMA GetsStatus ==
  ASSUME NEW x, Ready(x), x.c.state = BODY_END, x.c.fn = "wifi_get_status"
  PROVE  Result(x, http_wifi_api_get_status(x)) /\ http_wifi_api_get_status(x).r \in {"MORE", "DONE"}
<1>0. x \in Ctx
  BY ReadyFacts
<1>1. CASE x.c.data = NoData
  <2>1. http_wifi_api_get_status(x) = Goto(JsonHeader(x), 1)
    BY <1>1 DEF http_wifi_api_get_status, NoData
  <2>2. QED
    BY <1>0, <2>1, SaysJson, WritesOn, GoesTo
<1>2. CASE x.c.data = 1
  <2>1. http_wifi_api_get_status(x) = Goto(http_write(x, Json), 99)
    BY <1>2 DEF http_wifi_api_get_status, NoData
  <2>2. QED
    BY <1>0, <2>1, SaysJson, WritesOn, GoesTo
<1>3. CASE x.c.data # NoData /\ x.c.data # 1
  <2>1. http_wifi_api_get_status(x) = Return(x, "DONE")
    BY <1>3 DEF http_wifi_api_get_status
  <2>2. QED
    BY <1>0, <1>3, <2>1, DoneNow, Returns
<1>4. QED
  BY <1>1, <1>2, <1>3

\* http_wifi_api_scan,
LEMMA Scans ==
  ASSUME NEW x, Ready(x), x.c.state = BODY_END, x.c.fn = "wifi_scan"
  PROVE  Result(x, http_wifi_api_scan(x)) /\ http_wifi_api_scan(x).r \in {"MORE", "DONE"}
<1>0. x \in Ctx /\ x.scan \in BOOLEAN /\ x.c.out = <<>> /\ ~x.timer
  BY ReadyFacts DEF Ctx
<1>1. CASE x.c.data = NoData
  <2> DEFINE w == [x EXCEPT !.scan = TRUE]
  <2>1. http_wifi_api_scan(x) = Goto(JsonHeader(w), 1)
    BY <1>1 DEF http_wifi_api_scan, NoData
  <2>2. Silent(x, w) /\ w \in Ctx
    BY <1>0, SetsWifi, Composed
  <2> HIDE DEF w
  <2>3. Says(x, JsonHeader(w)) /\ JsonHeader(w) \in Ctx
    BY <2>2, SaysJson, Composed
  <2>4. QED
    BY <1>0, <2>1, <2>3, WritesOn, GoesTo
<1>2. CASE x.c.data # NoData /\ x.scan
  <2> DEFINE w == Arm(x)
             y == Return(w, "MORE")
  <2>1. http_wifi_api_scan(x) = y
    BY <1>2 DEF http_wifi_api_scan
  <2>2. w \in Ctx /\ Frame(x, w) /\ w.timer /\ w.c = x.c
    BY <1>0, Arms
  <2> HIDE DEF w
  <2>3. Silent(w, y) /\ y.r = "MORE" /\ y.c = w.c
    BY <2>2, Returns
  <2> HIDE DEF y
  <2>4. Frame(x, y) /\ y.timer /\ y.c = x.c
    BY <2>2, <2>3 DEF Silent, Calls, Frame
  <2>5. x.c.data \in {1, 2, 99}
    BY <1>2 DEF Ready, Serves
  <2>6. QED
    BY <1>0, <2>1, <2>3, <2>4, <2>5, WaitsOn DEF TimerFns
<1>3. CASE x.c.data = 1 /\ ~x.scan
  <2> DEFINE w == [x EXCEPT !.timer = FALSE]
  <2>1. http_wifi_api_scan(x) = Goto(http_write(w, Json), 99)
    BY <1>3 DEF http_wifi_api_scan, NoData
  <2>2. Silent(x, w) /\ w \in Ctx
    BY <1>0, SetsWifi, Composed
  <2> HIDE DEF w
  <2>3. Says(x, http_write(w, Json)) /\ http_write(w, Json) \in Ctx
    BY <2>2, SaysJson, Composed
  <2>4. QED
    BY <1>0, <2>1, <2>3, WritesOn, GoesTo
<1>4. CASE x.c.data # NoData /\ x.c.data # 1 /\ ~x.scan
  <2>1. http_wifi_api_scan(x) = Return(x, "DONE")
    BY <1>4 DEF http_wifi_api_scan
  <2>2. QED
    BY <1>0, <1>4, <2>1, DoneNow, Returns
<1>5. QED
  BY <1>0, <1>1, <1>2, <1>3, <1>4

\* http_wifi_api_connect_ap,
LEMMA ConnectsAp ==
  ASSUME NEW x, Ready(x), x.c.state = BODY_END, x.c.fn = "wifi_connect_ap"
  PROVE  Result(x, http_wifi_api_connect_ap(x)) /\ http_wifi_api_connect_ap(x).r \in {"MORE", "DONE"}
<1>0. x \in Ctx /\ x.c.out = <<>> /\ ~x.timer
  BY ReadyFacts
<1>1. CASE x.c.data = NoData /\ x.c.body # "valid"
  <2>1. http_wifi_api_connect_ap(x) = Goto(http_response(x, 400), 99)
    BY <1>1 DEF http_wifi_api_connect_ap, NoData
  <2>2. Says(x, http_response(x, 400)) /\ http_response(x, 400) \in Ctx
    BY <1>0, Responds, Composed
  <2>3. QED
    BY <1>0, <2>1, <2>2, WritesOn, GoesTo
<1>2. ASSUME NEW w, Silent(x, w), NEW n \in {1, 2, 99}, http_wifi_api_connect_ap(x) = Goto(Arm(w), n)
      PROVE  Result(x, Goto(Arm(w), n)) /\ Goto(Arm(w), n).r = "MORE"
  <2> DEFINE v == Arm(w)
             y == Goto(v, n)
  <2>1. w \in Ctx /\ n \in Int
    BY <1>2 DEF Silent, Calls, Frame
  <2>2. v \in Ctx /\ Frame(w, v) /\ v.timer /\ v.c = w.c
    BY <2>1, Arms
  <2> HIDE DEF v
  <2>3. Frame(v, y) /\ y.c.out = v.c.out /\ y.timer = v.timer /\ y.c.data = n /\ y.r = "MORE"
    BY ONLY <2>1, <2>2, GoesTo
  <2> HIDE DEF y
  <2>4. Frame(x, y) /\ y.timer /\ y.c.out = <<>>
    BY <1>0, <1>2, <2>2, <2>3 DEF Silent, Calls, Frame
  <2>5. Result(x, y)
    BY <2>3, <2>4, WaitsOn DEF TimerFns
  <2>6. QED
    BY <2>3, <2>5 DEF y, v
<1>3. Silent(x, x)
  BY <1>0 DEF Silent, Calls, Frame
<1>4. CASE x.c.data = NoData /\ x.c.body = "valid"
  <2>1. http_wifi_api_connect_ap(x) = Goto(Arm(x), 1)
    BY <1>4 DEF http_wifi_api_connect_ap, NoData
  <2>2. QED
    BY <1>2, <1>3, <2>1
<1>5. CASE x.c.data = 1
  <2> DEFINE u == wifi_station_disconnect(x)
             w == wifi_station_connect(u)
  <2>1. http_wifi_api_connect_ap(x) = Goto(Arm(w), 2)
    BY <1>5 DEF http_wifi_api_connect_ap, NoData
  <2>2. Silent(x, u) /\ u \in Ctx
    BY <1>0, SetsWifi DEF Silent, Calls, Frame
  <2> HIDE DEF u
  <2>3. Silent(x, w)
    BY <2>2, SetsWifi, Composed
  <2> HIDE DEF w
  <2>4. QED
    BY <1>2, <2>1, <2>3
<1>6. CASE x.c.data = 2 /\ x.station = "connecting"
  <2> DEFINE w == Arm(x)
             y == Return(w, "MORE")
  <2>1. http_wifi_api_connect_ap(x) = y
    BY <1>6 DEF http_wifi_api_connect_ap, NoData
  <2>2. w \in Ctx /\ Frame(x, w) /\ w.timer /\ w.c = x.c
    BY <1>0, Arms
  <2> HIDE DEF w
  <2>3. Silent(w, y) /\ y.r = "MORE" /\ y.c = w.c
    BY <2>2, Returns
  <2> HIDE DEF y
  <2>4. Frame(x, y) /\ y.timer /\ y.c = x.c
    BY <2>2, <2>3 DEF Silent, Calls, Frame
  <2>5. QED
    BY <1>0, <1>6, <2>1, <2>3, <2>4, WaitsOn DEF TimerFns
<1>7. CASE x.c.data = 2 /\ x.station # "connecting"
  <2> DEFINE u == IF x.station = "failed" THEN wifi_station_disconnect(x) ELSE x
             v == JsonHeader(u)
             w == http_write(v, Json)
  <2>1. http_wifi_api_connect_ap(x) = Goto(w, 99)
    BY <1>7 DEF http_wifi_api_connect_ap, NoData
  <2>2. Silent(x, u) /\ u \in Ctx
    BY <1>0, <1>3, SetsWifi DEF Silent, Calls, Frame
  <2> HIDE DEF u
  <2>3. Says(x, v) /\ v \in Ctx
    BY <2>2, SaysJson, Composed
  <2> HIDE DEF v
  <2>4. Says(x, w) /\ w \in Ctx
    BY <2>3, SaysJson, Composed
  <2> HIDE DEF w
  <2>5. QED
    BY <1>0, <2>1, <2>4, WritesOn, GoesTo
<1>8. CASE x.c.data \notin {NoData, 1, 2}
  <2>1. http_wifi_api_connect_ap(x) = Return(x, "DONE")
    BY <1>8 DEF http_wifi_api_connect_ap
  <2>2. QED
    BY <1>0, <1>8, <2>1, DoneNow, Returns
<1>9. QED
  BY <1>1, <1>4, <1>5, <1>6, <1>7, <1>8

\* The functions that answer at once.
LEMMA AnswersAtOnce ==
  ASSUME NEW x, Ready(x), x.c.state = BODY_END, x.c.data = NoData
  PROVE  /\ Result(x, http_wifi_api_disconnect(x)) /\ http_wifi_api_disconnect(x).r = "DONE"
         /\ Result(x, http_relay_api_status(x)) /\ http_relay_api_status(x).r = "DONE"
         /\ Result(x, http_relay_api_toggle(x)) /\ http_relay_api_toggle(x).r = "DONE"
         /\ Result(x, http_dht_api_read(x)) /\ http_dht_api_read(x).r = "DONE"
<1>0. x \in Ctx
  BY ReadyFacts
<1>1. ASSUME NEW w, Says(x, w) PROVE Result(x, Return(w, "DONE")) /\ Return(w, "DONE").r = "DONE"
  <2>1. w \in Ctx
    BY <1>1 DEF Says, Calls, Frame
  <2>2. Says(x, Return(w, "DONE")) /\ Return(w, "DONE").r = "DONE"
    BY <1>1, <2>1, Returns, Composed
  <2>3. QED
    BY <2>2, EndsIt
<1>2. Says(x, http_write(JsonHeader(x), Json))
  <2>1. Says(x, JsonHeader(x)) /\ JsonHeader(x) \in Ctx
    BY <1>0, SaysJson
  <2>2. QED
    BY <2>1, SaysJson, Composed
<1>3. Says(x, http_response(x, 400))
  BY <1>0, Responds
<1>4. Says(x, http_response(wifi_station_disconnect(x), 200))
  <2>1. Silent(x, wifi_station_disconnect(x)) /\ wifi_station_disconnect(x) \in Ctx
    BY <1>0, SetsWifi DEF Silent, Calls, Frame
  <2>2. QED
    BY <2>1, Responds, Composed
<1>5. Says(x, IF x.c.body = "valid" THEN http_write(JsonHeader(x), Json) ELSE http_response(x, 400))
  BY <1>2, <1>3
<1>6. QED
  BY <1>1, <1>2, <1>4, <1>5
     DEF http_wifi_api_disconnect, http_relay_api_status, http_relay_api_toggle, http_dht_api_read

\* and every API function: before the end of the request it only waits.
LEMMA CallsApi ==
  ASSUME NEW x, Ready(x), x.c.fn \in ApiFns
  PROVE  /\ Result(x, ApiCall(x.c.fn, x)) /\ ApiCall(x.c.fn, x).r \in {"MORE", "DONE"}
         /\ x.c.state # BODY_END => ApiCall(x.c.fn, x).r = "MORE"
<1>0. x \in Ctx /\ x.c.state \in States /\ x.c.out = <<>> /\ ~x.timer
  BY ReadyFacts
<1>1. CASE x.c.state < BODY_END
  <2>1. ApiCall(x.c.fn, x) = Return(x, "MORE") /\ x.c.state # BODY_END /\ x.c.data = NoData
    BY <1>0, <1>1, ReadyFacts DEF ApiCall, States, ON_URL, HEADERS_END, ON_BODY, BODY_END
  <2>2. Silent(x, Return(x, "MORE")) /\ Return(x, "MORE").r = "MORE"
    BY <1>0, Returns
  <2>3. QED
    BY <1>0, <2>1, <2>2 DEF Result, Silent, Calls, Early
<1>2. CASE ~(x.c.state < BODY_END)
  <2>0. x.c.state = BODY_END
    BY <1>0, <1>2 DEF States, ON_URL, HEADERS_END, ON_BODY, BODY_END
  <2>1. CASE x.c.fn = "wifi_get_status"
    <3>1. ApiCall(x.c.fn, x) = http_wifi_api_get_status(x)
      BY <1>2, <2>1 DEF ApiCall
    <3>2. QED
      BY <2>0, <2>1, <3>1, GetsStatus
  <2>2. CASE x.c.fn = "wifi_scan"
    <3>1. ApiCall(x.c.fn, x) = http_wifi_api_scan(x)
      BY <1>2, <2>2 DEF ApiCall
    <3>2. QED
      BY <2>0, <2>2, <3>1, Scans
  <2>3. CASE x.c.fn = "wifi_connect_ap"
    <3>1. ApiCall(x.c.fn, x) = http_wifi_api_connect_ap(x)
      BY <1>2, <2>3 DEF ApiCall
    <3>2. QED
      BY <2>0, <2>3, <3>1, ConnectsAp
  <2>4. CASE x.c.fn \in {"wifi_disconnect", "relay_status", "relay_toggle", "dht_read"}
    <3>1. x.c.data = NoData
      BY <2>4, ReadyFacts
    <3>2. ApiCall(x.c.fn, x) \in {http_wifi_api_disconnect(x), http_relay_api_status(x),
                                  http_relay_api_toggle(x), http_dht_api_read(x)}
      BY <1>2, <2>4 DEF ApiCall
    <3>3. QED
      BY <2>0, <3>1, <3>2, AnswersAtOnce
  <2>5. QED
    BY <2>1, <2>2, <2>3, <2>4 DEF ApiFns
<1>3. QED
  BY <1>1, <1>2

\* conn->cgi.function(conn), whichever it is.
LEMMA CallsCgi ==
  ASSUME NEW x, Ready(x), NEW arg \in Url, arg \notin TimerPaths,
         x.c.fn \in {"check_host", "cors", "url_rewrite", "file_system"} \cup ApiFns
  PROVE  /\ Result(x, Call(x.c.fn, arg, x))
         /\ x.c.fn \in ApiFns => Call(x.c.fn, arg, x).r \in {"MORE", "DONE"}
         /\ x.c.fn \in ApiFns /\ x.c.state # BODY_END => Call(x.c.fn, arg, x).r = "MORE"
<1>1. CASE x.c.fn = "check_host"
  BY <1>1, ChecksHost DEF Call, ApiFns
<1>2. CASE x.c.fn = "cors"
  BY <1>2, Cors DEF Call, ApiFns
<1>3. CASE x.c.fn = "url_rewrite"
  BY <1>3, Rewrite DEF Call, ApiFns
<1>4. CASE x.c.fn = "file_system"
  BY <1>4, ServesFile DEF Call, ApiFns
<1>5. CASE x.c.fn \in ApiFns
  <2>1. Call(x.c.fn, arg, x) = ApiCall(x.c.fn, x)
    BY <1>5 DEF Call, ApiFns
  <2>2. QED
    BY <1>5, <2>1, CallsApi
<1>6. QED
  BY <1>1, <1>2, <1>3, <1>4, <1>5

-----------------------------------------------------------------------------
(* The dispatcher                                                          *)

SameSlot(c, d) ==
    /\ d.esp = c.esp /\ d.state = c.state /\ d.url = c.url /\ d.done = c.done /\ d.fn = c.fn
    /\ d.data = c.data /\ d.file = c.file

SameConn(k, l) == l.rx = k.rx /\ l.req = k.req /\ ~l.refused

Open(k) == k.st = "open" /\ k.est # "CLOSE" /\ ~k.refused

\* A packet is taken if none waits for its acknowledgement,
LEMMA Sends ==
  ASSUME NEW y \in Ctx, Open(y.tcp), ~y.tcp.unacked, y.c.out # <<>>
  PROVE  LET z == http_send_response(y)
         IN  /\ z \in Ctx /\ SameSlot(y.c, z.c) /\ z.c.out = <<>> /\ z.timer = y.timer /\ z.r = y.r
             /\ SameConn(y.tcp, z.tcp) /\ Open(z.tcp) /\ z.tcp.unacked
<1> DEFINE k == espconn_sent(y.tcp, y.c.out)
           z == [y EXCEPT !.tcp = k, !.c.out = <<>>]
<1>1. http_send_response(y) = z
  BY DEF http_send_response, http_transmit
<1>2. k = [y.tcp EXCEPT !.est = "WRITE", !.got = @ \o y.c.out, !.unacked = TRUE]
  BY DEF espconn_sent, Open
<1>3. y.tcp.got \o y.c.out \in Seq(Token) /\ y.tcp \in ConnSet
  BY DEF Ctx, ConnSet, SlotSet
<1>4. /\ k \in ConnSet /\ k.rx = y.tcp.rx /\ k.req = y.tcp.req /\ k.refused = y.tcp.refused
      /\ k.unacked /\ k.est = "WRITE" /\ k.st = y.tcp.st
  BY <1>2, <1>3 DEF ConnSet
<1> HIDE DEF k
<1>5. <<>> \in Seq(Token)
  OBVIOUS
<1>6. z \in Ctx /\ SameSlot(y.c, z.c) /\ z.c.out = <<>> /\ z.timer = y.timer /\ z.r = y.r /\ z.tcp = k
  <2> DEFINE w == [y EXCEPT !.tcp = k]
  <2>1. w \in Ctx /\ w.c = y.c /\ w.timer = y.timer /\ w.r = y.r /\ w.tcp = k
    BY <1>4 DEF Ctx
  <2>2. z = [w EXCEPT !.c.out = <<>>]
    BY Zenon DEF w, z
  <2> HIDE DEF w, z
  <2>3. QED
    BY <1>5, <2>1, <2>2 DEF Ctx, SlotSet, SameSlot
<1> HIDE DEF z
<1>7. QED
  BY <1>1, <1>4, <1>6 DEF SameConn, Open

\* nothing is sent where there is nothing to send,
LEMMA SendsNothing ==
  ASSUME NEW y \in Ctx, y.c.out = <<>>, ~y.c.done
  PROVE  http_send_response(y) = y
BY DEF http_send_response, http_transmit

\* (http_process_free_connection)
LEMMA FreesSlot ==
  ASSUME NEW c \in SlotSet
  PROVE  LET d == http_process_free_connection(c)
         IN  /\ d \in SlotSet /\ d.esp = Nobody /\ Free(d) /\ d.done = c.done /\ d.state = c.state
             /\ d.url = c.url
<1> DEFINE e == [c EXCEPT !.esp = Nobody, !.fn = "NULL"]
           g == [e EXCEPT !.data = NoData, !.host = "unsaved"]
<1>1. e \in SlotSet /\ e.esp = Nobody /\ e.fn = "NULL" /\ e.done = c.done /\ e.state = c.state
      /\ e.url = c.url
  BY DEF SlotSet
<1>2. http_process_free_connection(c) = [g EXCEPT !.out = <<>>]
  BY Zenon DEF http_process_free_connection, e, g
<1> HIDE DEF e
<1>3. NoData \in Int /\ <<>> \in Seq(Token)
  BY DEF NoData
<1>4. g \in SlotSet /\ g.esp = e.esp /\ g.fn = e.fn /\ g.done = e.done /\ g.state = e.state
      /\ g.url = e.url /\ g.data = NoData
  BY <1>1, <1>3 DEF SlotSet
<1> HIDE DEF g
<1>5. LET d == [g EXCEPT !.out = <<>>]
      IN  d \in SlotSet /\ d.esp = g.esp /\ d.fn = g.fn /\ d.done = g.done /\ d.state = g.state
          /\ d.url = g.url /\ d.data = g.data /\ d.out = <<>>
  BY <1>3, <1>4 DEF SlotSet
<1>6. QED
  BY <1>1, <1>2, <1>4, <1>5 DEF Free

\* and then a CGI that is done ends the connection.
LEMMA SendsEnd ==
  ASSUME NEW y \in Ctx, Open(y.tcp), y.c.out = <<>>, y.c.done
  PROVE  LET z == http_send_response(y)
         IN  /\ z \in Ctx /\ z.c.esp = Nobody /\ Free(z.c) /\ z.c.done /\ z.c.state = y.c.state
             /\ z.c.url = y.c.url /\ z.timer = y.timer /\ z.r = y.r
             /\ SameConn(y.tcp, z.tcp) /\ z.tcp.got = y.tcp.got
             /\ z.tcp.st = "closing" /\ z.tcp.est = "CLOSE"
<1> DEFINE k == espconn_disconnect(y.tcp)
           d == http_process_free_connection(y.c)
           z == [y EXCEPT !.tcp = k, !.c = d]
<1>1. http_send_response(y) = z
  BY DEF http_send_response
<1>2. k = [y.tcp EXCEPT !.st = "closing", !.est = "CLOSE", !.unacked = FALSE, !.byServer = @ \/ TRUE]
  BY DEF espconn_disconnect, Open
<1>3. /\ k \in ConnSet /\ k.rx = y.tcp.rx /\ k.req = y.tcp.req /\ k.refused = y.tcp.refused
      /\ k.got = y.tcp.got /\ k.est = "CLOSE" /\ k.st = "closing"
  BY <1>2 DEF ConnSet, Ctx
<1>4. d \in SlotSet /\ d.esp = Nobody /\ Free(d) /\ d.done = y.c.done /\ d.state = y.c.state
      /\ d.url = y.c.url
  BY FreesSlot DEF Ctx
<1> HIDE DEF k, d
<1>5. z \in Ctx /\ z.c = d /\ z.timer = y.timer /\ z.r = y.r /\ z.tcp = k
  BY <1>3, <1>4 DEF Ctx
<1> HIDE DEF z
<1>6. QED
  BY <1>1, <1>3, <1>4, <1>5 DEF SameConn, Open

\* Finish marks the slot done and detaches its CGI,
LEMMA Finishes ==
  ASSUME NEW y \in Ctx
  PROVE  LET z == Finish(y)
         IN  /\ z \in Ctx /\ z.c.done /\ z.c.fn = "NULL" /\ z.tcp = y.tcp /\ z.timer = y.timer
             /\ z.r = y.r /\ z.c.out = y.c.out /\ z.c.esp = y.c.esp /\ z.c.state = y.c.state
             /\ z.c.url = y.c.url /\ z.c.data = y.c.data /\ z.c.file = y.c.file
<1> DEFINE w == [y EXCEPT !.c.fn = "NULL"]
<1>1. /\ w \in Ctx /\ w.c.done = y.c.done /\ w.c.fn = "NULL" /\ w.tcp = y.tcp /\ w.timer = y.timer
      /\ w.r = y.r /\ w.c.out = y.c.out /\ w.c.esp = y.c.esp /\ w.c.state = y.c.state
      /\ w.c.url = y.c.url /\ w.c.data = y.c.data /\ w.c.file = y.c.file
  BY DEF Ctx, SlotSet
<1>2. Finish(y) = [w EXCEPT !.c.done = TRUE]
  BY Zenon DEF Finish, w
<1> HIDE DEF w
<1>3. LET z == [w EXCEPT !.c.done = TRUE]
      IN  /\ z \in Ctx /\ z.c.done /\ z.c.fn = w.c.fn /\ z.tcp = w.tcp /\ z.timer = w.timer
          /\ z.r = w.r /\ z.c.out = w.c.out /\ z.c.esp = w.c.esp /\ z.c.state = w.c.state
          /\ z.c.url = w.c.url /\ z.c.data = w.c.data /\ z.c.file = w.c.file
  BY <1>1 DEF Ctx, SlotSet
<1>4. QED
  BY <1>1, <1>2, <1>3

\* and a change of the attached CGI alone changes nothing else.
LEMMA SetsFn ==
  ASSUME NEW y \in Ctx, NEW f \in {"NULL"} \cup RuleFns
  PROVE  LET z == [y EXCEPT !.c.fn = f]
         IN  /\ z \in Ctx /\ z.c.done = y.c.done /\ z.c.fn = f /\ z.tcp = y.tcp /\ z.timer = y.timer
             /\ z.r = y.r /\ z.c.out = y.c.out /\ z.c.esp = y.c.esp /\ z.c.state = y.c.state
             /\ z.c.url = y.c.url /\ z.c.data = y.c.data /\ z.c.file = y.c.file
BY DEF Ctx, SlotSet

\* A context the dispatcher is called in, and what it makes of it.
Callable(x) ==
    /\ Ready(x) /\ x.c.esp # Nobody /\ ~x.c.done /\ Open(x.tcp) /\ ~x.tcp.unacked
    /\ x.c.fn \in {"NULL", "file_system"} \cup ApiFns
    /\ x.c.fn = "file_system" => x.c.data # NoData
    /\ x.c.fn = "NULL" => x.c.data = NoData

Kept(x, y) ==
    /\ y \in Ctx /\ y.c.state = x.c.state /\ SameConn(x.tcp, y.tcp)
    /\ x.c.url \notin TimerPaths => y.c.url \notin TimerPaths
    /\ x.c.url \notin TimerPaths /\ x.c.fn \notin TimerFns => y.c.fn \notin TimerFns

StillWaits(x, y) ==
    y.c.esp = x.c.esp /\ y.tcp = x.tcp /\ Waits(y) /\ x.c.state # BODY_END
NowAnswered(x, y) ==
    y.c.esp = x.c.esp /\ Open(y.tcp) /\ Answered(y) /\ x.c.state \in {HEADERS_END, BODY_END}
NowServing(x, y) ==
    y.c.esp = x.c.esp /\ Open(y.tcp) /\ Serving(y)
NowGone(x, y) ==
    /\ y.c.esp = Nobody /\ Free(y.c) /\ y.c.done /\ ~y.timer
    /\ y.tcp.st = "closing" /\ y.tcp.est = "CLOSE" /\ y.tcp.got = x.tcp.got
    /\ x.c.state = BODY_END /\ x.c.data # NoData

Outcome(x, y) ==
    Kept(x, y) /\ (StillWaits(x, y) \/ NowAnswered(x, y) \/ NowServing(x, y) \/ NowGone(x, y))

Fns == {"check_host", "cors", "url_rewrite", "file_system"} \cup ApiFns

\* What the rules app.c binds have in common: a function that arms a timer is bound to
\* its path alone, and no rewrite leads there.
GoodRule(r) ==
    /\ r.cgi \in Fns /\ r.method \in {"ANY", "POST"} /\ r.body \in BOOLEAN /\ r.arg \in Url
    /\ r.arg \notin TimerPaths
    /\ r.cgi \in TimerFns => r.url \in TimerPaths

\* A function on 1 .. n is a sequence.
LEMMA FunSeq ==
  ASSUME NEW S, NEW n \in Nat, NEW f \in [1 .. n -> S]
  PROVE  f \in Seq(S)
OBVIOUS

\* All rules of app.c are such rules.
LEMMA GoodRules ==
  Len(Rules) \in Nat /\ \A i \in 1 .. Len(Rules) : GoodRule(Rules[i]) /\ Rules[i].cgi \in RuleFns
<1> DEFINE To(u, t) == [url |-> u, cgi |-> "url_rewrite", method |-> "ANY", body |-> FALSE, arg |-> t]
           RR == [i \in DOMAIN Rewrites |->
                    [url |-> Rewrites[i].url, cgi |-> "url_rewrite", method |-> "ANY",
                     body |-> FALSE, arg |-> Rewrites[i].to]]
           Wild == {Wildcard("check_host"), Wildcard("cors"), Wildcard("file_system")}
           Rewr == {To("/", "/index.html"), To("/speed-test", "/speed_test.html"),
                    To("/cats", "/cats.html")}
           Apis == {Api("/api/wifi/status", "wifi_get_status", FALSE),
                    Api("/api/wifi/scan", "wifi_scan", FALSE),
                    Api("/api/wifi/connect", "wifi_connect_ap", TRUE),
                    Api("/api/wifi/disconnect", "wifi_disconnect", FALSE),
                    Api("/api/relay/state", "relay_status", FALSE),
                    Api("/api/relay/toggle", "relay_toggle", TRUE),
                    Api("/api/dht/read", "dht_read", FALSE)}
           E == Wild \cup Rewr \cup Apis
           first == << Wildcard("check_host"), Wildcard("cors") >>
           last == << Wildcard("file_system") >>
<1>1. Rules = first \o RR \o ApiUrls \o last
  BY DEF Rules
<1>2. first \in Seq(E) /\ last \in Seq(E)
  <2>1. first \in Seq(Wild) /\ last \in Seq(Wild)
    OBVIOUS
  <2> HIDE DEF first, last, Wild, Rewr, Apis
  <2>2. Wild \subseteq E
    OBVIOUS
  <2>3. QED
    BY <2>1, <2>2
<1>3. ApiUrls \in Seq(E)
  <2>1. ApiUrls \in Seq(Apis)
    BY DEF ApiUrls
  <2> HIDE DEF Wild, Rewr, Apis
  <2>2. Apis \subseteq E
    OBVIOUS
  <2>3. QED
    BY <2>1, <2>2
<1>4. RR \in Seq(E)
  <2>1. /\ DOMAIN Rewrites = 1 .. 3
        /\ Rewrites[1] = [url |-> "/", to |-> "/index.html"]
        /\ Rewrites[2] = [url |-> "/speed-test", to |-> "/speed_test.html"]
        /\ Rewrites[3] = [url |-> "/cats", to |-> "/cats.html"]
    BY DEF Rewrites
  <2>2. \A i \in 1 .. 3 : To(Rewrites[i].url, Rewrites[i].to) \in Rewr
    <3>1. \A i \in 1 .. 3 : i = 1 \/ i = 2 \/ i = 3
      OBVIOUS
    <3>2. To(Rewrites[1].url, Rewrites[1].to) = To("/", "/index.html")
          /\ To(Rewrites[2].url, Rewrites[2].to) = To("/speed-test", "/speed_test.html")
          /\ To(Rewrites[3].url, Rewrites[3].to) = To("/cats", "/cats.html")
      BY <2>1
    <3> HIDE DEF To
    <3>3. QED
      BY <3>1, <3>2
  <2>3. RR = [i \in 1 .. 3 |-> To(Rewrites[i].url, Rewrites[i].to)]
    BY <2>1
  <2> HIDE DEF RR, To, Wild, Rewr, Apis
  <2>4. RR \in [1 .. 3 -> E]
    BY <2>2, <2>3
  <2>5. 3 \in Nat
    OBVIOUS
  <2> HIDE DEF E
  <2>6. QED
    BY <2>4, <2>5, FunSeq
<1>5. \A r \in E : GoodRule(r)
  <2>1. ASSUME NEW f \in {"check_host", "cors", "file_system"} PROVE GoodRule(Wildcard(f))
    <3>1. LET r == Wildcard(f) IN r.cgi = f /\ r.method = "ANY" /\ r.body = FALSE /\ r.arg = ""
      BY DEF Wildcard
    <3>2. f \in Fns /\ f \notin TimerFns /\ "" \in Url /\ "" \notin TimerPaths
      BY DEF Fns, TimerFns, TimerPaths, Url
    <3>3. QED
      BY <3>1, <3>2 DEF GoodRule
  <2>2. ASSUME NEW u, NEW t \in {"/index.html", "/speed_test.html", "/cats.html"}
        PROVE  GoodRule(To(u, t))
    <3>1. LET r == To(u, t) IN r.cgi = "url_rewrite" /\ r.method = "ANY" /\ r.body = FALSE /\ r.arg = t
      OBVIOUS
    <3>2. "url_rewrite" \in Fns /\ "url_rewrite" \notin TimerFns /\ t \in Url /\ t \notin TimerPaths
      BY DEF Fns, TimerFns, TimerPaths, Url
    <3> HIDE DEF To
    <3>3. QED
      BY <3>1, <3>2 DEF GoodRule
  <2>3. ASSUME NEW u, NEW f \in ApiFns, NEW b \in BOOLEAN, f \in TimerFns => u \in TimerPaths
        PROVE  GoodRule(Api(u, f, b))
    <3>1. LET r == Api(u, f, b)
          IN  r.cgi = f /\ r.method = "POST" /\ r.body = b /\ r.arg = "" /\ r.url = u
      BY DEF Api
    <3>2. f \in Fns /\ "" \in Url /\ "" \notin TimerPaths
      BY DEF Fns, TimerPaths, Url
    <3>3. QED
      BY <2>3, <3>1, <3>2 DEF GoodRule
  <2> HIDE DEF To
  <2>4. \A r \in Wild \cup Rewr : GoodRule(r)
    BY <2>1, <2>2
  <2>5. \A r \in Apis : GoodRule(r)
    BY <2>3 DEF ApiFns, TimerFns, TimerPaths
  <2>6. QED
    BY <2>4, <2>5
<1> HIDE DEF E, first, last, RR
<1>6. Rules \in Seq(E)
  BY <1>1, <1>2, <1>3, <1>4
<1>7. Len(Rules) \in Nat /\ \A i \in 1 .. Len(Rules) : Rules[i] \in E /\ i \in DOMAIN Rules
  BY <1>6
<1>8. QED
  BY <1>5, <1>7 DEF RuleFns


\* An open connection whose answer is not complete, and what a call does not change of it.
Base(x) == x \in Ctx /\ x.c.esp # Nobody /\ ~x.c.done /\ Open(x.tcp) /\ ~x.tcp.unacked

Near(x, y) ==
    /\ y \in Ctx /\ y.tcp = x.tcp
    /\ y.c.esp = x.c.esp /\ y.c.state = x.c.state /\ y.c.done = x.c.done
    /\ x.c.url \notin TimerPaths => y.c.url \notin TimerPaths
    /\ x.c.url \notin TimerPaths /\ x.c.fn \notin TimerFns => y.c.fn \notin TimerFns

\* What a callable context gives.
LEMMA CallableFacts ==
  ASSUME NEW x, Callable(x)
  PROVE  Base(x) /\ Ready(x) /\ x.c.state \in States
BY ReadyFacts DEF Callable, Base

\* A CGI that has not said anything yet goes on waiting for the rest of the request,
LEMMA StaysWaiting ==
  ASSUME NEW x, Base(x), NEW y, Near(x, y), x.c.state # BODY_END, ~y.timer,
         y.c.data = NoData, y.c.out = <<>>, y.c.fn \in {"NULL"} \cup ApiFns
  PROVE  Outcome(x, y)
BY DEF Base, Near, Outcome, StillWaits, Waits, Kept, SameConn, Open

\* one with more to say sends what it has said, if anything,
LEMMA SendsMore ==
  ASSUME NEW x, Base(x), NEW y, Near(x, y), x.c.state = BODY_END, Goes(x, y)
  PROVE  Outcome(x, http_send_response(y)) /\ http_send_response(y).r = y.r
<1> DEFINE z == http_send_response(y)
<1>0. /\ y \in Ctx /\ Open(y.tcp) /\ ~y.tcp.unacked /\ ~y.c.done /\ y.c.state = BODY_END
      /\ y.c.esp = x.c.esp
  BY DEF Base, Near
<1>1. CASE y.c.out = <<>>
  <2>1. z = y
    BY <1>0, <1>1, SendsNothing
  <2>2. NowServing(x, y) /\ Kept(x, y)
    BY <1>0, <1>1 DEF Base, Near, NowServing, Serving, Goes, Kept, SameConn, Open
  <2>3. QED
    BY <2>1, <2>2 DEF Outcome
<1>2. CASE y.c.out # <<>>
  <2>1. /\ z \in Ctx /\ SameSlot(y.c, z.c) /\ z.c.out = <<>> /\ z.timer = y.timer /\ z.r = y.r
        /\ SameConn(y.tcp, z.tcp) /\ Open(z.tcp) /\ z.tcp.unacked
    BY <1>0, <1>2, Sends
  <2> HIDE DEF z
  <2>2. Serves(y.c) /\ ~y.timer
    BY <1>2 DEF Goes
  <2>3. Serves(z.c)
    BY <2>1, <2>2 DEF Serves, InFile, SameSlot
  <2>4. Serving(z)
    BY <1>0, <2>1, <2>2, <2>3 DEF Serving, SameSlot
  <2>5. NowServing(x, z)
    BY <1>0, <2>1, <2>4 DEF NowServing, SameSlot
  <2>6. Kept(x, z)
    BY <1>0, <2>1 DEF Kept, SameSlot, SameConn, Near
  <2>7. QED
    BY <2>1, <2>5, <2>6 DEF Outcome, z
<1>3. QED
  BY <1>1, <1>2

\* and one that is done sends the end of its answer, or ends the connection if that
\* has been sent before.
LEMMA SendsDone ==
  ASSUME NEW x, Base(x), NEW y, Near(x, y), ~y.timer, DataOK(y.c),
         x.c.state \in {HEADERS_END, BODY_END},
         y.c.out = <<>> => x.c.state = BODY_END /\ x.c.data # NoData
  PROVE  LET z == http_send_response(Finish(y)) IN Outcome(x, z) /\ z.r = y.r
<1> DEFINE f == Finish(y)
           z == http_send_response(f)
<1>0. y \in Ctx
  BY DEF Near
<1>1. /\ f \in Ctx /\ f.c.done /\ f.c.fn = "NULL" /\ f.tcp = y.tcp /\ f.timer = y.timer
      /\ f.r = y.r /\ f.c.out = y.c.out /\ f.c.esp = y.c.esp /\ f.c.state = y.c.state
      /\ f.c.url = y.c.url /\ f.c.data = y.c.data /\ f.c.file = y.c.file
  BY <1>0, Finishes
<1> HIDE DEF f
<1>2. Open(f.tcp) /\ ~f.tcp.unacked /\ "NULL" \notin TimerFns
  BY <1>1 DEF Base, Near, TimerFns
<1>3. CASE f.c.out = <<>>
  <2>1. /\ z \in Ctx /\ z.c.esp = Nobody /\ Free(z.c) /\ z.c.done /\ z.c.state = f.c.state
        /\ z.c.url = f.c.url /\ z.timer = f.timer /\ z.r = f.r
        /\ SameConn(f.tcp, z.tcp) /\ z.tcp.got = f.tcp.got
        /\ z.tcp.st = "closing" /\ z.tcp.est = "CLOSE"
    BY <1>1, <1>2, <1>3, SendsEnd
  <2> HIDE DEF z
  <2>2. NowGone(x, z)
    BY <1>1, <1>3, <2>1 DEF NowGone, Near
  <2>3. Kept(x, z)
    BY <1>1, <1>2, <2>1 DEF Kept, SameConn, Near, Free
  <2>4. QED
    BY <1>1, <2>1, <2>2, <2>3 DEF Outcome, z, f
<1>4. CASE f.c.out # <<>>
  <2>1. /\ z \in Ctx /\ SameSlot(f.c, z.c) /\ z.c.out = <<>> /\ z.timer = f.timer /\ z.r = f.r
        /\ SameConn(f.tcp, z.tcp) /\ Open(z.tcp) /\ z.tcp.unacked
    BY <1>1, <1>2, <1>4, Sends
  <2> HIDE DEF z
  <2>2. DataOK(z.c)
    BY <1>1, <2>1 DEF DataOK, InFile, SameSlot
  <2>3. NowAnswered(x, z)
    BY <1>1, <2>1, <2>2 DEF NowAnswered, Answered, SameSlot, Near
  <2>4. Kept(x, z)
    BY <1>1, <1>2, <2>1 DEF Kept, SameSlot, SameConn, Near
  <2>5. QED
    BY <1>1, <2>1, <2>3, <2>4 DEF Outcome, z, f
<1>5. QED
  BY <1>3, <1>4

\* A CGI is attached: what RunAttached makes of a callable context.
LEMMA RunsAttached ==
  ASSUME NEW x, Callable(x), x.c.fn # "NULL"
  PROVE  Outcome(x, RunAttached(x))
<1> DEFINE y == Call(x.c.fn, "", x)
<1>0. /\ Ready(x) /\ Base(x) /\ x.c.state \in States
      /\ x.c.fn \in {"file_system"} \cup ApiFns /\ (x.c.fn = "file_system" => x.c.data # NoData)
  BY CallableFacts DEF Callable
<1>1. /\ Result(x, y) /\ (x.c.fn \in ApiFns => y.r \in {"MORE", "DONE"})
      /\ x.c.fn \in ApiFns /\ x.c.state # BODY_END => y.r = "MORE"
  <2>1. "" \in Url /\ "" \notin TimerPaths
    BY DEF Url, TimerPaths
  <2>2. QED
    BY <1>0, <2>1, CallsCgi
<1>2. RunAttached(x) =
        LET z == SendIfFinal(Final(x), IF y.r = "DONE" THEN Finish(y) ELSE y)
        IN  IF y.r \in {"MORE", "DONE"} THEN z ELSE NotFound(Final(x), z)
  BY DEF RunAttached
<1> HIDE DEF y
<1>3. Frame(x, y) /\ y \in Ctx /\ y.r \in {"NEXT_RULE", "DONE", "MORE", "NOTFOUND"}
  BY <1>1 DEF Result, Frame, Ctx
<1>a. Near(x, y)
  BY <1>3 DEF Near, Frame
<1>b. x.c.fn = "file_system" => x.c.data # NoData /\ x.c.state = BODY_END
  BY <1>0, ReadyFacts
<1>4. y.r \in {"MORE", "DONE"} /\ (x.c.state # BODY_END => y.r = "MORE" /\ x.c.fn \in ApiFns)
  <2>1. CASE x.c.fn \in ApiFns
    BY <1>1, <2>1
  <2>2. CASE x.c.fn = "file_system"
    BY <1>1, <1>3, <1>b, <2>2 DEF Result, Late, Passes
  <2>3. QED
    BY <1>0, <2>1, <2>2
<1>5. CASE x.c.state # BODY_END
  <2>1. RunAttached(x) = y
    BY <1>2, <1>4, <1>5 DEF SendIfFinal, Final
  <2>2. ~y.timer /\ y.c.data = NoData /\ y.c.out = <<>> /\ y.c.fn \in ApiFns
    BY <1>1, <1>3, <1>4, <1>5 DEF Result, Early, Frame
  <2>3. QED
    BY <1>0, <1>5, <1>a, <2>1, <2>2, StaysWaiting
<1>6. CASE x.c.state = BODY_END /\ y.r = "MORE"
  <2>1. RunAttached(x) = http_send_response(y)
    BY <1>2, <1>6 DEF SendIfFinal, Final
  <2>2. Goes(x, y)
    BY <1>1, <1>6 DEF Result, Late
  <2>3. QED
    BY <1>0, <1>6, <1>a, <2>1, <2>2, SendsMore
<1>7. CASE x.c.state = BODY_END /\ y.r = "DONE"
  <2>1. RunAttached(x) = http_send_response(Finish(y))
    BY <1>2, <1>7 DEF SendIfFinal, Final
  <2>2. Ends(x, y)
    BY <1>1, <1>7 DEF Result, Late
  <2>3. ~y.timer /\ DataOK(y.c) /\ (y.c.out = <<>> => x.c.data # NoData)
    BY <2>2 DEF Ends
  <2>4. QED
    BY <1>0, <1>7, <1>a, <2>1, <2>3, SendsDone
<1>8. QED
  BY <1>4, <1>5, <1>6, <1>7

\* http_server_flag_check passes the request on, or has answered it.
Checked(x, y) ==
    /\ Calls(x, y) /\ y.r \in {"NEXT_RULE", "DONE"}
    /\ IF y.r = "DONE" THEN y.c.out # <<>> /\ x.c.state = BODY_END ELSE y.c.out = <<>>

\* A flag check that says nothing passes the request on,
LEMMA PassedOn ==
  ASSUME NEW x \in Ctx, x.c.out = <<>>, NEW w, Silent(x, w)
  PROVE  Checked(x, Return(w, "NEXT_RULE"))
<1>1. w \in Ctx
  BY DEF Silent, Calls, Frame
<1>2. Silent(x, Return(w, "NEXT_RULE")) /\ Return(w, "NEXT_RULE").r = "NEXT_RULE"
  BY <1>1, PassReturns, Composed
<1>3. QED
  BY <1>2 DEF Checked, Silent

\* and one that answers a complete request ends it.
LEMMA Turned ==
  ASSUME NEW x \in Ctx, x.c.state = BODY_END, NEW n \in Nat
  PROVE  Checked(x, Return(http_response(x, n), "DONE"))
BY ResponseEnds DEF Checked, Says

\* http_server_flag_check does one of the two.
LEMMA ChecksFlags ==
  ASSUME NEW x \in Ctx, x.c.out = <<>>, NEW rule, GoodRule(rule)
  PROVE  Checked(x, http_server_flag_check(x, rule))
<1> DEFINE y == IF rule.method = "ANY" THEN Return(x, "NEXT_RULE") ELSE cgi_enforce_method(x, rule.method)
<1>0. Silent(x, x) /\ x.c.state \in States
  BY DEF Silent, Calls, Frame, Ctx, SlotSet, States
<1>1. Checked(x, y)
  <2>1. Checked(x, Return(x, "NEXT_RULE"))
    BY <1>0, PassedOn
  <2>2. x.c.state = BODY_END => Checked(x, Return(http_response(x, 400), "DONE"))
    BY Turned
  <2>3. Checked(x, cgi_enforce_method(x, rule.method))
    BY <2>1, <2>2 DEF cgi_enforce_method
  <2>4. QED
    BY <2>1, <2>3
<1>2. http_server_flag_check(x, rule) = IF y.r # "DONE" /\ rule.body THEN cgi_enforce_body(y) ELSE y
  BY DEF http_server_flag_check
<1> HIDE DEF y
<1>3. CASE y.r # "DONE" /\ rule.body
  <2>1. Silent(x, y) /\ y \in Ctx /\ y.c.out = <<>> /\ y.c.state = x.c.state
    BY <1>1, <1>3 DEF Checked, Silent, Calls, Frame
  <2>2. Checked(y, cgi_enforce_body(y))
    <3>1. CASE y.c.state = ON_URL
      <4>1. Silent(y, [y EXCEPT !.c.save = TRUE])
        BY <2>1 DEF Silent, Calls, Frame, Ctx, SlotSet
      <4>2. cgi_enforce_body(y) = Return([y EXCEPT !.c.save = TRUE], "NEXT_RULE")
        BY <3>1 DEF cgi_enforce_body, ON_URL, BODY_END
      <4>3. QED
        BY <2>1, <4>1, <4>2, PassedOn
    <3>2. CASE y.c.state >= BODY_END /\ y.c.body = "none"
      <4>1. y.c.state = BODY_END
        BY <1>0, <2>1, <3>2 DEF States, ON_URL, HEADERS_END, ON_BODY, BODY_END
      <4>2. cgi_enforce_body(y) = Return(http_response(y, 400), "DONE")
        BY <3>2, <4>1 DEF cgi_enforce_body, ON_URL, BODY_END
      <4>3. QED
        BY <2>1, <4>1, <4>2, Turned
    <3>3. CASE y.c.state # ON_URL /\ ~(y.c.state >= BODY_END /\ y.c.body = "none")
      <4>1. cgi_enforce_body(y) = Return(y, "NEXT_RULE")
        BY <3>3 DEF cgi_enforce_body
      <4>2. Silent(y, y)
        BY <2>1 DEF Silent, Calls, Frame
      <4>3. QED
        BY <2>1, <4>1, <4>2, PassedOn
    <3>4. QED
      BY <3>1, <3>2, <3>3
  <2> DEFINE z == cgi_enforce_body(y)
  <2> HIDE DEF z
  <2>3. Checked(x, z)
    BY <2>1, <2>2 DEF Checked, Silent, Calls, Frame, z
  <2>4. QED
    BY <1>2, <1>3, <2>3 DEF z
<1>4. CASE ~(y.r # "DONE" /\ rule.body)
  BY <1>1, <1>2, <1>4
<1>5. QED
  BY <1>3, <1>4

\* Between two rules nothing has been said; a rule that keeps the request, or is done
\* with it, leaves one of the outcomes.
InChain(x, a) ==
    /\ a \in Ctx
    /\ a.r \in {"DONE", "MORE"} => Outcome(x, a)
    /\ a.r \notin {"DONE", "MORE"} =>
         Near(x, a) /\ a.c.fn = "NULL" /\ a.c.out = <<>> /\ ~a.timer /\ a.c.data = NoData

\* One turn of the loop keeps that.
LEMMA TriesRule ==
  ASSUME NEW x, Callable(x), x.c.fn = "NULL", NEW a, InChain(x, a),
         NEW rule, GoodRule(rule), rule.cgi \in RuleFns
  PROVE  InChain(x, TryRule(a, rule))
<1>0. Base(x) /\ x.c.data = NoData /\ x.c.state \in States /\ a \in Ctx
  BY CallableFacts DEF Callable, InChain
<1>1. CASE a.r \in {"DONE", "MORE"} \/ rule.url \notin {"*", a.c.url}
  BY <1>1 DEF TryRule
<1>2. CASE a.r \notin {"DONE", "MORE"} /\ rule.url \in {"*", a.c.url}
  <2> DEFINE ch == http_server_flag_check(a, rule)
             b == [ch EXCEPT !.c.fn = rule.cgi]
             y == IF ch.r = "DONE" THEN ch ELSE Call(rule.cgi, rule.arg, b)
  <2>1. TryRule(a, rule) = CASE y.r = "DONE" -> http_send_response(Finish(y))
                             [] y.r = "MORE" -> SendIfFinal(Final(a), y)
                             [] OTHER        -> Detach(SendIfFinal(Final(a), y))
    BY <1>2 DEF TryRule, ApplyRule
  <2>2. Near(x, a) /\ a.c.fn = "NULL" /\ a.c.out = <<>> /\ ~a.timer /\ a.c.data = NoData
    BY <1>2 DEF InChain
  <2>3. Checked(a, ch)
    BY <1>0, <2>2, ChecksFlags
  <2>4. ch \in Ctx /\ ~ch.timer /\ ch.c.data = NoData /\ ch.c.fn = "NULL" /\ ch.r \in {"NEXT_RULE", "DONE"}
        /\ Near(x, ch)
    BY <2>2, <2>3 DEF Checked, Calls, Frame, Near
  <2>5. CASE ch.r = "DONE"
    <3>1. TryRule(a, rule) = http_send_response(Finish(ch))
      BY <2>1, <2>5
    <3> HIDE DEF ch
    <3>2. ch.c.out # <<>> /\ x.c.state = BODY_END /\ DataOK(ch.c)
      BY <2>2, <2>3, <2>4, <2>5 DEF Checked, Near, DataOK
    <3> DEFINE z == http_send_response(Finish(ch))
    <3>3. Outcome(x, z) /\ z.r = "DONE"
      BY <1>0, <2>4, <2>5, <3>2, SendsDone
    <3> HIDE DEF z
    <3>4. InChain(x, z)
      BY <3>3 DEF InChain, Outcome, Kept
    <3>5. QED
      BY <3>1, <3>4 DEF z
  <2>6. CASE ch.r # "DONE"
    <3>1. y = Call(rule.cgi, rule.arg, b)
      BY <2>6
    <3>2. ch.c.out = <<>>
      BY <2>3, <2>6 DEF Checked
    <3> HIDE DEF ch
    <3>3. /\ b \in Ctx /\ b.c.done = ch.c.done /\ b.c.fn = rule.cgi /\ b.tcp = ch.tcp
          /\ b.timer = ch.timer /\ b.c.out = ch.c.out /\ b.c.esp = ch.c.esp
          /\ b.c.state = ch.c.state /\ b.c.url = ch.c.url /\ b.c.data = ch.c.data
      BY <2>4, SetsFn
    <3> HIDE DEF b
    <3>4. Ready(b)
      <4>1. b \in Ctx /\ b.c.out = <<>> /\ b.c.data = NoData
        BY <2>4, <3>2, <3>3
      <4>2. ~b.timer
        BY <2>4, <3>3
      <4>3. QED
        BY <4>1, <4>2 DEF Ready, Serves, InFile
    <3>5. Result(b, y)
      <4>1. b.c.fn \in {"check_host", "cors", "url_rewrite", "file_system"} \cup ApiFns
            /\ rule.arg \in Url /\ rule.arg \notin TimerPaths
        BY <3>3 DEF GoodRule, Fns
      <4>2. Result(b, Call(b.c.fn, rule.arg, b))
        BY <3>4, <4>1, CallsCgi
      <4>3. QED
        BY <3>1, <3>3, <4>2
    <3> HIDE DEF y
    <3>6. Frame(b, y)
      BY <3>5 DEF Result
    <3>7. x.c.url \notin TimerPaths => rule.cgi \notin TimerFns
      BY <1>2, <2>2 DEF Near, GoodRule, TimerPaths
    <3>8. Near(x, y) /\ y.c.fn = rule.cgi
      BY <2>4, <3>3, <3>6, <3>7 DEF Near, Frame
    <3>9. y \in Ctx /\ y.r \in {"NEXT_RULE", "DONE", "MORE", "NOTFOUND"} /\ ~y.c.done
          /\ b.c.state = x.c.state /\ a.c.state = x.c.state /\ b.c.data = NoData
      BY <1>0, <2>2, <2>4, <3>3, <3>8 DEF Near, Ctx, Base
    <3>10. CASE y.r = "DONE"
      <4>1. TryRule(a, rule) = http_send_response(Finish(y))
        BY <2>1, <3>10
      <4>2. ~y.timer /\ DataOK(y.c) /\ y.c.out # <<>> /\ x.c.state \in {HEADERS_END, BODY_END}
        BY <3>5, <3>9, <3>10 DEF Result, Early, Late, Ends, DataOK
      <4> DEFINE z == http_send_response(Finish(y))
      <4>3. Outcome(x, z) /\ z.r = "DONE"
        BY <1>0, <3>8, <3>10, <4>2, SendsDone
      <4> HIDE DEF z
      <4>4. InChain(x, z)
        BY <4>3 DEF InChain, Outcome, Kept
      <4>5. QED
        BY <4>1, <4>4 DEF z
    <3>11. CASE y.r = "MORE" /\ x.c.state = BODY_END
      <4>1. TryRule(a, rule) = http_send_response(y)
        BY <2>1, <3>9, <3>11 DEF SendIfFinal, Final
      <4>2. Goes(x, y)
        BY <3>5, <3>9, <3>11 DEF Result, Late, Goes
      <4> DEFINE z == http_send_response(y)
      <4>3. Outcome(x, z) /\ z.r = "MORE"
        BY <1>0, <3>8, <3>11, <4>2, SendsMore
      <4> HIDE DEF z
      <4>4. InChain(x, z)
        BY <4>3 DEF InChain, Outcome, Kept
      <4>5. QED
        BY <4>1, <4>4 DEF z
    <3>12. CASE y.r = "MORE" /\ x.c.state # BODY_END
      <4>1. TryRule(a, rule) = y
        BY <2>1, <3>9, <3>12 DEF SendIfFinal, Final
      <4>2. ~y.timer /\ y.c.data = NoData /\ y.c.out = <<>> /\ y.c.fn \in ApiFns
        BY <3>3, <3>5, <3>8, <3>9, <3>12 DEF Result, Early
      <4>3. Outcome(x, y)
        BY <1>0, <3>8, <3>12, <4>2, StaysWaiting
      <4>4. QED
        BY <3>9, <3>12, <4>1, <4>3 DEF InChain
    <3>13. CASE y.r \in {"NEXT_RULE", "NOTFOUND"}
      <4>1. ~y.timer /\ y.c.data = NoData /\ y.c.out = <<>>
        BY <3>5, <3>9, <3>13 DEF Result, Early, Late, Passes
      <4>2. SendIfFinal(Final(a), y) = y
        BY <3>9, <4>1, SendsNothing DEF SendIfFinal
      <4> DEFINE z == [y EXCEPT !.c.fn = "NULL"]
      <4>3. TryRule(a, rule) = z
        BY <2>1, <3>13, <4>2 DEF Detach
      <4>4. /\ z \in Ctx /\ z.c.done = y.c.done /\ z.c.fn = "NULL" /\ z.tcp = y.tcp /\ z.timer = y.timer
            /\ z.r = y.r /\ z.c.out = y.c.out /\ z.c.esp = y.c.esp /\ z.c.state = y.c.state
            /\ z.c.url = y.c.url /\ z.c.data = y.c.data
        BY <3>9, SetsFn
      <4> HIDE DEF z
      <4>5. "NULL" \notin TimerFns
        BY DEF TimerFns
      <4>6. Near(x, z)
        BY <3>8, <4>4, <4>5 DEF Near
      <4>7. InChain(x, z)
        BY <3>13, <4>1, <4>4, <4>6 DEF InChain
      <4>8. QED
        BY <4>3, <4>7
    <3>14. QED
      BY <3>9, <3>10, <3>11, <3>12, <3>13
  <2>7. QED
    BY <2>5, <2>6
<1>3. QED
  BY <1>1, <1>2

\* The loop over the rules makes one of the outcomes.
LEMMA RunsChain ==
  ASSUME NEW x, Callable(x), x.c.fn = "NULL"
  PROVE  Outcome(x, RunChain(x))
<1> DEFINE A == {a \in Ctx : InChain(x, a)}
           n == Len(Rules)
           base == Return(x, "NEXT_RULE")
           step == [p \in Nat \X A |-> IF p[1] \in 1 .. n THEN TryRule(p[2], Rules[p[1]]) ELSE p[2]]
           Eq(g) == g = [i \in 0 .. n |-> IF i = 0 THEN base ELSE TryRule(g[i - 1], Rules[i])]
           after == CHOOSE g : Eq(g)
           y == after[n]
<1>0. Base(x) /\ x \in Ctx /\ x.c.out = <<>> /\ ~x.timer /\ x.c.data = NoData /\ x.c.state \in States
  BY CallableFacts, ReadyFacts DEF Callable
<1>1. base \in A
  <2>1. Silent(x, base) /\ base.r = "NEXT_RULE" /\ base.c = x.c
    BY <1>0, Returns
  <2> HIDE DEF base
  <2>2. Near(x, base) /\ base \in Ctx
    BY <2>1 DEF Silent, Calls, Frame, Near
  <2>3. InChain(x, base)
    BY <1>0, <2>1, <2>2 DEF InChain, Silent, Calls
  <2>4. QED
    BY <2>2, <2>3
<1>2. n \in Nat /\ \A i \in 1 .. n : GoodRule(Rules[i]) /\ Rules[i].cgi \in RuleFns
  BY GoodRules
<1>3. ASSUME NEW a \in A, NEW i \in 1 .. n PROVE TryRule(a, Rules[i]) \in A
  <2>1. InChain(x, TryRule(a, Rules[i]))
    BY <1>2, TriesRule
  <2>2. QED
    BY <2>1 DEF InChain
<1> HIDE DEF A, n, base
<1>4. step \in [Nat \X A -> A]
  <2>1. ASSUME NEW p \in Nat \X A
        PROVE  (IF p[1] \in 1 .. n THEN TryRule(p[2], Rules[p[1]]) ELSE p[2]) \in A
    BY <1>3
  <2>2. QED
    BY <2>1
<1>5. PICK f : IsRun(f, n, A, base, step)
  <2> HIDE DEF step
  <2>1. QED
    BY <1>1, <1>2, <1>4, Iterates
<1>6. ASSUME NEW i \in 1 .. n PROVE f[i] = TryRule(f[i - 1], Rules[i])
  <2>1. <<i, f[i - 1]>> \in Nat \X A
    BY <1>2, <1>5 DEF IsRun
  <2>2. QED
    BY <1>5, <2>1 DEF IsRun
<1>7. Eq(f)
  BY <1>2, <1>5, <1>6 DEF IsRun
<1>8. RunChain(x) = IF y.r \in {"DONE", "MORE"} THEN y ELSE NotFound(Final(x), y)
  BY DEF RunChain, n, base
<1> HIDE DEF Eq
<1>9. Eq(after)
  BY <1>7
<1> USE DEF Eq
<1> HIDE DEF after
<1>10. after[0] = base /\ \A i \in 1 .. n : after[i] = TryRule(after[i - 1], Rules[i])
  <2> DEFINE rhs(i) == IF i = 0 THEN base ELSE TryRule(after[i - 1], Rules[i])
  <2>1. \A i \in 0 .. n : after[i] = rhs(i)
    BY <1>9, Zenon
  <2>2. 0 \in 0 .. n /\ \A i \in 1 .. n : i \in 0 .. n /\ i # 0
    BY <1>2
  <2>3. QED
    BY <2>1, <2>2, Zenon
<1>11. \A i \in 0 .. n : after[i] \in A
  <2> DEFINE S == {i \in 0 .. n : after[i] \notin A}
  <2>1. SUFFICES ASSUME S # {} PROVE FALSE
    OBVIOUS
  <2>2. PICK m \in S : \A k \in S : m <= k
    <3>1. S \in SUBSET Nat
      BY <1>2
    <3> HIDE DEF S
    <3>2. QED
      BY <2>1, <3>1, LeastOf
  <2>3. m # 0
    BY <1>1, <1>10
  <2>4. m - 1 \in 0 .. n /\ m \in 1 .. n /\ m - 1 \notin S
    BY <1>2, <2>2, <2>3
  <2>5. after[m - 1] \in A
    BY <2>4
  <2>6. TryRule(after[m - 1], Rules[m]) \in A
    BY <1>3, <2>4, <2>5
  <2>7. QED
    BY <1>10, <2>2, <2>4, <2>6
<1>12. InChain(x, y)
  <2>1. n \in 0 .. n
    BY <1>2
  <2>2. QED
    BY <1>11, <2>1 DEF A
<1> HIDE DEF y
<1>13. CASE y.r \in {"DONE", "MORE"}
  BY <1>8, <1>12, <1>13 DEF InChain
<1>14. CASE y.r \notin {"DONE", "MORE"}
  <2>1. RunChain(x) = NotFound(Final(x), y)
    BY <1>8, <1>14
  <2>2. Near(x, y) /\ y.c.fn = "NULL" /\ y.c.out = <<>> /\ ~y.timer /\ y.c.data = NoData /\ y \in Ctx
    BY <1>12, <1>14 DEF InChain
  <2>3. CASE x.c.state # BODY_END
    <3>1. RunChain(x) = y
      BY <2>1, <2>3 DEF NotFound, Final
    <3>2. QED
      BY <1>0, <2>2, <2>3, <3>1, StaysWaiting
  <2>4. CASE x.c.state = BODY_END
    <3> DEFINE w == http_response(y, 404)
    <3>1. RunChain(x) = http_send_response(Finish(w))
      BY <2>1, <2>4 DEF NotFound, Final
    <3>2. Says(y, w)
      BY <2>2, Responds
    <3> HIDE DEF w
    <3>3. Near(x, w) /\ ~w.timer /\ DataOK(w.c) /\ w.c.out # <<>>
      BY <2>2, <3>2 DEF Says, Calls, Frame, Near, DataOK
    <3>4. QED
      BY <1>0, <2>4, <3>1, <3>3, SendsDone
  <2>5. QED
    BY <2>3, <2>4
<1>15. QED
  BY <1>13, <1>14

\* One call of the dispatcher.
LEMMA Executes ==
  ASSUME NEW x, Callable(x)
  PROVE  Outcome(x, http_execute_cgi(x))
<1>1. http_execute_cgi(x) = IF x.c.fn # "NULL" THEN RunAttached(x) ELSE RunChain(x)
  BY DEF Callable, http_execute_cgi, http_server_cgi_execute
<1>2. QED
  BY <1>1, RunsAttached, RunsChain

-----------------------------------------------------------------------------
(* The request and its slot                                                *)

\* What is left of a request after its first event is the rest of a request.
LEMMA FirstRest ==
  ASSUME NEW rx \in Seq(EventSet), rx # <<>>, IsRest(rx)
  PROVE  /\ Tail(rx) \in Seq(EventSet) /\ IsRest(Tail(rx)) /\ rx[1] \in EventSet
         /\ rx[1] = "url" => Tail(rx) # <<>> /\ Tail(rx)[1] \in {"host", "headers"}
         /\ rx[1] = "host" => Tail(rx) # <<>> /\ Tail(rx)[1] \in {"host", "headers"}
         /\ rx[1] \in {"headers", "body", "rest"} =>
              Tail(rx) # <<>> /\ Tail(rx)[1] \in {"body", "rest", "end"} /\ HeadersGone(Tail(rx))
         /\ rx[1] = "end" => Tail(rx) = <<>>
         /\ rx[1] \in {"body", "rest", "end"} => HeadersGone(rx)
         /\ HeadersGone(rx) => HeadersGone(Tail(rx))
<1> DEFINE t == Tail(rx)
           n == Len(rx)
<1>1. /\ n \in Nat /\ n > 0 /\ t \in Seq(EventSet) /\ Len(t) = n - 1
      /\ \A i \in 1 .. n - 1 : t[i] = rx[i + 1] /\ i + 1 \in 1 .. n
      /\ \A i \in 1 .. n : rx[i] \in EventSet
  OBVIOUS
<1>2. t = <<>> <=> n = 1
  BY <1>1
<1> HIDE DEF t, n
<1>3. /\ \A i, j \in 1 .. n : i < j => Rank(rx[i]) < Rank(rx[j])
      /\ \A i \in 1 .. n : rx[i] \in {"url", "host"} => i < n /\ rx[i + 1] \in {"host", "headers"}
      /\ rx[n] = "end" /\ 1 \in 1 .. n /\ n \in 1 .. n
  BY <1>1 DEF IsRest, n
<1>4. IsRest(t)
  <2>1. ASSUME NEW i \in 1 .. n - 1, NEW j \in 1 .. n - 1, i < j PROVE Rank(t[i]) < Rank(t[j])
    <3>1. i + 1 \in 1 .. n /\ j + 1 \in 1 .. n /\ i + 1 < j + 1 /\ t[i] = rx[i + 1] /\ t[j] = rx[j + 1]
      BY <1>1, <2>1
    <3>2. QED
      BY <1>3, <3>1
  <2>2. ASSUME NEW i \in 1 .. n - 1, t[i] \in {"url", "host"}
        PROVE  i < n - 1 /\ t[i + 1] \in {"host", "headers"}
    <3>1. i + 1 \in 1 .. n /\ rx[i + 1] \in {"url", "host"}
      BY <1>1, <2>2
    <3>2. i + 1 < n /\ rx[(i + 1) + 1] \in {"host", "headers"}
      BY <1>3, <3>1
    <3>3. i + 1 \in 1 .. n - 1
      BY <1>1, <3>1, <3>2
    <3>4. QED
      BY <1>1, <3>2, <3>3
  <2>3. t # <<>> => t[n - 1] = "end"
    <3>1. t # <<>> => n - 1 \in 1 .. n - 1 /\ (n - 1) + 1 = n
      BY <1>1, <1>2
    <3>2. QED
      BY <1>1, <1>3, <3>1
  <2>4. QED
    BY <1>1, <2>1, <2>2, <2>3 DEF IsRest
<1>5. rx[1] \in {"url", "host"} => t # <<>> /\ t[1] \in {"host", "headers"}
  <2>1. rx[1] \in {"url", "host"} => 1 < n /\ rx[1 + 1] \in {"host", "headers"}
    BY <1>3
  <2>2. 1 < n => 1 \in 1 .. n - 1
    BY <1>1
  <2>3. QED
    BY <1>1, <1>2, <2>1, <2>2
<1>6. \A i \in 2 .. n : Rank(rx[1]) < Rank(rx[i])
  BY <1>1, <1>3
<1>7. \A e \in EventSet : Rank(e) \in 0 .. 5
      /\ Rank("url") = 0 /\ Rank("host") = 1 /\ Rank("headers") = 2 /\ Rank("body") = 3
      /\ Rank("rest") = 4 /\ Rank("end") = 5
  BY DEF Rank, EventSet
<1>8. rx[1] = "end" => t = <<>>
  <2>1. ASSUME rx[1] = "end", n # 1 PROVE FALSE
    <3>1. n \in 2 .. n
      BY <1>1, <2>1
    <3>2. Rank("end") < Rank("end")
      BY <1>3, <1>6, <2>1, <3>1
    <3>3. QED
      BY <1>7, <3>2
  <2>2. QED
    BY <1>2, <2>1
<1>9. rx[1] # "end" => t # <<>>
  BY <1>2, <1>3
<1>10. ASSUME rx[1] \in {"headers", "body", "rest", "end"}, NEW i \in 2 .. n
       PROVE  rx[i] \in {"body", "rest", "end"}
  <2>1. Rank(rx[1]) < Rank(rx[i]) /\ rx[i] \in EventSet
    BY <1>1, <1>6
  <2>2. Rank(rx[1]) \in {2, 3, 4, 5}
    BY <1>7, <1>10
  <2>3. rx[i] \notin {"url", "host", "headers"}
    BY <1>7, <2>1, <2>2
  <2>4. QED
    BY <2>1, <2>3 DEF EventSet
<1>11. \A i \in 1 .. n - 1 : t[i] = rx[i + 1] /\ i + 1 \in 2 .. n
  BY <1>1
<1>12. rx[1] \in {"headers", "body", "rest", "end"} => \A i \in 1 .. n - 1 : t[i] \in {"body", "rest", "end"}
  BY <1>10, <1>11
<1>13. rx[1] \in {"headers", "body", "rest"} => t # <<>> /\ t[1] \in {"body", "rest", "end"} /\ HeadersGone(t)
  <2>1. t # <<>> => 1 \in 1 .. n - 1
    BY <1>1, <1>2
  <2>2. QED
    BY <1>1, <1>9, <1>12, <2>1 DEF HeadersGone
<1>14. rx[1] \in {"body", "rest", "end"} => HeadersGone(rx)
  <2>1. \A i \in 1 .. n : i = 1 \/ i \in 2 .. n
    BY <1>1
  <2>2. QED
    BY <1>10, <2>1 DEF HeadersGone, n
<1>15. HeadersGone(rx) => HeadersGone(t)
  BY <1>1 DEF HeadersGone, n
<1>16. QED
  BY <1>1, <1>3, <1>4, <1>5, <1>8, <1>13, <1>14, <1>15 DEF t

\* What the parser raises for a request is a request to be received.
LEMMA EventsOf ==
  ASSUME NEW q
  PROVE  /\ Events(q) \in Seq(EventSet) /\ Events(q) # <<>> /\ Events(q)[1] = "url"
         /\ IsRest(Events(q))
<1> DEFINE e == Events(q)
           h == <<"url">> \o (IF q.host = "missing" THEN <<>> ELSE <<"host">>) \o <<"headers">>
           n == Len(h)
<1>1. e = h \o (IF q.body = "none" THEN <<>> ELSE <<"body", "rest">>) \o <<"end">>
  BY DEF Events
<1>2. /\ h \in Seq(EventSet) /\ n \in {2, 3} /\ h[1] = "url"
      /\ n = 2 => h[2] = "headers"
      /\ n = 3 => h[2] = "host" /\ h[3] = "headers"
  <2>1. CASE q.host = "missing"
    BY <2>1 DEF EventSet
  <2>2. CASE q.host # "missing"
    BY <2>2 DEF EventSet
  <2>3. QED
    BY <2>1, <2>2
<1> HIDE DEF e, h, n
<1>3. CASE q.body = "none"
  <2>1. e = h \o <<>> \o <<"end">>
    BY <1>1, <1>3
  <2>2. /\ e \in Seq(EventSet) /\ Len(e) = n + 1 /\ (\A i \in 1 .. n : e[i] = h[i])
        /\ e[n + 1] = "end"
    BY <1>2, <2>1 DEF EventSet, n
  <2>3. 1 \in 1 .. n /\ 2 \in 1 .. n /\ (n = 3 => 3 \in 1 .. n) /\ e # <<>>
    BY <1>2, <2>2
  <2>4. CASE n = 2
    <3>1. Len(e) = 3 /\ e[1] = "url" /\ e[2] = "headers" /\ e[3] = "end"
      BY <1>2, <2>2, <2>3, <2>4
    <3>2. IsRest(e)
      BY <2>3, <3>1 DEF IsRest, Rank
    <3>3. QED
      BY <2>2, <2>3, <3>1, <3>2 DEF e
  <2>5. CASE n = 3
    <3>1. Len(e) = 4 /\ e[1] = "url" /\ e[2] = "host" /\ e[3] = "headers" /\ e[4] = "end"
      BY <1>2, <2>2, <2>3, <2>5
    <3>2. IsRest(e)
      BY <2>3, <3>1 DEF IsRest, Rank
    <3>3. QED
      BY <2>2, <2>3, <3>1, <3>2 DEF e
  <2>6. QED
    BY <1>2, <2>4, <2>5
<1>4. CASE q.body # "none"
  <2> DEFINE g == h \o <<"body", "rest">>
  <2>1. e = g \o <<"end">>
    BY <1>1, <1>4
  <2>a. <<"body", "rest">> \in Seq(EventSet) /\ Len(<<"body", "rest">>) = 2
    BY DEF EventSet
  <2>2. /\ g \in Seq(EventSet) /\ Len(g) = n + 2 /\ (\A i \in 1 .. n : g[i] = h[i])
        /\ g[n + 1] = "body" /\ g[n + 2] = "rest"
    BY <1>2, <2>a DEF EventSet, n
  <2> HIDE DEF g
  <2>3. /\ e \in Seq(EventSet) /\ Len(e) = n + 3 /\ (\A i \in 1 .. n + 2 : e[i] = g[i])
        /\ e[n + 3] = "end"
    BY <1>2, <2>1, <2>2 DEF EventSet
  <2>4. 1 \in 1 .. n /\ 2 \in 1 .. n /\ (n = 3 => 3 \in 1 .. n) /\ e # <<>>
        /\ (\A i \in 1 .. n : i \in 1 .. n + 2) /\ n + 1 \in 1 .. n + 2 /\ n + 2 \in 1 .. n + 2
    BY <1>2, <2>3
  <2>5. CASE n = 2
    <3>1. Len(e) = 5 /\ e[1] = "url" /\ e[2] = "headers" /\ e[3] = "body" /\ e[4] = "rest" /\ e[5] = "end"
      BY <1>2, <2>2, <2>3, <2>4, <2>5
    <3>2. IsRest(e)
      BY <2>4, <3>1 DEF IsRest, Rank
    <3>3. QED
      BY <2>3, <2>4, <3>1, <3>2 DEF e
  <2>6. CASE n = 3
    <3>1. /\ Len(e) = 6 /\ e[1] = "url" /\ e[2] = "host" /\ e[3] = "headers" /\ e[4] = "body"
          /\ e[5] = "rest" /\ e[6] = "end"
      BY <1>2, <2>2, <2>3, <2>4, <2>6
    <3>2. IsRest(e)
      BY <2>4, <3>1 DEF IsRest, Rank
    <3>3. QED
      BY <2>3, <2>4, <3>1, <3>2 DEF e
  <2>7. QED
    BY <1>2, <2>5, <2>6
<1>5. QED
  BY <1>3, <1>4
-----------------------------------------------------------------------------
(* A callback and the slot it runs for                                     *)

\* What the absence of timers means for one slot.
Timeless(x) == Calm => ~x.timer /\ x.c.fn \notin TimerFns /\ x.c.url \notin TimerPaths

\* A slot that holds an open connection k, as a callback finds it,
Live(x, k) ==
    /\ x \in Ctx /\ x.c.esp = k /\ k \in Conns /\ x.tcp.st = "open"
    /\ Stage(x) /\ ConnFine(x.tcp) /\ Timeless(x)

\* and what it may leave.
Settled(y, k) ==
    /\ y \in Ctx /\ y.c.esp \in {k, Nobody}
    /\ IF y.c.esp = Nobody THEN Free(y.c) /\ ~y.timer ELSE Held(y)
    /\ ConnFine(y.tcp) /\ Timeless(y)

\* Where a slot is does not depend on the rest of the context.
LEMMA StageSame ==
  ASSUME NEW x, NEW y, Stage(x), y.c = x.c, y.timer = x.timer, y.tcp.rx = x.tcp.rx,
         y.tcp.unacked = x.tcp.unacked
  PROVE  Stage(y)
BY DEF Stage, Waits, Answered, Serving

\* The same for a slot that holds a connection in any state.
LEMMA HeldSame ==
  ASSUME NEW x, NEW y, Held(x), y.c = x.c, y.timer = x.timer, y.tcp = x.tcp
  PROVE  Held(y)
<1>1. Stage(x) => Stage(y)
  BY StageSame
<1>2. QED
  BY <1>1 DEF Held

\* The callbacks' changes of a context before they call the dispatcher.
LEMMA SetsState ==
  ASSUME NEW x \in Ctx, NEW st \in States
  PROVE  LET y == [x EXCEPT !.c.state = st]
         IN  /\ y \in Ctx /\ y.c.state = st /\ y.tcp = x.tcp /\ y.timer = x.timer
             /\ y.c.out = x.c.out
             /\ y.c.esp = x.c.esp /\ y.c.url = x.c.url /\ y.c.done = x.c.done /\ y.c.fn = x.c.fn
             /\ y.c.data = x.c.data /\ y.c.file = x.c.file /\ y.c.save = x.c.save
             /\ y.c.body = x.c.body
BY DEF Ctx, SlotSet, States

\* The saved body,
LEMMA SetsBody ==
  ASSUME NEW x \in Ctx, NEW b \in {"none", "part", "valid", "invalid", "freed"}
  PROVE  LET y == [x EXCEPT !.c.body = b]
         IN  /\ y \in Ctx /\ y.c.state = x.c.state /\ y.tcp = x.tcp /\ y.timer = x.timer
             /\ y.c.esp = x.c.esp /\ y.c.url = x.c.url /\ y.c.done = x.c.done /\ y.c.fn = x.c.fn
             /\ y.c.data = x.c.data /\ y.c.file = x.c.file /\ y.c.out = x.c.out
BY DEF Ctx, SlotSet

\* and the state espconn keeps of the connection.
LEMMA SetsEst ==
  ASSUME NEW x \in Ctx
  PROVE  LET y == [x EXCEPT !.tcp.est = "CONNECT"]
         IN  /\ y \in Ctx /\ y.c = x.c /\ y.timer = x.timer /\ y.r = x.r
             /\ y.tcp.st = x.tcp.st /\ y.tcp.est = "CONNECT" /\ y.tcp.unacked = x.tcp.unacked
             /\ y.tcp.refused = x.tcp.refused /\ y.tcp.got = x.tcp.got /\ y.tcp.req = x.tcp.req
             /\ y.tcp.rx = x.tcp.rx
BY DEF Ctx, ConnSet

\* An open connection in one of the stages is settled.
LEMMA OpenSettles ==
  ASSUME NEW k \in Conns, NEW y \in Ctx, y.c.esp = k, Open(y.tcp), Stage(y), Timeless(y),
         IsRest(y.tcp.rx), y.tcp.got # <<>> => HeadersGone(y.tcp.rx),
         Calm => y.tcp.req.url \notin TimerPaths
  PROVE  Settled(y, k) /\ Live(y, k)
BY ServerAssumption DEF Settled, Live, Held, ConnFine, Open

\* (espconn, after the callback of a received packet)
LEMMA AfterReceives ==
  ASSUME NEW k \in Conns, NEW y, Live(y, k)
  PROVE  Settled(AfterReceive(y), k) /\ AfterReceive(y).c.esp = k
<1> DEFINE z == [y EXCEPT !.tcp.est = "CONNECT"]
<1>1. AfterReceive(y) = z /\ y \in Ctx
  BY DEF AfterReceive, Live
<1>2. /\ z \in Ctx /\ z.c = y.c /\ z.timer = y.timer /\ z.r = y.r
      /\ z.tcp.st = y.tcp.st /\ z.tcp.est = "CONNECT" /\ z.tcp.unacked = y.tcp.unacked
      /\ z.tcp.refused = y.tcp.refused /\ z.tcp.got = y.tcp.got /\ z.tcp.req = y.tcp.req
      /\ z.tcp.rx = y.tcp.rx
  BY <1>1, SetsEst
<1> HIDE DEF z
<1>3. Stage(z)
  BY <1>2, StageSame DEF Live
<1>4. Open(z.tcp) /\ IsRest(z.tcp.rx) /\ (z.tcp.got # <<>> => HeadersGone(z.tcp.rx))
      /\ (Calm => z.tcp.req.url \notin TimerPaths) /\ z.c.esp = k
  BY <1>2 DEF Live, ConnFine, Open
<1>5. Timeless(z)
  BY <1>2 DEF Live, Timeless
<1>6. QED
  BY <1>1, <1>2, <1>3, <1>4, <1>5, OpenSettles
\* What the dispatcher does for a request that is not complete yet,
LEMMA CalledEarly ==
  ASSUME NEW x, Callable(x), Outcome(x, http_execute_cgi(x)), x.c.state # BODY_END,
         Timeless(x)
  PROVE  LET y == http_execute_cgi(x)
         IN  /\ y \in Ctx /\ y.c.esp = x.c.esp /\ y.c.state = x.c.state /\ Open(y.tcp) /\ Timeless(y)
             /\ y.tcp.rx = x.tcp.rx /\ y.tcp.req = x.tcp.req
             /\ (Waits(y) /\ y.tcp = x.tcp) \/ (Answered(y) /\ x.c.state = HEADERS_END)
<1> DEFINE y == http_execute_cgi(x)
<1>1. Outcome(x, y)
  OBVIOUS
<1>2. Open(x.tcp)
  BY DEF Callable
<1> HIDE DEF y
<1>3. Kept(x, y) /\ (StillWaits(x, y) \/ NowAnswered(x, y))
  BY <1>1 DEF Outcome, Kept, NowServing, Serving, NowGone
<1>4. ~y.timer
  BY <1>3 DEF StillWaits, NowAnswered, Waits, Answered
<1>5. Timeless(y)
  BY <1>3, <1>4 DEF Kept, Timeless
<1>6. QED
  BY <1>2, <1>3, <1>5 DEF Kept, SameConn, StillWaits, NowAnswered, y

\* and for one that is.
LEMMA CalledLate ==
  ASSUME NEW x, Callable(x), Outcome(x, http_execute_cgi(x)), x.c.state = BODY_END,
         x.tcp.rx = <<>>, Timeless(x), Calm => x.tcp.req.url \notin TimerPaths,
         NEW k \in Conns, x.c.esp = k
  PROVE  LET y == http_execute_cgi(x)
         IN  Settled(y, k) /\ y.tcp.rx = <<>> /\ (Live(y, k) \/ (y.c.esp = Nobody /\ x.c.data # NoData))
<1> DEFINE y == http_execute_cgi(x)
<1>1. Outcome(x, y)
  OBVIOUS
<1>2. k # Nobody
  BY ServerAssumption
<1> HIDE DEF y
<1>3. Kept(x, y) /\ (NowAnswered(x, y) \/ NowServing(x, y) \/ NowGone(x, y))
  BY <1>1 DEF Outcome, StillWaits
<1>4. /\ y \in Ctx /\ y.tcp.rx = <<>> /\ y.tcp.req = x.tcp.req /\ y.c.state = BODY_END
      /\ ~y.tcp.refused
  BY <1>3 DEF Kept, SameConn
<1>5. IsRest(y.tcp.rx) /\ HeadersGone(y.tcp.rx)
  BY <1>4 DEF IsRest, HeadersGone
<1>6. Timeless(y)
  <2>1. Calm => y.c.fn \notin TimerFns /\ y.c.url \notin TimerPaths
    BY <1>3 DEF Kept, Timeless
  <2>2. y.timer => y.c.fn \in TimerFns
    BY <1>3 DEF NowAnswered, Answered, NowServing, Serving, NowGone
  <2>3. QED
    BY <2>1, <2>2 DEF Timeless
<1>7. CASE NowAnswered(x, y) \/ NowServing(x, y)
  <2>1. Stage(y) /\ Open(y.tcp) /\ y.c.esp = k
    BY <1>4, <1>7 DEF Stage, NowAnswered, NowServing
  <2>2. Settled(y, k) /\ Live(y, k)
    BY <1>4, <1>5, <1>6, <2>1, OpenSettles
  <2>3. QED
    BY <1>4, <2>2 DEF y
<1>8. CASE NowGone(x, y)
  <2>1. ConnFine(y.tcp)
    BY <1>4, <1>5, <1>8 DEF NowGone, ConnFine
  <2>2. QED
    BY <1>4, <1>6, <1>8, <2>1 DEF NowGone, Settled, y
<1>9. QED
  BY <1>3, <1>7, <1>8

\* A slot that waits can be called.
LEMMA WaitsCallable ==
  ASSUME NEW x \in Ctx, Waits(x), Open(x.tcp), NEW k \in Conns, x.c.esp = k
  PROVE  Callable(x) /\ Outcome(x, http_execute_cgi(x))
<1>1. Callable(x)
  BY ServerAssumption DEF Callable, Ready, Waits, ApiFns
<1>2. QED
  BY <1>1, Executes

\* The parser has taken the next event.
Taken(w) == [w EXCEPT !.tcp.rx = Tail(@)]

\* Taking it leaves the slot and the request's data alone.
LEMMA Takes ==
  ASSUME NEW k \in Conns, NEW w, Live(w, k), w.tcp.rx # <<>>
  PROVE  LET x == Taken(w)
         IN  /\ x \in Ctx /\ x.c = w.c /\ x.timer = w.timer /\ x.tcp.rx = Tail(w.tcp.rx)
             /\ x.tcp.unacked = w.tcp.unacked /\ x.tcp.got = w.tcp.got /\ x.tcp.req = w.tcp.req
             /\ Open(x.tcp) /\ IsRest(x.tcp.rx) /\ Timeless(x) /\ x.c.esp = k
             /\ Calm => x.tcp.req.url \notin TimerPaths
             /\ x.tcp.got # <<>> => HeadersGone(x.tcp.rx)
<1> DEFINE x == Taken(w)
<1>1. w \in Ctx /\ w.tcp.rx \in Seq(EventSet) /\ w.tcp \in ConnSet /\ IsRest(w.tcp.rx)
  BY DEF Live, Ctx, ConnSet, ConnFine
<1>2. Tail(w.tcp.rx) \in Seq(EventSet) /\ IsRest(Tail(w.tcp.rx))
      /\ (HeadersGone(w.tcp.rx) => HeadersGone(Tail(w.tcp.rx)))
  BY <1>1, FirstRest
<1>3. /\ x \in Ctx /\ x.c = w.c /\ x.timer = w.timer /\ x.tcp.rx = Tail(w.tcp.rx)
      /\ x.tcp.unacked = w.tcp.unacked /\ x.tcp.got = w.tcp.got /\ x.tcp.req = w.tcp.req
      /\ x.tcp.st = w.tcp.st /\ x.tcp.est = w.tcp.est /\ x.tcp.refused = w.tcp.refused
  BY <1>1, <1>2 DEF Taken, Ctx, ConnSet
<1> HIDE DEF x
<1>4. QED
  BY <1>2, <1>3 DEF Live, ConnFine, Open, Timeless, x
\* The parser's callbacks, one by one: the slot keeps its connection.
LEMMA ReceivesUrl ==
  ASSUME NEW k \in Conns, NEW w, Live(w, k), w.tcp.rx # <<>>, w.tcp.rx[1] = "url"
  PROVE  Live(on_url(Taken(w)), k)
<1> DEFINE x == Taken(w)
           u == [x EXCEPT !.c.state = ON_URL]
           v == [u EXCEPT !.c.url = x.tcp.req.url]
           z == [v EXCEPT !.c.method = x.tcp.req.method]
           y == http_execute_cgi(z)
<1>1. /\ x \in Ctx /\ x.c = w.c /\ x.timer = w.timer /\ x.tcp.rx = Tail(w.tcp.rx)
      /\ x.tcp.unacked = w.tcp.unacked
      /\ Open(x.tcp) /\ IsRest(x.tcp.rx) /\ Timeless(x) /\ x.c.esp = k
      /\ (Calm => x.tcp.req.url \notin TimerPaths) /\ (x.tcp.got # <<>> => HeadersGone(x.tcp.rx))
  BY Takes
<1>2. Waits(w) /\ w.c.fn = "NULL"
  BY DEF Live, Stage
<1>3. x.tcp.rx # <<>> /\ x.tcp.rx[1] \in {"host", "headers"}
  BY <1>1, FirstRest DEF Live, Ctx, ConnSet, ConnFine
<1>4. on_url(x) = y
  BY Zenon DEF on_url, u, v, z, y
<1> HIDE DEF x
<1>5. Waits(x) /\ x.c.fn = "NULL"
  BY <1>1, <1>2 DEF Waits
<1>6. x.tcp.req.url \in Url /\ x.tcp.req.method \in Method
  BY <1>1 DEF Ctx, ConnSet, RequestSet
<1>7. /\ u \in Ctx /\ u.c.state = ON_URL /\ u.tcp = x.tcp /\ u.timer = x.timer /\ u.c.out = x.c.out
      /\ u.c.esp = x.c.esp /\ u.c.done = x.c.done /\ u.c.fn = x.c.fn /\ u.c.data = x.c.data
  BY <1>1, SetsState DEF States
<1> HIDE DEF u
<1>8. /\ v \in Ctx /\ v.c.state = u.c.state /\ v.tcp = u.tcp /\ v.timer = u.timer /\ v.c.out = u.c.out
      /\ v.c.esp = u.c.esp /\ v.c.done = u.c.done /\ v.c.fn = u.c.fn /\ v.c.data = u.c.data
      /\ v.c.url = x.tcp.req.url
  BY <1>6, <1>7 DEF Ctx, SlotSet
<1> HIDE DEF v
<1>9. /\ z \in Ctx /\ z.c.state = v.c.state /\ z.tcp = v.tcp /\ z.timer = v.timer /\ z.c.out = v.c.out
      /\ z.c.esp = v.c.esp /\ z.c.done = v.c.done /\ z.c.fn = v.c.fn /\ z.c.data = v.c.data
      /\ z.c.url = v.c.url
  BY <1>6, <1>8 DEF Ctx, SlotSet
<1> HIDE DEF z
<1>10. Waits(z) /\ Timeless(z) /\ Open(z.tcp) /\ z.c.esp = k /\ z.tcp = x.tcp /\ z.c.state = ON_URL
  BY <1>1, <1>5, <1>7, <1>8, <1>9 DEF Waits, Timeless, TimerFns
<1>11. Callable(z) /\ Outcome(z, y) /\ z.c.state # BODY_END /\ z.c.state # HEADERS_END
  BY <1>9, <1>10, WaitsCallable DEF ON_URL, BODY_END, HEADERS_END
<1>12. /\ y \in Ctx /\ y.c.esp = k /\ y.c.state = ON_URL /\ Open(y.tcp) /\ Timeless(y)
       /\ Waits(y) /\ y.tcp = x.tcp
  BY <1>10, <1>11, CalledEarly
<1> HIDE DEF y
<1>13. Stage(y)
  BY <1>3, <1>12 DEF Stage
<1>14. QED
  BY <1>1, <1>4, <1>12, <1>13, OpenSettles DEF x

\* (on_header_field, on_header_value)
LEMMA ReceivesHost ==
  ASSUME NEW k \in Conns, NEW w, Live(w, k), w.tcp.rx # <<>>, w.tcp.rx[1] = "host"
  PROVE  Live(on_header(Taken(w)), k)
<1> DEFINE x == Taken(w)
           y == on_header(x)
<1>1. /\ x \in Ctx /\ x.c = w.c /\ x.timer = w.timer /\ x.tcp.rx = Tail(w.tcp.rx)
      /\ x.tcp.unacked = w.tcp.unacked
      /\ Open(x.tcp) /\ IsRest(x.tcp.rx) /\ Timeless(x) /\ x.c.esp = k
      /\ (Calm => x.tcp.req.url \notin TimerPaths) /\ (x.tcp.got # <<>> => HeadersGone(x.tcp.rx))
  BY Takes
<1>2. Waits(w) /\ w.c.state = ON_URL
  BY DEF Live, Stage
<1>3. x.tcp.rx # <<>> /\ x.tcp.rx[1] \in {"host", "headers"}
  BY <1>1, FirstRest DEF Live, Ctx, ConnSet, ConnFine
<1> HIDE DEF x
<1>4. Waits(x) /\ x.c.state = ON_URL
  BY <1>1, <1>2 DEF Waits
<1>5. /\ y \in Ctx /\ y.tcp = x.tcp /\ y.timer = x.timer /\ y.c.state = x.c.state /\ y.c.esp = x.c.esp
      /\ y.c.url = x.c.url /\ y.c.done = x.c.done /\ y.c.fn = x.c.fn /\ y.c.data = x.c.data
      /\ y.c.out = x.c.out
  <2>1. x.tcp.req.host \in {"missing", "domain", "other"}
    BY <1>1 DEF Ctx, ConnSet, RequestSet
  <2>2. QED
    BY <1>1, <2>1 DEF on_header, Ctx, SlotSet
<1> HIDE DEF y
<1>6. Stage(y) /\ Timeless(y)
  BY <1>1, <1>3, <1>4, <1>5 DEF Stage, Waits, Timeless
<1>7. Live(y, k)
  BY <1>1, <1>5, <1>6, OpenSettles
<1>8. QED
  BY <1>7 DEF y, x

\* (on_headers_complete) A CGI may answer now, but not before.
LEMMA ReceivesHeaders ==
  ASSUME NEW k \in Conns, NEW w, Live(w, k), w.tcp.rx # <<>>, w.tcp.rx[1] = "headers"
  PROVE  Live(on_headers_complete(Taken(w)), k)
<1> DEFINE x == Taken(w)
           z == [x EXCEPT !.c.state = HEADERS_END]
           y == http_execute_cgi(z)
<1>1. /\ x \in Ctx /\ x.c = w.c /\ x.timer = w.timer /\ x.tcp.rx = Tail(w.tcp.rx)
      /\ x.tcp.unacked = w.tcp.unacked
      /\ Open(x.tcp) /\ IsRest(x.tcp.rx) /\ Timeless(x) /\ x.c.esp = k
      /\ (Calm => x.tcp.req.url \notin TimerPaths)
  BY Takes
<1>2. Waits(w)
  BY DEF Live, Stage
<1>3. x.tcp.rx # <<>> /\ x.tcp.rx[1] \in {"body", "rest", "end"} /\ HeadersGone(x.tcp.rx)
  BY <1>1, FirstRest DEF Live, Ctx, ConnSet, ConnFine
<1>4. on_headers_complete(x) = y
  BY DEF on_headers_complete
<1> HIDE DEF x
<1>5. Waits(x)
  BY <1>1, <1>2 DEF Waits
<1>6. /\ z \in Ctx /\ z.c.state = HEADERS_END /\ z.tcp = x.tcp /\ z.timer = x.timer /\ z.c.out = x.c.out
      /\ z.c.esp = x.c.esp /\ z.c.done = x.c.done /\ z.c.fn = x.c.fn /\ z.c.data = x.c.data
      /\ z.c.url = x.c.url
  BY <1>1, SetsState DEF States
<1> HIDE DEF z
<1>7. Waits(z) /\ Timeless(z) /\ Open(z.tcp) /\ z.c.esp = k
  BY <1>1, <1>5, <1>6 DEF Waits, Timeless
<1>8. Callable(z) /\ Outcome(z, y) /\ z.c.state # BODY_END
  BY <1>6, <1>7, WaitsCallable DEF BODY_END, HEADERS_END
<1>9. /\ y \in Ctx /\ y.c.esp = k /\ y.c.state = HEADERS_END /\ Open(y.tcp) /\ Timeless(y)
      /\ Waits(y) \/ Answered(y)
      /\ y.tcp.rx = x.tcp.rx /\ y.tcp.req = x.tcp.req
  BY <1>6, <1>7, <1>8, CalledEarly
<1> HIDE DEF y
<1>10. Stage(y)
  BY <1>3, <1>9 DEF Stage
<1>11. QED
  BY <1>1, <1>3, <1>4, <1>9, <1>10, OpenSettles DEF x

\* (on_body) A slot that has answered already is not called again.
LEMMA ReceivesBody ==
  ASSUME NEW k \in Conns, NEW w, Live(w, k), w.tcp.rx # <<>>, w.tcp.rx[1] \in {"body", "rest"},
         NEW b \in {"none", "part", "valid", "invalid"}
  PROVE  Live(on_body(Taken(w), b), k)
<1> DEFINE x == Taken(w)
           v == [x EXCEPT !.c.state = ON_BODY]
           d == IF x.c.save THEN b ELSE v.c.body
           z == [v EXCEPT !.c.body = d]
           y == http_execute_cgi(z)
<1>1. /\ x \in Ctx /\ x.c = w.c /\ x.timer = w.timer /\ x.tcp.rx = Tail(w.tcp.rx)
      /\ x.tcp.unacked = w.tcp.unacked
      /\ Open(x.tcp) /\ IsRest(x.tcp.rx) /\ Timeless(x) /\ x.c.esp = k
      /\ (Calm => x.tcp.req.url \notin TimerPaths)
  BY Takes
<1>2. Waits(w) \/ Answered(w)
  BY DEF Live, Stage
<1>3. x.tcp.rx # <<>> /\ x.tcp.rx[1] \in {"body", "rest", "end"} /\ HeadersGone(x.tcp.rx)
  BY <1>1, FirstRest DEF Live, Ctx, ConnSet, ConnFine
<1>4. on_body(x, b) = y
  BY Zenon DEF on_body, v, d, z, y
<1> HIDE DEF x
<1>5. Waits(x) \/ Answered(x)
  BY <1>1, <1>2 DEF Waits, Answered
<1>6. /\ v \in Ctx /\ v.c.state = ON_BODY /\ v.tcp = x.tcp /\ v.timer = x.timer /\ v.c.out = x.c.out
      /\ v.c.esp = x.c.esp /\ v.c.done = x.c.done /\ v.c.fn = x.c.fn /\ v.c.data = x.c.data
      /\ v.c.url = x.c.url /\ v.c.file = x.c.file
  BY <1>1, SetsState DEF States
<1>7. d \in {"none", "part", "valid", "invalid", "freed"}
  BY <1>6 DEF Ctx, SlotSet
<1> HIDE DEF v, d
<1>8. /\ z \in Ctx /\ z.c.state = v.c.state /\ z.tcp = v.tcp /\ z.timer = v.timer /\ z.c.out = v.c.out
      /\ z.c.esp = v.c.esp /\ z.c.done = v.c.done /\ z.c.fn = v.c.fn /\ z.c.data = v.c.data
      /\ z.c.url = v.c.url /\ z.c.file = v.c.file
  BY ONLY <1>6, <1>7, SetsBody
<1> HIDE DEF z
<1>9. Timeless(z) /\ Open(z.tcp) /\ z.c.esp = k /\ z.tcp = x.tcp /\ z.c.state = ON_BODY
  BY <1>1, <1>6, <1>8 DEF Timeless
<1>10. CASE Waits(x)
  <2>1. Waits(z)
    BY <1>6, <1>8, <1>10 DEF Waits
  <2>2. Callable(z) /\ Outcome(z, y) /\ z.c.state # BODY_END /\ z.c.state # HEADERS_END
    BY <1>8, <1>9, <2>1, WaitsCallable DEF BODY_END, HEADERS_END, ON_BODY
  <2>3. /\ y \in Ctx /\ y.c.esp = k /\ y.c.state = ON_BODY /\ Open(y.tcp) /\ Timeless(y)
        /\ Waits(y) /\ y.tcp = x.tcp
    BY <1>9, <2>2, CalledEarly
  <2> HIDE DEF y
  <2>4. Stage(y)
    BY <1>3, <2>3 DEF Stage
  <2>5. QED
    BY <1>1, <1>3, <1>4, <2>3, <2>4, OpenSettles DEF x
<1>11. CASE Answered(x)
  <2>1. Answered(z)
    BY <1>6, <1>8, <1>11 DEF Answered, DataOK, InFile
  <2>2. y = z
    BY <2>1 DEF http_execute_cgi, http_server_cgi_execute, Answered
  <2>3. Stage(z)
    BY <1>3, <1>9, <2>1 DEF Stage
  <2>4. Live(z, k)
    BY <1>1, <1>3, <1>8, <1>9, <2>3, OpenSettles
  <2>5. QED
    BY <1>4, <2>2, <2>4 DEF x
<1>12. QED
  BY <1>5, <1>10, <1>11

\* (on_message_complete) The slot has answered, or is in the middle of its answer.
LEMMA ReceivesEnd ==
  ASSUME NEW k \in Conns, NEW w, Live(w, k), w.tcp.rx # <<>>, w.tcp.rx[1] = "end"
  PROVE  Live(on_message_complete(Taken(w)), k)
<1> DEFINE x == Taken(w)
           z == [x EXCEPT !.c.state = BODY_END]
           y == http_execute_cgi(z)
           d == IF x.c.save /\ y.c.body # "none" THEN "freed" ELSE y.c.body
           v == [y EXCEPT !.c.body = d]
<1>1. /\ x \in Ctx /\ x.c = w.c /\ x.timer = w.timer /\ x.tcp.rx = Tail(w.tcp.rx)
      /\ x.tcp.unacked = w.tcp.unacked
      /\ Open(x.tcp) /\ Timeless(x) /\ x.c.esp = k
      /\ (Calm => x.tcp.req.url \notin TimerPaths)
  BY Takes
<1>2. Waits(w) \/ Answered(w)
  BY DEF Live, Stage
<1>3. x.tcp.rx = <<>>
  BY <1>1, FirstRest DEF Live, Ctx, ConnSet, ConnFine
<1>4. on_message_complete(x) = v
  BY Zenon DEF on_message_complete, z, y, d, v
<1> HIDE DEF x
<1>5. Waits(x) \/ Answered(x)
  BY <1>1, <1>2 DEF Waits, Answered
<1>6. /\ z \in Ctx /\ z.c.state = BODY_END /\ z.tcp = x.tcp /\ z.timer = x.timer /\ z.c.out = x.c.out
      /\ z.c.esp = x.c.esp /\ z.c.done = x.c.done /\ z.c.fn = x.c.fn /\ z.c.data = x.c.data
      /\ z.c.url = x.c.url /\ z.c.file = x.c.file
  BY <1>1, SetsState DEF States
<1> HIDE DEF z
<1>7. Timeless(z) /\ Open(z.tcp) /\ z.c.esp = k /\ z.tcp.rx = <<>>
      /\ (Calm => z.tcp.req.url \notin TimerPaths)
  BY <1>1, <1>3, <1>6 DEF Timeless
<1>8. Live(y, k) /\ y.tcp.rx = <<>>
  <2>1. CASE Waits(x)
    <3>1. Waits(z) /\ z.c.data = NoData
      BY <1>6, <2>1 DEF Waits
    <3>2. Callable(z) /\ Outcome(z, y)
      BY <1>6, <1>7, <3>1, WaitsCallable
    <3>3. QED
      BY <1>6, <1>7, <3>1, <3>2, CalledLate
  <2>2. CASE Answered(x)
    <3>1. Answered(z)
      BY <1>6, <2>2 DEF Answered, DataOK, InFile
    <3>2. y = z
      BY <3>1 DEF http_execute_cgi, http_server_cgi_execute, Answered
    <3>3. Stage(z) /\ IsRest(z.tcp.rx) /\ HeadersGone(z.tcp.rx)
      BY <1>6, <1>7, <3>1 DEF Stage, IsRest, HeadersGone
    <3>4. Live(z, k)
      BY <1>6, <1>7, <3>3, OpenSettles
    <3>5. QED
      BY <1>7, <3>2, <3>4
  <2>3. QED
    BY <1>5, <2>1, <2>2
<1> HIDE DEF y
<1>9. d \in {"none", "part", "valid", "invalid", "freed"} /\ y \in Ctx
  BY <1>8 DEF Live, Ctx, SlotSet
<1> HIDE DEF d
<1>10. /\ v \in Ctx /\ v.c.state = y.c.state /\ v.tcp = y.tcp /\ v.timer = y.timer
       /\ v.c.esp = y.c.esp /\ v.c.url = y.c.url /\ v.c.done = y.c.done /\ v.c.fn = y.c.fn
       /\ v.c.data = y.c.data /\ v.c.file = y.c.file /\ v.c.out = y.c.out
  BY <1>9, SetsBody
<1> HIDE DEF v
<1>11. Stage(y) => Stage(v)
  <2>1. Serving(y) => Serving(v)
    BY <1>10 DEF Serving, Serves, InFile
  <2>2. Answered(y) => Answered(v)
    BY <1>10 DEF Answered, DataOK, InFile
  <2>3. QED
    BY <1>8, <1>10, <2>1, <2>2 DEF Stage
<1>12. Live(v, k)
  BY <1>8, <1>10, <1>11 DEF Live, Timeless
<1>13. QED
  BY <1>4, <1>12 DEF x

\* http_process_received_cb: the slot keeps its connection, whatever has arrived.
LEMMA Receives ==
  ASSUME NEW k \in Conns, NEW w, Live(w, k), w.tcp.rx # <<>>
  PROVE  LET y == AfterReceive(http_parser_execute(Head(w.tcp.rx), Taken(w)))
         IN  Settled(y, k) /\ y.c.esp = k
<1> DEFINE e == Head(w.tcp.rx)
           y == http_parser_execute(e, Taken(w))
<1>1. w.tcp.rx \in Seq(EventSet) /\ IsRest(w.tcp.rx) /\ w.tcp.req \in RequestSet
  BY DEF Live, Ctx, ConnSet, ConnFine
<1>2. e = w.tcp.rx[1] /\ e \in EventSet
  BY <1>1, FirstRest
<1>3. Taken(w).tcp.req.body \in {"none", "part", "valid", "invalid"}
  BY <1>1, Takes DEF RequestSet
<1>4. Live(y, k)
  <2>1. CASE e = "url"
    BY <1>2, <2>1, ReceivesUrl DEF http_parser_execute
  <2>2. CASE e = "host"
    BY <1>2, <2>2, ReceivesHost DEF http_parser_execute
  <2>3. CASE e = "headers"
    BY <1>2, <2>3, ReceivesHeaders DEF http_parser_execute
  <2>4. CASE e = "body"
    BY <1>2, <2>4, ReceivesBody DEF http_parser_execute
  <2>5. CASE e = "rest"
    BY <1>2, <1>3, <2>5, ReceivesBody DEF http_parser_execute
  <2>6. CASE e = "end"
    BY <1>2, <2>6, ReceivesEnd DEF http_parser_execute
  <2>7. QED
    BY <1>2, <2>1, <2>2, <2>3, <2>4, <2>5, <2>6 DEF EventSet
<1> HIDE DEF y
<1>5. QED
  BY <1>4, AfterReceives DEF y

\* The server closes a connection and frees its slot.
Dropped(x) == [x EXCEPT !.tcp = espconn_disconnect(@), !.c = http_process_free_connection(@)]

\* espconn_disconnect leaves a connection as it should be.
LEMMA Disconnects ==
  ASSUME NEW t \in ConnSet, ConnFine(t)
  PROVE  LET d == espconn_disconnect(t)
         IN  d \in ConnSet /\ ConnFine(d) /\ d.rx = t.rx
<1> DEFINE d == espconn_disconnect(t)
<1>1. CASE t.st = "free" \/ t.est = "CLOSE"
  BY <1>1 DEF espconn_disconnect
<1>2. CASE ~(t.st = "free" \/ t.est = "CLOSE")
  <2>1. d = [t EXCEPT !.st = "closing", !.est = "CLOSE", !.unacked = FALSE,
                      !.byServer = @ \/ t.st = "open"]
    BY <1>2 DEF espconn_disconnect
  <2>2. /\ d \in ConnSet /\ d.rx = t.rx /\ d.req = t.req /\ d.refused = t.refused
        /\ d.got = t.got /\ d.st = "closing"
    BY <2>1 DEF ConnSet
  <2> HIDE DEF d
  <2>3. ConnFine(d)
    BY <2>2 DEF ConnFine
  <2>4. QED
    BY <2>2, <2>3 DEF d
<1>3. QED
  BY <1>1, <1>2

\* Its slot can be freed when no timer is armed.
LEMMA Drops ==
  ASSUME NEW k \in Conns, NEW x \in Ctx, ConnFine(x.tcp), ~x.timer, Timeless(x)
  PROVE  Settled(Dropped(x), k) /\ Dropped(x).tcp.rx = x.tcp.rx
<1> DEFINE t == espconn_disconnect(x.tcp)
           d == http_process_free_connection(x.c)
           y == [x EXCEPT !.tcp = t, !.c = d]
<1>1. Dropped(x) = y
  BY DEF Dropped
<1>2. t \in ConnSet /\ ConnFine(t) /\ t.rx = x.tcp.rx
  BY Disconnects DEF Ctx
<1>3. d \in SlotSet /\ d.esp = Nobody /\ Free(d) /\ d.url = x.c.url
  BY FreesSlot DEF Ctx
<1> HIDE DEF t, d
<1>4. y \in Ctx /\ y.c = d /\ y.tcp = t /\ y.timer = x.timer
  BY <1>2, <1>3 DEF Ctx
<1> HIDE DEF y
<1>5. Timeless(y)
  BY <1>3, <1>4 DEF Timeless, Free, TimerFns
<1>6. QED
  BY <1>1, <1>2, <1>3, <1>4, <1>5 DEF Settled

\* A slot in the middle of its answer can be called again.
LEMMA ServingCallable ==
  ASSUME NEW x \in Ctx, Open(x.tcp), ~x.tcp.unacked, ~x.timer, ~x.c.done, x.c.out = <<>>,
         x.c.state = BODY_END, Serves(x.c), NEW k \in Conns, x.c.esp = k
  PROVE  Callable(x) /\ Outcome(x, http_execute_cgi(x))
<1>1. x.c.fn = "file_system" => x.c.data # NoData
  <2>1. ASSUME x.c.fn = "file_system" PROVE x.c.data # NoData
    <3>1. InFile(x.c)
      BY <2>1 DEF Serves
    <3>2. x.c.data >= 0
      BY <3>1, CgiAssumption DEF InFile
    <3>3. QED
      BY <3>2 DEF NoData
  <2>2. QED
    BY <2>1
<1>2. Callable(x)
  BY <1>1, ServerAssumption DEF Callable, Ready, Serves, ApiFns
<1>3. QED
  BY <1>2, Executes

\* http_process_sent_cb.
Acked(w) == [w EXCEPT !.tcp.unacked = FALSE, !.tcp.est = "CONNECT"]

\* It ends an answer that is complete, and calls the CGI of any other one.
LEMMA Acknowledged ==
  ASSUME NEW k \in Conns, NEW w, Live(w, k), w.tcp.unacked
  PROVE  LET y == http_process_sent_cb(Acked(w)) IN Settled(y, k) /\ y.tcp.rx = w.tcp.rx
<1> DEFINE v == [w EXCEPT !.tcp.unacked = FALSE]
           x == [v EXCEPT !.tcp.est = "CONNECT"]
<1>1. Acked(w) = x
  BY Zenon DEF Acked, v, x
<1>2. /\ v \in Ctx /\ v.c = w.c /\ v.timer = w.timer
      /\ v.tcp.st = w.tcp.st /\ ~v.tcp.unacked
      /\ v.tcp.refused = w.tcp.refused /\ v.tcp.got = w.tcp.got /\ v.tcp.req = w.tcp.req
      /\ v.tcp.rx = w.tcp.rx
  BY DEF Live, Ctx, ConnSet
<1> HIDE DEF v
<1>3. /\ x \in Ctx /\ x.c = v.c /\ x.timer = v.timer
      /\ x.tcp.st = v.tcp.st /\ x.tcp.est = "CONNECT" /\ x.tcp.unacked = v.tcp.unacked
      /\ x.tcp.refused = v.tcp.refused /\ x.tcp.got = v.tcp.got /\ x.tcp.req = v.tcp.req
      /\ x.tcp.rx = v.tcp.rx
  BY <1>2, SetsEst
<1> HIDE DEF x
<1>4. /\ ConnFine(x.tcp) /\ Timeless(x) /\ Open(x.tcp) /\ ~x.tcp.unacked /\ x.c.esp = k
      /\ (Calm => x.tcp.req.url \notin TimerPaths)
  BY <1>2, <1>3 DEF Live, ConnFine, Timeless, Open
<1>5. Answered(w) \/ (Serving(w) /\ w.tcp.rx = <<>>)
  BY DEF Live, Stage, Waits
<1>6. CASE Answered(w)
  <2>1. x.c.done /\ ~x.timer
    BY <1>2, <1>3, <1>6 DEF Answered
  <2>2. http_process_sent_cb(x) = Dropped(x)
    BY <2>1 DEF http_process_sent_cb, Dropped
  <2>3. Settled(Dropped(x), k) /\ Dropped(x).tcp.rx = x.tcp.rx
    BY <1>3, <1>4, <2>1, Drops
  <2>4. QED
    BY <1>1, <1>2, <1>3, <2>2, <2>3
<1>7. CASE Serving(w) /\ w.tcp.rx = <<>>
  <2>1. ~x.c.done /\ ~x.timer /\ x.c.out = <<>> /\ x.c.state = BODY_END /\ Serves(x.c) /\ x.tcp.rx = <<>>
    BY <1>2, <1>3, <1>7 DEF Serving
  <2>2. http_process_sent_cb(x) = http_execute_cgi(x)
    BY <2>1 DEF http_process_sent_cb
  <2>3. Callable(x) /\ Outcome(x, http_execute_cgi(x))
    BY <1>3, <1>4, <2>1, ServingCallable
  <2>4. Settled(http_execute_cgi(x), k) /\ http_execute_cgi(x).tcp.rx = <<>>
    BY <1>4, <2>1, <2>3, CalledLate
  <2>5. QED
    BY <1>1, <1>7, <2>2, <2>4
<1>8. QED
  BY <1>5, <1>6, <1>7

\* The timer of a CGI.
LEMMA TimerCalls ==
  ASSUME NEW k \in Conns, NEW w, Live(w, k), w.timer
  PROVE  LET y == http_execute_cgi([w EXCEPT !.timer = FALSE])
         IN  Settled(y, k) /\ y.tcp.rx = w.tcp.rx
<1> DEFINE x == [w EXCEPT !.timer = FALSE]
<1>1. x \in Ctx /\ x.c = w.c /\ x.tcp = w.tcp /\ ~x.timer
  BY DEF Live, Ctx
<1>2. Serving(w) /\ w.tcp.rx = <<>> /\ ~w.tcp.unacked
  BY DEF Live, Stage, Waits, Answered, Serving
<1> HIDE DEF x
<1>3. /\ Open(x.tcp) /\ Timeless(x) /\ x.c.esp = k /\ (Calm => x.tcp.req.url \notin TimerPaths)
  BY <1>1 DEF Live, ConnFine, Timeless, Open
<1>4. /\ ~x.c.done /\ x.c.out = <<>> /\ x.c.state = BODY_END /\ Serves(x.c) /\ x.tcp.rx = <<>>
      /\ ~x.tcp.unacked
  BY <1>1, <1>2 DEF Serving
<1>5. Callable(x) /\ Outcome(x, http_execute_cgi(x))
  BY <1>1, <1>3, <1>4, ServingCallable
<1>6. Settled(http_execute_cgi(x), k) /\ http_execute_cgi(x).tcp.rx = <<>>
  BY <1>3, <1>4, <1>5, CalledLate
<1>7. QED
  BY <1>2, <1>6 DEF x
-----------------------------------------------------------------------------
(* The steps of the server                                                 *)

\* The first slot of a set of slots is one of it.
LEMMA FirstSlot ==
  ASSUME NEW S, S \subseteq Slots, S # {}
  PROVE  Min(S) \in S /\ Min(S) \in Slots
<1>1. S \in SUBSET Nat
  BY ServerAssumption DEF Slots
<1>2. \E m \in S : \A i \in S : m <= i
  BY <1>1, LeastOf
<1>3. Min(S) \in S
  BY <1>2 DEF Min
<1>4. QED
  BY <1>3

\* A context is made of the state of its slot and its connection.
LEMMA ContextOf ==
  ASSUME HttpTypes, NEW s \in Slots, NEW k \in Conns
  PROVE  LET x == Context(s, k)
         IN  x \in Ctx /\ x.c = slot[s] /\ x.tcp = tcp[k] /\ x.timer = timers[s].own
BY DEF HttpTypes, Context, Ctx

\* A slot that is not free holds a connection of espconn, and one that holds an open
\* connection is live.
LEMMA LiveSlot ==
  ASSUME HttpInv, NEW s \in Slots, NEW k \in Conns, slot[s].esp = k
  PROVE  /\ tcp[k].st # "free"
         /\ Held(Context(s, k))
         /\ tcp[k].st = "open" => Live(Context(s, k), k)
<1>1. HttpTypes /\ SlotsHeld /\ NoTimers /\ ConnFine(tcp[k]) /\ k # Nobody
  BY ServerAssumption DEF HttpInv
<1>2. LET x == Context(s, k)
      IN  x \in Ctx /\ x.c = slot[s] /\ x.tcp = tcp[k] /\ x.timer = timers[s].own
  BY <1>1, ContextOf
<1>3. Held(Context(s, k))
  BY <1>1 DEF SlotsHeld
<1> DEFINE x == Context(s, k)
<1> HIDE DEF x
<1>4. /\ x \in Ctx /\ x.c = slot[s] /\ x.tcp = tcp[k] /\ x.timer = timers[s].own /\ Held(x)
  BY <1>2, <1>3 DEF x
<1>5. Timeless(x)
  BY <1>1, <1>4 DEF NoTimers, Timeless
<1>6. tcp[k].st = "open" => Live(x, k)
  BY <1>1, <1>4, <1>5 DEF Live, Held
<1>7. tcp[k].st # "free"
  BY <1>4 DEF Held
<1>8. QED
  BY <1>3, <1>6, <1>7 DEF x

\* A step that changes one slot and one connection, which no other slot holds.
Moves(s, k, y) ==
    /\ slot' = [slot EXCEPT ![s] = y.c]
    /\ tcp' = [tcp EXCEPT ![k] = y.tcp]
    /\ timers' = [timers EXCEPT ![s] = [own |-> y.timer, old |-> 0]]
    /\ scanning' \in BOOLEAN /\ crashed' \in BOOLEAN
    /\ station' \in {"idle", "connecting", "failed", "gotip"}

\* Such a step keeps the invariant.
LEMMA Moved ==
  ASSUME HttpInv, NEW s \in Slots, NEW k \in Conns, NEW y, Settled(y, k), Moves(s, k, y),
         \A t \in Slots : t # s => slot[t].esp # k
  PROVE  HttpInv'
<1>0. HttpTypes /\ SlotsHeld /\ SlotsApart /\ (\A l \in Conns : ConnFine(tcp[l])) /\ NoTimers
  BY DEF HttpInv
<1>1. y \in Ctx /\ y.c \in SlotSet /\ y.tcp \in ConnSet /\ y.timer \in BOOLEAN
  BY DEF Settled, Ctx
<1>2. /\ slot \in [Slots -> SlotSet] /\ tcp \in [Conns -> ConnSet]
      /\ timers \in [Slots -> [own : BOOLEAN, old : {0}]]
  BY <1>0 DEF HttpTypes
<1>3. /\ slot'[s] = y.c /\ tcp'[k] = y.tcp /\ (timers'[s].own <=> y.timer)
      /\ \A t \in Slots : t # s => slot'[t] = slot[t] /\ timers'[t] = timers[t]
      /\ \A l \in Conns : l # k => tcp'[l] = tcp[l]
  BY <1>1, <1>2 DEF Moves
<1>4. HttpTypes'
  <2>1. slot' \in [Slots -> SlotSet] /\ tcp' \in [Conns -> ConnSet]
    BY <1>1, <1>2 DEF Moves
  <2>2. timers' \in [Slots -> [own : BOOLEAN, old : {0}]]
    BY <1>1, <1>2 DEF Moves
  <2>3. QED
    BY <2>1, <2>2 DEF HttpTypes, Moves
<1>5. SlotsHeld'
  <2>1. ASSUME NEW t \in Slots
        PROVE  (IF slot[t].esp = Nobody THEN Free(slot[t]) /\ ~timers[t].own
                ELSE Held(Context(t, slot[t].esp)))'
    <3>1. CASE t = s
      <4>1. CASE y.c.esp = Nobody
        BY <1>3, <3>1, <4>1 DEF Settled
      <4>2. CASE y.c.esp # Nobody
        <5>1. y.c.esp = k /\ Held(y)
          BY <4>2 DEF Settled
        <5>2. /\ Context(t, slot[t].esp)'.c = y.c /\ Context(t, slot[t].esp)'.tcp = y.tcp
              /\ Context(t, slot[t].esp)'.timer = y.timer
          <6>1. timers'[s].own = y.timer
            BY <1>1, <1>2 DEF Moves
          <6>2. QED
            BY <1>3, <3>1, <5>1, <6>1 DEF Context
        <5>3. Held(Context(t, slot[t].esp)')
          BY <5>1, <5>2, HeldSame
        <5>4. QED
          BY <1>3, <3>1, <4>2, <5>3
      <4>3. QED
        BY <4>1, <4>2
    <3>2. CASE t # s
      <4>1. slot'[t] = slot[t] /\ timers'[t] = timers[t]
        BY <1>3, <3>2
      <4>2. CASE slot[t].esp = Nobody
        BY <1>0, <4>1, <4>2 DEF SlotsHeld
      <4>3. CASE slot[t].esp # Nobody
        <5>1. slot[t].esp \in Conns /\ slot[t].esp # k /\ Held(Context(t, slot[t].esp))
          BY <1>0, <1>2, <3>2, <4>3 DEF SlotsHeld, SlotSet
        <5>2. tcp'[slot[t].esp] = tcp[slot[t].esp]
          BY <1>3, <5>1
        <5>3. /\ Context(t, slot[t].esp)'.c = Context(t, slot[t].esp).c
              /\ Context(t, slot[t].esp)'.tcp = Context(t, slot[t].esp).tcp
              /\ Context(t, slot[t].esp)'.timer = Context(t, slot[t].esp).timer
          BY <4>1, <5>2 DEF Context
        <5>4. Held(Context(t, slot[t].esp)')
          BY <5>1, <5>3, HeldSame
        <5>5. QED
          BY <4>1, <4>3, <5>4
      <4>4. QED
        BY <4>2, <4>3
    <3>3. QED
      BY <3>1, <3>2
  <2>2. QED
    BY <2>1 DEF SlotsHeld
<1>6. SlotsApart'
  BY <1>0, <1>3 DEF SlotsApart, Settled
<1>7. (\A l \in Conns : ConnFine(tcp[l]))'
  BY <1>0, <1>3 DEF Settled
<1>8. NoTimers'
  BY <1>0, <1>3 DEF NoTimers, Settled, Timeless
<1>9. QED
  BY <1>4, <1>5, <1>6, <1>7, <1>8 DEF HttpInv

\* A step that changes one connection, which no slot holds.
LEMMA ConnMoved ==
  ASSUME HttpInv, NEW k \in Conns, NEW d \in ConnSet, ConnFine(d), tcp' = [tcp EXCEPT ![k] = d],
         \A t \in Slots : slot[t].esp # k, UNCHANGED <<slot, timers, scanning, station>>,
         crashed' \in BOOLEAN
  PROVE  HttpInv'
<1>0. HttpTypes /\ SlotsHeld /\ SlotsApart /\ (\A l \in Conns : ConnFine(tcp[l])) /\ NoTimers
  BY DEF HttpInv
<1>1. slot \in [Slots -> SlotSet] /\ tcp \in [Conns -> ConnSet]
  BY <1>0 DEF HttpTypes
<1>2. tcp'[k] = d /\ \A l \in Conns : l # k => tcp'[l] = tcp[l]
  BY <1>1
<1>3. HttpTypes'
  BY <1>0, <1>1 DEF HttpTypes
<1>4. SlotsHeld'
  <2>1. ASSUME NEW t \in Slots
        PROVE  (IF slot[t].esp = Nobody THEN Free(slot[t]) /\ ~timers[t].own
                ELSE Held(Context(t, slot[t].esp)))'
    <3>1. CASE slot[t].esp = Nobody
      BY <1>0, <3>1 DEF SlotsHeld
    <3>2. CASE slot[t].esp # Nobody
      <4>1. slot[t].esp \in Conns /\ slot[t].esp # k /\ Held(Context(t, slot[t].esp))
        BY <1>0, <1>1, <3>2 DEF SlotsHeld, SlotSet
      <4>2. /\ Context(t, slot[t].esp)'.c = Context(t, slot[t].esp).c
            /\ Context(t, slot[t].esp)'.tcp = Context(t, slot[t].esp).tcp
            /\ Context(t, slot[t].esp)'.timer = Context(t, slot[t].esp).timer
        BY <1>2, <4>1 DEF Context
      <4>3. Held(Context(t, slot[t].esp)')
        BY <4>1, <4>2, HeldSame
      <4>4. QED
        BY <3>2, <4>3
    <3>3. QED
      BY <3>1, <3>2
  <2>2. QED
    BY <2>1 DEF SlotsHeld
<1>5. SlotsApart' /\ NoTimers'
  BY <1>0 DEF SlotsApart, NoTimers
<1>6. (\A l \in Conns : ConnFine(tcp[l]))'
  BY <1>0, <1>2
<1>7. QED
  BY <1>3, <1>4, <1>5, <1>6 DEF HttpInv

\* The end of a callback.
LEMMA Commits ==
  ASSUME HttpInv, NEW s \in Slots, NEW k \in Conns, slot[s].esp = k, NEW y, Settled(y, k),
         Commit(s, k, y, timers[s].old)
  PROVE  HttpInv' /\ slot'[s].esp = y.c.esp /\ tcp'[k] = y.tcp /\ UNCHANGED crashed
         /\ \A l \in Conns : l # k => tcp'[l] = tcp[l]
<1>1. HttpTypes /\ SlotsApart /\ k # Nobody
  BY ServerAssumption DEF HttpInv
<1>2. timers[s].old = 0 /\ slot \in [Slots -> SlotSet] /\ tcp \in [Conns -> ConnSet]
  BY <1>1 DEF HttpTypes
<1>3. TimerAfter(y, timers[s].old) = [own |-> y.timer, old |-> 0]
  BY <1>2 DEF TimerAfter, Settled
<1>4. Moves(s, k, y)
  BY <1>1, <1>3 DEF Moves, Commit, Settled, Ctx, HttpTypes
<1>5. \A t \in Slots : t # s => slot[t].esp # k
  BY <1>1 DEF SlotsApart
<1>6. HttpInv'
  BY <1>4, <1>5, Moved
<1>7. QED
  BY <1>2, <1>6 DEF Commit
\* Every step keeps the invariant, and the slot of a connection whose parser it runs.
Keeps ==
    \A s \in Slots : LET k == slot[s].esp
                     IN  k # Nobody /\ tcp[k].st = "open" /\ tcp'[k].rx # tcp[k].rx => slot'[s].esp = k

\* A callback keeps both if it leaves the request alone, or the connection to the slot.
LEMMA CommitKeeps ==
  ASSUME HttpInv, NEW s \in Slots, NEW k \in Conns, slot[s].esp = k, NEW y, Settled(y, k),
         Commit(s, k, y, timers[s].old), y.tcp.rx = tcp[k].rx \/ y.c.esp = k
  PROVE  HttpInv' /\ Keeps
<1>1. /\ HttpInv' /\ slot'[s].esp = y.c.esp /\ tcp'[k] = y.tcp
      /\ \A l \in Conns : l # k => tcp'[l] = tcp[l]
  BY Commits
<1>2. HttpTypes /\ SlotsApart /\ slot \in [Slots -> SlotSet]
  BY DEF HttpInv, HttpTypes
<1>3. ASSUME NEW t \in Slots, slot[t].esp # Nobody, tcp'[slot[t].esp].rx # tcp[slot[t].esp].rx
      PROVE  slot'[t].esp = slot[t].esp
  <2>1. slot[t].esp \in Conns
    BY <1>2, <1>3 DEF SlotSet
  <2>2. slot[t].esp = k
    BY <1>1, <1>3, <2>1
  <2>3. t = s
    BY <1>2, <1>3, <2>2 DEF SlotsApart
  <2>4. QED
    BY <1>1, <1>3, <2>2, <2>3
<1>4. QED
  BY <1>1, <1>3 DEF Keeps

\* The slot the callbacks find.
LEMMA Finds ==
  ASSUME HttpInv, NEW k \in Conns, SlotsOf(k) # {}
  PROVE  LET s == http_process_find_connection(k) IN s \in Slots /\ slot[s].esp = k
<1>1. SlotsOf(k) \subseteq Slots
  BY DEF SlotsOf
<1>2. http_process_find_connection(k) \in SlotsOf(k)
  BY <1>1, FirstSlot DEF http_process_find_connection
<1>3. QED
  BY <1>2 DEF SlotsOf

\* http_process_received_cb, with a slot and without,
LEMMA ReceiveKeeps ==
  ASSUME HttpInv, NEW k \in Conns, Receive(k)
  PROVE  HttpInv' /\ Keeps
<1>0. Pending(k) /\ HttpTypes /\ ConnFine(tcp[k]) /\ tcp[k] \in ConnSet
  BY DEF Receive, HttpInv, HttpTypes
<1>1. CASE SlotsOf(k) = {}
  <2>1. /\ tcp' = [tcp EXCEPT ![k] = espconn_disconnect(tcp[k])]
        /\ UNCHANGED <<slot, timers, scanning, station, accepts, crashed>>
    BY <1>1 DEF Receive
  <2>2. espconn_disconnect(tcp[k]) \in ConnSet /\ ConnFine(espconn_disconnect(tcp[k]))
        /\ espconn_disconnect(tcp[k]).rx = tcp[k].rx
    BY <1>0, Disconnects
  <2>3. \A t \in Slots : slot[t].esp # k
    BY <1>1 DEF SlotsOf
  <2>4. HttpInv'
    BY <1>0, <2>1, <2>2, <2>3, ConnMoved DEF HttpTypes
  <2>5. Keeps
    BY <1>0, <2>1 DEF Keeps
  <2>6. QED
    BY <2>4, <2>5
<1>2. CASE SlotsOf(k) # {}
  <2> DEFINE s == http_process_find_connection(k)
             w == Context(s, k)
             y == AfterReceive(http_parser_execute(Head(w.tcp.rx), Taken(w)))
  <2>1. s \in Slots /\ slot[s].esp = k
    BY <1>2, Finds
  <2>2. Commit(s, k, AfterReceive(http_parser_execute(Head(tcp[k].rx), Taken(w))), timers[s].old)
    BY <1>2 DEF Receive, Taken
  <2> HIDE DEF s
  <2>3. Live(w, k) /\ w.tcp = tcp[k] /\ w.tcp.rx # <<>>
    BY <1>0, <2>1, LiveSlot, ContextOf DEF Pending
  <2>4. Commit(s, k, y, timers[s].old)
    BY <2>2, <2>3
  <2> HIDE DEF w
  <2>5. Settled(y, k) /\ y.c.esp = k
    BY <2>3, Receives
  <2> HIDE DEF y
  <2>6. QED
    BY <2>1, <2>4, <2>5, CommitKeeps
<1>3. QED
  BY <1>1, <1>2

\* a parser error,
LEMMA ReceiveMalformedKeeps ==
  ASSUME HttpInv, NEW k \in Conns, ReceiveMalformed(k)
  PROVE  HttpInv' /\ Keeps
<1> DEFINE s == http_process_find_connection(k)
           w == Context(s, k)
<1>1. s \in Slots /\ slot[s].esp = k /\ Pending(k) /\ HttpTypes
  BY Finds DEF ReceiveMalformed, HttpInv
<1>2. Commit(s, k, Dropped(w), timers[s].old)
  BY DEF ReceiveMalformed, Dropped
<1> HIDE DEF s
<1>3. Live(w, k) /\ w.tcp = tcp[k] /\ w.tcp.rx # <<>>
  BY <1>1, LiveSlot, ContextOf DEF Pending
<1> HIDE DEF w
<1>4. w \in Ctx /\ ConnFine(w.tcp) /\ Timeless(w) /\ ~w.timer
  BY <1>3 DEF Live, Stage, Waits, Answered
<1>5. Settled(Dropped(w), k) /\ Dropped(w).tcp.rx = w.tcp.rx
  BY <1>4, Drops
<1>6. QED
  BY <1>1, <1>2, <1>3, <1>5, CommitKeeps

\* http_process_sent_cb,
LEMMA SentKeeps ==
  ASSUME HttpInv, NEW k \in Conns, Sent(k)
  PROVE  HttpInv' /\ Keeps
<1> DEFINE s == http_process_find_connection(k)
           w == Context(s, k)
           y == http_process_sent_cb(Acked(w))
<1>1. s \in Slots /\ slot[s].esp = k /\ Unacked(k) /\ HttpTypes
  BY Finds DEF Sent, Unacked, HttpInv
<1>2. Commit(s, k, y, timers[s].old)
  BY DEF Sent, Acked
<1> HIDE DEF s
<1>3. Live(w, k) /\ w.tcp = tcp[k] /\ w.tcp.unacked
  BY <1>1, LiveSlot, ContextOf DEF Unacked
<1> HIDE DEF w
<1>4. Settled(y, k) /\ y.tcp.rx = w.tcp.rx
  BY <1>3, Acknowledged
<1> HIDE DEF y
<1>5. QED
  BY <1>1, <1>2, <1>3, <1>4, CommitKeeps

\* and the timer of a CGI: it is armed for open connections only.
LEMMA CgiTimerKeeps ==
  ASSUME HttpInv, NEW s \in Slots, CgiTimer(s)
  PROVE  HttpInv' /\ Keeps
<1> DEFINE k == slot[s].esp
           w == Context(s, k)
           y == http_execute_cgi([w EXCEPT !.timer = FALSE])
<1>1. HttpTypes /\ SlotsHeld /\ timers[s].own
  BY DEF HttpInv, CgiTimer
<1>2. k \in Conns
  BY <1>1 DEF HttpTypes, SlotSet, SlotsHeld
<1>3. Commit(s, k, y, timers[s].old)
  BY DEF CgiTimer
<1>4. Held(w) /\ w.tcp = tcp[k] /\ w.timer = timers[s].own /\ (tcp[k].st = "open" => Live(w, k))
  BY <1>1, <1>2, LiveSlot, ContextOf
<1>5. Live(w, k)
  BY <1>1, <1>4 DEF Held
<1>6. k = slot[s].esp
  OBVIOUS
<1> HIDE DEF w, k
<1>7. Settled(y, k) /\ y.tcp.rx = w.tcp.rx
  BY <1>1, <1>2, <1>4, <1>5, TimerCalls
<1> HIDE DEF y
<1>8. QED
  BY <1>2, <1>3, <1>4, <1>6, <1>7, CommitKeeps

\* No timer is left behind by an earlier connection.
LEMMA NoLeftTimer ==
  ASSUME HttpInv, NEW s \in Slots
  PROVE  ~LeftTimer(s)
BY DEF HttpInv, HttpTypes, LeftTimer

\* An espconn block that is free.
LEMMA FreeConn == NoConn \in ConnSet /\ ConnFine(NoConn) /\ NoConn.st = "free" /\ NoConn.got = <<>>
                  /\ ~NoConn.unacked /\ ~NoConn.refused
<1>1. NoRequest \in RequestSet /\ NoRequest.url \notin TimerPaths
  BY DEF NoRequest, RequestSet, Url, Method, TimerPaths
<1>2. <<>> \in Seq(Token) /\ <<>> \in Seq(EventSet) /\ IsRest(<<>>)
  BY DEF IsRest
<1>3. NoConn \in ConnSet
  BY <1>1, <1>2 DEF NoConn, ConnSet
<1>4. QED
  BY <1>1, <1>2, <1>3 DEF NoConn, ConnFine

\* A connection that has just been accepted.
LEMMA AcceptedConn ==
  ASSUME NEW q \in Requests
  PROVE  LET a == Accepted(q)
         IN  a \in ConnSet /\ ConnFine(a) /\ Open(a) /\ ~a.unacked /\ a.rx # <<>> /\ a.rx[1] = "url"
             /\ a.req = q /\ a.got = <<>>
<1> DEFINE a == Accepted(q)
           e == Events(q)
           n == NoConn
           m == [n EXCEPT !.st = "open", !.est = "CONNECT"]
<1>1. e \in Seq(EventSet) /\ e # <<>> /\ e[1] = "url" /\ IsRest(e)
  BY EventsOf
<1>2. q \in RequestSet
  <2>1. q.url \in Url /\ q.method \in Method
    BY DEF Url, Method
  <2>2. QED
    BY <2>1, ServerAssumption DEF RequestSet
<1>3. a = [m EXCEPT !.req = q, !.rx = e]
  BY Zenon DEF Accepted, a, m, n, e
<1>4. n \in ConnSet /\ n.got = <<>> /\ ~n.unacked /\ ~n.refused
  BY FreeConn
<1> HIDE DEF a, e, n
<1>5. /\ m \in ConnSet /\ m.got = <<>> /\ ~m.unacked /\ ~m.refused /\ m.st = "open"
      /\ m.est = "CONNECT"
  BY <1>4 DEF ConnSet
<1> HIDE DEF m
<1>6. /\ a \in ConnSet /\ a.got = <<>> /\ ~a.unacked /\ ~a.refused /\ a.st = "open"
      /\ a.est = "CONNECT" /\ a.req = q /\ a.rx = e
  BY <1>1, <1>2, <1>3, <1>5 DEF ConnSet
<1>7. ConnFine(a)
  BY <1>1, <1>6 DEF ConnFine, Calm
<1>8. QED
  BY <1>1, <1>6, <1>7 DEF Open, a

\* A new connection takes a free slot.
LEMMA ConnectKeeps ==
  ASSUME HttpInv, NEW k \in Conns, NEW q \in Requests, Connect(k, q)
  PROVE  HttpInv' /\ Keeps
<1> DEFINE s == Min(SlotsOf(Nobody))
           a == Accepted(q)
           c == http_new_connection(slot[s], k)
           w == Context(s, k)
           y == [w EXCEPT !.c = c, !.tcp = a]
<1>1. HttpTypes /\ SlotsHeld /\ NoTimers /\ k # Nobody /\ tcp[k].st = "free"
  BY ServerAssumption DEF HttpInv, Connect
<1>2. s \in Slots /\ slot[s].esp = Nobody
  <2>1. SlotsOf(Nobody) \subseteq Slots /\ SlotsOf(Nobody) # {}
    BY DEF SlotsOf, Connect
  <2>2. s \in SlotsOf(Nobody)
    BY <2>1, FirstSlot
  <2>3. QED
    BY <2>2 DEF SlotsOf
<1>3. /\ tcp' = [tcp EXCEPT ![k] = a] /\ slot' = [slot EXCEPT ![s] = c]
      /\ UNCHANGED <<timers, scanning, station, crashed>>
  BY <1>1, <1>2 DEF Connect, HttpTypes
<1> HIDE DEF s
<1>4. /\ a \in ConnSet /\ ConnFine(a) /\ Open(a) /\ ~a.unacked /\ a.rx # <<>> /\ a.rx[1] = "url"
  BY AcceptedConn
<1>5. Free(slot[s]) /\ ~timers[s].own /\ slot[s] \in SlotSet
      /\ timers[s] = [own |-> FALSE, old |-> 0]
  BY <1>1, <1>2 DEF SlotsHeld, HttpTypes
<1>6. /\ c \in SlotSet /\ c.esp = k /\ ~c.done /\ c.out = <<>> /\ c.fn = slot[s].fn
      /\ c.data = slot[s].data /\ c.url = slot[s].url
  <2> DEFINE d == [slot[s] EXCEPT !.esp = k, !.host = "unsaved", !.done = FALSE]
             e == [d EXCEPT !.out = <<>>, !.save = FALSE]
  <2>1. c = [e EXCEPT !.body = "none", !.method = "DELETE"]
    BY Zenon DEF http_new_connection, c, d, e
  <2>2. /\ d \in SlotSet /\ d.esp = k /\ ~d.done /\ d.fn = slot[s].fn
        /\ d.data = slot[s].data /\ d.url = slot[s].url
    BY <1>5 DEF SlotSet
  <2> HIDE DEF d
  <2>3. <<>> \in Seq(Token) /\ "DELETE" \in Method
    BY DEF Method
  <2>4. /\ e \in SlotSet /\ e.esp = d.esp /\ e.done = d.done /\ e.fn = d.fn
        /\ e.data = d.data /\ e.url = d.url /\ e.out = <<>>
    BY <2>2, <2>3 DEF SlotSet
  <2> HIDE DEF e, c
  <2>5. /\ c \in SlotSet /\ c.esp = e.esp /\ c.done = e.done /\ c.fn = e.fn
        /\ c.data = e.data /\ c.url = e.url /\ c.out = e.out
    BY <2>1, <2>3, <2>4 DEF SlotSet
  <2>6. QED
    BY <2>2, <2>4, <2>5
<1>7. w \in Ctx /\ w.timer = timers[s].own
  BY <1>1, <1>2, ContextOf
<1> HIDE DEF a, c, w
<1>8. y \in Ctx /\ y.c = c /\ y.tcp = a /\ y.timer = w.timer
  BY <1>4, <1>6, <1>7 DEF Ctx
<1> HIDE DEF y
<1>9. Stage(y)
  BY <1>4, <1>5, <1>6, <1>7, <1>8 DEF Stage, Waits, Free
<1>10. Timeless(y)
  BY <1>1, <1>2, <1>5, <1>6, <1>7, <1>8 DEF Timeless, NoTimers
<1>11. Settled(y, k)
  BY <1>4, <1>6, <1>8, <1>9, <1>10, OpenSettles DEF ConnFine
<1>12. Moves(s, k, y)
  <2>1. timers' = [timers EXCEPT ![s] = [own |-> y.timer, old |-> 0]]
    <3>1. [own |-> y.timer, old |-> 0] = timers[s]
      BY <1>5, <1>7, <1>8
    <3>2. QED
      BY <1>1, <1>3, <3>1 DEF HttpTypes
  <2>2. QED
    BY <1>1, <1>3, <1>8, <2>1 DEF Moves, HttpTypes
<1>13. \A t \in Slots : slot[t].esp # k
  BY <1>1, LiveSlot
<1>14. HttpInv'
  BY <1>2, <1>11, <1>12, <1>13, Moved
<1>15. Keeps
  BY <1>1, <1>3, <1>13 DEF Keeps, HttpTypes
<1>16. QED
  BY <1>14, <1>15

\* Where there is none it takes nothing.
LEMMA ConnectOverflowKeeps ==
  ASSUME HttpInv, NEW k \in Conns, NEW q \in Requests, ConnectOverflow(k, q)
  PROVE  HttpInv' /\ Keeps
<1> DEFINE a == Accepted(q)
           d == espconn_disconnect(a)
<1>1. HttpTypes /\ tcp[k].st = "free" /\ tcp' = [tcp EXCEPT ![k] = d] /\ crashed' \in BOOLEAN
      /\ UNCHANGED <<slot, timers, scanning, station>>
  BY DEF HttpInv, ConnectOverflow
<1>2. a \in ConnSet /\ ConnFine(a)
  BY AcceptedConn
<1> HIDE DEF a
<1>3. d \in ConnSet /\ ConnFine(d)
  BY <1>2, Disconnects
<1> HIDE DEF d
<1>4. \A t \in Slots : slot[t].esp # k
  BY <1>1, LiveSlot
<1>5. HttpInv'
  BY <1>1, <1>3, <1>4, ConnMoved
<1>6. Keeps
  BY <1>1, <1>4 DEF Keeps, HttpTypes
<1>7. QED
  BY <1>5, <1>6
\* The peer goes away: here no timer of its slot is armed.
LEMMA PeerCloseKeeps ==
  ASSUME HttpInv, Quiet, NEW k \in Conns, PeerClose(k)
  PROVE  HttpInv' /\ Keeps
<1> DEFINE d == [tcp[k] EXCEPT !.st = "closing", !.est = "CLOSE", !.unacked = FALSE]
<1>1. HttpTypes /\ NoTimers /\ ConnFine(tcp[k]) /\ Calm /\ tcp[k].st = "open" /\ tcp[k] \in ConnSet
      /\ SlotsApart
  BY DEF HttpInv, Quiet, PeerClose, HttpTypes
<1>2. UNCHANGED <<slot, timers, scanning, station, accepts, crashed>>
  BY DEF PeerClose
<1>3. tcp' = [tcp EXCEPT ![k] = d]
  <2>1. tcp' = [tcp EXCEPT ![k].st = "closing", ![k].est = "CLOSE", ![k].unacked = FALSE]
    BY DEF PeerClose
  <2>2. QED
    BY <1>1, <2>1 DEF HttpTypes
<1>4. /\ d \in ConnSet /\ d.st = "closing" /\ d.est = "CLOSE" /\ d.rx = tcp[k].rx
      /\ d.req = tcp[k].req /\ d.refused = tcp[k].refused /\ d.got = tcp[k].got
  BY <1>1 DEF ConnSet
<1> HIDE DEF d
<1>5. ConnFine(d)
  BY <1>1, <1>4 DEF ConnFine
<1>6. Keeps
  BY <1>1, <1>2, <1>3, <1>4 DEF Keeps, HttpTypes
<1>7. CASE \A t \in Slots : slot[t].esp # k
  <2>1. HttpInv'
    BY <1>1, <1>2, <1>3, <1>4, <1>5, <1>7, ConnMoved DEF HttpTypes
  <2>2. QED
    BY <1>6, <2>1
<1>8. CASE \E t \in Slots : slot[t].esp = k
  <2>1. PICK s \in Slots : slot[s].esp = k
    BY <1>8
  <2> DEFINE w == Context(s, k)
             y == [w EXCEPT !.tcp = d]
  <2>2. Live(w, k) /\ w.c = slot[s] /\ w.timer = timers[s].own
    BY <1>1, <2>1, LiveSlot, ContextOf
  <2> HIDE DEF w
  <2>3. y \in Ctx /\ y.c = w.c /\ y.timer = w.timer /\ y.tcp = d
    BY <1>4, <2>2 DEF Live, Ctx
  <2> HIDE DEF y
  <2>4. ~y.timer /\ Timeless(y) /\ Stage(w) /\ y.c.esp = k /\ k # Nobody
    BY <1>1, <2>2, <2>3, ServerAssumption DEF Live, Timeless
  <2>5. DataOK(y.c) /\ (y.c.fn = "file_system" => Serves(y.c))
    <3>1. Waits(w) \/ Answered(w) \/ Serving(w)
      BY <2>4 DEF Stage
    <3>2. CASE Waits(w)
      BY <2>3, <3>2 DEF Waits, DataOK, ApiFns
    <3>3. CASE Answered(w)
      BY <2>3, <3>3 DEF Answered
    <3>4. CASE Serving(w)
      BY <2>3, <3>4 DEF Serving, Serves, DataOK
    <3>5. QED
      BY <3>1, <3>2, <3>3, <3>4
  <2>6. Settled(y, k)
    BY <1>4, <1>5, <2>3, <2>4, <2>5 DEF Settled, Held
  <2>7. Moves(s, k, y)
    <3>1. [own |-> y.timer, old |-> 0] = timers[s]
      BY <1>1, <2>2, <2>3 DEF HttpTypes
    <3>2. timers' = [timers EXCEPT ![s] = [own |-> y.timer, old |-> 0]]
      BY <1>1, <1>2, <3>1 DEF HttpTypes
    <3>3. slot' = [slot EXCEPT ![s] = y.c]
      BY <1>1, <1>2, <2>2, <2>3 DEF HttpTypes
    <3>4. QED
      BY <1>1, <1>2, <1>3, <2>3, <3>2, <3>3 DEF Moves, HttpTypes
  <2>8. \A t \in Slots : t # s => slot[t].esp # k
    BY <1>1, <2>1, ServerAssumption DEF SlotsApart
  <2>9. HttpInv'
    BY <2>1, <2>6, <2>7, <2>8, Moved
  <2>10. QED
    BY <1>6, <2>9
<1>9. QED
  BY <1>7, <1>8

\* The sweep of http_process_disconnect_cb finds the slot of the connection that has
\* ended, and leaves no slot that holds it.
LEMMA DisconnectedKeeps ==
  ASSUME HttpInv, NEW k \in Conns, Disconnected(k)
  PROVE  HttpInv' /\ Keeps
<1> DEFINE swept == {s \in Slots : slot[s].esp # Nobody /\ ShouldClose(slot[s].esp)}
           d == [tcp[k] EXCEPT !.st = "free"]
<1>0. HttpTypes /\ SlotsHeld /\ SlotsApart /\ (\A l \in Conns : ConnFine(tcp[l])) /\ NoTimers
  BY DEF HttpInv
<1>1. /\ slot \in [Slots -> SlotSet] /\ tcp \in [Conns -> ConnSet]
      /\ timers \in [Slots -> [own : BOOLEAN, old : {0}]] /\ tcp[k].st = "closing"
  BY <1>0 DEF HttpTypes, Disconnected
<1>2. /\ tcp' = [tcp EXCEPT ![k] = d]
      /\ slot' = [s \in Slots |-> IF s \in swept THEN http_process_free_connection(slot[s])
                                                 ELSE slot[s]]
      /\ timers' = [s \in Slots |-> IF s \in swept /\ timers[s].own
                                    THEN [own |-> FALSE, old |-> timers[s].old + 1] ELSE timers[s]]
      /\ UNCHANGED <<scanning, station, accepts, crashed>>
  BY DEF Disconnected
<1>3. d \in ConnSet /\ d.rx = tcp[k].rx /\ ConnFine(d)
  <2>1. /\ d \in ConnSet /\ d.rx = tcp[k].rx /\ d.st = "free" /\ d.refused = tcp[k].refused
        /\ d.got = tcp[k].got /\ d.req = tcp[k].req
    BY <1>1 DEF ConnSet
  <2> HIDE DEF d
  <2>2. QED
    BY <1>0, <2>1 DEF ConnFine
<1> HIDE DEF d
<1>4. ASSUME NEW s \in Slots, slot[s].esp # Nobody
      PROVE  /\ slot[s].esp \in Conns
             /\ s \in swept => ~timers[s].own
             /\ s \notin swept => slot[s].esp # k
  <2>1. slot[s].esp \in Conns
    BY <1>1, <1>4 DEF SlotSet
  <2>2. PICK l \in Conns : l = slot[s].esp
    BY <2>1
  <2> DEFINE w == Context(s, l)
  <2>3. Held(w) /\ w.tcp = tcp[l] /\ w.timer = timers[s].own /\ ConnFine(tcp[l])
    BY <1>0, <2>2, LiveSlot, ContextOf
  <2> HIDE DEF w
  <2>4. s \in swept <=> tcp[l].est = "CLOSE"
    BY <1>4, <2>2 DEF ShouldClose
  <2>5. s \in swept => ~timers[s].own
    BY <2>3, <2>4 DEF Held, ConnFine
  <2>6. s \notin swept => l # k
    BY <1>1, <2>3, <2>4 DEF Held
  <2>7. QED
    BY <2>1, <2>2, <2>5, <2>6
<1>5. timers' = timers
  BY <1>1, <1>2, <1>4
<1>6. ASSUME NEW s \in swept
      PROVE  /\ slot'[s] \in SlotSet /\ slot'[s].esp = Nobody /\ Free(slot'[s]) /\ ~timers'[s].own
             /\ slot'[s].url = slot[s].url /\ slot'[s].fn = "NULL"
  <2>1. slot'[s] = http_process_free_connection(slot[s]) /\ slot[s] \in SlotSet
    BY <1>1, <1>2
  <2>2. ~timers'[s].own
    BY <1>4, <1>5
  <2>3. QED
    BY <2>1, <2>2, FreesSlot DEF Free
<1>7. \A s \in Slots : s \notin swept => slot'[s] = slot[s]
  BY <1>2
<1>8. tcp'[k] = d /\ \A l \in Conns : l # k => tcp'[l] = tcp[l]
  BY <1>1, <1>2
<1>9. HttpTypes'
  <2>1. \A s \in Slots : slot'[s] \in SlotSet
    BY <1>1, <1>6, <1>7
  <2>2. slot' \in [Slots -> SlotSet]
    <3>1. slot' = [s \in Slots |-> slot'[s]]
      BY <1>2
    <3>2. QED
      BY <2>1, <3>1
  <2>3. QED
    BY <1>0, <1>1, <1>2, <1>3, <1>5, <2>2 DEF HttpTypes
<1>10. SlotsHeld'
  <2>1. ASSUME NEW t \in Slots
        PROVE  (IF slot[t].esp = Nobody THEN Free(slot[t]) /\ ~timers[t].own
                ELSE Held(Context(t, slot[t].esp)))'
    <3>1. CASE t \in swept
      BY <1>6, <3>1
    <3>2. CASE t \notin swept /\ slot[t].esp = Nobody
      BY <1>0, <1>5, <1>7, <3>2 DEF SlotsHeld
    <3>3. CASE t \notin swept /\ slot[t].esp # Nobody
      <4>1. slot[t].esp \in Conns /\ slot[t].esp # k /\ Held(Context(t, slot[t].esp))
        BY <1>0, <1>4, <3>3 DEF SlotsHeld
      <4>2. slot'[t] = slot[t] /\ tcp'[slot[t].esp] = tcp[slot[t].esp]
        BY <1>7, <1>8, <3>3, <4>1
      <4>3. /\ Context(t, slot[t].esp)'.c = Context(t, slot[t].esp).c
            /\ Context(t, slot[t].esp)'.tcp = Context(t, slot[t].esp).tcp
            /\ Context(t, slot[t].esp)'.timer = Context(t, slot[t].esp).timer
        BY <1>5, <4>2 DEF Context
      <4>4. Held(Context(t, slot[t].esp)')
        BY <4>1, <4>3, HeldSame
      <4>5. QED
        BY <3>3, <4>2, <4>4
    <3>4. QED
      BY <3>1, <3>2, <3>3
  <2>2. QED
    BY <2>1 DEF SlotsHeld
<1>11. SlotsApart'
  <2>1. ASSUME NEW s \in Slots, NEW t \in Slots, slot'[s].esp = slot'[t].esp, slot'[s].esp # Nobody
        PROVE  s = t
    <3>1. s \notin swept /\ t \notin swept
      BY <1>6, <2>1
    <3>2. QED
      BY <1>0, <1>7, <2>1, <3>1 DEF SlotsApart
  <2>2. QED
    BY <2>1 DEF SlotsApart
<1>12. (\A l \in Conns : ConnFine(tcp[l]))'
  BY <1>0, <1>3, <1>8
<1>13. NoTimers'
  <2>1. ASSUME Calm, NEW s \in Slots
        PROVE  ~timers'[s].own /\ slot'[s].fn \notin TimerFns /\ slot'[s].url \notin TimerPaths
    <3>1. ~timers[s].own /\ slot[s].fn \notin TimerFns /\ slot[s].url \notin TimerPaths
      BY <1>0, <2>1 DEF NoTimers
    <3>2. CASE s \in swept
      BY <1>6, <3>1, <3>2 DEF TimerFns
    <3>3. CASE s \notin swept
      BY <1>5, <1>7, <3>1, <3>3
    <3>4. QED
      BY <3>2, <3>3
  <2>2. QED
    BY <2>1 DEF NoTimers
<1>14. Keeps
  <2>1. \A l \in Conns : tcp'[l].rx = tcp[l].rx
    BY <1>3, <1>8
  <2>2. QED
    BY <1>4, <2>1 DEF Keeps
<1>15. QED
  BY <1>9, <1>10, <1>11, <1>12, <1>13, <1>14 DEF HttpInv

\* The wifi library changes no slot and no connection.
LEMMA Unmoved ==
  ASSUME HttpInv, UNCHANGED <<slot, tcp, timers>>, scanning' \in BOOLEAN, crashed' \in BOOLEAN,
         station' \in {"idle", "connecting", "failed", "gotip"}
  PROVE  HttpInv' /\ Keeps
<1>0. HttpTypes /\ SlotsHeld /\ SlotsApart /\ (\A l \in Conns : ConnFine(tcp[l])) /\ NoTimers
  BY DEF HttpInv
<1>1. HttpTypes'
  BY <1>0 DEF HttpTypes
<1>2. SlotsHeld'
  <2>1. ASSUME NEW t \in Slots
        PROVE  (IF slot[t].esp = Nobody THEN Free(slot[t]) /\ ~timers[t].own
                ELSE Held(Context(t, slot[t].esp)))'
    <3>1. CASE slot[t].esp = Nobody
      BY <1>0, <3>1 DEF SlotsHeld
    <3>2. CASE slot[t].esp # Nobody
      <4>1. Held(Context(t, slot[t].esp))
        BY <1>0, <3>2 DEF SlotsHeld
      <4>2. /\ Context(t, slot[t].esp)'.c = Context(t, slot[t].esp).c
            /\ Context(t, slot[t].esp)'.tcp = Context(t, slot[t].esp).tcp
            /\ Context(t, slot[t].esp)'.timer = Context(t, slot[t].esp).timer
        BY DEF Context
      <4>3. Held(Context(t, slot[t].esp)')
        BY <4>1, <4>2, HeldSame
      <4>4. QED
        BY <3>2, <4>3
    <3>3. QED
      BY <3>1, <3>2
  <2>2. QED
    BY <2>1 DEF SlotsHeld
<1>3. SlotsApart' /\ NoTimers' /\ (\A l \in Conns : ConnFine(tcp[l]))'
  BY <1>0 DEF SlotsApart, NoTimers
<1>4. Keeps
  BY DEF Keeps
<1>5. QED
  BY <1>1, <1>2, <1>3, <1>4 DEF HttpInv

\* The pool as http_process_init leaves it.
LEMMA InitHolds ==
  ASSUME Init
  PROVE  HttpInv
<1> DEFINE c == [esp |-> Nobody, state |-> ON_URL, url |-> "", method |-> "DELETE", host |-> "unsaved",
                 ohdr |-> {}, save |-> FALSE, body |-> "none", fn |-> "NULL", data |-> NoData,
                 file |-> "", done |-> FALSE, out |-> <<>>]
<1>1. c \in SlotSet
  <2>1. NoData \in Int /\ <<>> \in Seq(Token) /\ "" \in Url /\ "DELETE" \in Method
    BY DEF NoData, Url, Method
  <2>2. QED
    BY <2>1 DEF SlotSet
<1>2. c.esp = Nobody /\ Free(c) /\ c.fn \notin TimerFns /\ c.url \notin TimerPaths
  BY DEF Free, TimerFns, TimerPaths
<1>3. slot = [s \in Slots |-> c] /\ tcp = [k \in Conns |-> NoConn]
      /\ timers = [s \in Slots |-> [own |-> FALSE, old |-> 0]]
      /\ scanning = FALSE /\ station = "idle" /\ crashed = FALSE
  BY DEF Init, http_process_init
<1> HIDE DEF c
<1>4. NoConn \in ConnSet /\ ConnFine(NoConn)
  BY FreeConn
<1>5. HttpTypes
  BY <1>1, <1>3, <1>4 DEF HttpTypes
<1>6. SlotsHeld /\ SlotsApart /\ NoTimers
  BY <1>2, <1>3 DEF SlotsHeld, SlotsApart, NoTimers
<1>7. \A k \in Conns : ConnFine(tcp[k])
  BY <1>3, <1>4
<1>8. QED
  BY <1>5, <1>6, <1>7 DEF HttpInv

\* One step of the server.
LEMMA NextKeeps ==
  ASSUME HttpInv, Quiet, [Next]_vars
  PROVE  HttpInv' /\ Keeps
<1>0. HttpTypes
  BY DEF HttpInv
<1>1. ASSUME NEW k \in Conns, NEW q \in Requests, Connect(k, q) PROVE HttpInv' /\ Keeps
  BY <1>1, ConnectKeeps
<1>2. ASSUME NEW k \in Conns, NEW q \in Requests, ConnectOverflow(k, q) PROVE HttpInv' /\ Keeps
  BY <1>2, ConnectOverflowKeeps
<1>3. ASSUME NEW k \in Conns, Receive(k) PROVE HttpInv' /\ Keeps
  BY <1>3, ReceiveKeeps
<1>4. ASSUME NEW k \in Conns, ReceiveMalformed(k) PROVE HttpInv' /\ Keeps
  BY <1>4, ReceiveMalformedKeeps
<1>5. ASSUME NEW k \in Conns, Sent(k) PROVE HttpInv' /\ Keeps
  BY <1>5, SentKeeps
<1>6. ASSUME NEW k \in Conns, PeerClose(k) PROVE HttpInv' /\ Keeps
  BY <1>6, PeerCloseKeeps
<1>7. ASSUME NEW k \in Conns, Disconnected(k) PROVE HttpInv' /\ Keeps
  BY <1>7, DisconnectedKeeps
<1>8. ASSUME NEW s \in Slots, CgiTimer(s) PROVE HttpInv' /\ Keeps
  BY <1>8, CgiTimerKeeps
<1>9. ASSUME NEW s \in Slots, LeftTimer(s) PROVE HttpInv' /\ Keeps
  BY <1>9, NoLeftTimer
<1>10. ASSUME ScanDone PROVE HttpInv' /\ Keeps
  BY <1>0, <1>10, Unmoved DEF ScanDone, HttpTypes
<1>11. ASSUME StationSettles PROVE HttpInv' /\ Keeps
  <2>1. UNCHANGED <<slot, tcp, timers>> /\ scanning' \in BOOLEAN /\ crashed' \in BOOLEAN
        /\ station' \in {"idle", "connecting", "failed", "gotip"}
    BY <1>0, <1>11 DEF StationSettles, HttpTypes
  <2>2. QED
    BY <2>1, Unmoved
<1>12. ASSUME UNCHANGED vars PROVE HttpInv' /\ Keeps
  BY <1>0, <1>12, Unmoved DEF vars, HttpTypes
<1>13. QED
  BY <1>1, <1>2, <1>3, <1>4, <1>5, <1>6, <1>7, <1>8, <1>9, <1>10, <1>11, <1>12 DEF Next
-----------------------------------------------------------------------------
(* The theorems                                                            *)

\* Every state of the server satisfies the invariant.
THEOREM HttpInvariant == ASSUME Quiet PROVE Spec => []HttpInv
<1>1. Init => HttpInv
  BY InitHolds
<1>2. HttpInv /\ [Next]_vars => HttpInv'
  BY NextKeeps
<1>3. QED
  BY <1>1, <1>2, PTL DEF Spec

\* A slot has its type, and the position in the file it serves is in the file.
LEMMA TypesHold ==
  ASSUME HttpInv
  PROVE  TypeOK
<1>1. HttpTypes /\ SlotsHeld
  BY DEF HttpInv
<1>2. ASSUME NEW s \in Slots PROVE SlotType(slot[s])
  <2> DEFINE c == slot[s]
  <2>1. c \in SlotSet
    BY <1>1 DEF HttpTypes
  <2>2. DataOK(c) /\ (c.fn = "file_system" => c.data = NoData \/ InFile(c))
    <3>1. CASE c.esp = Nobody
      <4>1. Free(c)
        BY <1>1, <3>1 DEF SlotsHeld
      <4>2. QED
        BY <4>1 DEF Free, DataOK
    <3>2. CASE c.esp # Nobody
      <4>1. PICK k \in Conns : slot[s].esp = k
        BY <2>1, <3>2 DEF SlotSet
      <4> DEFINE w == Context(s, k)
      <4>2. Held(w) /\ w.c = c
        BY <1>1, <4>1, LiveSlot, ContextOf
      <4> HIDE DEF w
      <4>3. Waits(w) \/ Answered(w) \/ Serving(w) \/ (DataOK(w.c) /\ (w.c.fn = "file_system" => Serves(w.c)))
        BY <4>2 DEF Held, Stage
      <4>4. CASE Waits(w)
        BY <4>2, <4>4 DEF Waits, DataOK
      <4>5. CASE Answered(w)
        BY <4>2, <4>5 DEF Answered
      <4>6. CASE Serving(w)
        BY <4>2, <4>6 DEF Serving, Serves, DataOK
      <4>7. CASE DataOK(w.c) /\ (w.c.fn = "file_system" => Serves(w.c))
        BY <4>2, <4>7 DEF Serves
      <4>8. QED
        BY <4>3, <4>4, <4>5, <4>6, <4>7
    <3>3. QED
      BY <3>1, <3>2
  <2> HIDE DEF c
  <2>3. c.fn = "file_system" /\ c.data # NoData => c.data <= FileSize[c.file]
    <3>1. ASSUME InFile(c) PROVE c.data <= FileSize[c.file]
      BY <3>1, CgiAssumption DEF InFile
    <3>2. QED
      BY <2>2, <3>1
  <2>4. SlotType(c)
    BY <2>1, <2>2, <2>3 DEF SlotType, SlotSet, DataOK, InFile, RuleFns
  <2>5. QED
    BY <2>4 DEF c
<1>3. \A k \in Conns : tcp[k] \in ConnSet
  BY <1>1 DEF HttpTypes
<1>4. timers \in [Slots -> [own : BOOLEAN, old : Nat]]
  BY <1>1 DEF HttpTypes
<1>5. QED
  BY <1>1, <1>2, <1>3, <1>4 DEF TypeOK, ConnSet, HttpTypes

\* No two slots hold one connection, and none holds one that has been freed.
LEMMA OwnershipHolds ==
  ASSUME HttpInv
  PROVE  SlotOwnership
<1>1. HttpTypes /\ SlotsApart
  BY DEF HttpInv
<1>2. ASSUME NEW s \in Slots, slot[s].esp # Nobody
      PROVE  tcp[slot[s].esp].st # "free" /\ SlotsOf(slot[s].esp) = {s}
  <2>1. slot[s].esp \in Conns
    BY <1>1, <1>2 DEF HttpTypes, SlotSet
  <2>2. tcp[slot[s].esp].st # "free"
    BY <2>1, LiveSlot
  <2>3. SlotsOf(slot[s].esp) = {s}
    BY <1>1, <1>2 DEF SlotsOf, SlotsApart
  <2>4. QED
    BY <2>2, <2>3
<1>3. QED
  BY <1>2 DEF SlotOwnership

\* PoolInv, the slots of the pool, each with its type and a connection of its own: the
\* sweep of http_process_disconnect_cb finds every slot whose espconn block is freed.
THEOREM PoolHolds == ASSUME Quiet PROVE Spec => []PoolInv
<1>1. HttpInv => PoolInv
  BY TypesHold, OwnershipHolds DEF PoolInv
<1>2. QED
  BY <1>1, HttpInvariant, PTL

\* NoAnswerBeforeRequest: what http_new_connection leaves of the slot's last request,
\* its state included, never makes the dispatcher answer the next one too early.
THEOREM AnswersLate == ASSUME Quiet PROVE Spec => []NoAnswerBeforeRequest
<1>1. HttpInv => NoAnswerBeforeRequest
  <2>1. SUFFICES ASSUME HttpInv, NEW k \in Conns, tcp[k].got # <<>> PROVE HeadersIn(k)
    BY DEF NoAnswerBeforeRequest
  <2>2. HeadersGone(tcp[k].rx) /\ tcp[k].rx \in Seq(EventSet)
    BY <2>1 DEF HttpInv, ConnFine, HttpTypes, ConnSet
  <2>3. DOMAIN tcp[k].rx = 1 .. Len(tcp[k].rx)
    BY <2>2
  <2>4. QED
    BY <2>2, <2>3 DEF HeadersIn, HeadersGone
<1>2. QED
  BY <1>1, HttpInvariant, PTL

\* NoPacketRefused: http_transmit offers espconn a packet only when it takes one.
THEOREM PacketsTaken == ASSUME Quiet PROVE Spec => []NoPacketRefused
<1>1. HttpInv => NoPacketRefused
  BY DEF HttpInv, ConnFine, NoPacketRefused
<1>2. QED
  BY <1>1, HttpInvariant, PTL

\* SomethingWillCall: no CGI is left without a packet to be acknowledged or a timer.
THEOREM AlwaysCalled == ASSUME Quiet PROVE Spec => []SomethingWillCall
<1>1. HttpInv => SomethingWillCall
  <2>1. SUFFICES ASSUME HttpInv, NEW s \in Slots, slot[s].esp # Nobody, tcp[slot[s].esp].st = "open",
                        tcp[slot[s].esp].rx = <<>>
                 PROVE  tcp[slot[s].esp].unacked \/ timers[s].own
    BY DEF SomethingWillCall
  <2>2. HttpTypes
    BY <2>1 DEF HttpInv
  <2>3. PICK k \in Conns : slot[s].esp = k
    BY <2>1, <2>2 DEF HttpTypes, SlotSet
  <2> DEFINE w == Context(s, k)
  <2>4. Live(w, k) /\ w.tcp = tcp[k] /\ w.timer = timers[s].own
    BY <2>1, <2>2, <2>3, LiveSlot, ContextOf
  <2> HIDE DEF w
  <2>5. w.tcp.unacked \/ w.timer
    BY <2>1, <2>3, <2>4 DEF Live, Stage, Serving, Answered
  <2>6. QED
    BY <2>3, <2>4, <2>5
<1>2. QED
  BY <1>1, HttpInvariant, PTL

\* ParserKeepsSlot: http_parser_execute goes on with a slot that is still its own.
THEOREM ParserSafe == ASSUME Quiet PROVE Spec => ParserKeepsSlot
<1> DEFINE Safe == \A s \in Slots : LET k == slot[s].esp
                                    IN  k # Nobody /\ tcp[k].st = "open" /\ tcp'[k].rx # tcp[k].rx
                                          => slot'[s].esp = k
<1>1. HttpInv /\ [Next]_vars => [Safe]_vars
  BY NextKeeps DEF Keeps
<1>2. Spec => []HttpInv /\ [][Next]_vars
  BY HttpInvariant, PTL DEF Spec
<1> HIDE DEF Safe
<1>3. Spec => [][Safe]_vars
  BY <1>1, <1>2, PTL
<1>4. QED
  BY <1>3 DEF ParserKeepsSlot, Safe

\* NoTimerInFreedBlock: a CGI that is done leaves no armed timer in the block it frees.
THEOREM TimersDisarmed == ASSUME Quiet PROVE Spec => NoTimerInFreedBlock
<1> DEFINE Safe == \A s \in Slots : slot'[s].done => ~timers'[s].own /\ timers'[s].old <= timers[s].old
<1>1. HttpInv => \A s \in Slots : slot[s].done => ~timers[s].own
  <2>1. SUFFICES ASSUME HttpInv, NEW s \in Slots, slot[s].done PROVE ~timers[s].own
    OBVIOUS
  <2>2. HttpTypes /\ SlotsHeld
    BY <2>1 DEF HttpInv
  <2>3. CASE slot[s].esp = Nobody
    BY <2>2, <2>3 DEF SlotsHeld
  <2>4. CASE slot[s].esp # Nobody
    <3>1. PICK k \in Conns : slot[s].esp = k
      BY <2>2, <2>4 DEF HttpTypes, SlotSet
    <3> DEFINE w == Context(s, k)
    <3>2. Held(w) /\ w.c = slot[s] /\ w.timer = timers[s].own
      BY <2>1, <2>2, <3>1, LiveSlot, ContextOf
    <3> HIDE DEF w
    <3>3. ~w.timer
      BY <2>1, <3>2 DEF Held, Stage, Waits, Answered, Serving
    <3>4. QED
      BY <3>2, <3>3
  <2>5. QED
    BY <2>3, <2>4
<1>a. (HttpInv => \A s \in Slots : slot[s].done => ~timers[s].own)'
  BY <1>1, PTL
<1>2. HttpInv /\ HttpInv' /\ [Next]_vars => [Safe]_vars
  <2>1. SUFFICES ASSUME HttpInv, HttpInv', NEW s \in Slots, slot'[s].done
                 PROVE  ~timers'[s].own /\ timers'[s].old <= timers[s].old
    BY DEF Safe
  <2>2. timers[s].old = 0 /\ timers'[s].old = 0
    BY <2>1 DEF HttpInv, HttpTypes
  <2>3. QED
    BY <1>a, <2>1, <2>2
<1>3. Spec => []HttpInv /\ [][Next]_vars
  BY HttpInvariant, PTL DEF Spec
<1> HIDE DEF Safe
<1>4. Spec => [][Safe]_vars
  BY <1>2, <1>3, PTL
<1>5. QED
  BY <1>4 DEF NoTimerInFreedBlock, Safe
=============================================================================
