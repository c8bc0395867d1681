------------------------------ MODULE MC_HttpApi ------------------------------
(* Every kind of request, API calls with their timers among them.            *)
EXTENDS HttpServer

Req(url, method, host) ==
    [url |-> url, method |-> method, host |-> host, body |-> "none", malformed |-> FALSE]
Post(url, body) == [Req(url, "POST", "domain") EXCEPT !.body = body]

MCFileSize == [f \in {"/index.html"} |-> 3]

FileRequests ==
    { Req("/", "GET", "domain"), Req("/index.html", "GET", "other"),
      Req("/none", "GET", "domain"), Req("/", "GET", "missing"), Req("/", "OPTIONS", "domain") }

ApiRequests ==
    { Post("/api/wifi/status", "none"), Post("/api/wifi/scan", "none"),
      Post("/api/wifi/connect", "valid"), Post("/api/wifi/connect", "invalid"),
      Post("/api/wifi/connect", "none"), Post("/api/wifi/disconnect", "none"),
      Post("/api/relay/state", "none"), Post("/api/relay/toggle", "valid"),
      Post("/api/relay/toggle", "none"), Post("/api/dht/read", "none") }

MCRequests == FileRequests \cup ApiRequests
TimerRequests == {Post("/api/wifi/scan", "none"), Post("/api/wifi/connect", "valid"),
                  Req("/", "GET", "domain")}

\* Requests that the host check is to stop.
ForeignRequests ==
    FileRequests \cup {Req("/api/relay/state", "POST", "other")}

MCSymmetry == Permutations(Conns)
=============================================================================
