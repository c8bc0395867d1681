----------------------------- MODULE MC_HttpFiles -----------------------------
(* Static files: peers that go away, malformed input, and more connections   *)
(* than pool slots.                                                          *)
EXTENDS HttpServer

Req(url, method, host) ==
    [url |-> url, method |-> method, host |-> host, body |-> "none", malformed |-> FALSE]

\* One file of two reads (the second one short), and an empty file.
MCFileSize == [f \in {"/index.html", "/cats.html"} |-> IF f = "/index.html" THEN 3 ELSE 0]

MCRequests ==
    { [Req("/", "GET", "domain") EXCEPT !.malformed = TRUE], Req("/cats", "GET", "domain"),
      Req("/index.html", "GET", "other"), Req("/none", "GET", "domain") }

MCSymmetry == Permutations(Conns)
=============================================================================
