----------------------------- MODULE MC_Internet -----------------------------
(***************************************************************************)
(* The station's way to the Internet and the soft AP's leases: the         *)
(* resolver, the HTTP client, and the DHCP server and client.  A behaviour *)
(* exercises one of them; what the others may do to it is in its actions.  *)
(***************************************************************************)
EXTENDS Dns, HttpClient, DhcpServer, DhcpClient

VARIABLE unit   \* the part that this behaviour exercises

MCNameOf == [c \in Callers |-> IF c = "mqtt" THEN <<"m", "org">> ELSE <<"w", "com">>]
MCLeaseTimes == {1, 3, Infinite}

Init ==
    /\ DnsInit /\ ClientInit /\ DhcpsInit /\ DhcpInit
    /\ unit \in {"resolver", "client", "leases", "address"}
    /\ unit # "resolver" => dns_random = 0

Next ==
    \/ unit = "resolver" /\ DnsNext    /\ UNCHANGED <<unit, clientVars, dhcpsVars, dhcpVars>>
    \/ unit = "client"   /\ ClientNext /\ UNCHANGED <<unit, dnsVars, dhcpsVars, dhcpVars>>
    \/ unit = "leases"   /\ DhcpsNext  /\ UNCHANGED <<unit, dnsVars, clientVars, dhcpVars>>
    \/ unit = "address"  /\ DhcpNext   /\ UNCHANGED <<unit, dnsVars, clientVars, dhcpsVars>>

vars == <<unit, dnsVars, clientVars, dhcpsVars, dhcpVars>>

Spec == Init /\ [][Next]_vars

\* lwIP's timers and the HTTP client's run, and TCP ends an attempt to connect.  No
\* server is assumed to answer.
Fairness ==
    /\ WF_dnsVars(unit = "resolver" /\ DnsTimer)
    /\ \A c \in Slots : /\ WF_clientVars(unit = "client" /\ DnsTimeout(c))
                        /\ WF_clientVars(unit = "client" /\ Settles(c))
    /\ DhcpFairness

LiveSpec == Spec /\ Fairness

\* Whatever servers and timers do, a caller of the resolver is called back (dns.c),
\* a client has its connection or gives its slot back (http_client.c; one that has
\* its connection may wait for its server for ever), and an address whose renewal is due
\* is confirmed or given up (dhcp.c).
WaitsEnd == CalledBack /\ ClientsEnd /\ RenewalEnds
==============================================================================
