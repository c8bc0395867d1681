----------------------------- MODULE DhcpProofs -----------------------------
(***************************************************************************)
(* Proofs about the DHCP client (DhcpClient), for every set of addresses   *)
(* and lease times and every width of the counters, and about the server   *)
(* (DhcpServer), for every range of addresses and set of stations.         *)
(***************************************************************************)
EXTENDS DhcpClient, DhcpServer, SequenceLemmas

-----------------------------------------------------------------------------
(* The inductive invariant                                                 *)

Ip == Addresses \cup {AnyAddress}
LeaseTime == {Infinite} \cup 0 .. TimerRange - 1

ClientFields == {"state", "tries", "armed", "xid", "offered", "t1_renew", "t2_rebind", "t1", "t2",
                 "probes", "nameless"}
StationFields == {"dhcp", "netif", "xid", "requests", "epoch"}

IsClient(d) ==
    /\ d = [f \in ClientFields |-> d[f]]
    /\ d.state \in States /\ d.tries \in 0 .. TriesRange - 1 /\ d.armed \in BOOLEAN /\ d.xid \in Nat
    /\ d.offered \in Ip /\ d.t1_renew \in LeaseTime /\ d.t2_rebind \in LeaseTime
    /\ d.t1 \in 0 .. TimerRange - 1 /\ d.t2 \in 0 .. TimerRange - 1
    /\ d.probes \in Nat /\ d.nameless \in BOOLEAN

Netif == [ip : Ip, up : BOOLEAN]
RequestSet == [type : {"DISCOVER", "REQUEST"}, xid : Nat, ip : Ip, epoch : Nat]

IsStation(x) ==
    /\ x = [f \in StationFields |-> x[f]]
    /\ IsClient(x.dhcp) /\ x.netif \in Netif
    /\ x.xid \in Nat /\ x.requests \subseteq RequestSet /\ x.epoch \in Nat

\* A client that has been offered an address, and still keeps it.
Holding == {"REQUESTING", "CHECKING", "BOUND", "RENEWING", "REBINDING", "REBOOTING"}

Sound(x) ==
    /\ IsStation(x)
    /\ x.dhcp.xid <= x.xid
    /\ x.dhcp.state \in Holding => x.dhcp.offered \in Addresses

Waits(x) ==
    x.dhcp.state \notin {"OFF", "BOUND"} =>
        x.dhcp.armed \/ x.dhcp.nameless \/ (x.dhcp.state = "RENEWING" /\ x.dhcp.tries = 0)

\* Identifiers are not used before their time, and what was sent with the present
\* one was sent in the present epoch.
Past(x) == \A r \in x.requests : r.xid <= x.xid
Fresh(x) == \A r \in x.requests : r.xid = x.dhcp.xid => r.epoch = x.epoch

\* An address that was asked for in this epoch.
Confirmed(x, ip) == \E r \in x.requests : r.type = "REQUEST" /\ r.ip = ip /\ r.epoch = x.epoch

\* The offer that is kept was asked for, and the interface is up with that address.
Leased(x) ==
    /\ x.dhcp.state \in Holding => Confirmed(x, x.dhcp.offered)
    /\ x.netif.up /\ x.dhcp.state # "OFF" =>
         x.dhcp.state \in {"BOUND", "RENEWING", "REBINDING"} /\ x.netif.ip = x.dhcp.offered

Lawful(x) ==
    /\ Past(x) /\ Leased(x)
    /\ x.dhcp.state # "OFF" => x.dhcp.xid = x.xid /\ Fresh(x)

\* Whatever memory there is, the client waits for something; while there is memory,
\* it is deaf to earlier rounds.
DhcpIndInv == Sound(station) /\ Waits(station) /\ Lawful(station)

-----------------------------------------------------------------------------
(* The operators, by the fields they change                                *)

\* What the types of a station say of its numbers.
LEMMA StationFacts ==
  ASSUME NEW x, IsStation(x)
  PROVE  /\ x.xid \in Nat /\ x.epoch \in Nat /\ x.requests \subseteq RequestSet /\ x.netif \in Netif
         /\ x.dhcp.state \in States /\ x.dhcp.tries \in 0 .. TriesRange - 1 /\ x.dhcp.armed \in BOOLEAN
         /\ x.dhcp.xid \in Nat /\ x.dhcp.offered \in Ip /\ x.dhcp.nameless \in BOOLEAN
         /\ x.dhcp.t1 \in 0 .. TimerRange - 1 /\ x.dhcp.t2 \in 0 .. TimerRange - 1
         /\ x.dhcp.t1_renew \in LeaseTime /\ x.dhcp.t2_rebind \in LeaseTime /\ x.dhcp.probes \in Nat
  BY Zenon DEF IsStation, IsClient

\* A station whose client is replaced by another.
LEMMA Replaced ==
  ASSUME NEW x, IsStation(x), NEW d, IsClient(d), NEW y, y = [x EXCEPT !.dhcp = d]
  PROVE  /\ IsStation(y) /\ y.dhcp = d
         /\ y.netif = x.netif /\ y.xid = x.xid /\ y.requests = x.requests /\ y.epoch = x.epoch
<1>1. y.dhcp = d /\ y.netif = x.netif /\ y.xid = x.xid /\ y.requests = x.requests /\ y.epoch = x.epoch
  BY DEF IsStation, StationFields
<1>2. y = [f \in StationFields |-> y[f]]
  BY DEF IsStation, StationFields
<1>3. QED
  BY <1>1, <1>2, Zenon DEF IsStation

\* The client's and the interface's fields that no operator but a few changes.
Same(x, y) ==
    /\ y.netif = x.netif /\ y.xid = x.xid /\ y.requests = x.requests /\ y.epoch = x.epoch
    /\ y.dhcp.xid = x.dhcp.xid /\ y.dhcp.offered = x.dhcp.offered /\ y.dhcp.nameless = x.dhcp.nameless

\* dhcp_set_state
LEMMA SetState ==
  ASSUME NEW x, IsStation(x), NEW s \in States, NEW y, y = dhcp_set_state(x, s)
  PROVE  /\ IsStation(y) /\ Same(x, y) /\ y.dhcp.state = s
         /\ y.dhcp.tries = IF x.dhcp.state = s THEN x.dhcp.tries ELSE 0
         /\ y.dhcp.armed = (x.dhcp.state = s /\ x.dhcp.armed)
<1>1. CASE x.dhcp.state = s
  <2>1. y = x
    BY <1>1 DEF dhcp_set_state
  <2>2. x.dhcp.armed \in BOOLEAN
    BY StationFacts
  <2>3. QED
    BY <1>1, <2>1, <2>2 DEF Same
<1>2. CASE x.dhcp.state # s
  <2> DEFINE d == x.dhcp
             e == [d EXCEPT !.state = s, !.tries = 0, !.armed = FALSE]
  <2>1. /\ e.state = s /\ e.tries = 0 /\ e.armed = FALSE
        /\ e.xid = d.xid /\ e.offered = d.offered /\ e.nameless = d.nameless
        /\ e.t1_renew = d.t1_renew /\ e.t2_rebind = d.t2_rebind /\ e.t1 = d.t1 /\ e.t2 = d.t2
        /\ e.probes = d.probes /\ e = [f \in ClientFields |-> e[f]]
    BY DEF IsStation, IsClient, ClientFields
  <2>2. 0 \in 0 .. TriesRange - 1
    BY DhcpAssumption
  <2>3. IsClient(e)
    <3> HIDE DEF e
    <3>1. QED
      BY <2>1, <2>2, Zenon DEF IsStation, IsClient
  <2>4. y = [x EXCEPT !.dhcp.state = s, !.dhcp.tries = 0, !.dhcp.armed = FALSE]
    BY <1>2 DEF dhcp_set_state
  <2>5. y = [x EXCEPT !.dhcp = e]
    <3>1. y.dhcp = e
      BY <2>4 DEF IsStation, IsClient, StationFields, ClientFields
    <3>2. QED
      BY <2>4, <3>1 DEF IsStation, StationFields
  <2> HIDE DEF e
  <2>6. IsStation(y) /\ y.dhcp = e
        /\ y.netif = x.netif /\ y.xid = x.xid /\ y.requests = x.requests /\ y.epoch = x.epoch
    BY <2>3, <2>5, Replaced
  <2>7. QED
    BY <1>2, <2>1, <2>6 DEF Same
<1>3. QED
  BY <1>1, <1>2

\* What every message leaves alone.
Unsaid(x, y) ==
    /\ y.netif = x.netif /\ y.epoch = x.epoch
    /\ y.dhcp.state = x.dhcp.state /\ y.dhcp.tries = x.dhcp.tries /\ y.dhcp.armed = x.dhcp.armed
    /\ y.dhcp.offered = x.dhcp.offered /\ y.dhcp.nameless = x.dhcp.nameless

Message(type, id, ip, e) == [type |-> type, xid |-> id, ip |-> ip, epoch |-> e]

Creates(x, y, id, mine, rs) == y = [x EXCEPT !.xid = id, !.dhcp.xid = mine, !.requests = rs]

\* dhcp_create_msg: an identifier, and a message that may be answered.
LEMMA Created ==
  ASSUME NEW x, IsStation(x), NEW id \in Nat, NEW mine \in Nat, NEW rs \in SUBSET RequestSet,
         NEW y, Creates(x, y, id, mine, rs)
  PROVE  IsStation(y) /\ Unsaid(x, y) /\ y.xid = id /\ y.dhcp.xid = mine /\ y.requests = rs
<1> DEFINE d == x.dhcp
           e == [d EXCEPT !.xid = mine]
<1>1. /\ e.state = d.state /\ e.tries = d.tries /\ e.armed = d.armed
      /\ e.xid = mine /\ e.offered = d.offered /\ e.nameless = d.nameless
      /\ e.t1_renew = d.t1_renew /\ e.t2_rebind = d.t2_rebind /\ e.t1 = d.t1 /\ e.t2 = d.t2
      /\ e.probes = d.probes /\ e = [f \in ClientFields |-> e[f]]
  BY DEF IsStation, IsClient, ClientFields
<1>2. IsClient(e)
  <2> HIDE DEF e
  <2>1. QED
    BY <1>1, Zenon DEF IsStation, IsClient
<1>3. y.dhcp = e
  BY DEF Creates, IsStation, IsClient, StationFields, ClientFields
<1>4. y.xid = id /\ y.requests = rs /\ y.netif = x.netif /\ y.epoch = x.epoch
  BY DEF Creates, IsStation, StationFields
<1>5. y = [f \in StationFields |-> y[f]]
  BY DEF Creates, IsStation, StationFields
<1> HIDE DEF e
<1>6. IsStation(y)
  BY <1>2, <1>3, <1>4, <1>5 DEF IsStation
<1>7. QED
  BY <1>1, <1>3, <1>4, <1>6 DEF Unsaid

\* A REQUEST goes out with the identifier of the exchange; or there is no memory.
LEMMA RequestSent ==
  ASSUME NEW x, IsStation(x), NEW fails \in BOOLEAN, NEW y, y = Send(x, "REQUEST", fails)
  PROVE  /\ IsStation(y) /\ Unsaid(x, y) /\ y.xid = x.xid /\ y.dhcp.xid = x.dhcp.xid
         /\ x.requests \subseteq y.requests
         /\ y.requests \subseteq x.requests \cup {Message("REQUEST", x.dhcp.xid, Asked(x, "REQUEST"), x.epoch)}
         /\ ~fails => Message("REQUEST", x.dhcp.xid, Asked(x, "REQUEST"), x.epoch) \in y.requests
<1> DEFINE m == Message("REQUEST", x.dhcp.xid, Asked(x, "REQUEST"), x.epoch)
<1>1. Asked(x, "REQUEST") \in Ip
  <2>1. x.netif.ip \in Ip /\ x.dhcp.offered \in Ip
    BY StationFacts DEF Netif
  <2>2. QED
    BY <2>1 DEF Asked, Ip
<1>2. m \in RequestSet
  BY <1>1, StationFacts DEF RequestSet, Message
<1>3. CASE fails
  BY <1>3 DEF Send, Unsaid
<1>4. CASE ~fails
  <2>1. Creates(x, y, x.xid, x.dhcp.xid, x.requests \cup {m})
    BY <1>4 DEF Creates, Send, NewXid, Answerable, Message
  <2> HIDE DEF m
  <2>2. x.requests \cup {m} \in SUBSET RequestSet /\ x.xid \in Nat /\ x.dhcp.xid \in Nat
    BY <1>2, StationFacts
  <2>3. IsStation(y) /\ Unsaid(x, y) /\ y.xid = x.xid /\ y.dhcp.xid = x.dhcp.xid /\ y.requests = x.requests \cup {m}
    BY <2>1, <2>2, Created
  <2>4. QED
    BY <1>4, <2>3 DEF m
<1>5. QED
  BY <1>3, <1>4

\* The first message of an exchange takes a new identifier, and is answered only
\* if it is a DISCOVER.
LEMMA FirstSent ==
  ASSUME NEW x, IsStation(x), NEW type \in {"DISCOVER", "RELEASE", "DECLINE"}, NEW fails \in BOOLEAN,
         NEW y, y = Send(x, type, fails)
  PROVE  /\ IsStation(y) /\ Unsaid(x, y) /\ x.xid <= y.xid
         /\ x.dhcp.xid <= x.xid => y.dhcp.xid <= y.xid
         /\ x.requests \subseteq y.requests
         /\ y.requests \subseteq x.requests \cup {Message(type, y.dhcp.xid, AnyAddress, x.epoch)}
         /\ ~fails => /\ y.dhcp.xid = y.xid
                      /\ y.xid = IF x.dhcp.tries = 0 THEN x.xid + 1 ELSE x.xid
<1> DEFINE id == NewXid(x, type)
           m == Message(type, id, AnyAddress, x.epoch)
           rs == x.requests \cup Answerable(m)
<1>1. id \in Nat /\ x.xid <= id /\ id = IF x.dhcp.tries = 0 THEN x.xid + 1 ELSE x.xid
  BY StationFacts DEF NewXid
<1>2. rs \in SUBSET RequestSet /\ x.requests \subseteq rs /\ rs \subseteq x.requests \cup {m}
  <2>1. type = "DISCOVER" => m \in RequestSet
    BY <1>1, StationFacts DEF RequestSet, Message, Ip
  <2>2. Answerable(m) = IF type = "DISCOVER" THEN {m} ELSE {}
    BY DEF Answerable, Message
  <2> HIDE DEF m
  <2>3. QED
    BY <2>1, <2>2, StationFacts
<1>3. CASE fails
  BY <1>3, StationFacts DEF Send, Unsaid
<1>4. CASE ~fails
  <2>1. Creates(x, y, id, id, rs)
    BY <1>4 DEF Creates, Send, Message, Asked
  <2> HIDE DEF rs, id
  <2>2. IsStation(y) /\ Unsaid(x, y) /\ y.xid = id /\ y.dhcp.xid = id /\ y.requests = rs
    BY <1>1, <1>2, <2>1, Created
  <2>3. QED
    BY <1>1, <1>2, <1>4, <2>2
<1>5. QED
  BY <1>3, <1>4

Retimes(x, y, n, b) == y = [x EXCEPT !.dhcp.tries = n, !.dhcp.armed = b]

\* The counter of tries and the time-out.
LEMMA Retimed ==
  ASSUME NEW x, IsStation(x), NEW n \in 0 .. TriesRange - 1, NEW b \in BOOLEAN,
         NEW y, Retimes(x, y, n, b)
  PROVE  IsStation(y) /\ Same(x, y) /\ y.dhcp.state = x.dhcp.state /\ y.dhcp.tries = n /\ y.dhcp.armed = b
<1> DEFINE d == x.dhcp
           e == [d EXCEPT !.tries = n, !.armed = b]
<1>1. /\ e.state = d.state /\ e.tries = n /\ e.armed = b
      /\ e.xid = d.xid /\ e.offered = d.offered /\ e.nameless = d.nameless
      /\ e.t1_renew = d.t1_renew /\ e.t2_rebind = d.t2_rebind /\ e.t1 = d.t1 /\ e.t2 = d.t2
      /\ e.probes = d.probes /\ e = [f \in ClientFields |-> e[f]]
  BY DEF IsStation, IsClient, ClientFields
<1>2. IsClient(e)
  <2> HIDE DEF e
  <2>1. QED
    BY <1>1, Zenon DEF IsStation, IsClient
<1>3. y.dhcp = e
  BY DEF Retimes, IsStation, IsClient, StationFields, ClientFields
<1>4. y = [x EXCEPT !.dhcp = e]
  BY <1>3 DEF Retimes, IsStation, StationFields
<1> HIDE DEF e
<1>5. IsStation(y) /\ y.dhcp = e
      /\ y.netif = x.netif /\ y.xid = x.xid /\ y.requests = x.requests /\ y.epoch = x.epoch
  BY <1>2, <1>4, Replaced
<1>6. QED
  BY <1>1, <1>5 DEF Same

\* One more try: the time-out is armed, but for a linear one whose counter has come
\* round to 0.
LEMMA TriedOnce ==
  ASSUME NEW x, IsStation(x), NEW y, y \in {Linear(x), Doubling(x)}
  PROVE  /\ IsStation(y) /\ Same(x, y) /\ y.dhcp.state = x.dhcp.state
         /\ y.dhcp.tries = (x.dhcp.tries + 1) % TriesRange
         /\ y.dhcp.armed \/ (y = Linear(x) /\ y.dhcp.tries = 0)
         /\ y = Doubling(x) => y.dhcp.armed
<1> DEFINE n == (x.dhcp.tries + 1) % TriesRange
<1>1. n \in 0 .. TriesRange - 1
  BY StationFacts, DhcpAssumption
<1>2. Tried(x).dhcp.tries = n
  BY DEF Tried, IsStation, IsClient, StationFields, ClientFields
<1>3. Retimes(x, Linear(x), n, n # 0)
  BY <1>2 DEF Retimes, Linear, Tried, IsStation, IsClient, StationFields, ClientFields
<1>4. Retimes(x, Doubling(x), n, TRUE)
  BY DEF Retimes, Doubling, Tried, IsStation, IsClient, StationFields, ClientFields
<1> HIDE DEF n
<1>5. ASSUME NEW b \in BOOLEAN, Retimes(x, y, n, b), b \/ (y = Linear(x) /\ n = 0)
      PROVE  /\ IsStation(y) /\ Same(x, y) /\ y.dhcp.state = x.dhcp.state /\ y.dhcp.tries = n
             /\ y.dhcp.armed \/ (y = Linear(x) /\ y.dhcp.tries = 0)
  <2>1. IsStation(y) /\ Same(x, y) /\ y.dhcp.state = x.dhcp.state /\ y.dhcp.tries = n /\ y.dhcp.armed = b
    BY ONLY IsStation(x), <1>1, <1>5, Retimed
  <2>2. QED
    BY <1>5, <2>1
<1>6. ASSUME y = Doubling(x) PROVE y.dhcp.armed
  <2>1. Retimes(x, y, n, TRUE)
    BY <1>4, <1>6, Zenon DEF n
  <2>2. QED
    BY ONLY IsStation(x), <1>1, <2>1, Retimed
<1>7. CASE y = Linear(x)
  <2>1. (n # 0) \in BOOLEAN /\ ((n # 0) \/ n = 0)
    OBVIOUS
  <2>2. QED
    BY <1>3, <1>5, <1>6, <1>7, <2>1, Zenon DEF n
<1>8. CASE y = Doubling(x)
  BY <1>4, <1>5, <1>6, <1>8, Zenon DEF n
<1>9. QED
  BY <1>7, <1>8

-----------------------------------------------------------------------------
(* What messages do to the rounds                                          *)

\* y has sent at most one more message than x, with its own identifier.
SaysMore(x, y) ==
    /\ x.requests \subseteq y.requests /\ y.epoch = x.epoch
    /\ \E t, ip : y.requests \subseteq x.requests \cup {Message(t, y.dhcp.xid, ip, y.epoch)}

\* Identifiers stay below the counter.
LEMMA PastKept ==
  ASSUME NEW x, IsStation(x), NEW y, IsStation(y), SaysMore(x, y), Past(x), x.xid <= y.xid, y.dhcp.xid <= y.xid
  PROVE  Past(y)
<1>1. PICK t, ip : y.requests \subseteq x.requests \cup {Message(t, y.dhcp.xid, ip, y.epoch)}
  BY DEF SaysMore
<1>2. ASSUME NEW r \in y.requests PROVE r.xid <= y.xid
  <2>1. CASE r \in x.requests
    <3>1. r.xid \in Nat /\ r.xid <= x.xid /\ x.xid \in Nat /\ y.xid \in Nat
      BY <2>1, StationFacts DEF Past, RequestSet
    <3>2. QED
      BY <3>1
  <2>2. CASE r = Message(t, y.dhcp.xid, ip, y.epoch)
    BY <2>2 DEF Message
  <2>3. QED
    BY <1>1, <2>1, <2>2
<1>3. QED
  BY <1>2 DEF Past

\* A new identifier is nobody else's.
LEMMA FreshBegun ==
  ASSUME NEW x, IsStation(x), NEW y, IsStation(y), SaysMore(x, y), Past(x), y.dhcp.xid = x.xid + 1
  PROVE  Fresh(y)
<1>1. PICK t, ip : y.requests \subseteq x.requests \cup {Message(t, y.dhcp.xid, ip, y.epoch)}
  BY DEF SaysMore
<1>2. ASSUME NEW r \in y.requests, r.xid = y.dhcp.xid PROVE r.epoch = y.epoch
  <2>1. r \notin x.requests
    <3>1. SUFFICES ASSUME r \in x.requests PROVE FALSE
      OBVIOUS
    <3>2. r.xid \in Nat /\ r.xid <= x.xid /\ x.xid \in Nat
      BY <3>1, StationFacts DEF Past, RequestSet
    <3>3. QED
      BY <1>2, <3>2
  <2>2. r = Message(t, y.dhcp.xid, ip, y.epoch)
    BY <1>1, <2>1
  <2>3. QED
    BY <2>2 DEF Message
<1>3. QED
  BY <1>2 DEF Fresh

\* More messages of the same exchange.
LEMMA FreshKept ==
  ASSUME NEW x, NEW y, SaysMore(x, y), Fresh(x), y.dhcp.xid = x.dhcp.xid
  PROVE  Fresh(y)
<1>1. PICK t, ip : y.requests \subseteq x.requests \cup {Message(t, y.dhcp.xid, ip, y.epoch)}
  BY DEF SaysMore
<1>2. ASSUME NEW r \in y.requests, r.xid = y.dhcp.xid PROVE r.epoch = y.epoch
  <2>1. CASE r \in x.requests
    BY <1>2, <2>1 DEF Fresh, SaysMore
  <2>2. CASE r = Message(t, y.dhcp.xid, ip, y.epoch)
    BY <2>2 DEF Message
  <2>3. QED
    BY <1>1, <2>1, <2>2
<1>3. QED
  BY <1>2 DEF Fresh

\* What was asked for stays asked for.
LEMMA ConfirmedKept ==
  ASSUME NEW x, NEW y, x.requests \subseteq y.requests, y.epoch = x.epoch, NEW ip, Confirmed(x, ip)
  PROVE  Confirmed(y, ip)
  BY DEF Confirmed

\* An address that is asked for is an address that is confirmed.
LEMMA MessageConfirms ==
  ASSUME NEW y, NEW id, NEW ip, Message("REQUEST", id, ip, y.epoch) \in y.requests
  PROVE  Confirmed(y, ip)
  BY DEF Confirmed, Message

-----------------------------------------------------------------------------
(* dhcp_select, dhcp_renew, dhcp_rebind and dhcp_reboot                    *)

Asking == {"REQUESTING", "RENEWING", "REBINDING", "REBOOTING"}

Requests(x, s, fails) == Send(dhcp_set_state(x, s), "REQUEST", fails)

\* A REQUEST in one of the states that send one.
LEMMA Asks ==
  ASSUME NEW x, IsStation(x), x.dhcp.xid <= x.xid, x.dhcp.offered \in Addresses, NEW s \in Asking,
         NEW fails \in BOOLEAN, NEW z, z = Requests(x, s, fails), NEW y, y \in {Linear(z), Doubling(z)}
  PROVE  /\ Sound(y) /\ y.dhcp.state = s /\ y.dhcp.offered = x.dhcp.offered /\ y.netif = x.netif
         /\ y.xid = x.xid /\ y.dhcp.xid = x.dhcp.xid /\ SaysMore(x, y)
         /\ y.dhcp.tries = ((IF x.dhcp.state = s THEN x.dhcp.tries ELSE 0) + 1) % TriesRange
         /\ y.dhcp.armed \/ (y = Linear(z) /\ y.dhcp.tries = 0)
         /\ y = Doubling(z) => y.dhcp.armed
         /\ ~fails /\ s \in {"REQUESTING", "REBOOTING"} => Confirmed(y, y.dhcp.offered)
<1> DEFINE w == dhcp_set_state(x, s)
           m == Message("REQUEST", w.dhcp.xid, Asked(w, "REQUEST"), w.epoch)
<1>1. s \in States /\ s \in Holding
  BY DEF Asking, States, Holding
<1>2. /\ IsStation(w) /\ Same(x, w) /\ w.dhcp.state = s
      /\ w.dhcp.tries = IF x.dhcp.state = s THEN x.dhcp.tries ELSE 0
  BY <1>1, SetState
<1>3. z = Send(w, "REQUEST", fails)
  BY DEF Requests
<1> HIDE DEF w
<1>4. /\ IsStation(z) /\ Unsaid(w, z) /\ z.xid = w.xid /\ z.dhcp.xid = w.dhcp.xid
      /\ w.requests \subseteq z.requests /\ z.requests \subseteq w.requests \cup {m}
      /\ ~fails => m \in z.requests
  BY <1>2, <1>3, RequestSent
<1>5. /\ IsStation(y) /\ Same(z, y) /\ y.dhcp.state = z.dhcp.state
      /\ y.dhcp.tries = (z.dhcp.tries + 1) % TriesRange
      /\ y.dhcp.armed \/ (y = Linear(z) /\ y.dhcp.tries = 0)
      /\ y = Doubling(z) => y.dhcp.armed
  BY <1>4, TriedOnce
<1>6. /\ y.dhcp.state = s /\ y.dhcp.offered = x.dhcp.offered /\ y.netif = x.netif
      /\ y.xid = x.xid /\ y.dhcp.xid = x.dhcp.xid /\ y.epoch = x.epoch /\ w.epoch = x.epoch /\ w.dhcp.xid = x.dhcp.xid
      /\ w.dhcp.offered = x.dhcp.offered
      /\ x.requests = w.requests /\ y.requests = z.requests /\ z.dhcp.tries = w.dhcp.tries
  BY <1>2, <1>4, <1>5 DEF Same, Unsaid
<1>7. Sound(y)
  BY <1>1, <1>5, <1>6 DEF Sound
<1>8. SaysMore(x, y)
  BY <1>4, <1>6, Zenon DEF SaysMore
<1>9. ASSUME ~fails, s \in {"REQUESTING", "REBOOTING"} PROVE Confirmed(y, y.dhcp.offered)
  <2>1. Asked(w, "REQUEST") = w.dhcp.offered
    BY <1>2, <1>9 DEF Asked
  <2>2. Message("REQUEST", x.dhcp.xid, y.dhcp.offered, y.epoch) \in y.requests
    BY <1>4, <1>6, <1>9, <2>1
  <2>3. QED
    BY <2>2, MessageConfirms
<1>10. QED
  BY <1>2, <1>5, <1>6, <1>7, <1>8, <1>9

-----------------------------------------------------------------------------
(* The other operators                                                     *)

\* y is a station like x, but for some of the fields of its client.
Shaped(y) == y = [f \in StationFields |-> y[f]] /\ y.dhcp = [f \in ClientFields |-> y.dhcp[f]]
Around(x, y) == y.netif = x.netif /\ y.xid = x.xid /\ y.requests = x.requests /\ y.epoch = x.epoch
Timing(x, y) == /\ y.dhcp.t1_renew = x.dhcp.t1_renew /\ y.dhcp.t2_rebind = x.dhcp.t2_rebind
                /\ y.dhcp.t1 = x.dhcp.t1 /\ y.dhcp.t2 = x.dhcp.t2

\* The client is told, or forgets, what it is offered.
LEMMA Noted ==
  ASSUME NEW x, IsStation(x), NEW y, Shaped(y), Around(x, y), Timing(x, y), y.dhcp.probes = x.dhcp.probes,
         y.dhcp.state = x.dhcp.state, y.dhcp.tries = x.dhcp.tries, y.dhcp.xid = x.dhcp.xid,
         y.dhcp.armed \in BOOLEAN, y.dhcp.nameless \in BOOLEAN, y.dhcp.offered \in Ip
  PROVE  IsStation(y)
  BY Zenon DEF IsStation, IsClient, Shaped, Around, Timing

\* A discovery: the offer is forgotten and the client waits for another.
LEMMA Discovers ==
  ASSUME NEW x, IsStation(x), x.dhcp.xid <= x.xid, NEW fails \in BOOLEAN, NEW y, y = dhcp_discover(x, fails)
  PROVE  /\ Sound(y) /\ y.dhcp.state = "SELECTING" /\ y.dhcp.armed /\ y.netif = x.netif /\ y.epoch = x.epoch
         /\ Past(x) => Past(y)
         /\ ~fails /\ Past(x) /\ (x.dhcp.state # "SELECTING" \/ x.dhcp.tries = 0) => y.dhcp.xid = y.xid /\ Fresh(y)
         /\ ~fails /\ Fresh(x) /\ x.dhcp.xid = x.xid /\ Past(x) => y.dhcp.xid = y.xid /\ Fresh(y)
<1> DEFINE v == [x EXCEPT !.dhcp.offered = AnyAddress, !.dhcp.nameless = FALSE]
           w == dhcp_set_state(v, "SELECTING")
           z == Send(w, "DISCOVER", fails)
<1>1. y = Doubling(z)
  BY DEF dhcp_discover
<1>2. /\ Shaped(v) /\ Around(x, v) /\ Timing(x, v) /\ v.dhcp.probes = x.dhcp.probes
      /\ v.dhcp.state = x.dhcp.state /\ v.dhcp.tries = x.dhcp.tries /\ v.dhcp.xid = x.dhcp.xid
      /\ v.dhcp.armed = x.dhcp.armed /\ v.dhcp.nameless = FALSE /\ v.dhcp.offered = AnyAddress
  BY DEF IsStation, IsClient, StationFields, ClientFields, Shaped, Around, Timing
<1> HIDE DEF v
<1>3. IsStation(v) /\ v.netif = x.netif /\ v.xid = x.xid /\ v.requests = x.requests /\ v.epoch = x.epoch
  <2>1. v.dhcp.armed \in BOOLEAN /\ v.dhcp.nameless \in BOOLEAN /\ v.dhcp.offered \in Ip
    BY <1>2, StationFacts DEF Ip
  <2>2. IsStation(v)
    BY <1>2, <2>1, Noted, Zenon
  <2>3. QED
    BY <1>2, <2>2 DEF Around
<1>4. /\ IsStation(w) /\ Same(v, w) /\ w.dhcp.state = "SELECTING"
      /\ w.dhcp.tries = IF v.dhcp.state = "SELECTING" THEN v.dhcp.tries ELSE 0
  BY <1>3, SetState DEF States
<1> HIDE DEF w
<1>5. /\ IsStation(z) /\ Unsaid(w, z) /\ w.xid <= z.xid
      /\ w.dhcp.xid <= w.xid => z.dhcp.xid <= z.xid
      /\ w.requests \subseteq z.requests
      /\ z.requests \subseteq w.requests \cup {Message("DISCOVER", z.dhcp.xid, AnyAddress, w.epoch)}
      /\ ~fails => /\ z.dhcp.xid = z.xid
                   /\ z.xid = IF w.dhcp.tries = 0 THEN w.xid + 1 ELSE w.xid
  BY <1>4, FirstSent
<1> HIDE DEF z
<1>6. IsStation(y) /\ Same(z, y) /\ y.dhcp.state = z.dhcp.state /\ y.dhcp.armed
  <2>1. y.dhcp.armed
    <3>1. Retimes(z, y, (z.dhcp.tries + 1) % TriesRange, TRUE)
      BY <1>1, <1>5 DEF Retimes, Doubling, Tried, IsStation, IsClient, StationFields, ClientFields
    <3>2. (z.dhcp.tries + 1) % TriesRange \in 0 .. TriesRange - 1
      BY <1>5, StationFacts, DhcpAssumption
    <3>3. QED
      BY <1>5, <3>1, <3>2, Retimed
  <2>2. QED
    BY <1>1, <1>5, <2>1, TriedOnce
<1>7. /\ y.dhcp.state = "SELECTING" /\ y.netif = x.netif /\ y.epoch = x.epoch /\ w.epoch = x.epoch
      /\ y.xid = z.xid /\ y.dhcp.xid = z.dhcp.xid /\ w.xid = x.xid /\ w.dhcp.xid = x.dhcp.xid
      /\ w.requests = x.requests /\ y.requests = z.requests
  BY <1>2, <1>3, <1>4, <1>5, <1>6 DEF Same, Unsaid
<1>8. Sound(y)
  BY <1>5, <1>6, <1>7 DEF Sound, Holding
<1>9. SaysMore(x, y)
  BY <1>5, <1>7, Zenon DEF SaysMore
<1>10. Past(x) => Past(y)
  BY <1>5, <1>6, <1>7, <1>9, PastKept
<1>11. ASSUME ~fails, Past(x), x.dhcp.state # "SELECTING" \/ x.dhcp.tries = 0 PROVE y.dhcp.xid = y.xid /\ Fresh(y)
  <2>1. w.dhcp.tries = 0
    BY <1>2, <1>4, <1>11
  <2>2. y.dhcp.xid = x.xid + 1 /\ y.dhcp.xid = y.xid
    BY <1>5, <1>7, <1>11, <2>1
  <2>3. QED
    BY <1>6, <1>9, <1>11, <2>2, FreshBegun
<1>12. ASSUME ~fails, Fresh(x), x.dhcp.xid = x.xid, Past(x) PROVE y.dhcp.xid = y.xid /\ Fresh(y)
  <2>1. CASE y.dhcp.xid = x.xid + 1
    BY <1>5, <1>6, <1>7, <1>9, <1>12, <2>1, FreshBegun
  <2>2. CASE y.dhcp.xid = x.xid
    BY <1>5, <1>7, <1>9, <1>12, <2>2, FreshKept
  <2>3. QED
    BY <1>5, <1>7, <1>12, <2>1, <2>2
<1>13. QED
  BY <1>6, <1>7, <1>8, <1>10, <1>11, <1>12

\* The client gives up what there was and begins a new round, with an identifier of
\* its own.
LEMMA BeginsAnew ==
  ASSUME NEW x, IsStation(x), x.dhcp.xid <= x.xid, NEW fails \in BOOLEAN, NEW y, y = Anew(x, fails)
  PROVE  /\ Sound(y) /\ Waits(y)
         /\ ~fails /\ Past(x) /\ (x.dhcp.state # "SELECTING" \/ x.dhcp.tries = 0) /\ ~x.netif.up => Lawful(y)
<1> DEFINE v == [x EXCEPT !.epoch = @ + 1]
<1>1. /\ v.epoch = x.epoch + 1 /\ v.dhcp = x.dhcp /\ v.netif = x.netif /\ v.xid = x.xid /\ v.requests = x.requests
      /\ v = [f \in StationFields |-> v[f]]
  BY DEF IsStation, StationFields
<1>2. y = dhcp_discover(v, fails)
  BY DEF Anew
<1> HIDE DEF v
<1>3. IsStation(v)
  <2>1. v.epoch \in Nat
    BY <1>1, StationFacts
  <2>2. QED
    BY <1>1, <2>1 DEF IsStation
<1>4. /\ Sound(y) /\ y.dhcp.state = "SELECTING" /\ y.dhcp.armed /\ y.netif = x.netif
      /\ Past(v) => Past(y)
      /\ ~fails /\ Past(v) /\ (x.dhcp.state # "SELECTING" \/ x.dhcp.tries = 0) => y.dhcp.xid = y.xid /\ Fresh(y)
  BY <1>1, <1>2, <1>3, Discovers
<1>5. Past(x) => Past(v)
  BY <1>1 DEF Past
<1>6. ~x.netif.up => Leased(y)
  BY <1>4 DEF Leased, Holding
<1>7. QED
  BY <1>4, <1>5, <1>6 DEF Waits, Lawful

\* The interface is taken down and has no address any more.
LEMMA ClearedNetif ==
  ASSUME NEW x, IsStation(x), NEW y, y = Cleared(x)
  PROVE  /\ IsStation(y) /\ y.dhcp = x.dhcp /\ y.xid = x.xid /\ y.requests = x.requests /\ y.epoch = x.epoch
         /\ ~y.netif.up
<1>1. /\ y.dhcp = x.dhcp /\ y.xid = x.xid /\ y.requests = x.requests /\ y.epoch = x.epoch
      /\ y.netif = [ip |-> AnyAddress, up |-> FALSE] /\ y = [f \in StationFields |-> y[f]]
  BY DEF Cleared, IsStation, StationFields
<1>2. y.netif \in Netif /\ ~y.netif.up
  BY <1>1 DEF Netif, Ip
<1>3. IsStation(y)
  BY <1>1, <1>2 DEF IsStation
<1>4. QED
  BY <1>1, <1>2, <1>3

\* dhcp_release: the lease is given back and the interface taken down.
LEMMA Releases ==
  ASSUME NEW x, IsStation(x), x.dhcp.xid <= x.xid, NEW fails \in BOOLEAN, NEW y, y = dhcp_release(x, fails)
  PROVE  /\ IsStation(y) /\ y.dhcp.xid <= y.xid /\ y.dhcp.state = "OFF" /\ ~y.netif.up
         /\ Past(x) => Past(y)
<1> DEFINE u == dhcp_set_state(x, "OFF")
           v == [u EXCEPT !.dhcp.offered = AnyAddress, !.dhcp.t1_renew = 0, !.dhcp.t2_rebind = 0]
           w == Send(v, "RELEASE", fails)
           z == Linear(w)
<1>1. y = Cleared(z)
  BY DEF dhcp_release
<1>2. IsStation(u) /\ Same(x, u) /\ u.dhcp.state = "OFF"
  BY SetState DEF States
<1> HIDE DEF u
<1>3. /\ Shaped(v) /\ Around(u, v) /\ v.dhcp.t1 = u.dhcp.t1 /\ v.dhcp.t2 = u.dhcp.t2
      /\ v.dhcp.t1_renew = 0 /\ v.dhcp.t2_rebind = 0 /\ v.dhcp.offered = AnyAddress
      /\ v.dhcp.state = u.dhcp.state /\ v.dhcp.tries = u.dhcp.tries /\ v.dhcp.armed = u.dhcp.armed
      /\ v.dhcp.xid = u.dhcp.xid /\ v.dhcp.probes = u.dhcp.probes /\ v.dhcp.nameless = u.dhcp.nameless
  BY <1>2 DEF IsStation, IsClient, StationFields, ClientFields, Shaped, Around
<1> HIDE DEF v
<1>4. IsStation(v)
  <2>1. 0 \in LeaseTime /\ AnyAddress \in Ip
    BY DhcpAssumption DEF LeaseTime, Ip
  <2>2. QED
    BY <1>2, <1>3, <2>1, Zenon DEF IsStation, IsClient, Shaped, Around
<1>5. /\ IsStation(w) /\ Unsaid(v, w) /\ v.xid <= w.xid
      /\ v.dhcp.xid <= v.xid => w.dhcp.xid <= w.xid
      /\ v.requests \subseteq w.requests
      /\ w.requests \subseteq v.requests \cup {Message("RELEASE", w.dhcp.xid, AnyAddress, v.epoch)}
  BY <1>4, FirstSent
<1> HIDE DEF w
<1>6. IsStation(z) /\ Same(w, z) /\ z.dhcp.state = w.dhcp.state
  BY <1>5, TriedOnce
<1> HIDE DEF z
<1>7. /\ IsStation(y) /\ y.dhcp = z.dhcp /\ y.xid = z.xid /\ y.requests = z.requests /\ y.epoch = z.epoch
      /\ ~y.netif.up
  BY <1>1, <1>6, ClearedNetif
<1>8. /\ y.dhcp.state = "OFF" /\ y.dhcp.xid = w.dhcp.xid /\ y.xid = w.xid /\ y.epoch = x.epoch /\ v.epoch = x.epoch
      /\ y.requests = w.requests /\ v.requests = x.requests /\ v.xid = x.xid /\ v.dhcp.xid = x.dhcp.xid
  BY <1>2, <1>3, <1>5, <1>6, <1>7 DEF Same, Unsaid, Around
<1>9. SaysMore(x, y) /\ x.xid <= y.xid /\ y.dhcp.xid <= y.xid
  BY <1>5, <1>8 DEF SaysMore
<1>10. QED
  BY <1>7, <1>8, <1>9, PastKept

\* dhcp_decline: an address that is in use is refused, in a new exchange.
LEMMA Declines ==
  ASSUME NEW x, IsStation(x), x.dhcp.xid <= x.xid, x.dhcp.state # "BACKING_OFF", NEW fails \in BOOLEAN,
         NEW y, y = dhcp_decline(x, fails)
  PROVE  /\ Sound(y) /\ Waits(y)
         /\ ~fails /\ Past(x) /\ ~x.netif.up => Lawful(y)
<1> DEFINE u == dhcp_set_state(x, "BACKING_OFF")
           w == Send(u, "DECLINE", fails)
<1>1. y = Doubling(w)
  BY DEF dhcp_decline
<1>2. IsStation(u) /\ Same(x, u) /\ u.dhcp.state = "BACKING_OFF" /\ u.dhcp.tries = 0
  BY SetState DEF States
<1> HIDE DEF u
<1>3. /\ IsStation(w) /\ Unsaid(u, w) /\ u.xid <= w.xid
      /\ u.dhcp.xid <= u.xid => w.dhcp.xid <= w.xid
      /\ u.requests \subseteq w.requests
      /\ w.requests \subseteq u.requests \cup {Message("DECLINE", w.dhcp.xid, AnyAddress, u.epoch)}
      /\ ~fails => w.dhcp.xid = w.xid /\ w.xid = u.xid + 1
  BY <1>2, FirstSent
<1> HIDE DEF w
<1>4. IsStation(y) /\ Same(w, y) /\ y.dhcp.state = w.dhcp.state /\ y.dhcp.tries = (w.dhcp.tries + 1) % TriesRange
      /\ (y.dhcp.armed \/ y.dhcp.tries = 0)
  BY <1>1, <1>3, TriedOnce
<1>5. /\ y.dhcp.state = "BACKING_OFF" /\ y.dhcp.xid = w.dhcp.xid /\ y.xid = w.xid /\ y.epoch = x.epoch
      /\ u.epoch = x.epoch /\ y.netif = x.netif /\ w.dhcp.tries = 0
      /\ y.requests = w.requests /\ u.requests = x.requests /\ u.xid = x.xid /\ u.dhcp.xid = x.dhcp.xid
  BY <1>2, <1>3, <1>4 DEF Same, Unsaid
<1>6. SaysMore(x, y) /\ x.xid <= y.xid /\ y.dhcp.xid <= y.xid
  BY <1>3, <1>5 DEF SaysMore
<1>7. y.dhcp.armed
  <2>1. (0 + 1) % TriesRange = 1
    BY DhcpAssumption
  <2>2. QED
    BY <1>4, <1>5, <2>1
<1>8. Sound(y) /\ Waits(y)
  BY <1>4, <1>5, <1>6, <1>7 DEF Sound, Waits, Holding
<1>9. ASSUME ~fails, Past(x), ~x.netif.up PROVE Lawful(y)
  <2>1. Past(y)
    BY <1>4, <1>6, <1>9, PastKept
  <2>2. y.dhcp.xid = y.xid /\ y.dhcp.xid = x.xid + 1
    BY <1>3, <1>5, <1>9
  <2>3. Fresh(y)
    BY <1>4, <1>6, <1>9, <2>2, FreshBegun
  <2>4. Leased(y)
    BY <1>5, <1>9 DEF Leased, Holding
  <2>5. QED
    BY <2>1, <2>2, <2>3, <2>4 DEF Lawful
<1>10. QED
  BY <1>8, <1>9

\* dhcp_handle_nak: the address is given up and a new round begins.
LEMMA Refuses ==
  ASSUME NEW x, IsStation(x), x.dhcp.xid <= x.xid, NEW fails \in BOOLEAN, NEW y, y = dhcp_handle_nak(x, fails)
  PROVE  Sound(y) /\ Waits(y) /\ (~fails /\ Past(x) => Lawful(y))
<1> DEFINE u == Cleared(x)
           v == dhcp_set_state(u, "BACKING_OFF")
<1>1. /\ IsStation(u) /\ u.dhcp = x.dhcp /\ u.xid = x.xid /\ u.requests = x.requests /\ u.epoch = x.epoch
      /\ ~u.netif.up
  BY ClearedNetif
<1>2. y = Anew(v, fails)
  BY DEF dhcp_handle_nak
<1> HIDE DEF u
<1>3. IsStation(v) /\ Same(u, v) /\ v.dhcp.state = "BACKING_OFF"
  BY <1>1, SetState DEF States
<1> HIDE DEF v
<1>4. v.dhcp.xid <= v.xid /\ ~v.netif.up /\ (Past(x) => Past(v))
  BY <1>1, <1>3 DEF Same, Past
<1>5. QED
  BY <1>2, <1>3, <1>4, BeginsAnew

\* dhcp_check: the address is probed, and the client waits for the time-out.
LEMMA Checks ==
  ASSUME NEW x, IsStation(x), x.dhcp.xid <= x.xid, x.dhcp.offered \in Addresses, NEW y, y = dhcp_check(x)
  PROVE  /\ Sound(y) /\ Waits(y) /\ Around(x, y) /\ y.dhcp.state = "CHECKING"
         /\ y.dhcp.xid = x.dhcp.xid /\ y.dhcp.offered = x.dhcp.offered
<1> DEFINE u == dhcp_set_state(x, "CHECKING")
           v == Doubling(u)
<1>1. y = [v EXCEPT !.dhcp.probes = @ + 1]
  BY DEF dhcp_check
<1>2. IsStation(u) /\ Same(x, u) /\ u.dhcp.state = "CHECKING"
  BY SetState DEF States
<1> HIDE DEF u
<1>3. IsStation(v) /\ Same(u, v) /\ v.dhcp.state = u.dhcp.state /\ v.dhcp.armed = TRUE
  <2>1. v = Doubling(u) /\ v \in {Linear(u), Doubling(u)}
    OBVIOUS
  <2> HIDE DEF v
  <2>2. IsStation(v) /\ Same(u, v) /\ v.dhcp.state = u.dhcp.state /\ v.dhcp.armed
    BY ONLY <1>2, <2>1, TriedOnce
  <2>3. v.dhcp.armed \in BOOLEAN
    BY ONLY <2>2, StationFacts
  <2>4. QED
    BY <2>2, <2>3
<1> HIDE DEF v
<1>4. /\ Shaped(y) /\ Around(v, y) /\ Timing(v, y)
      /\ y.dhcp.probes = v.dhcp.probes + 1 /\ y.dhcp.offered = v.dhcp.offered
      /\ y.dhcp.state = v.dhcp.state /\ y.dhcp.tries = v.dhcp.tries /\ y.dhcp.armed = v.dhcp.armed
      /\ y.dhcp.xid = v.dhcp.xid /\ y.dhcp.nameless = v.dhcp.nameless
  BY <1>1, <1>3 DEF IsStation, IsClient, StationFields, ClientFields, Shaped, Around, Timing
<1>5. IsStation(y)
  <2>1. y.dhcp.probes \in Nat
    BY <1>3, <1>4, StationFacts
  <2>2. QED
    BY <1>3, <1>4, <2>1, Zenon DEF IsStation, IsClient, Shaped, Around, Timing
<1>6. /\ Around(x, y) /\ y.dhcp.state = "CHECKING" /\ y.dhcp.armed = TRUE
      /\ y.dhcp.xid = x.dhcp.xid /\ y.dhcp.offered = x.dhcp.offered
  BY <1>2, <1>3, <1>4 DEF Same, Around
<1>7. Sound(y) /\ Waits(y)
  BY <1>5, <1>6 DEF Sound, Waits, Around
<1>8. QED
  BY <1>6, <1>7

\* dhcp_handle_ack: the lease and its times are kept.
LEMMA Acknowledged ==
  ASSUME NEW x, IsStation(x), NEW ip \in Ip, NEW lease \in LeaseTimes, NEW y, y = dhcp_handle_ack(x, ip, lease)
  PROVE  /\ IsStation(y) /\ Around(x, y) /\ y.dhcp.offered = ip
         /\ y.dhcp.xid = x.dhcp.xid /\ y.dhcp.state = x.dhcp.state
<1> DEFINE r1 == IF lease = Infinite THEN Infinite ELSE lease \div 2
<1>1. r1 \in LeaseTime /\ lease \in LeaseTime
  <2>1. CASE lease = Infinite
    BY <2>1 DEF LeaseTime
  <2>2. CASE lease \in 1 .. TimerRange - 1
    BY <2>2, DhcpAssumption DEF LeaseTime, Infinite
  <2>3. QED
    BY <2>1, <2>2, DhcpAssumption
<1> HIDE DEF r1
<1>2. /\ Shaped(y) /\ Around(x, y) /\ y.dhcp.t1 = x.dhcp.t1 /\ y.dhcp.t2 = x.dhcp.t2
      /\ y.dhcp.t1_renew = r1 /\ y.dhcp.t2_rebind = lease /\ y.dhcp.offered = ip /\ y.dhcp.probes = 0
      /\ y.dhcp.state = x.dhcp.state /\ y.dhcp.tries = x.dhcp.tries /\ y.dhcp.armed = x.dhcp.armed
      /\ y.dhcp.xid = x.dhcp.xid /\ y.dhcp.nameless = x.dhcp.nameless
  BY DEF dhcp_handle_ack, IsStation, IsClient, StationFields, ClientFields, Shaped, Around, r1
<1>3. 0 \in Nat
  OBVIOUS
<1>4. IsStation(y)
  BY <1>1, <1>2, <1>3, Zenon DEF IsStation, IsClient, Shaped, Around
<1>5. QED
  BY <1>2, <1>4

\* dhcp_bind: the interface comes up with the address that was offered.
LEMMA Binds ==
  ASSUME NEW x, IsStation(x), x.dhcp.xid <= x.xid, x.dhcp.offered \in Addresses, NEW y, y = dhcp_bind(x)
  PROVE  /\ Sound(y) /\ Waits(y) /\ y.dhcp.state = "BOUND"
         /\ y.netif.ip = x.dhcp.offered /\ y.dhcp.offered = x.dhcp.offered /\ y.dhcp.xid = x.dhcp.xid
         /\ y.xid = x.xid /\ y.requests = x.requests /\ y.epoch = x.epoch
<1> DEFINE t1 == Timer(x.dhcp.t1_renew, x.dhcp.t1)
           t2 == Timer(x.dhcp.t2_rebind, x.dhcp.t2)
           a == IF t1 >= t2 /\ t2 > 0 THEN 0 ELSE t1
           n == [ip |-> x.dhcp.offered, up |-> TRUE]
           v == [x EXCEPT !.dhcp.t1 = a, !.dhcp.t2 = t2, !.netif = n]
<1>1. y = dhcp_set_state(v, "BOUND")
  BY DEF dhcp_bind
<1>2. a \in 0 .. TimerRange - 1 /\ t2 \in 0 .. TimerRange - 1
  <2>1. \A r \in LeaseTime, o \in 0 .. TimerRange - 1 : Timer(r, o) \in 0 .. TimerRange - 1
    BY DhcpAssumption DEF Timer, LeaseTime, Infinite
  <2>2. t1 \in 0 .. TimerRange - 1 /\ t2 \in 0 .. TimerRange - 1
    BY <2>1, StationFacts
  <2> HIDE DEF t1, t2
  <2>3. QED
    BY <2>2, DhcpAssumption
<1>3. n \in Netif /\ n.ip = x.dhcp.offered
  BY DEF Netif, Ip
<1> HIDE DEF a, t2, n
<1>4. /\ Shaped(v) /\ v.netif = n /\ v.xid = x.xid /\ v.requests = x.requests /\ v.epoch = x.epoch
      /\ v.dhcp.t1 = a /\ v.dhcp.t2 = t2
      /\ v.dhcp.t1_renew = x.dhcp.t1_renew /\ v.dhcp.t2_rebind = x.dhcp.t2_rebind /\ v.dhcp.offered = x.dhcp.offered
      /\ v.dhcp.state = x.dhcp.state /\ v.dhcp.tries = x.dhcp.tries /\ v.dhcp.armed = x.dhcp.armed
      /\ v.dhcp.xid = x.dhcp.xid /\ v.dhcp.probes = x.dhcp.probes /\ v.dhcp.nameless = x.dhcp.nameless
  BY DEF IsStation, IsClient, StationFields, ClientFields, Shaped
<1> HIDE DEF v
<1>5. IsStation(v)
  BY <1>2, <1>3, <1>4, Zenon DEF IsStation, IsClient, Shaped
<1>6. IsStation(y) /\ Same(v, y) /\ y.dhcp.state = "BOUND"
  BY <1>1, <1>5, SetState DEF States
<1>7. /\ y.netif.ip = x.dhcp.offered /\ y.dhcp.offered = x.dhcp.offered /\ y.dhcp.xid = x.dhcp.xid
      /\ y.xid = x.xid /\ y.requests = x.requests /\ y.epoch = x.epoch
  BY <1>3, <1>4, <1>6 DEF Same
<1>8. Sound(y) /\ Waits(y)
  BY <1>6, <1>7 DEF Sound, Waits
<1>9. QED
  BY <1>6, <1>7, <1>8

-----------------------------------------------------------------------------
(* From one state of the station to the next                               *)

\* What makes a reply the client's, and a lease confirmed.
Round(x, y) == y.xid = x.xid /\ y.dhcp.xid = x.dhcp.xid /\ y.requests = x.requests /\ y.epoch = x.epoch

\* The round depends on nothing else.
LEMMA SameRound ==
  ASSUME NEW x, NEW y, Round(x, y)
  PROVE  /\ Past(x) => Past(y)
         /\ Fresh(x) => Fresh(y)
         /\ \A ip : Confirmed(x, ip) => Confirmed(y, ip)
  BY Zenon DEF Round, Past, Fresh, Confirmed

\* A station that goes on with what it has.
LEMMA StillLawful ==
  ASSUME NEW x, NEW y, Round(x, y), Lawful(x), y.dhcp.state = x.dhcp.state,
         y.dhcp.offered = x.dhcp.offered, y.netif = x.netif
  PROVE  Lawful(y)
<1>1. Past(y) /\ (Fresh(x) => Fresh(y)) /\ \A ip : Confirmed(x, ip) => Confirmed(y, ip)
  BY SameRound DEF Lawful
<1>2. Leased(y)
  BY <1>1, Zenon DEF Leased, Lawful
<1>3. y.dhcp.xid = x.dhcp.xid /\ y.xid = x.xid
  BY DEF Round
<1>4. QED
  BY <1>1, <1>2, <1>3, Zenon DEF Lawful

\* What every operation of the client keeps: the second part while there is memory.
Keeps(x, y, fails) == Sound(y) /\ Waits(y) /\ (~fails /\ Lawful(x) => Lawful(y))

\* A station that may ask for its address in state s.
MayAsk(x, s) ==
    /\ Past(x) /\ Fresh(x) /\ x.dhcp.xid = x.xid
    /\ s \in {"RENEWING", "REBINDING"} => Confirmed(x, x.dhcp.offered)
    /\ x.netif.up => s \in {"RENEWING", "REBINDING"} /\ x.netif.ip = x.dhcp.offered

\* A station that asks in the first try or in a state that does not count up to the
\* range of the counter goes on waiting, and deaf to earlier rounds.
LEMMA AsksLawfully ==
  ASSUME NEW x, IsStation(x), x.dhcp.xid <= x.xid, x.dhcp.offered \in Addresses, NEW s \in Asking,
         NEW fails \in BOOLEAN, NEW z, z = Requests(x, s, fails), NEW y, y \in {Linear(z), Doubling(z)},
         \/ y = Doubling(z)
         \/ s = "RENEWING"
         \/ x.dhcp.state # s
         \/ x.dhcp.tries + 1 < TriesRange
  PROVE  Sound(y) /\ Waits(y) /\ (~fails /\ MayAsk(x, s) => Lawful(y))
<1>1. /\ Sound(y) /\ y.dhcp.state = s /\ y.dhcp.offered = x.dhcp.offered /\ y.netif = x.netif
      /\ y.xid = x.xid /\ y.dhcp.xid = x.dhcp.xid /\ SaysMore(x, y)
      /\ y.dhcp.tries = ((IF x.dhcp.state = s THEN x.dhcp.tries ELSE 0) + 1) % TriesRange
      /\ y.dhcp.armed \/ (y = Linear(z) /\ y.dhcp.tries = 0)
      /\ y = Doubling(z) => y.dhcp.armed
      /\ ~fails /\ s \in {"REQUESTING", "REBOOTING"} => Confirmed(y, y.dhcp.offered)
  BY Asks
<1>2. Waits(y)
  <2>1. y.dhcp.armed \/ (s = "RENEWING" /\ y.dhcp.tries = 0)
    <3>1. CASE y = Doubling(z)
      BY <1>1, <3>1
    <3>2. CASE s = "RENEWING"
      BY <1>1, <3>2
    <3>3. CASE x.dhcp.state # s
      <4>1. (0 + 1) % TriesRange = 1
        BY DhcpAssumption
      <4>2. QED
        BY <1>1, <3>3, <4>1
    <3>4. CASE x.dhcp.state = s /\ x.dhcp.tries + 1 < TriesRange
      <4>1. x.dhcp.tries \in Nat
        BY StationFacts
      <4>2. (x.dhcp.tries + 1) % TriesRange = x.dhcp.tries + 1 /\ x.dhcp.tries + 1 # 0
        BY <3>4, <4>1, DhcpAssumption
      <4>3. QED
        BY <1>1, <3>4, <4>2
    <3>5. QED
      BY <3>1, <3>2, <3>3, <3>4
  <2>2. QED
    BY <1>1, <2>1 DEF Waits
<1>3. ASSUME ~fails, MayAsk(x, s) PROVE Lawful(y)
  <2>1. IsStation(y)
    BY <1>1 DEF Sound
  <2>2. y.dhcp.xid = y.xid /\ x.xid <= y.xid /\ y.dhcp.xid <= y.xid
    <3>1. x.xid \in Nat
      BY StationFacts
    <3>2. QED
      BY <1>1, <1>3, <3>1 DEF MayAsk
  <2>3. Past(y)
    BY <1>1, <1>3, <2>1, <2>2, PastKept DEF MayAsk
  <2>4. Fresh(y)
    BY <1>1, <1>3, FreshKept DEF MayAsk
  <2>5. Confirmed(y, y.dhcp.offered)
    <3>1. CASE s \in {"REQUESTING", "REBOOTING"}
      BY <1>1, <1>3, <3>1
    <3>2. CASE s \in {"RENEWING", "REBINDING"}
      <4>1. Confirmed(x, x.dhcp.offered) /\ x.requests \subseteq y.requests /\ y.epoch = x.epoch
        BY <1>1, <1>3, <3>2 DEF MayAsk, SaysMore
      <4>2. QED
        BY <1>1, <4>1, ConfirmedKept
    <3>3. QED
      BY <3>1, <3>2 DEF Asking
  <2>6. Leased(y)
    <3>1. y.netif.up => s \in {"RENEWING", "REBINDING"} /\ y.netif.ip = y.dhcp.offered
      BY <1>1, <1>3 DEF MayAsk
    <3>2. s \in {"RENEWING", "REBINDING"} => s \in {"BOUND", "RENEWING", "REBINDING"}
      OBVIOUS
    <3>3. QED
      BY <1>1, <2>5, <3>1, <3>2, Zenon DEF Leased
  <2>7. QED
    BY <2>2, <2>3, <2>4, <2>6 DEF Lawful
<1>4. QED
  BY <1>1, <1>2, <1>3

\* What a lawful station may ask for.
LEMMA HolderMayAsk ==
  ASSUME NEW x, Lawful(x), x.dhcp.state \in Holding, NEW s \in {"RENEWING", "REBINDING"}
  PROVE  MayAsk(x, s)
<1>1. x.dhcp.state # "OFF"
  BY DEF Holding
<1>2. QED
  BY <1>1, Zenon DEF Lawful, Leased, MayAsk

\* A station that is not up may ask for any offer.
LEMMA DownMayAsk ==
  ASSUME NEW x, Lawful(x), x.dhcp.state # "OFF", ~x.netif.up, NEW s \in {"REQUESTING", "REBOOTING"}
  PROVE  MayAsk(x, s)
<1>1. s \notin {"RENEWING", "REBINDING"}
  OBVIOUS
<1>2. QED
  BY <1>1, Zenon DEF Lawful, MayAsk

-----------------------------------------------------------------------------
(* dhcp_timeout                                                            *)

\* The address is given back and a new round begins.
LEMMA StartsOver ==
  ASSUME NEW x, Sound(x), NEW fails \in BOOLEAN, NEW y, y = Anew(dhcp_release(x, fails), fails)
  PROVE  Keeps(x, y, fails)
<1> DEFINE r == dhcp_release(x, fails)
<1>1. /\ IsStation(r) /\ r.dhcp.xid <= r.xid /\ r.dhcp.state = "OFF" /\ ~r.netif.up
      /\ Past(x) => Past(r)
  BY Releases DEF Sound
<1> HIDE DEF r
<1>2. y = Anew(r, fails)
  BY DEF r
<1>3. r.dhcp.state # "SELECTING"
  BY <1>1
<1>4. Sound(y) /\ Waits(y) /\ (~fails /\ Past(r) => Lawful(y))
  BY <1>1, <1>2, <1>3, BeginsAnew
<1>5. QED
  BY <1>1, <1>4 DEF Keeps, Lawful

\* The states of a client without an address.
DownStates == {"SELECTING", "REQUESTING", "CHECKING", "REBOOTING", "BACKING_OFF"}

\* In these states the interface is down.
LEMMA NotUp ==
  ASSUME NEW x, Lawful(x), x.dhcp.state \in DownStates
  PROVE  ~x.netif.up
<1>1. x.dhcp.state # "OFF" /\ x.dhcp.state \notin {"BOUND", "RENEWING", "REBINDING"}
  BY DEF DownStates
<1>2. QED
  BY <1>1, Zenon DEF Lawful, Leased

\* dhcp_discover again, while selecting.
LEMMA TimeoutSelecting ==
  ASSUME NEW x, Sound(x), x.dhcp.state = "SELECTING", NEW fails \in BOOLEAN, NEW y, y = dhcp_discover(x, fails)
  PROVE  Keeps(x, y, fails)
<1>1. /\ Sound(y) /\ y.dhcp.state = "SELECTING" /\ y.dhcp.armed /\ y.netif = x.netif
      /\ Past(x) => Past(y)
      /\ ~fails /\ Fresh(x) /\ x.dhcp.xid = x.xid /\ Past(x) => y.dhcp.xid = y.xid /\ Fresh(y)
  BY Discovers DEF Sound
<1>2. Waits(y)
  BY <1>1 DEF Waits
<1>3. ASSUME ~fails, Lawful(x) PROVE Lawful(y)
  <2>1. ~x.netif.up
    BY <1>3, NotUp DEF DownStates
  <2>2. Leased(y)
    BY <1>1, <2>1 DEF Leased, Holding
  <2>3. QED
    BY <1>1, <1>3, <2>2 DEF Lawful
<1>4. QED
  BY <1>1, <1>2, <1>3 DEF Keeps

\* A new round of a client that is not up and does not discover.
LEMMA TimeoutAnew ==
  ASSUME NEW x, Sound(x), x.dhcp.state \in {"BACKING_OFF", "REBOOTING"}, NEW fails \in BOOLEAN,
         NEW y, y = Anew(x, fails)
  PROVE  Keeps(x, y, fails)
<1>1. x.dhcp.state # "SELECTING" /\ x.dhcp.state \in DownStates
  BY DEF DownStates
<1>2. Sound(y) /\ Waits(y) /\ (~fails /\ Past(x) /\ ~x.netif.up => Lawful(y))
  BY <1>1, BeginsAnew DEF Sound
<1>3. QED
  BY <1>1, <1>2, NotUp DEF Keeps, Lawful

\* The address is probed.
LEMMA ChecksLawfully ==
  ASSUME NEW x, IsStation(x), x.dhcp.xid <= x.xid, x.dhcp.offered \in Addresses, NEW y, y = dhcp_check(x)
  PROVE  /\ Sound(y) /\ Waits(y)
         /\ Past(x) /\ Fresh(x) /\ x.dhcp.xid = x.xid /\ ~x.netif.up /\ Confirmed(x, x.dhcp.offered) => Lawful(y)
<1>1. /\ Sound(y) /\ Waits(y) /\ Around(x, y) /\ y.dhcp.state = "CHECKING"
      /\ y.dhcp.xid = x.dhcp.xid /\ y.dhcp.offered = x.dhcp.offered
  BY Checks
<1>2. ASSUME Past(x), Fresh(x), x.dhcp.xid = x.xid, ~x.netif.up, Confirmed(x, x.dhcp.offered) PROVE Lawful(y)
  <2>1. Round(x, y) /\ y.xid = x.xid /\ y.netif = x.netif
    BY <1>1 DEF Round, Around
  <2>2. Past(y) /\ Fresh(y) /\ Confirmed(y, y.dhcp.offered)
    BY <1>1, <1>2, <2>1, SameRound
  <2>3. Leased(y)
    BY <1>2, <2>1, <2>2 DEF Leased
  <2>4. QED
    BY <1>1, <1>2, <2>1, <2>2, <2>3 DEF Lawful
<1>3. QED
  BY <1>1, <1>2

\* The interface comes up with an address that was asked for.
LEMMA BindsLawfully ==
  ASSUME NEW x, Sound(x), x.dhcp.state \in Holding, NEW y, y = dhcp_bind(x)
  PROVE  Sound(y) /\ Waits(y) /\ (Lawful(x) => Lawful(y))
<1>1. /\ Sound(y) /\ Waits(y) /\ y.dhcp.state = "BOUND"
      /\ y.netif.ip = x.dhcp.offered /\ y.dhcp.offered = x.dhcp.offered /\ y.dhcp.xid = x.dhcp.xid
      /\ y.xid = x.xid /\ y.requests = x.requests /\ y.epoch = x.epoch
  BY Binds DEF Sound
<1>2. ASSUME Lawful(x) PROVE Lawful(y)
  <2>1. x.dhcp.state # "OFF"
    BY DEF Holding
  <2>2. Past(x) /\ Fresh(x) /\ x.dhcp.xid = x.xid /\ Confirmed(x, x.dhcp.offered)
    BY <1>2, <2>1 DEF Lawful, Leased
  <2>3. Past(y) /\ Fresh(y) /\ Confirmed(y, y.dhcp.offered)
    BY <1>1, <2>2, SameRound DEF Round
  <2>4. Leased(y)
    BY <1>1, <2>3 DEF Leased
  <2>5. QED
    BY <1>1, <2>2, <2>3, <2>4 DEF Lawful
<1>3. QED
  BY <1>1, <1>2

\* What the time-out does in every state.
LEMMA TimesOut ==
  ASSUME NEW x, Sound(x), NEW fails \in BOOLEAN, NEW y, y = dhcp_timeout(x, fails)
  PROVE  Keeps(x, y, fails) \/ (y = x /\ x.dhcp.state \in {"OFF", "BOUND"})
<1> DEFINE n == x.dhcp.tries
<1>1. IsStation(x) /\ x.dhcp.xid <= x.xid /\ n \in 0 .. TriesRange - 1 /\ x.dhcp.state \in States
  BY StationFacts DEF Sound
<1>2. x.dhcp.state \in Holding => x.dhcp.offered \in Addresses
  BY DEF Sound
<1>3. CASE x.dhcp.state = "SELECTING"
  BY <1>3, TimeoutSelecting DEF dhcp_timeout
<1>4. CASE x.dhcp.state = "BACKING_OFF"
  BY <1>4, TimeoutAnew DEF dhcp_timeout
<1>5. CASE x.dhcp.state = "REQUESTING"
  <2>1. CASE n <= RequestTries
    <3> DEFINE z == Requests(x, "REQUESTING", fails)
    <3>1. y = Doubling(z)
      BY <1>5, <2>1 DEF dhcp_timeout, dhcp_select, Requests
    <3> HIDE DEF z
    <3>2. "REQUESTING" \in Asking /\ "REQUESTING" \in {"REQUESTING", "REBOOTING"} /\ x.dhcp.state # "OFF"
          /\ x.dhcp.offered \in Addresses
      BY <1>2, <1>5 DEF Asking, Holding
    <3>3. Sound(y) /\ Waits(y) /\ (~fails /\ MayAsk(x, "REQUESTING") => Lawful(y))
      BY <1>1, <3>1, <3>2, AsksLawfully DEF z
    <3>4. QED
      BY <1>5, <3>2, <3>3, DownMayAsk, NotUp DEF Keeps, DownStates
  <2>2. CASE ~(n <= RequestTries)
    BY <1>5, <2>2, StartsOver DEF dhcp_timeout
  <2>3. QED
    BY <2>1, <2>2
<1>6. CASE x.dhcp.state = "CHECKING"
  <2>1. x.dhcp.state \in Holding /\ x.dhcp.state # "OFF"
    BY <1>6 DEF Holding
  <2>2. CASE n <= 1
    <3>1. y = dhcp_check(x)
      BY <1>6, <2>2 DEF dhcp_timeout
    <3>2. /\ Sound(y) /\ Waits(y)
          /\ Past(x) /\ Fresh(x) /\ x.dhcp.xid = x.xid /\ ~x.netif.up /\ Confirmed(x, x.dhcp.offered) => Lawful(y)
      BY <1>1, <1>2, <2>1, <3>1, ChecksLawfully
    <3>3. Lawful(x) => ~x.netif.up
      BY <1>6, NotUp DEF DownStates
    <3>4. QED
      BY <2>1, <3>2, <3>3 DEF Keeps, Lawful, Leased
  <2>3. CASE ~(n <= 1)
    <3>1. y = dhcp_bind(x)
      BY <1>6, <2>3 DEF dhcp_timeout
    <3>2. QED
      BY <2>1, <3>1, BindsLawfully DEF Keeps
  <2>4. QED
    BY <2>2, <2>3
<1>7. CASE x.dhcp.state = "RENEWING"
  <2> DEFINE z == Requests(x, "RENEWING", fails)
  <2>1. y = Linear(z)
    BY <1>7 DEF dhcp_timeout, dhcp_renew, Requests
  <2>2. "RENEWING" \in Asking /\ x.dhcp.state \in Holding /\ x.dhcp.offered \in Addresses
    BY <1>2, <1>7 DEF Asking, Holding
  <2> HIDE DEF z
  <2>3. Sound(y) /\ Waits(y) /\ (~fails /\ MayAsk(x, "RENEWING") => Lawful(y))
    BY <1>1, <2>1, <2>2, AsksLawfully DEF z
  <2>4. QED
    BY <2>2, <2>3, HolderMayAsk DEF Keeps
<1>8. CASE x.dhcp.state = "REBINDING"
  <2>1. CASE n <= RebindTries
    <3> DEFINE z == Requests(x, "REBINDING", fails)
    <3>1. y = Linear(z)
      BY <1>8, <2>1 DEF dhcp_timeout, dhcp_rebind, Requests
    <3>2. "REBINDING" \in Asking /\ x.dhcp.state \in Holding /\ x.dhcp.offered \in Addresses
      BY <1>2, <1>8 DEF Asking, Holding
    <3>3. n + 1 < TriesRange
      BY <1>1, <2>1, DhcpAssumption
    <3> HIDE DEF z
    <3>4. Sound(y) /\ Waits(y) /\ (~fails /\ MayAsk(x, "REBINDING") => Lawful(y))
      BY <1>1, <3>1, <3>2, <3>3, AsksLawfully DEF z
    <3>5. QED
      BY <3>2, <3>4, HolderMayAsk DEF Keeps
  <2>2. CASE ~(n <= RebindTries)
    BY <1>8, <2>2, StartsOver DEF dhcp_timeout
  <2>3. QED
    BY <2>1, <2>2
<1>9. CASE x.dhcp.state = "REBOOTING"
  <2>1. CASE n < REBOOT_TRIES
    <3> DEFINE z == Requests(x, "REBOOTING", fails)
    <3>1. y = Linear(z)
      BY <1>9, <2>1 DEF dhcp_timeout, dhcp_reboot, Requests
    <3>2. "REBOOTING" \in Asking /\ x.dhcp.state # "OFF" /\ x.dhcp.offered \in Addresses
      BY <1>2, <1>9 DEF Asking, Holding
    <3>3. n + 1 < TriesRange
      BY <1>1, <2>1, DhcpAssumption
    <3> HIDE DEF z
    <3>4. Sound(y) /\ Waits(y) /\ (~fails /\ MayAsk(x, "REBOOTING") => Lawful(y))
      BY <1>1, <3>1, <3>2, <3>3, AsksLawfully DEF z
    <3>5. QED
      BY <1>9, <3>2, <3>4, DownMayAsk, NotUp DEF Keeps, DownStates
  <2>2. CASE ~(n < REBOOT_TRIES)
    BY <1>9, <2>2, TimeoutAnew DEF dhcp_timeout
  <2>3. QED
    BY <2>1, <2>2
<1>10. CASE x.dhcp.state \in {"OFF", "BOUND"}
  BY <1>10 DEF dhcp_timeout
<1>11. QED
  BY <1>1, <1>3, <1>4, <1>5, <1>6, <1>7, <1>8, <1>9, <1>10 DEF States

-----------------------------------------------------------------------------
(* The steps                                                               *)

\* The first state.
LEMMA DhcpBegins == DhcpInit => DhcpIndInv
<1> SUFFICES ASSUME DhcpInit PROVE DhcpIndInv
  OBVIOUS
<1>1. /\ station.dhcp = Off /\ station.netif = [ip |-> AnyAddress, up |-> FALSE] /\ station.xid = 0
      /\ station.requests = {} /\ station.epoch = 0
      /\ station = [f \in StationFields |-> station[f]]
  BY DEF DhcpInit, StationFields
<1>2. IsClient(Off)
  BY DhcpAssumption DEF Off, IsClient, ClientFields, States, Ip, LeaseTime
<1>3. IsStation(station)
  BY <1>1, <1>2 DEF IsStation, Netif, Ip
<1>4. Off.state = "OFF" /\ Off.xid = 0
  BY DEF Off
<1>5. QED
  BY <1>1, <1>3, <1>4 DEF DhcpIndInv, Sound, Waits, Lawful, Past, Leased, Holding

\* Starting, on an interface that is down.
LEMMA Starts ==
  ASSUME Sound(station), NEW fails \in BOOLEAN, dhcp_start(fails)
  PROVE  Keeps(station, station', fails)
<1> DEFINE v == [station EXCEPT !.dhcp = Off]
           x == Anew(v, fails)
<1>1. IsClient(Off) /\ Off.xid = 0 /\ Off.state = "OFF"
  BY DhcpAssumption DEF Off, IsClient, ClientFields, States, Ip, LeaseTime
<1>2. IsStation(station)
  BY DEF Sound
<1> HIDE DEF v
<1>3. /\ IsStation(v) /\ v.dhcp = Off /\ v.netif = station.netif /\ v.xid = station.xid
      /\ v.requests = station.requests
  <2>1. v = [station EXCEPT !.dhcp = Off]
    BY DEF v
  <2>2. QED
    BY <1>1, <1>2, <2>1, Replaced
<1>4. /\ v.dhcp.xid <= v.xid /\ ~v.netif.up /\ v.dhcp.state # "SELECTING"
      /\ (Past(station) => Past(v))
  BY <1>1, <1>2, <1>3, StationFacts DEF dhcp_start, netif, Past
<1>5. Sound(x) /\ Waits(x) /\ (~fails /\ Past(v) => Lawful(x))
  BY <1>3, <1>4, BeginsAnew
<1>6. station' = IF fails THEN dhcp_set_state(x, "OFF") ELSE x
  BY DEF dhcp_start, Becomes, v
<1> HIDE DEF x
<1>7. CASE fails
  <2>1. IsStation(station') /\ Same(x, station') /\ station'.dhcp.state = "OFF"
    BY <1>5, <1>6, <1>7, SetState DEF Sound, States
  <2>2. station'.dhcp.xid <= station'.xid
    BY <1>5, <2>1 DEF Same, Sound
  <2>3. QED
    BY <1>7, <2>1, <2>2 DEF Keeps, Sound, Waits, Holding
<1>8. CASE ~fails
  BY <1>4, <1>5, <1>6, <1>8 DEF Keeps, Lawful
<1>9. QED
  BY <1>7, <1>8

\* The interface is taken down under the client.
LEMMA GoesDown ==
  ASSUME Sound(station), Waits(station), netif_set_down
  PROVE  Keeps(station, station', FALSE)
<1> DEFINE x == station
           y == station'
<1>1. y = [x EXCEPT !.netif.up = FALSE]
  BY DEF netif_set_down, Becomes
<1>2. IsStation(x) /\ x.netif \in Netif
  BY StationFacts DEF Sound
<1>3. /\ y.dhcp = x.dhcp /\ y.xid = x.xid /\ y.requests = x.requests /\ y.epoch = x.epoch
      /\ y = [f \in StationFields |-> y[f]] /\ y.netif \in Netif /\ ~y.netif.up
  BY <1>1, <1>2 DEF IsStation, StationFields, Netif
<1> HIDE DEF x, y
<1>4. IsStation(y)
  BY <1>2, <1>3 DEF IsStation
<1>5. Sound(y) /\ Waits(y)
  BY <1>3, <1>4 DEF Sound, Waits, x, y
<1>6. ASSUME Lawful(x) PROVE Lawful(y)
  <2>1. Past(y) /\ (Fresh(x) => Fresh(y)) /\ \A ip : Confirmed(x, ip) => Confirmed(y, ip)
    BY <1>3, <1>6, SameRound DEF Round, Lawful
  <2>2. Leased(y)
    BY <1>3, <1>6, <2>1 DEF Leased, Lawful
  <2>3. QED
    BY <1>3, <1>6, <2>1, <2>2 DEF Lawful
<1>7. QED
  BY <1>5, <1>6 DEF Keeps, x, y

\* Stopping: the address stays, and nobody answers for it.
LEMMA Stops ==
  ASSUME Sound(station), dhcp_stop
  PROVE  Keeps(station, station', FALSE)
<1> DEFINE x == station
           y == station'
<1>1. IsStation(y) /\ Same(x, y) /\ y.dhcp.state = "OFF"
  BY SetState DEF dhcp_stop, Becomes, Sound, States
<1> HIDE DEF y
<1>2. Sound(y) /\ Waits(y)
  BY <1>1 DEF Sound, Waits, Holding, Same
<1>3. Past(x) => Past(y)
  BY <1>1 DEF Past, Same
<1>4. Leased(y)
  BY <1>1 DEF Leased, Holding
<1>5. QED
  BY <1>1, <1>2, <1>3, <1>4 DEF Keeps, Lawful, y

\* The station has joined another network.
LEMMA ChangesNetwork ==
  ASSUME Sound(station), NEW fails \in BOOLEAN, dhcp_network_changed(fails)
  PROVE  Keeps(station, station', fails)
<1> DEFINE x == [station EXCEPT !.dhcp.tries = 0]
           v == [x EXCEPT !.netif.up = FALSE]
           y == station'
           kept == {"REBINDING", "RENEWING", "BOUND", "REBOOTING"}
<1>1. IsStation(station) /\ station.dhcp.armed \in BOOLEAN /\ station.netif \in Netif
      /\ station.dhcp.xid \in Nat /\ station.xid \in Nat /\ station.dhcp.state \in States
  BY StationFacts DEF Sound
<1>2. Retimes(station, x, 0, station.dhcp.armed)
  BY <1>1 DEF Retimes, IsStation, IsClient, StationFields, ClientFields
<1>3. 0 \in 0 .. TriesRange - 1
  BY DhcpAssumption
<1>4. y = IF station.dhcp.state \in kept THEN dhcp_reboot(v, fails) ELSE Anew(x, fails)
  BY DEF dhcp_network_changed, Becomes, dhcp
<1>5. station.dhcp.state # "OFF"
  BY DEF dhcp_network_changed, dhcp
<1> HIDE DEF x
<1>6. IsStation(x) /\ Same(station, x) /\ x.dhcp.state = station.dhcp.state /\ x.dhcp.tries = 0
  BY <1>1, <1>2, <1>3, Retimed
<1>7. /\ Round(station, x) /\ x.netif = station.netif /\ x.dhcp.offered = station.dhcp.offered /\ x.dhcp.xid <= x.xid
  BY <1>1, <1>6 DEF Same, Round, Sound
<1>8. /\ v.dhcp = x.dhcp /\ v.xid = x.xid /\ v.requests = x.requests /\ v.epoch = x.epoch
      /\ v = [f \in StationFields |-> v[f]] /\ v.netif \in Netif /\ ~v.netif.up
  BY <1>1, <1>6, <1>7 DEF IsStation, StationFields, Netif
<1> HIDE DEF v, y
<1>9. CASE station.dhcp.state \in kept
  <2> DEFINE z == Requests(v, "REBOOTING", fails)
  <2>1. IsStation(v)
    BY <1>6, <1>8 DEF IsStation
  <2>2. y = Linear(z)
    BY <1>4, <1>9 DEF dhcp_reboot, Requests
  <2>3. "REBOOTING" \in Asking /\ v.dhcp.offered \in Addresses /\ v.dhcp.xid <= v.xid
    BY <1>7, <1>8, <1>9 DEF Asking, Holding, Sound
  <2>4. v.dhcp.tries + 1 < TriesRange
    BY <1>6, <1>8, DhcpAssumption
  <2> HIDE DEF z
  <2>5. Sound(y) /\ Waits(y) /\ (~fails /\ MayAsk(v, "REBOOTING") => Lawful(y))
    BY <2>1, <2>2, <2>3, <2>4, AsksLawfully DEF z
  <2>6. ASSUME Lawful(station) PROVE MayAsk(v, "REBOOTING")
    <3>1. Past(station) /\ Fresh(station) /\ station.dhcp.xid = station.xid
      BY <1>5, <2>6 DEF Lawful
    <3>2. Round(station, v) /\ v.dhcp.xid = v.xid
      BY <1>7, <1>8, <3>1 DEF Round
    <3>3. Past(v) /\ Fresh(v)
      BY <3>1, <3>2, SameRound
    <3>4. QED
      BY <1>8, <3>2, <3>3 DEF MayAsk
  <2>7. QED
    BY <2>5, <2>6 DEF Keeps, y
<1>10. CASE station.dhcp.state \notin kept
  <2>1. y = Anew(x, fails)
    BY <1>4, <1>10
  <2>2. Sound(y) /\ Waits(y) /\ (~fails /\ Past(x) /\ ~x.netif.up => Lawful(y))
    BY <1>6, <1>7, <2>1, BeginsAnew
  <2>3. Lawful(station) => Past(x) /\ ~x.netif.up
    <3>1. station.dhcp.state \in DownStates
      BY <1>1, <1>5, <1>10 DEF States, DownStates
    <3>2. QED
      BY <1>7, <3>1, SameRound, NotUp DEF Lawful
  <2>4. QED
    BY <2>2, <2>3 DEF Keeps, y
<1>11. QED
  BY <1>9, <1>10

\* request_timeout has run down.
LEMMA FineTicks ==
  ASSUME Sound(station), NEW fails \in BOOLEAN, dhcp_fine_tmr(fails)
  PROVE  Keeps(station, station', fails)
<1> DEFINE x == [station EXCEPT !.dhcp.armed = FALSE]
           y == station'
<1>1. IsStation(station) /\ station.dhcp.tries \in 0 .. TriesRange - 1
  BY StationFacts DEF Sound
<1>2. Retimes(station, x, station.dhcp.tries, FALSE)
  BY <1>1 DEF Retimes, IsStation, IsClient, StationFields, ClientFields
<1>3. y = dhcp_timeout(x, fails)
  BY DEF dhcp_fine_tmr, Becomes
<1> HIDE DEF x, y
<1>4. IsStation(x) /\ Same(station, x) /\ x.dhcp.state = station.dhcp.state
  <2>1. PICK b \in BOOLEAN : b = FALSE
    OBVIOUS
  <2>2. Retimes(station, x, station.dhcp.tries, b)
    BY <1>2, <2>1
  <2>3. QED
    BY <1>1, <2>2, Retimed
<1>5. Round(station, x) /\ x.netif = station.netif /\ x.dhcp.offered = station.dhcp.offered
  BY <1>4 DEF Same, Round
<1>6. Sound(x)
  BY <1>4, <1>5 DEF Sound, Round
<1>7. Lawful(station) => Lawful(x)
  BY <1>4, <1>5, StillLawful
<1>8. Keeps(x, y, fails) \/ (y = x /\ x.dhcp.state \in {"OFF", "BOUND"})
  BY <1>3, <1>6, TimesOut
<1>9. CASE Keeps(x, y, fails)
  BY <1>7, <1>9 DEF Keeps, y
<1>10. CASE y = x /\ x.dhcp.state \in {"OFF", "BOUND"}
  BY <1>6, <1>7, <1>10 DEF Keeps, Waits, y
<1>11. QED
  BY <1>8, <1>9, <1>10

\* Fields of the client that no message depends on.
Aside(x, y) ==
    /\ Shaped(y) /\ Around(x, y) /\ y.dhcp.probes = x.dhcp.probes
    /\ y.dhcp.t1_renew = x.dhcp.t1_renew /\ y.dhcp.t2_rebind = x.dhcp.t2_rebind
    /\ y.dhcp.state = x.dhcp.state /\ y.dhcp.tries = x.dhcp.tries /\ y.dhcp.armed = x.dhcp.armed
    /\ y.dhcp.xid = x.dhcp.xid /\ y.dhcp.nameless = x.dhcp.nameless /\ y.dhcp.offered = x.dhcp.offered
    /\ y.dhcp.t1 \in 0 .. TimerRange - 1 /\ y.dhcp.t2 \in 0 .. TimerRange - 1

\* A station whose timers have counted is the same but for them.
LEMMA TimersCounted ==
  ASSUME NEW x, Sound(x), Waits(x), NEW y, Aside(x, y)
  PROVE  Sound(y) /\ Waits(y) /\ Round(x, y) /\ (Lawful(x) => Lawful(y))
<1>1. IsStation(y)
  BY Zenon DEF Sound, IsStation, IsClient, Shaped, Around, Aside
<1>2. Round(x, y) /\ y.netif = x.netif
  BY DEF Aside, Around, Round
<1>3. Sound(y) /\ Waits(y)
  BY <1>1, <1>2 DEF Aside, Around, Sound, Waits
<1>4. Lawful(x) => Lawful(y)
  BY <1>2, StillLawful DEF Aside
<1>5. QED
  BY <1>2, <1>3, <1>4

\* t1_timeout or t2_timeout is up: the address is asked for again.
LEMMA AsksAgain ==
  ASSUME NEW x, Sound(x), x.dhcp.state \in {"REQUESTING", "BOUND", "RENEWING"}, NEW fails \in BOOLEAN,
         NEW y, y \in {dhcp_renew(x, fails), dhcp_rebind(x, fails)}
  PROVE  Keeps(x, y, fails)
<1>1. x.dhcp.state \in Holding /\ x.dhcp.state # "REBINDING"
  BY DEF Holding
<1>2. IsStation(x) /\ x.dhcp.xid <= x.xid /\ x.dhcp.offered \in Addresses
  BY <1>1 DEF Sound
<1>3. CASE y = dhcp_renew(x, fails)
  <2> DEFINE z == Requests(x, "RENEWING", fails)
  <2>1. y = Linear(z)
    BY <1>3 DEF dhcp_renew, Requests
  <2>2. "RENEWING" \in Asking
    BY DEF Asking
  <2> HIDE DEF z
  <2>3. Sound(y) /\ Waits(y) /\ (~fails /\ MayAsk(x, "RENEWING") => Lawful(y))
    BY <1>2, <2>1, <2>2, AsksLawfully DEF z
  <2>4. QED
    BY <1>1, <2>3, HolderMayAsk DEF Keeps
<1>4. CASE y = dhcp_rebind(x, fails)
  <2> DEFINE z == Requests(x, "REBINDING", fails)
  <2>1. y = Linear(z)
    BY <1>4 DEF dhcp_rebind, Requests
  <2>2. "REBINDING" \in Asking
    BY DEF Asking
  <2> HIDE DEF z
  <2>3. Sound(y) /\ Waits(y) /\ (~fails /\ MayAsk(x, "REBINDING") => Lawful(y))
    BY <1>1, <1>2, <2>1, <2>2, AsksLawfully DEF z
  <2>4. QED
    BY <1>1, <2>3, HolderMayAsk DEF Keeps
<1>5. QED
  BY <1>3, <1>4

\* A minute of the lease has gone.
LEMMA CoarseTicks ==
  ASSUME Sound(station), Waits(station), NEW fails \in BOOLEAN, dhcp_coarse_tmr(fails)
  PROVE  Keeps(station, station', fails)
<1> DEFINE x == [station EXCEPT !.dhcp.t2 = Down(@)]
           y == [x EXCEPT !.dhcp.t1 = Down(@)]
<1>1. IsStation(station) /\ station.dhcp.t1 \in 0 .. TimerRange - 1 /\ station.dhcp.t2 \in 0 .. TimerRange - 1
  BY StationFacts DEF Sound
<1>2. \A t \in 0 .. TimerRange - 1 : Down(t) \in 0 .. TimerRange - 1
  BY DhcpAssumption DEF Down
<1>3. station' = IF dhcp.t2 = 1 THEN IF Renewable THEN dhcp_rebind(x, fails) ELSE x
                 ELSE IF dhcp.t1 = 1 /\ Renewable THEN dhcp_renew(y, fails) ELSE y
  BY DEF dhcp_coarse_tmr, Becomes
<1>4. Aside(station, x)
  BY <1>1, <1>2 DEF IsStation, IsClient, StationFields, ClientFields, Shaped, Around, Aside
<1>5. Aside(station, y)
  BY <1>1, <1>2 DEF IsStation, IsClient, StationFields, ClientFields, Shaped, Around, Aside
<1> HIDE DEF x, y
<1>6. /\ Sound(x) /\ Waits(x) /\ (Lawful(station) => Lawful(x)) /\ x.dhcp.state = station.dhcp.state
      /\ Sound(y) /\ Waits(y) /\ (Lawful(station) => Lawful(y)) /\ y.dhcp.state = station.dhcp.state
  BY <1>4, <1>5, TimersCounted DEF Aside
<1>7. CASE station' \in {x, y}
  BY <1>6, <1>7 DEF Keeps
<1>8. CASE Renewable /\ station' = dhcp_rebind(x, fails)
  <2>1. x.dhcp.state \in {"REQUESTING", "BOUND", "RENEWING"}
    BY <1>6, <1>8 DEF Renewable, dhcp
  <2>2. Keeps(x, station', fails)
    BY <1>6, <1>8, <2>1, AsksAgain
  <2>3. QED
    BY <1>6, <2>2 DEF Keeps
<1>9. CASE Renewable /\ station' = dhcp_renew(y, fails)
  <2>1. y.dhcp.state \in {"REQUESTING", "BOUND", "RENEWING"}
    BY <1>6, <1>9 DEF Renewable, dhcp
  <2>2. Keeps(y, station', fails)
    BY <1>6, <1>9, <2>1, AsksAgain
  <2>3. QED
    BY <1>6, <2>2 DEF Keeps
<1>10. QED
  BY <1>3, <1>7, <1>8, <1>9

\* An offer is taken up.
LEMMA TakesOffer ==
  ASSUME Sound(station), NEW r, NEW ip \in Addresses, NEW fails \in BOOLEAN, RecvOffer(r, ip, fails)
  PROVE  Keeps(station, station', fails)
<1> DEFINE x == [station EXCEPT !.dhcp.armed = FALSE, !.dhcp.nameless = FALSE, !.dhcp.offered = ip]
           z == Requests(x, "REQUESTING", fails)
           y == station'
<1>1. IsStation(station) /\ station.dhcp.xid <= station.xid /\ station.dhcp.state = "SELECTING"
  BY DEF Sound, RecvOffer, dhcp
<1>2. y = Doubling(z)
  BY DEF RecvOffer, Becomes, dhcp_select, Requests
<1>3. /\ Shaped(x) /\ Around(station, x) /\ Timing(station, x) /\ x.dhcp.probes = station.dhcp.probes
      /\ x.dhcp.state = station.dhcp.state /\ x.dhcp.tries = station.dhcp.tries /\ x.dhcp.xid = station.dhcp.xid
      /\ x.dhcp.armed \in BOOLEAN /\ x.dhcp.nameless \in BOOLEAN /\ x.dhcp.offered = ip
  BY <1>1 DEF IsStation, IsClient, StationFields, ClientFields, Shaped, Around, Timing
<1> HIDE DEF x, y
<1>4. IsStation(x)
  <2>1. x.dhcp.offered \in Ip
    BY <1>3 DEF Ip
  <2>2. QED
    BY <1>1, <1>3, <2>1, Noted, Zenon
<1>5. x.dhcp.xid <= x.xid /\ x.dhcp.offered \in Addresses /\ "REQUESTING" \in Asking
  BY <1>1, <1>3 DEF Around, Asking
<1> HIDE DEF z
<1>6. Sound(y) /\ Waits(y) /\ (~fails /\ MayAsk(x, "REQUESTING") => Lawful(y))
  BY <1>2, <1>4, <1>5, AsksLawfully DEF z
<1>7. ASSUME Lawful(station) PROVE MayAsk(x, "REQUESTING")
  <2>1. ~station.netif.up
    BY <1>1, <1>7, NotUp DEF DownStates
  <2>2. Past(station) /\ Fresh(station) /\ station.dhcp.xid = station.xid
    BY <1>1, <1>7 DEF Lawful
  <2>3. Round(station, x) /\ ~x.netif.up /\ x.dhcp.xid = x.xid
    BY <1>3, <2>1, <2>2 DEF Around, Round
  <2>4. Past(x) /\ Fresh(x)
    BY <2>2, <2>3, SameRound
  <2>5. QED
    BY <2>3, <2>4 DEF MayAsk
<1>8. QED
  BY <1>6, <1>7 DEF Keeps, y

\* An offer without a server is not taken up.
LEMMA DropsOffer ==
  ASSUME Sound(station), NEW r, RecvNamelessOffer(r)
  PROVE  Keeps(station, station', FALSE)
<1> DEFINE y == station'
<1>1. IsStation(station) /\ station.dhcp.state = "SELECTING" /\ station.dhcp.offered \in Ip
  BY StationFacts DEF Sound, RecvNamelessOffer, dhcp
<1>2. y = [station EXCEPT !.dhcp.armed = FALSE, !.dhcp.nameless = TRUE]
  BY DEF RecvNamelessOffer, Becomes
<1> HIDE DEF y
<1>3. /\ Shaped(y) /\ Around(station, y) /\ Timing(station, y) /\ y.dhcp.probes = station.dhcp.probes
      /\ y.dhcp.state = station.dhcp.state /\ y.dhcp.tries = station.dhcp.tries /\ y.dhcp.xid = station.dhcp.xid
      /\ y.dhcp.armed \in BOOLEAN /\ y.dhcp.nameless = TRUE /\ y.dhcp.offered = station.dhcp.offered
  BY <1>1, <1>2 DEF IsStation, IsClient, StationFields, ClientFields, Shaped, Around, Timing
<1>4. y.dhcp.nameless \in BOOLEAN /\ y.dhcp.offered \in Ip
  BY <1>1, <1>3
<1>5. IsStation(y)
  BY <1>1, <1>3, <1>4, Noted, Zenon
<1>6. Sound(y) /\ Waits(y)
  BY <1>3, <1>5 DEF Sound, Waits, Around
<1>7. Lawful(station) => Lawful(y)
  BY <1>3, StillLawful DEF Around, Round
<1>8. QED
  BY <1>6, <1>7 DEF Keeps, y

\* An acknowledgement: the address is checked, or the lease goes on.
LEMMA TakesAck ==
  ASSUME Sound(station), NEW r \in requests, NEW lease \in LeaseTimes, RecvAck(r, lease)
  PROVE  Keeps(station, station', FALSE)
<1>1. IsStation(station) /\ station.dhcp.xid <= station.xid /\ r \in RequestSet /\ r \in station.requests
  BY StationFacts DEF Sound, requests
<1>2. r.ip \in Ip /\ r.ip \in Addresses /\ r.type = "REQUEST" /\ r.xid = station.dhcp.xid
  BY <1>1 DEF RecvAck, RequestSet, Ip, Mine, dhcp
<1>3. CASE station.dhcp.state = "REQUESTING" /\ Becomes(dhcp_check(dhcp_handle_ack(station, r.ip, lease)))
  <2> DEFINE x == dhcp_handle_ack(station, r.ip, lease)
  <2>1. /\ IsStation(x) /\ Around(station, x) /\ x.dhcp.offered = r.ip
        /\ x.dhcp.xid = station.dhcp.xid /\ x.dhcp.state = station.dhcp.state
    BY <1>1, <1>2, Acknowledged
  <2> HIDE DEF x
  <2>2. x.dhcp.xid <= x.xid /\ x.dhcp.offered \in Addresses /\ Round(station, x) /\ x.netif = station.netif
    BY <1>1, <1>2, <2>1 DEF Around, Round
  <2>3. station' = dhcp_check(x)
    BY <1>3 DEF Becomes, x
  <2>4. /\ Sound(station') /\ Waits(station')
        /\ Past(x) /\ Fresh(x) /\ x.dhcp.xid = x.xid /\ ~x.netif.up /\ Confirmed(x, x.dhcp.offered) => Lawful(station')
    BY <2>1, <2>2, <2>3, ChecksLawfully
  <2>5. ASSUME Lawful(station)
        PROVE  Past(x) /\ Fresh(x) /\ x.dhcp.xid = x.xid /\ ~x.netif.up /\ Confirmed(x, x.dhcp.offered)
    <3>1. ~station.netif.up
      BY <1>3, <2>5, NotUp DEF DownStates
    <3>2. Past(station) /\ Fresh(station) /\ station.dhcp.xid = station.xid
      BY <1>3, <2>5 DEF Lawful
    <3>3. Confirmed(station, r.ip)
      BY <1>1, <1>2, <3>2 DEF Confirmed, Fresh
    <3>4. QED
      BY <2>1, <2>2, <3>1, <3>2, <3>3, SameRound DEF Round
  <2>6. QED
    BY <2>4, <2>5 DEF Keeps
<1>4. CASE station.dhcp.state \in {"REBOOTING", "REBINDING", "RENEWING"} /\ Becomes(dhcp_bind(station))
  <2>1. station.dhcp.state \in Holding /\ station' = dhcp_bind(station)
    BY <1>4 DEF Holding, Becomes
  <2>2. QED
    BY <2>1, BindsLawfully DEF Keeps
<1>5. QED
  BY <1>3, <1>4 DEF RecvAck, dhcp

\* A refusal.
LEMMA TakesNak ==
  ASSUME Sound(station), NEW r, NEW fails \in BOOLEAN, RecvNak(r, fails)
  PROVE  Keeps(station, station', fails)
<1>1. station' = dhcp_handle_nak(station, fails)
  BY DEF RecvNak, Becomes
<1>2. Sound(station') /\ Waits(station') /\ (~fails /\ Past(station) => Lawful(station'))
  BY <1>1, Refuses DEF Sound
<1>3. QED
  BY <1>2 DEF Keeps, Lawful

\* Another host has the address.
LEMMA HearsReply ==
  ASSUME Sound(station), NEW fails \in BOOLEAN, dhcp_arp_reply(fails)
  PROVE  Keeps(station, station', fails)
<1>1. station.dhcp.state = "CHECKING" /\ station' = dhcp_decline(station, fails)
  BY DEF dhcp_arp_reply, Becomes, dhcp
<1>2. station.dhcp.state # "BACKING_OFF"
  BY <1>1
<1>3. Sound(station') /\ Waits(station') /\ (~fails /\ Past(station) /\ ~station.netif.up => Lawful(station'))
  BY <1>1, <1>2, Declines DEF Sound
<1>4. Lawful(station) => ~station.netif.up
  BY <1>1, NotUp DEF DownStates
<1>5. QED
  BY <1>3, <1>4 DEF Keeps, Lawful

-----------------------------------------------------------------------------
(* The theorems                                                            *)

\* Every step of the client keeps what it is to keep.
LEMMA DhcpStep ==
  ASSUME Sound(station), Waits(station), [DhcpNext]_dhcpVars
  PROVE  \E fails \in OutOfMemory : Keeps(station, station', fails)
<1>1. PICK f \in OutOfMemory : f \in BOOLEAN
  BY DhcpAssumption
<1>2. ASSUME Keeps(station, station', FALSE) PROVE \E fails \in OutOfMemory : Keeps(station, station', fails)
  BY <1>1, <1>2 DEF Keeps
<1>3. ASSUME NEW fails \in OutOfMemory PROVE fails \in BOOLEAN
  BY DhcpAssumption
<1>4. CASE FineTimer
  BY <1>3, <1>4, FineTicks DEF FineTimer
<1>5. CASE CoarseTimer
  BY <1>3, <1>5, CoarseTicks DEF CoarseTimer
<1>6. ASSUME NEW fails \in OutOfMemory, dhcp_start(fails) PROVE Keeps(station, station', fails)
  BY <1>3, <1>6, Starts
<1>7. ASSUME dhcp_stop PROVE Keeps(station, station', FALSE)
  BY <1>7, Stops
<1>8. ASSUME netif_set_down PROVE Keeps(station, station', FALSE)
  BY <1>8, GoesDown
<1>9. ASSUME NEW fails \in OutOfMemory, dhcp_network_changed(fails) PROVE Keeps(station, station', fails)
  BY <1>3, <1>9, ChangesNetwork
<1>10. ASSUME NEW fails \in OutOfMemory, NEW r \in requests, NEW ip \in Addresses, RecvOffer(r, ip, fails)
       PROVE  Keeps(station, station', fails)
  BY <1>3, <1>10, TakesOffer
<1>11. ASSUME NEW r \in requests, RecvNamelessOffer(r) PROVE Keeps(station, station', FALSE)
  BY <1>11, DropsOffer
<1>12. ASSUME NEW r \in requests, NEW lease \in LeaseTimes, RecvAck(r, lease) PROVE Keeps(station, station', FALSE)
  BY <1>12, TakesAck
<1>13. ASSUME NEW fails \in OutOfMemory, NEW r \in requests, RecvNak(r, fails) PROVE Keeps(station, station', fails)
  BY <1>3, <1>13, TakesNak
<1>14. ASSUME NEW fails \in OutOfMemory, dhcp_arp_reply(fails) PROVE Keeps(station, station', fails)
  BY <1>3, <1>14, HearsReply
<1>15. CASE UNCHANGED dhcpVars
  <2>1. station' = station
    BY <1>15 DEF dhcpVars
  <2>2. QED
    BY <1>1, <2>1 DEF Keeps
<1>16. QED
  BY <1>2, <1>4, <1>5, <1>6, <1>7, <1>8, <1>9, <1>10, <1>11, <1>12, <1>13, <1>14, <1>15 DEF DhcpNext

\* What the invariant says of the client (DhcpTypeOK and Waiting).
LEMMA SoundTyped ==
  ASSUME Sound(station), Waits(station)
  PROVE  DhcpTypeOK /\ Waiting
<1>1. IsStation(station) /\ station.netif \in Netif /\ station.dhcp.xid \in Nat /\ station.xid \in Nat
      /\ station.dhcp.xid <= station.xid
  BY StationFacts DEF Sound
<1>2. station.netif.ip \in Ip /\ station.netif.up \in BOOLEAN
  BY <1>1 DEF Netif
<1>3. station.dhcp.xid \in 0 .. station.xid
  BY <1>1
<1>4. station.dhcp.state \in {"BOUND", "CHECKING", "REQUESTING"} => station.dhcp.offered # AnyAddress
  BY DhcpAssumption DEF Sound, Holding
<1>5. DhcpTypeOK
  BY <1>1, <1>2, <1>3, <1>4, StationFacts, Zenon DEF DhcpTypeOK, dhcp, netif, xid, Ip
<1>6. QED
  BY <1>5 DEF Waits, Waiting, dhcp

\* Whatever memory there is and whatever the servers answer, a client that waits has
\* a time-out armed, but for the two cases Waiting names.
THEOREM DhcpNeverStuck == DhcpSpec => [](DhcpTypeOK /\ Waiting)
<1> DEFINE Stuckless == Sound(station) /\ Waits(station)
<1>1. DhcpInit => Stuckless
  BY DhcpBegins DEF DhcpIndInv
<1>2. Stuckless /\ [DhcpNext]_dhcpVars => Stuckless'
  BY DhcpStep DEF Keeps
<1>3. Stuckless => DhcpTypeOK /\ Waiting
  BY SoundTyped
<1> HIDE DEF Stuckless
<1>4. QED
  BY <1>1, <1>2, <1>3, PTL DEF DhcpSpec

\* While there is memory for its messages, the client is never waiting for nothing,
\* the interface is up only with a lease asked for in this round, and no reply to an
\* earlier round is taken for the client's: for any addresses, leases and servers,
\* replies lost, late or repeated.
THEOREM DhcpCorrect ==
  ASSUME OutOfMemory = {FALSE}
  PROVE  DhcpSpec => []DhcpInv
<1>1. DhcpInit => DhcpIndInv
  BY DhcpBegins
<1>2. DhcpIndInv /\ [DhcpNext]_dhcpVars => DhcpIndInv'
  <2>1. DhcpIndInv /\ [DhcpNext]_dhcpVars => Keeps(station, station', FALSE)
    BY DhcpStep DEF DhcpIndInv
  <2>2. QED
    BY <2>1 DEF Keeps, DhcpIndInv
<1>3. DhcpIndInv => DhcpInv
  <2> SUFFICES ASSUME DhcpIndInv PROVE DhcpInv
    OBVIOUS
  <2>1. Sound(station) /\ Waits(station) /\ Lawful(station)
    BY DEF DhcpIndInv
  <2>2. DhcpTypeOK /\ Waiting
    BY <2>1, SoundTyped
  <2>3. UpWithLease
    <3>1. SUFFICES ASSUME station.netif.up, station.dhcp.state # "OFF"
                   PROVE  /\ station.dhcp.state \in {"BOUND", "RENEWING", "REBINDING"}
                          /\ Confirmed(station, station.netif.ip)
      BY DEF UpWithLease, Confirmed, netif, dhcp, requests, epoch
    <3>2. station.dhcp.state \in {"BOUND", "RENEWING", "REBINDING"} /\ station.netif.ip = station.dhcp.offered
      BY <2>1, <3>1 DEF Lawful, Leased
    <3>3. station.dhcp.state \in Holding
      BY <3>2 DEF Holding
    <3>4. QED
      BY <2>1, <3>2, <3>3 DEF Lawful, Leased
  <2>4. FreshReplies
    BY <2>1 DEF Lawful, Fresh, FreshReplies, Mine, dhcp, requests, epoch
  <2>5. QED
    BY <2>2, <2>3, <2>4 DEF DhcpInv
<1>4. QED
  BY <1>1, <1>2, <1>3, PTL DEF DhcpSpec

-----------------------------------------------------------------------------
(* The server.  The walk through the list: the choice of an address        *)

LeaseSet == [ip : StartIp .. EndIp, mac : Stations, lease_timer : 1 .. LeaseTimer]
WalkSet == [next : Nat, first : Nat, flag : BOOLEAN]

\* The walk of parse_msg takes one Pass for every lease.
LEMMA WalkedUnfolds ==
  ASSUME plist \in Seq(LeaseSet), plus \in Nat
  PROVE  /\ Walked[0] = [next |-> plus, first |-> StartIp, flag |-> FALSE]
         /\ \A i \in 1 .. Len(plist) : Walked[i] = Pass(Walked[i - 1], plist[i])
         /\ \A i \in 0 .. Len(plist) : Walked[i] \in WalkSet
<1> USE DhcpsAssumption
<1> DEFINE base == [next |-> plus, first |-> StartIp, flag |-> FALSE]
           step == [p \in Nat \X WalkSet |->
                      IF p[1] \in 1 .. Len(plist) THEN Pass(p[2], plist[p[1]]) ELSE p[2]]
           Eq(g) == g = [i \in 0 .. Len(plist) |-> IF i = 0 THEN base ELSE Pass(g[i - 1], plist[i])]
<1>1. base \in WalkSet /\ Len(plist) \in Nat
  BY DEF WalkSet
<1>2. ASSUME NEW w \in WalkSet, NEW i \in 1 .. Len(plist) PROVE Pass(w, plist[i]) \in WalkSet
  <2>1. plist[i] \in LeaseSet
    OBVIOUS
  <2>2. plist[i].ip \in Nat
    BY <2>1 DEF LeaseSet
  <2>3. QED
    BY <2>2 DEF Pass, WalkSet
<1>3. step \in [Nat \X WalkSet -> WalkSet]
  <2>1. ASSUME NEW p \in Nat \X WalkSet
        PROVE  (IF p[1] \in 1 .. Len(plist) THEN Pass(p[2], plist[p[1]]) ELSE p[2]) \in WalkSet
    BY <1>2
  <2>2. QED
    BY <2>1
<1>4. PICK f : IsRun(f, Len(plist), WalkSet, base, step)
  <2> HIDE DEF step, base, WalkSet
  <2>1. QED
    BY <1>1, <1>3, Iterates
<1>5. ASSUME NEW i \in 1 .. Len(plist) PROVE f[i] = Pass(f[i - 1], plist[i])
  <2>1. i \in Nat /\ i - 1 \in 0 .. Len(plist)
    BY <1>1
  <2>2. f \in [0 .. Len(plist) -> WalkSet] /\ f[i] = step[<<i, f[i - 1]>>]
    BY <1>4, Zenon DEF IsRun
  <2>3. f[i - 1] \in WalkSet
    BY ONLY <2>1, <2>2
  <2>4. step[<<i, f[i - 1]>>] = IF i \in 1 .. Len(plist) THEN Pass(f[i - 1], plist[i]) ELSE f[i - 1]
    <3> HIDE DEF WalkSet, Pass
    <3>1. <<i, f[i - 1]>> \in Nat \X WalkSet
      BY ONLY <2>1, <2>3
    <3>2. QED
      BY ONLY <3>1
  <2>5. QED
    BY <2>2, <2>4, Zenon
<1>6. Eq(f)
  BY <1>4, <1>5 DEF IsRun
<1>7. Walked = CHOOSE g : Eq(g)
  BY DEF Walked
<1> HIDE DEF Eq
<1>8. Eq(Walked)
  BY <1>6, <1>7
<1> USE DEF Eq
<1>9. Walked[0] = base /\ \A i \in 1 .. Len(plist) : Walked[i] = Pass(Walked[i - 1], plist[i])
  <2> DEFINE rhs(i) == IF i = 0 THEN base ELSE Pass(Walked[i - 1], plist[i])
  <2>1. \A i \in 0 .. Len(plist) : Walked[i] = rhs(i)
    BY <1>8, Zenon
  <2>2. 0 \in 0 .. Len(plist) /\ \A i \in 1 .. Len(plist) : i \in 0 .. Len(plist) /\ i # 0
    BY <1>1
  <2>3. QED
    BY <2>1, <2>2, Zenon
<1>10. \A i \in 0 .. Len(plist) : Walked[i] \in WalkSet
  <2> DEFINE S == {i \in 0 .. Len(plist) : Walked[i] \notin WalkSet}
  <2>1. SUFFICES ASSUME S # {} PROVE FALSE
    OBVIOUS
  <2>2. PICK m \in S : \A k \in S : m <= k
    <3>1. S \in SUBSET Nat
      OBVIOUS
    <3> HIDE DEF S
    <3>2. QED
      BY <2>1, <3>1, LeastOf
  <2>3. m # 0
    BY <1>1, <1>9
  <2>4. Walked[m - 1] \in WalkSet /\ m \in 1 .. Len(plist)
    BY <2>2, <2>3
  <2>5. QED
    BY <1>2, <1>9, <2>2, <2>4
<1>11. QED
  BY <1>9, <1>10

\* A list of leases, sorted, with one of every station and address.
Sorted(p) == \A i, j \in 1 .. Len(p) : i < j => p[i].ip < p[j].ip /\ p[i].mac # p[j].mac
IsLeases(p) == p \in Seq(LeaseSet) /\ Sorted(p)

\* The fields of a lease in the list have their types.
LEMMA LeaseFields ==
  ASSUME NEW p \in Seq(LeaseSet), NEW i \in 1 .. Len(p)
  PROVE  /\ p[i] \in LeaseSet
         /\ p[i].ip \in StartIp .. EndIp /\ p[i].mac \in Stations /\ p[i].lease_timer \in 1 .. LeaseTimer
         /\ p[i].ip \in Nat /\ p[i].lease_timer \in Nat
<1>1. p[i] \in LeaseSet
  OBVIOUS
<1>2. QED
  BY <1>1, DhcpsAssumption DEF LeaseSet

\* After i leases.
WalkInv(w, i) ==
    /\ w.next \in StartIp .. EndIp + 1 /\ StartIp <= w.first
    /\ \A k \in 1 .. i : plist[k].ip # w.next
    /\ ~w.flag => w.first = StartIp + i /\ \A k \in 1 .. i : plist[k].ip = StartIp + k - 1
    /\ w.flag => \E j \in 1 .. i : w.first < plist[j].ip /\ \A k \in 1 .. j - 1 : plist[k].ip < w.first

\* One turn of the loop of parse_msg keeps what is known of the walk: this is where
\* the order of the list is needed.
LEMMA WalkStep ==
  ASSUME IsLeases(plist), NEW i \in 1 .. Len(plist), NEW w \in WalkSet, WalkInv(w, i - 1)
  PROVE  WalkInv(Pass(w, plist[i]), i)
<1> USE DhcpsAssumption
<1> DEFINE v == Pass(w, plist[i])
<1>1. /\ \A k \in 1 .. Len(plist) : plist[k].ip \in StartIp .. EndIp /\ plist[k].ip \in Nat
      /\ Len(plist) \in Nat
  BY LeaseFields DEF IsLeases
<1>2. \A k, l \in 1 .. Len(plist) : k < l => plist[k].ip < plist[l].ip
  BY DEF IsLeases, Sorted
<1>3. w.next \in Nat /\ w.first \in Nat /\ w.flag \in BOOLEAN
  BY DEF WalkSet
<1>4. /\ v.next = IF plist[i].ip = w.next THEN w.next + 1 ELSE w.next
      /\ v.first = IF w.flag \/ w.first < plist[i].ip THEN w.first ELSE w.first + 1
      /\ v.flag = (w.flag \/ w.first < plist[i].ip)
  BY DEF Pass
<1> HIDE DEF v
<1>5. v.next \in StartIp .. EndIp + 1 /\ StartIp <= v.first /\ \A k \in 1 .. i : plist[k].ip # v.next
  <2>1. /\ w.next \in StartIp .. EndIp + 1 /\ StartIp <= w.first
        /\ \A k \in 1 .. i - 1 : plist[k].ip # w.next
    BY DEF WalkInv
  <2>2. v.next \in StartIp .. EndIp + 1 /\ StartIp <= v.first
    BY <1>1, <1>3, <1>4, <2>1
  <2>3. ASSUME NEW k \in 1 .. i PROVE plist[k].ip # v.next
    <3>1. CASE k = i
      BY <1>1, <1>3, <1>4, <3>1
    <3>2. CASE k # i
      <4>1. k \in 1 .. i - 1 /\ k \in 1 .. Len(plist) /\ plist[k].ip < plist[i].ip
        BY <1>1, <1>2, <3>2
      <4>2. QED
        BY <1>1, <1>3, <1>4, <2>1, <4>1
    <3>3. QED
      BY <3>1, <3>2
  <2>4. QED
    BY <2>2, <2>3
<1>6. ASSUME ~v.flag PROVE v.first = StartIp + i /\ \A k \in 1 .. i : plist[k].ip = StartIp + k - 1
  <2>1. ~w.flag /\ ~(w.first < plist[i].ip)
    BY <1>3, <1>4, <1>6
  <2>2. w.first = StartIp + i - 1 /\ \A k \in 1 .. i - 1 : plist[k].ip = StartIp + k - 1
    BY <2>1 DEF WalkInv
  <2>3. plist[i].ip = StartIp + i - 1
    <3>1. CASE i = 1
      BY <1>1, <2>1, <2>2, <3>1
    <3>2. CASE i # 1
      <4>1. plist[i - 1].ip = StartIp + i - 2 /\ plist[i - 1].ip < plist[i].ip
        <5>1. i - 1 \in 1 .. i - 1 /\ i - 1 \in 1 .. Len(plist) /\ i - 1 < i
          BY <1>1, <3>2
        <5>2. plist[i - 1].ip = StartIp + (i - 1) - 1
          BY <2>2, <5>1
        <5>3. QED
          BY <1>1, <1>2, <5>1, <5>2
      <4>2. QED
        <5>1. plist[i].ip \in Nat /\ i \in Nat /\ StartIp \in Nat /\ plist[i].ip <= StartIp + i - 1
          BY <1>1, <1>3, <2>1, <2>2
        <5>2. QED
          BY ONLY <4>1, <5>1
    <3>3. QED
      BY <3>1, <3>2
  <2>4. v.first = StartIp + i
    BY <1>3, <1>4, <2>1, <2>2
  <2>5. QED
    BY <1>1, <2>2, <2>3, <2>4
<1>7. ASSUME v.flag
      PROVE  \E j \in 1 .. i : v.first < plist[j].ip /\ \A k \in 1 .. j - 1 : plist[k].ip < v.first
  <2>1. CASE w.flag
    BY <1>1, <1>3, <1>4, <2>1 DEF WalkInv
  <2>2. CASE ~w.flag
    <3>1. w.first < plist[i].ip /\ v.first = w.first
      BY <1>3, <1>4, <1>7, <2>2
    <3>2. \A k \in 1 .. i - 1 : plist[k].ip < w.first
      BY <1>1, <2>2 DEF WalkInv
    <3>3. QED
      BY <3>1, <3>2
  <2>3. QED
    BY <1>3, <2>1, <2>2
<1>8. QED
  BY <1>5, <1>6, <1>7 DEF WalkInv, v

\* So the walk has it after any number of leases.
LEMMA WalkGoes ==
  ASSUME IsLeases(plist), plus \in StartIp .. EndIp + 1
  PROVE  \A i \in 0 .. Len(plist) : Walked[i] \in WalkSet /\ WalkInv(Walked[i], i)
<1> USE DhcpsAssumption
<1>1. /\ Walked[0] = [next |-> plus, first |-> StartIp, flag |-> FALSE]
      /\ \A i \in 1 .. Len(plist) : Walked[i] = Pass(Walked[i - 1], plist[i])
      /\ \A i \in 0 .. Len(plist) : Walked[i] \in WalkSet
  BY WalkedUnfolds DEF IsLeases
<1> DEFINE S == {i \in 0 .. Len(plist) : ~WalkInv(Walked[i], i)}
<1>2. SUFFICES ASSUME S # {} PROVE FALSE
  BY <1>1
<1>3. Len(plist) \in Nat
  BY DEF IsLeases
<1>4. PICK m \in S : \A k \in S : m <= k
  <2>1. S \in SUBSET Nat
    BY <1>3
  <2> HIDE DEF S
  <2>2. QED
    BY <1>2, <2>1, LeastOf
<1>5. m # 0
  <2>1. WalkInv(Walked[0], 0)
    BY <1>1 DEF WalkInv
  <2>2. QED
    BY <2>1
<1>6. m \in 1 .. Len(plist) /\ m - 1 \in 0 .. Len(plist) /\ m - 1 \notin S
  BY <1>3, <1>4, <1>5
<1>7. WalkInv(Walked[m - 1], m - 1) /\ Walked[m - 1] \in WalkSet
  BY <1>1, <1>6
<1>8. WalkInv(Walked[m], m)
  BY <1>1, <1>6, <1>7, WalkStep
<1>9. QED
  BY <1>8

\* What the walk finds: an address of the range that no lease has, or that the range
\* is used up.
LEMMA AddressFree ==
  ASSUME IsLeases(plist), plus \in StartIp .. EndIp + 1
  PROVE  /\ ClientAddress \in Nat /\ StartIp <= ClientAddress
         /\ ClientAddress <= EndIp => \A i \in 1 .. Len(plist) : plist[i].ip # ClientAddress
         /\ ClientAddress > EndIp => Len(plist) = EndIp - StartIp + 1
<1> USE DhcpsAssumption
<1> DEFINE n == Len(plist)
<1>1. n \in Nat /\ n \in 0 .. n
  BY DEF IsLeases
<1>2. Walk \in WalkSet /\ WalkInv(Walk, n)
  BY <1>1, WalkGoes DEF Walk
<1>3. \A k \in 1 .. n : plist[k].ip \in StartIp .. EndIp /\ plist[k].ip \in Nat
  BY LeaseFields DEF IsLeases
<1>4. \A k, l \in 1 .. n : k < l => plist[k].ip < plist[l].ip
  BY DEF IsLeases, Sorted
<1>5. Walk.next \in Nat /\ Walk.first \in Nat /\ Walk.flag \in BOOLEAN
  BY <1>2 DEF WalkSet
<1>6. CASE Walk.next <= EndIp
  BY <1>1, <1>2, <1>5, <1>6 DEF ClientAddress, WalkInv
<1>7. CASE Walk.next > EndIp
  <2>1. ClientAddress = Walk.first
    BY <1>7 DEF ClientAddress
  <2>2. CASE Walk.flag
    <3>1. PICK j \in 1 .. n : Walk.first < plist[j].ip /\ \A k \in 1 .. j - 1 : plist[k].ip < Walk.first
      BY <1>2, <2>2 DEF WalkInv
    <3>2. \A i \in 1 .. n : plist[i].ip # Walk.first
      BY <1>1, <1>3, <1>4, <1>5, <3>1
    <3>3. Walk.first <= EndIp
      BY <1>3, <1>5, <3>1
    <3>4. StartIp <= Walk.first
      BY <1>2, <1>5 DEF WalkInv
    <3>5. QED
      BY <1>5, <2>1, <3>2, <3>3, <3>4
  <2>3. CASE ~Walk.flag
    <3>1. Walk.first = StartIp + n /\ \A k \in 1 .. n : plist[k].ip = StartIp + k - 1
      BY <1>2, <2>3 DEF WalkInv
    <3>2. n # 0 => plist[n].ip = StartIp + n - 1 /\ plist[n].ip <= EndIp
      BY <1>1, <1>3, <3>1
    <3>3. StartIp + n <= EndIp + 1
      BY ONLY <1>1, <3>2, DhcpsAssumption
    <3>4. ClientAddress = StartIp + n
      BY <2>1, <3>1
    <3> HIDE DEF n
    <3>5. ASSUME NEW k \in 1 .. n PROVE plist[k].ip # ClientAddress
      <4>1. plist[k].ip = StartIp + k - 1
        BY ONLY <3>1
      <4>2. StartIp + k - 1 # StartIp + n
        BY ONLY <1>1, DhcpsAssumption
      <4>3. QED
        BY ONLY <3>4, <4>1, <4>2
    <3>6. /\ ClientAddress \in Nat /\ StartIp <= ClientAddress
          /\ ClientAddress > EndIp => n = EndIp - StartIp + 1
      BY ONLY <1>1, <3>3, <3>4, DhcpsAssumption
    <3>7. QED
      BY <3>5, <3>6 DEF n
  <2>4. QED
    BY <1>5, <2>2, <2>3
<1>8. QED
  BY <1>5, <1>6, <1>7

\* node_insert_to_list keeps the list sorted and loses no lease.
LEMMA InsertKeeps ==
  ASSUME NEW p, IsLeases(p), NEW e \in LeaseSet,
         \A i \in 1 .. Len(p) : p[i].ip # e.ip /\ p[i].mac # e.mac
  PROVE  LET q == node_insert_to_list(p, e)
         IN  /\ IsLeases(q)
             /\ \E k \in 1 .. Len(q) : q[k] = e
             /\ \A i \in 1 .. Len(p) : \E k \in 1 .. Len(q) : q[k] = p[i]
<1> USE DhcpsAssumption
<1> DEFINE n == Len(p)
           OK(i) == /\ i <= Len(p) => e.ip < p[i].ip
                    /\ \A j \in 1 .. i - 1 : p[j].ip <= e.ip
           c == CHOOSE i \in 1 .. Len(p) + 1 : OK(i)
           q == node_insert_to_list(p, e)
<1>1. p \in Seq(LeaseSet) /\ n \in Nat
  BY DEF IsLeases
<1>2. e.ip \in Nat /\ \A i \in 1 .. n : p[i].ip \in Nat
  <2>1. e.ip \in Nat
    BY ONLY e \in LeaseSet, DhcpsAssumption DEF LeaseSet
  <2>2. ASSUME NEW i \in 1 .. n PROVE p[i].ip \in Nat
    BY ONLY <1>1, <2>2, LeaseFields
  <2>3. QED
    BY <2>1, <2>2
<1>3. \A i, j \in 1 .. n : i < j => p[i].ip < p[j].ip /\ p[i].mac # p[j].mac
  BY DEF IsLeases, Sorted
<1>4. \E i \in 1 .. n + 1 : OK(i)
  <2> DEFINE S == {i \in 1 .. n + 1 : i = n + 1 \/ e.ip < p[i].ip}
  <2>1. S \in SUBSET Nat /\ S # {}
    BY <1>1
  <2>2. PICK i \in S : \A m \in S : i <= m
    <3> HIDE DEF S
    <3>1. QED
      BY <2>1, LeastOf
  <2>3. ASSUME NEW j \in 1 .. i - 1 PROVE p[j].ip <= e.ip
    <3>1. j \in 1 .. n /\ j \notin S
      BY <1>1, <2>2
    <3>2. QED
      BY <1>1, <1>2, <3>1
  <2>4. i <= n => e.ip < p[i].ip
    BY <1>1, <2>2
  <2>5. QED
    BY <2>3, <2>4
<1>5. c \in 1 .. n + 1 /\ OK(c)
  <2> HIDE DEF OK
  <2>1. QED
    BY <1>4
<1>6. q = InsertAt(p, c, e)
  BY DEF node_insert_to_list
<1> HIDE DEF c, q
<1>7. /\ q \in Seq(LeaseSet) /\ Len(q) = n + 1
      /\ \A k \in 1 .. n + 1 : q[k] = IF k < c THEN p[k] ELSE IF k = c THEN e ELSE p[k - 1]
  <2> HIDE DEF OK
  <2>1. c \in 1 .. Len(p) + 1
    BY <1>5
  <2>2. InsertAt(p, c, e) \in Seq(LeaseSet) /\ IsInserted(InsertAt(p, c, e), p, c, e)
    BY <1>1, <2>1, InsertedAt
  <2>3. QED
    BY <1>6, <2>2 DEF IsInserted
<1>8. Sorted(q)
  <2> SUFFICES ASSUME NEW i \in 1 .. n + 1, NEW j \in 1 .. n + 1, i < j
               PROVE  q[i].ip < q[j].ip /\ q[i].mac # q[j].mac
    BY <1>7 DEF Sorted
  <2>1. CASE i < c /\ j < c
    BY <1>1, <1>3, <1>5, <1>7, <2>1
  <2>2. CASE i < c /\ j = c
    <3>1. q[i] = p[i] /\ q[j] = e /\ p[i].ip <= e.ip /\ p[i].ip # e.ip /\ p[i].mac # e.mac /\ i \in 1 .. n
      BY <1>1, <1>5, <1>7, <2>2
    <3>2. QED
      BY <1>2, <3>1
  <2>3. CASE i < c /\ j > c
    <3>1. q[i] = p[i] /\ q[j] = p[j - 1] /\ i < j - 1 /\ i \in 1 .. n /\ j - 1 \in 1 .. n
      BY <1>1, <1>5, <1>7, <2>3
    <3>2. QED
      BY <1>3, <3>1
  <2>4. CASE i = c
    <3>1. q[i] = e /\ q[j] = p[j - 1] /\ c <= j - 1 /\ j - 1 \in 1 .. n /\ c \in 1 .. n
      BY <1>1, <1>5, <1>7, <2>4
    <3>2. e.ip < p[c].ip /\ (c = j - 1 \/ p[c].ip < p[j - 1].ip)
      BY <1>1, <1>3, <1>5, <3>1
    <3>3. p[j - 1].mac # e.mac
      BY <3>1
    <3>4. QED
      BY <1>2, <3>1, <3>2, <3>3
  <2>5. CASE i > c
    <3>1. q[i] = p[i - 1] /\ q[j] = p[j - 1] /\ i - 1 < j - 1 /\ i - 1 \in 1 .. n /\ j - 1 \in 1 .. n
      BY <1>1, <1>5, <1>7, <2>5
    <3>2. QED
      BY <1>3, <3>1
  <2>6. QED
    BY <1>1, <1>5, <2>1, <2>2, <2>3, <2>4, <2>5
<1>9. \E k \in 1 .. Len(q) : q[k] = e
  <2>1. c \in 1 .. Len(q) /\ q[c] = e
    BY <1>1, <1>5, <1>7
  <2>2. QED
    BY <2>1
<1>10. ASSUME NEW i \in 1 .. n PROVE \E k \in 1 .. Len(q) : q[k] = p[i]
  <2>1. CASE i < c
    <3>1. i \in 1 .. Len(q) /\ q[i] = p[i]
      BY <1>1, <1>5, <1>7, <2>1
    <3>2. QED
      BY <3>1
  <2>2. CASE ~(i < c)
    <3>1. i + 1 \in 1 .. Len(q) /\ q[i + 1] = p[i]
      BY <1>1, <1>5, <1>7, <2>2
    <3>2. QED
      BY <3>1
  <2>3. QED
    BY <2>1, <2>2
<1>11. QED
  BY <1>7, <1>8, <1>9, <1>10 DEF IsLeases, q

\* node_remove_from_list keeps the list sorted and loses only the one lease.
LEMMA RemoveKeeps ==
  ASSUME NEW p, IsLeases(p), NEW d \in 1 .. Len(p)
  PROVE  LET q == RemoveAt(p, d)
         IN  /\ IsLeases(q)
             /\ \A i \in 1 .. Len(p) : i # d => \E k \in 1 .. Len(q) : q[k] = p[i]
<1> DEFINE n == Len(p)
           q == RemoveAt(p, d)
<1>1. p \in Seq(LeaseSet) /\ n \in Nat
  BY DEF IsLeases
<1>2. \A i, j \in 1 .. n : i < j => p[i].ip < p[j].ip /\ p[i].mac # p[j].mac
  BY DEF IsLeases, Sorted
<1>5. /\ q \in Seq(LeaseSet) /\ Len(q) = n - 1
      /\ \A k \in 1 .. n - 1 : q[k] = IF k < d THEN p[k] ELSE p[k + 1]
  BY <1>1, RemovedAt DEF IsRemoved
<1> HIDE DEF q
<1>6. Sorted(q)
  <2> SUFFICES ASSUME NEW i \in 1 .. n - 1, NEW j \in 1 .. n - 1, i < j
               PROVE  q[i].ip < q[j].ip /\ q[i].mac # q[j].mac
    BY <1>5 DEF Sorted
  <2> DEFINE at(k) == IF k < d THEN k ELSE k + 1
  <2>1. q[i] = p[at(i)] /\ q[j] = p[at(j)]
    BY <1>5
  <2>2. at(i) \in 1 .. n /\ at(j) \in 1 .. n /\ at(i) < at(j)
    BY <1>1
  <2> HIDE DEF at
  <2>3. QED
    BY <1>2, <2>1, <2>2
<1>7. ASSUME NEW i \in 1 .. n, i # d PROVE \E k \in 1 .. Len(q) : q[k] = p[i]
  <2>1. CASE i < d
    <3>1. i \in 1 .. Len(q) /\ q[i] = p[i]
      BY <1>1, <1>5, <2>1
    <3>2. QED
      BY <3>1
  <2>2. CASE ~(i < d)
    <3>1. i - 1 \in 1 .. Len(q) /\ q[i - 1] = p[i]
      BY <1>1, <1>5, <1>7, <2>2
    <3>2. QED
      BY <3>1
  <2>3. QED
    BY <2>1, <2>2
<1>8. QED
  BY <1>5, <1>6, <1>7 DEF IsLeases, q

\* A lease that has not expired is one tick shorter, and still a lease.
LEMMA TickedLease ==
  ASSUME NEW e \in LeaseSet, ~Expired(e)
  PROVE  /\ Ticked(e) \in LeaseSet
         /\ Ticked(e).ip = e.ip /\ Ticked(e).mac = e.mac /\ Ticked(e).lease_timer = e.lease_timer - 1
BY DhcpsAssumption DEF LeaseSet, Ticked, Expired

\* The list after i leases of the old one were looked at.
KeptInv(q, i) ==
    /\ IsLeases(q)
    /\ \A k \in 1 .. Len(q) : \E j \in 1 .. i : q[k].ip = plist[j].ip /\ q[k].mac = plist[j].mac
    /\ \A j \in 1 .. i : ~Expired(plist[j]) => \E k \in 1 .. Len(q) : q[k] = Ticked(plist[j])

\* One turn of the loop of dhcps_coarse_tmr.
LEMMA KeptStep ==
  ASSUME IsLeases(plist), NEW i \in 1 .. Len(plist), NEW q, KeptInv(q, i - 1)
  PROVE  KeptInv(IF Expired(plist[i]) THEN q ELSE Append(q, Ticked(plist[i])), i)
<1>0. Len(plist) \in Nat /\ plist \in Seq(LeaseSet) /\ q \in Seq(LeaseSet) /\ Len(q) \in Nat
  BY DEF IsLeases, KeptInv
<1>1. plist[i] \in LeaseSet
  BY <1>0
<1>2. CASE Expired(plist[i])
  BY <1>0, <1>2 DEF KeptInv
<1>3. CASE ~Expired(plist[i])
  <2> DEFINE e == Ticked(plist[i])
             r == Append(q, e)
  <2>1. e \in LeaseSet /\ e.ip = plist[i].ip /\ e.mac = plist[i].mac
    BY <1>1, <1>3, TickedLease
  <2>2. e = Ticked(plist[i])
    OBVIOUS
  <2> HIDE DEF e
  <2>3. /\ r \in Seq(LeaseSet) /\ Len(r) = Len(q) + 1 /\ r[Len(q) + 1] = e
        /\ \A k \in 1 .. Len(q) : r[k] = q[k]
    BY <1>0, <2>1, AppendProperties
  <2> HIDE DEF r
  <2>4. ASSUME NEW k \in 1 .. Len(q) PROVE q[k].ip < e.ip /\ q[k].mac # e.mac
    <3>1. PICK j \in 1 .. i - 1 : q[k].ip = plist[j].ip /\ q[k].mac = plist[j].mac
      BY DEF KeptInv
    <3>2. plist[j].ip < plist[i].ip /\ plist[j].mac # plist[i].mac
      BY <1>0 DEF IsLeases, Sorted
    <3>3. QED
      BY <2>1, <3>1, <3>2
  <2>5. Sorted(q)
    BY DEF KeptInv, IsLeases
  <2>6. Sorted(r)
    <3> SUFFICES ASSUME NEW k \in 1 .. Len(r), NEW l \in 1 .. Len(r), k < l
                 PROVE  r[k].ip < r[l].ip /\ r[k].mac # r[l].mac
      BY DEF Sorted
    <3>1. CASE l = Len(q) + 1
      BY <1>0, <2>3, <2>4, <3>1
    <3>2. CASE l # Len(q) + 1
      <4>1. k \in 1 .. Len(q) /\ l \in 1 .. Len(q)
        BY <1>0, <2>3, <3>2
      <4>2. QED
        BY <2>3, <2>5, <4>1 DEF Sorted
    <3>3. QED
      BY <3>1, <3>2
  <2>7. ASSUME NEW k \in 1 .. Len(r)
        PROVE  \E j \in 1 .. i : r[k].ip = plist[j].ip /\ r[k].mac = plist[j].mac
    <3>1. CASE k = Len(q) + 1
      BY <1>0, <2>1, <2>3, <3>1
    <3>2. CASE k # Len(q) + 1
      <4>1. k \in 1 .. Len(q)
        BY <1>0, <2>3, <3>2
      <4>2. PICK j \in 1 .. i - 1 : q[k].ip = plist[j].ip /\ q[k].mac = plist[j].mac
        BY <4>1 DEF KeptInv
      <4>3. QED
        BY <1>0, <2>3, <4>1, <4>2
    <3>3. QED
      BY <3>1, <3>2
  <2>8. ASSUME NEW j \in 1 .. i, ~Expired(plist[j]) PROVE \E k \in 1 .. Len(r) : r[k] = Ticked(plist[j])
    <3>1. CASE j = i
      BY <1>0, <2>2, <2>3, <3>1
    <3>2. CASE j # i
      <4>1. j \in 1 .. i - 1
        BY <1>0, <3>2
      <4>2. PICK k \in 1 .. Len(q) : q[k] = Ticked(plist[j])
        BY <2>8, <4>1 DEF KeptInv
      <4>3. QED
        BY <1>0, <2>3, <4>2
    <3>3. QED
      BY <3>1, <3>2
  <2>9. KeptInv(r, i)
    BY <2>3, <2>6, <2>7, <2>8 DEF KeptInv, IsLeases
  <2>10. QED
    BY <1>3, <2>9 DEF r, e
<1>4. QED
  BY <1>2, <1>3

\* dhcps_coarse_tmr keeps the order and every lease that has time left.
LEMMA RemainingKeeps ==
  ASSUME IsLeases(plist)
  PROVE  KeptInv(Remaining, Len(plist))
<1> DEFINE n == Len(plist)
           LS == Seq(LeaseSet)
           Go(q, i) == IF Expired(plist[i]) THEN q ELSE Append(q, Ticked(plist[i]))
           step == [p \in Nat \X LS |-> IF p[1] \in 1 .. n THEN Go(p[2], p[1]) ELSE p[2]]
           Eq(g) == g = [i \in 0 .. n |-> IF i = 0 THEN << >>
                            ELSE IF Expired(plist[i]) THEN g[i - 1] ELSE Append(g[i - 1], Ticked(plist[i]))]
           kept == CHOOSE g : Eq(g)
<1>1. n \in Nat /\ << >> \in LS /\ plist \in Seq(LeaseSet)
  BY DEF IsLeases
<1>2. ASSUME NEW q \in LS, NEW i \in 1 .. n PROVE Go(q, i) \in LS
  <2>1. plist[i] \in LeaseSet
    BY <1>1
  <2>2. ~Expired(plist[i]) => Ticked(plist[i]) \in LeaseSet
    BY <2>1, TickedLease
  <2>3. QED
    BY <2>2
<1>3. step \in [Nat \X LS -> LS]
  <2> HIDE DEF Go
  <2>1. ASSUME NEW p \in Nat \X LS
        PROVE  (IF p[1] \in 1 .. n THEN Go(p[2], p[1]) ELSE p[2]) \in LS
    BY <1>2
  <2>2. QED
    BY <2>1
<1>4. PICK f : IsRun(f, n, LS, << >>, step)
  <2> HIDE DEF step, LS
  <2>1. QED
    BY <1>1, <1>3, Iterates
<1>5. ASSUME NEW i \in 1 .. n PROVE f[i] = Go(f[i - 1], i)
  <2> HIDE DEF Go, LS
  <2>1. <<i, f[i - 1]>> \in Nat \X LS
    BY <1>1, <1>4 DEF IsRun
  <2>2. QED
    BY <1>4, <2>1 DEF IsRun
<1>6. Eq(f)
  <2> HIDE DEF LS
  <2>1. f = [i \in 0 .. n |-> f[i]] /\ f[0] = << >>
    BY <1>4 DEF IsRun
  <2>2. ASSUME NEW i \in 0 .. n
        PROVE  f[i] = IF i = 0 THEN << >>
                      ELSE IF Expired(plist[i]) THEN f[i - 1] ELSE Append(f[i - 1], Ticked(plist[i]))
    <3>1. i = 0 \/ i \in 1 .. n
      BY <1>1
    <3>2. i \in 1 .. n => i # 0
      OBVIOUS
    <3>3. QED
      BY <1>5, <2>1, <3>1, <3>2, Zenon
  <2>3. QED
    BY <2>1, <2>2, Zenon
<1>7. Remaining = kept[n]
  BY DEF Remaining
<1> HIDE DEF Eq
<1>8. Eq(kept)
  BY <1>6
<1> HIDE DEF kept
<1> USE DEF Eq
<1>9. kept[0] = << >> /\ \A i \in 1 .. n : kept[i] = Go(kept[i - 1], i)
  <2> DEFINE rhs(i) == IF i = 0 THEN << >> ELSE IF Expired(plist[i]) THEN kept[i - 1]
                       ELSE Append(kept[i - 1], Ticked(plist[i]))
  <2>1. \A i \in 0 .. n : kept[i] = rhs(i)
    BY <1>8, Zenon
  <2>2. 0 \in 0 .. n /\ \A i \in 1 .. n : i \in 0 .. n /\ i # 0
    BY <1>1
  <2>3. QED
    BY <2>1, <2>2, Zenon
<1> DEFINE S == {i \in 0 .. n : ~KeptInv(kept[i], i)}
<1>10. S = {}
  <2>1. SUFFICES ASSUME S # {} PROVE FALSE
    OBVIOUS
  <2>2. PICK m \in S : \A k \in S : m <= k
    <3>1. S \in SUBSET Nat
      BY <1>1
    <3> HIDE DEF S
    <3>2. QED
      BY <2>1, <3>1, LeastOf
  <2>3. m # 0
    <3>1. KeptInv(<< >>, 0)
      BY <1>1 DEF KeptInv, IsLeases, Sorted
    <3>2. QED
      BY <1>9, <3>1
  <2>4. m \in 1 .. n /\ m - 1 \in 0 .. n /\ m - 1 \notin S
    BY <1>1, <2>2, <2>3
  <2>5. KeptInv(kept[m - 1], m - 1)
    BY <2>4
  <2>6. KeptInv(Go(kept[m - 1], m), m)
    BY <2>4, <2>5, KeptStep
  <2> HIDE DEF Go
  <2>7. QED
    BY <1>9, <2>2, <2>4, <2>6
<1>11. n \in 0 .. n
  BY <1>1
<1>12. QED
  BY <1>7, <1>10, <1>11

\* kill_oldest_dhcps_pool finds a lease, one that is in the list.
LEMMA OldestIs ==
  ASSUME NEW p, IsLeases(p), Len(p) >= 2
  PROVE  OldestLease(p) \in 2 .. Len(p)
<1> DEFINE D == 2 .. Len(p)
           T == {p[i].lease_timer : i \in D}
<1>1. Len(p) \in Nat /\ D \subseteq Nat /\ 2 \in D /\ \A i \in D : p[i].lease_timer \in Nat
  BY LeaseFields DEF IsLeases
<1>2. T \in SUBSET Nat /\ T # {}
  BY <1>1
<1>3. PICK t \in T : \A u \in T : t <= u
  <2> HIDE DEF T
  <2>1. QED
    BY <1>2, LeastOf
<1> DEFINE I == {i \in D : p[i].lease_timer = t}
<1>4. I \in SUBSET Nat /\ I # {}
  BY <1>1, <1>3
<1>5. PICK i \in I : \A j \in I : i <= j
  <2> HIDE DEF I
  <2>1. QED
    BY <1>4, LeastOf
<1>6. ASSUME NEW j \in D
      PROVE  \/ p[i].lease_timer < p[j].lease_timer
             \/ p[i].lease_timer = p[j].lease_timer /\ i <= j
  <2>1. p[i].lease_timer = t /\ t <= p[j].lease_timer
    BY <1>3, <1>5
  <2>2. p[j].lease_timer = t => i <= j
    BY <1>5
  <2>3. p[i].lease_timer \in Nat /\ p[j].lease_timer \in Nat
    BY <1>1
  <2>4. QED
    BY <2>1, <2>2, <2>3
<1>7. i \in D
  OBVIOUS
<1>8. QED
  BY <1>6, <1>7 DEF OldestLease

\* A list has a lease of a, with that address, for n ticks at least.
Has(p, a, ip, n) ==
    \E i \in 1 .. Len(p) : p[i].mac = a /\ p[i].ip = ip /\ p[i].lease_timer >= n

\* The lease of a known station is in the list, and is that station's.
LEMMA LeaseIs ==
  ASSUME IsLeases(plist), NEW a, Known(a)
  PROVE  LeaseOf(a) \in 1 .. Len(plist) /\ plist[LeaseOf(a)].mac = a
<1>1. Leases(a) \in SUBSET Nat /\ Leases(a) # {} /\ Leases(a) \subseteq 1 .. Len(plist)
  BY DEF Known, Leases, IsLeases
<1>2. \E i \in Leases(a) : \A j \in Leases(a) : i <= j
  BY <1>1, LeastOf
<1>3. LeaseOf(a) \in Leases(a)
  <2> HIDE DEF Leases
  <2>1. QED
    BY <1>2 DEF LeaseOf
<1>4. QED
  BY <1>1, <1>3 DEF Leases

\* What a list is after parse_msg.
Serves(p, q, a, ip) ==
    /\ IsLeases(q)
    /\ ip \in {0} \cup StartIp .. EndIp
    /\ ip # 0 => Has(q, a, ip, LeaseTimer)
    /\ \A b \in Stations : \A i \in Nat : \A n \in 0 .. LeaseTimer : Has(p, b, i, n) => Has(q, b, i, n)

\* parse_msg: the station has a lease of the address it is answered, at its full
\* length, and no other station loses one.
LEMMA Parsed ==
  ASSUME IsLeases(plist), plus \in StartIp .. EndIp + 1, NEW a \in Stations, parse_msg(a)
  PROVE  plus' \in StartIp .. EndIp + 1 /\ Serves(plist, plist', a, Address(a))
<1> USE DhcpsAssumption
<1>1. plist \in Seq(LeaseSet) /\ Len(plist) \in Nat
  BY DEF IsLeases
<1>2. CASE Known(a)
  <2> DEFINE k == LeaseOf(a)
             r == [plist[k] EXCEPT !.lease_timer = LeaseTimer]
  <2>1. k \in 1 .. Len(plist) /\ plist[k].mac = a
    BY <1>2, LeaseIs
  <2>2. plist' = [plist EXCEPT ![k] = r] /\ plus' = Walked[k - 1].next /\ Address(a) = plist[k].ip
    BY <1>2 DEF parse_msg, Refreshed, PlusKnown, Address, IpOf
  <2>3. plist[k] \in LeaseSet /\ plist[k].ip \in StartIp .. EndIp /\ plist[k].ip \in Nat
    BY <1>1, <2>1, LeaseFields
  <2>4. r \in LeaseSet /\ r.ip = plist[k].ip /\ r.mac = plist[k].mac /\ r.lease_timer = LeaseTimer
    BY <2>3 DEF LeaseSet
  <2> HIDE DEF r, k
  <2>5. /\ plist' \in Seq(LeaseSet) /\ Len(plist') = Len(plist)
        /\ \A i \in 1 .. Len(plist) : plist'[i] = IF i = k THEN r ELSE plist[i]
    BY <1>1, <2>1, <2>2, <2>4
  <2>6. /\ \A i \in 1 .. Len(plist) : plist'[i].ip = plist[i].ip /\ plist'[i].mac = plist[i].mac
        /\ plist'[k].lease_timer = LeaseTimer
        /\ \A i \in 1 .. Len(plist) : i # k => plist'[i].lease_timer = plist[i].lease_timer
    BY <2>1, <2>4, <2>5
  <2>7. IsLeases(plist')
    <3>1. Sorted(plist)
      BY DEF IsLeases
    <3>2. Sorted(plist')
      BY <2>5, <2>6, <3>1 DEF Sorted
    <3>3. QED
      BY <2>5, <3>2 DEF IsLeases
  <2>8. Has(plist', a, Address(a), LeaseTimer)
    BY <2>1, <2>2, <2>5, <2>6 DEF Has
  <2>9. ASSUME NEW b \in Stations, NEW ip \in Nat, NEW n \in 0 .. LeaseTimer, Has(plist, b, ip, n)
        PROVE  Has(plist', b, ip, n)
    <3>1. PICK i \in 1 .. Len(plist) : plist[i].mac = b /\ plist[i].ip = ip /\ plist[i].lease_timer >= n
      BY <2>9 DEF Has
    <3>2. plist'[i].lease_timer >= n
      BY <2>6, <3>1
    <3>3. QED
      BY <2>5, <2>6, <3>1, <3>2 DEF Has
  <2>10. plus' \in StartIp .. EndIp + 1
    <3>1. k - 1 \in 0 .. Len(plist)
      BY <1>1, <2>1
    <3>2. QED
      BY <2>2, <3>1, WalkGoes DEF WalkInv
  <2>11. Address(a) \in {0} \cup StartIp .. EndIp
    BY <2>2, <2>3
  <2>12. QED
    BY <2>7, <2>8, <2>9, <2>10, <2>11 DEF Serves
<1>3. CASE ~Known(a) /\ ClientAddress > EndIp
  <2>1. plist' = plist /\ plus' = StartIp /\ Address(a) = 0
    BY <1>3 DEF parse_msg, Address
  <2>2. QED
    BY <2>1 DEF Serves
<1>4. CASE ~Known(a) /\ ~(ClientAddress > EndIp)
  <2> DEFINE e == Lease(ClientAddress, a)
  <2>1. /\ ClientAddress \in StartIp .. EndIp
        /\ \A i \in 1 .. Len(plist) : plist[i].ip # ClientAddress
    BY <1>4, AddressFree
  <2>2. plist' = node_insert_to_list(plist, e) /\ plus' = Following(ClientAddress) /\ Address(a) = ClientAddress
    BY <1>4 DEF parse_msg, Address
  <2>3. e \in LeaseSet /\ e.ip = ClientAddress /\ e.mac = a /\ e.lease_timer = LeaseTimer
    BY <2>1 DEF LeaseSet, Lease
  <2>4. \A i \in 1 .. Len(plist) : plist[i].ip # e.ip /\ plist[i].mac # e.mac
    BY <1>1, <1>4, <2>1, <2>3 DEF Known, Leases
  <2> HIDE DEF e
  <2>5. /\ IsLeases(plist')
        /\ \E k \in 1 .. Len(plist') : plist'[k] = e
        /\ \A i \in 1 .. Len(plist) : \E k \in 1 .. Len(plist') : plist'[k] = plist[i]
    BY <2>2, <2>3, <2>4, InsertKeeps
  <2>6. Has(plist', a, Address(a), LeaseTimer)
    BY <2>2, <2>3, <2>5 DEF Has
  <2>7. \A b \in Stations : \A i \in Nat : \A n \in 0 .. LeaseTimer : Has(plist, b, i, n) => Has(plist', b, i, n)
    BY <2>5 DEF Has
  <2>8. plus' \in StartIp .. EndIp + 1
    BY <2>1, <2>2 DEF Following
  <2>9. QED
    BY <2>1, <2>2, <2>5, <2>6, <2>7, <2>8 DEF Serves
<1>5. QED
  BY <1>2, <1>3, <1>4

\* What a station holds: an address for some time, or neither.
HeldSet == {h \in [ip : {0} \cup StartIp .. EndIp, left : 0 .. LeaseTimer, late : BOOLEAN] :
                (h.ip = 0) = (h.left = 0)}

\* A station with h has the minutes it may count on, and a list p a lease for them.
Backed(p, a, h) == Sure(h) > 0 => Has(p, a, h.ip, Sure(h))

\* A station whose lease was ended early has not been confirmed since.
Unconfirmed(h) == h.left < LeaseTimer \/ h.late

\* The inductive invariant.
LeaseState ==
    /\ IsLeases(plist) /\ plus \in StartIp .. EndIp + 1
    /\ held \in [Stations -> HeldSet]
    /\ offered \in [Stations -> {0} \cup StartIp .. EndIp]
    /\ killed \in SUBSET Stations
    /\ \A a \in Stations : held[a].ip # 0 /\ a \notin killed => Backed(plist, a, held[a])
    /\ \A a \in killed : Unconfirmed(held[a])

\* The fields of what a station holds have their types.
LEMMA HeldFields ==
  ASSUME NEW h \in [Stations -> HeldSet], NEW a \in Stations
  PROVE  /\ h[a].ip \in {0} \cup StartIp .. EndIp /\ h[a].ip \in Nat
         /\ h[a].left \in 0 .. LeaseTimer /\ h[a].left \in Nat /\ h[a].late \in BOOLEAN
         /\ h[a].ip = 0 => h[a].left = 0
         /\ h[a].ip # 0 => h[a].left > 0 /\ Sure(h[a]) \in 0 .. LeaseTimer
<1>1. h[a] \in HeldSet
  OBVIOUS
<1>2. QED
  BY <1>1, DhcpsAssumption DEF HeldSet, Sure

\* A station without an address.
LEMMA NoLeaseIs == NoLease \in HeldSet /\ NoLease.ip = 0 /\ NoLease.left = 0 /\ Unconfirmed(NoLease)
BY DhcpsAssumption DEF NoLease, HeldSet, Unconfirmed

\* dhcps_start establishes the invariant.
LEMMA LeaseInit == DhcpsInit => LeaseState
<1> SUFFICES ASSUME DhcpsInit PROVE LeaseState
  OBVIOUS
<1>1. IsLeases(plist)
  BY DEF DhcpsInit, IsLeases, Sorted
<1>2. QED
  BY <1>1, NoLeaseIs, DhcpsAssumption DEF DhcpsInit, LeaseState

\* What the runs check follows from it: two stations with one address would have
\* two leases of it, and the list is strictly sorted.
LEMMA LeaseInvFollows == LeaseState => LeaseInv
<1> SUFFICES ASSUME LeaseState PROVE LeaseInv
  OBVIOUS
<1> USE DhcpsAssumption
<1>1. plist \in Seq(LeaseSet) /\ Len(plist) \in Nat /\ Sorted(plist) /\ DOMAIN plist = 1 .. Len(plist)
  BY DEF LeaseState, IsLeases
<1>2. DhcpsTypeOK
  <2>1. held \in [Stations -> HeldSet] /\ \A a \in Stations : held[a].ip # 0 => held[a].left > 0
    BY HeldFields DEF LeaseState
  <2>2. held \in [Stations -> [ip : {0} \cup StartIp .. EndIp, left : 0 .. LeaseTimer, late : BOOLEAN]]
    BY <2>1 DEF HeldSet
  <2>3. QED
    BY <1>1, <2>1, <2>2 DEF LeaseState, DhcpsTypeOK, LeaseSet
<1>3. LeasesDistinct
  BY <1>1 DEF LeasesDistinct, Sorted
<1>4. LeaseKept
  BY <1>1 DEF LeaseState, LeaseKept, Leases, Has, Backed
<1>5. NoConflict
  <2> SUFFICES ASSUME NEW a \in Stations, NEW b \in Stations, a # b,
                      held[a].ip # 0, held[a].ip = held[b].ip, a \notin killed, b \notin killed,
                      Sure(held[a]) # 0, Sure(held[b]) # 0
               PROVE  FALSE
    BY DEF NoConflict
  <2>0. Sure(held[a]) > 0 /\ Sure(held[b]) > 0
    BY HeldFields DEF LeaseState
  <2>1. PICK i \in 1 .. Len(plist) : plist[i].mac = a /\ plist[i].ip = held[a].ip
    BY <2>0 DEF LeaseState, Has, Backed
  <2>2. PICK j \in 1 .. Len(plist) : plist[j].mac = b /\ plist[j].ip = held[a].ip
    BY <2>0 DEF LeaseState, Has, Backed
  <2>3. i = j
    <3>1. plist[i].ip \in Nat /\ plist[j].ip \in Nat
      BY <1>1, LeaseFields
    <3>2. QED
      BY <1>1, <2>1, <2>2, <3>1 DEF Sorted
  <2>4. QED
    BY <2>1, <2>2, <2>3
<1>6. UsedUp
  <2> SUFFICES ASSUME NEW a \in Stations, Address(a) = 0 PROVE Len(plist) = EndIp - StartIp + 1
    BY DEF UsedUp
  <2>1. ~Known(a)
    <3>1. SUFFICES ASSUME Known(a) PROVE FALSE
      OBVIOUS
    <3>2. LeaseOf(a) \in 1 .. Len(plist)
      BY <3>1, LeaseIs DEF LeaseState
    <3>3. plist[LeaseOf(a)].ip \in StartIp .. EndIp
      BY <1>1, <3>2, LeaseFields
    <3>4. Address(a) = plist[LeaseOf(a)].ip
      BY <3>1 DEF Address, IpOf
    <3>5. QED
      BY <3>3, <3>4
  <2>2. ClientAddress \in Nat /\ StartIp <= ClientAddress
    BY AddressFree DEF LeaseState
  <2>3. ClientAddress > EndIp
    BY <2>1, <2>2 DEF Address
  <2>4. QED
    BY <2>3, AddressFree DEF LeaseState
<1>7. KilledLate
  BY DEF LeaseState, KilledLate, Unconfirmed
<1>8. QED
  BY <1>2, <1>3, <1>4, <1>5, <1>6, <1>7 DEF LeaseInv

\* A station that uses its address still has its lease after parse_msg.
LEMMA KeepsKept ==
  ASSUME LeaseState, NEW a \in Stations, NEW q, NEW ip, Serves(plist, q, a, ip), NEW b \in Stations,
         held[b].ip # 0, b \notin killed
  PROVE  Backed(q, b, held[b])
<1>1. held[b].ip \in Nat /\ Sure(held[b]) \in 0 .. LeaseTimer
  BY HeldFields DEF LeaseState
<1>2. Backed(plist, b, held[b])
  BY DEF LeaseState
<1>3. QED
  BY <1>1, <1>2 DEF Serves, Backed

\* A DISCOVER keeps the invariant.
LEMMA DiscoverKeeps ==
  ASSUME LeaseState, NEW a \in Stations, Discover(a)
  PROVE  LeaseState'
<1>1. plus' \in StartIp .. EndIp + 1 /\ Serves(plist, plist', a, Address(a))
  BY Parsed DEF LeaseState, Discover
<1>2. Address(a) \in {0} \cup StartIp .. EndIp /\ IsLeases(plist')
  BY <1>1 DEF Serves
<1>3. offered' \in [Stations -> {0} \cup StartIp .. EndIp]
  BY <1>2 DEF Discover, LeaseState
<1>4. held' = held /\ killed' = killed
  BY DEF Discover
<1>5. \A b \in Stations : held'[b].ip # 0 /\ b \notin killed' => Backed(plist', b, held'[b])
  BY <1>1, <1>4, KeepsKept
<1>6. QED
  BY <1>1, <1>2, <1>3, <1>4, <1>5 DEF LeaseState

\* A message that is answered: the station holds an address only if it has the lease.
LEMMA AnswerKeeps ==
  ASSUME LeaseState, NEW a \in Stations, NEW granted \in BOOLEAN, granted => Address(a) # 0,
         parse_msg(a), Answer(a, granted), offered' = offered,
         killed' = StillKilled(a)
  PROVE  LeaseState'
<1> USE DhcpsAssumption
<1>1. plus' \in StartIp .. EndIp + 1 /\ Serves(plist, plist', a, Address(a))
  BY Parsed DEF LeaseState
<1>2. /\ Address(a) \in {0} \cup StartIp .. EndIp /\ IsLeases(plist')
      /\ Address(a) # 0 => Has(plist', a, Address(a), LeaseTimer)
  BY <1>1 DEF Serves
<1>3. /\ held \in [Stations -> HeldSet] /\ killed \in SUBSET Stations
      /\ \A b \in killed : Unconfirmed(held[b])
  BY DEF LeaseState
<1> DEFINE h == IF granted THEN Confirmation(Address(a)) ELSE NoLease
<1>4. h \in HeldSet
  BY <1>2, NoLeaseIs DEF HeldSet, Confirmation
<1>c. ASSUME NEW x, Unconfirmed(x) PROVE x # Confirmation(x.ip)
  <2>1. SUFFICES ASSUME x = Confirmation(x.ip) PROVE FALSE
    OBVIOUS
  <2>2. x.left = LeaseTimer /\ ~x.late
    BY <2>1 DEF Confirmation
  <2>3. QED
    BY <1>c, <2>2 DEF Unconfirmed
<1>5. held' = [held EXCEPT ![a] = h] \/ held' = held
  BY DEF Answer
<1>6. CASE held' = held
  <2>1. killed' = killed
    BY <1>3, <1>6, <1>c DEF StillKilled
  <2>2. \A b \in Stations : held'[b].ip # 0 /\ b \notin killed' => Backed(plist', b, held'[b])
    BY <1>1, <1>6, <2>1, KeepsKept
  <2>3. QED
    BY <1>1, <1>2, <1>3, <1>6, <2>1, <2>2 DEF LeaseState
<1>7. CASE held' = [held EXCEPT ![a] = h]
  <2>1. held'[a] = h /\ \A b \in Stations : b # a => held'[b] = held[b]
    BY <1>3, <1>7
  <2>2. held' \in [Stations -> HeldSet]
    BY <1>3, <1>4, <1>7
  <2>3. granted => /\ h.ip = Address(a) /\ h.left = LeaseTimer /\ h.late = FALSE
                   /\ Sure(h) = LeaseTimer /\ h = Confirmation(h.ip)
    BY DEF Sure, Confirmation
  <2>4. ~granted => h.ip = 0 /\ Unconfirmed(h)
    BY NoLeaseIs
  <2> HIDE DEF h
  <2>5. killed' = IF granted THEN killed \ {a} ELSE killed
    BY <1>c, <2>1, <2>3, <2>4 DEF StillKilled
  <2>6. ASSUME NEW b \in Stations, held'[b].ip # 0, b \notin killed'
        PROVE  Backed(plist', b, held'[b])
    <3>1. CASE b = a
      BY <1>2, <2>1, <2>3, <2>4, <2>6, <3>1 DEF Backed
    <3>2. CASE b # a
      <4>1. held'[b] = held[b] /\ b \notin killed
        BY <2>1, <2>5, <2>6, <3>2
      <4>2. Backed(plist', b, held[b])
        BY <1>1, <2>6, <4>1, KeepsKept
      <4>3. QED
        BY <4>1, <4>2
    <3>3. QED
      BY <3>1, <3>2
  <2>7. ASSUME NEW b \in killed' PROVE Unconfirmed(held'[b])
    <3>1. b \in killed /\ (b = a => ~granted)
      BY <2>5
    <3>2. QED
      BY <1>3, <2>1, <2>4, <3>1
  <2>8. killed' \in SUBSET Stations
    BY <1>3, <2>5
  <2>9. QED
    BY <1>1, <1>2, <2>2, <2>6, <2>7, <2>8 DEF LeaseState
<1>8. QED
  BY <1>5, <1>6, <1>7

\* A REQUEST keeps the invariant, after an offer or to renew.
LEMMA RequestKeeps ==
  ASSUME LeaseState, NEW a \in Stations, Request(a) \/ Renew(a)
  PROVE  LeaseState'
<1>1. CASE Request(a)
  <2>1. PICK granted \in BOOLEAN : granted = Grants(a, offered[a], 0)
    BY DEF Grants
  <2>2. granted => Address(a) # 0
    BY <2>1 DEF Grants
  <2>3. QED
    BY <1>1, <2>1, <2>2, AnswerKeeps DEF Request
<1>2. CASE Renew(a)
  <2>1. PICK granted \in BOOLEAN : granted = Grants(a, 0, held[a].ip)
    BY DEF Grants
  <2>2. granted => Address(a) # 0
    BY <2>1 DEF Grants
  <2>3. QED
    BY <1>2, <2>1, <2>2, AnswerKeeps DEF Renew
<1>3. QED
  BY <1>1, <1>2

\* The station has no address any more, and only its lease may be gone.
LEMMA GivesUp ==
  ASSUME LeaseState, NEW a \in Stations, held' = [held EXCEPT ![a] = NoLease], killed' = killed,
         offered' = offered, plus' \in StartIp .. EndIp + 1, IsLeases(plist'),
         \A i \in 1 .. Len(plist) : plist[i].mac # a => \E k \in 1 .. Len(plist') : plist'[k] = plist[i]
  PROVE  LeaseState'
<1> USE DhcpsAssumption
<1>1. held \in [Stations -> HeldSet] /\ \A b \in killed : Unconfirmed(held[b])
  BY DEF LeaseState
<1>2. held' \in [Stations -> HeldSet] /\ held'[a] = NoLease /\ \A b \in Stations : b # a => held'[b] = held[b]
  BY <1>1, NoLeaseIs
<1>3. ASSUME NEW b \in Stations, held'[b].ip # 0, b \notin killed'
      PROVE  Backed(plist', b, held'[b])
  <2>1. b # a /\ held'[b] = held[b] /\ b \notin killed
    BY <1>2, <1>3, NoLeaseIs
  <2>2. Backed(plist, b, held[b])
    BY <1>3, <2>1 DEF LeaseState
  <2>3. ASSUME NEW n, Has(plist, b, held[b].ip, n) PROVE Has(plist', b, held[b].ip, n)
    <3>1. PICK i \in 1 .. Len(plist) : plist[i].mac = b /\ plist[i].ip = held[b].ip /\ plist[i].lease_timer >= n
      BY <2>3 DEF Has
    <3>2. PICK k \in 1 .. Len(plist') : plist'[k] = plist[i]
      BY <2>1, <3>1
    <3>3. QED
      BY <3>1, <3>2 DEF Has
  <2>4. QED
    BY <2>1, <2>2, <2>3 DEF Backed
<1>4. ASSUME NEW b \in killed' PROVE Unconfirmed(held'[b])
  <2>1. b \in Stations /\ b \in killed
    BY DEF LeaseState
  <2>2. QED
    BY <1>1, <1>2, <2>1, NoLeaseIs
<1>5. QED
  BY <1>2, <1>3, <1>4 DEF LeaseState

\* A RELEASE, and a station that leaves, keep the invariant.
LEMMA ReleaseKeeps ==
  ASSUME LeaseState, NEW a \in Stations, Release(a) \/ Leave(a)
  PROVE  LeaseState'
<1> USE DhcpsAssumption
<1>1. /\ held' = [held EXCEPT ![a] = NoLease] /\ killed' = killed /\ offered' = offered
      /\ IsLeases(plist) /\ plus \in StartIp .. EndIp + 1
  BY DEF Release, Leave, LeaseState
<1>2. CASE plist' = plist /\ plus' = plus
  BY <1>1, <1>2, GivesUp
<1>3. CASE Known(a) /\ plist' = RemoveAt(plist, LeaseOf(a)) /\ plus' = PlusKnown(a)
  <2>1. LeaseOf(a) \in 1 .. Len(plist) /\ plist[LeaseOf(a)].mac = a
    BY <1>1, <1>3, LeaseIs
  <2>2. /\ IsLeases(plist')
        /\ \A i \in 1 .. Len(plist) : i # LeaseOf(a) => \E k \in 1 .. Len(plist') : plist'[k] = plist[i]
    BY <1>1, <1>3, <2>1, RemoveKeeps
  <2>3. plus' \in StartIp .. EndIp + 1
    <3>1. LeaseOf(a) - 1 \in 0 .. Len(plist)
      BY <1>1, <2>1 DEF IsLeases
    <3>2. QED
      BY <1>1, <1>3, <3>1, WalkGoes DEF WalkInv, PlusKnown
  <2>4. QED
    BY <1>1, <2>1, <2>2, <2>3, GivesUp
<1>4. CASE /\ ~Known(a) /\ plist' = plist
           /\ plus' = IF ClientAddress > EndIp THEN StartIp ELSE Following(ClientAddress)
  <2>1. ClientAddress \in Nat /\ StartIp <= ClientAddress
    BY <1>1, AddressFree
  <2>2. plus' \in StartIp .. EndIp + 1
    BY <1>4, <2>1 DEF Following
  <2>3. QED
    BY <1>1, <1>4, <2>2, GivesUp
<1>5. QED
  BY <1>2, <1>3, <1>4 DEF Release, Leave, node_remove_from_list

\* A station counts a minute that the server has counted: the ones it may count on
\* stay, and with the last one it gives the address up.
LEMMA StationKeeps ==
  ASSUME LeaseState, NEW a \in Stations, StationTick(a)
  PROVE  LeaseState'
<1> USE DhcpsAssumption
<1>1. /\ held \in [Stations -> HeldSet] /\ killed \in SUBSET Stations
      /\ plist' = plist /\ plus' = plus /\ offered' = offered /\ killed' = killed
      /\ IsLeases(plist) /\ plus \in StartIp .. EndIp + 1
  BY DEF LeaseState, StationTick
<1>2. CASE held[a].left = 1
  <2>1. held' = [held EXCEPT ![a] = NoLease]
    BY <1>2 DEF StationTick, Counted
  <2>2. QED
    BY <1>1, <2>1, GivesUp
<1>3. CASE held[a].left # 1
  <2> DEFINE h == [ip |-> held[a].ip, left |-> held[a].left - 1, late |-> FALSE]
  <2>1. held' = [held EXCEPT ![a] = h] /\ held[a].late /\ held[a].ip # 0
    BY <1>3 DEF StationTick, Counted
  <2>2. held[a] \in HeldSet /\ held[a].ip # 0 /\ held[a].left \in 2 .. LeaseTimer
    BY <1>1, <1>3, <2>1, HeldFields DEF LeaseState
  <2>3. h \in HeldSet /\ h.ip = held[a].ip /\ h.left = held[a].left - 1 /\ h.late = FALSE
    BY <2>2 DEF HeldSet
  <2> HIDE DEF h
  <2>4. h.left > 0 /\ h.left < LeaseTimer /\ Sure(h) = Sure(held[a])
    BY <2>1, <2>2, <2>3 DEF Sure
  <2>5. held' \in [Stations -> HeldSet] /\ held'[a] = h /\ \A b \in Stations : b # a => held'[b] = held[b]
    BY <1>1, <2>1, <2>3
  <2>6. ASSUME NEW b \in Stations, held'[b].ip # 0, b \notin killed'
        PROVE  Backed(plist', b, held'[b])
    <3>1. CASE b = a
      <4>1. Backed(plist, a, held[a])
        BY <1>1, <2>1, <2>6, <3>1 DEF LeaseState
      <4>2. QED
        BY <1>1, <2>3, <2>4, <2>5, <3>1, <4>1 DEF Backed
    <3>2. CASE b # a
      BY <1>1, <2>5, <2>6, <3>2 DEF LeaseState
    <3>3. QED
      BY <3>1, <3>2
  <2>7. ASSUME NEW b \in killed' PROVE Unconfirmed(held'[b])
    <3>1. b \in Stations /\ Unconfirmed(held[b])
      BY <1>1 DEF LeaseState
    <3>2. Unconfirmed(h)
      BY <2>4 DEF Unconfirmed
    <3>3. QED
      BY <2>5, <3>1, <3>2
  <2>8. QED
    BY <1>1, <2>5, <2>6, <2>7 DEF LeaseState
<1>4. QED
  BY <1>2, <1>3

\* The timer keeps the invariant: the lease of the server does not end before the
\* minutes are over that the station may count on, unless it is killed.
LEMMA TimerKeeps ==
  ASSUME LeaseState, dhcps_coarse_tmr
  PROVE  LeaseState'
<1> USE DhcpsAssumption
<1> DEFINE list == Remaining
           gone == Len(list) >= MaxStationNum
           d == OldestLease(list)
<1>0. /\ IsLeases(plist) /\ held \in [Stations -> HeldSet] /\ killed \in SUBSET Stations
      /\ plist \in Seq(LeaseSet) /\ Len(plist) \in Nat
  BY DEF LeaseState, IsLeases
<1>1. KeptInv(list, Len(plist))
  BY <1>0, RemainingKeeps
<1>2. /\ gone  => plist' = RemoveAt(list, d) /\ killed' = killed \cup {list[d].mac}
      /\ ~gone => plist' = list /\ killed' = killed
      /\ held' = [a \in Stations |-> [held[a] EXCEPT !.late = held[a].ip # 0]]
      /\ \A a \in Stations : ~held[a].late
      /\ plus' = plus /\ offered' = offered
  BY DEF dhcps_coarse_tmr
<1> HIDE DEF list, d
<1>3. IsLeases(list) /\ list \in Seq(LeaseSet) /\ Len(list) \in Nat
  BY <1>1 DEF KeptInv, IsLeases
<1>4. gone => d \in 1 .. Len(list) /\ list[d].mac \in Stations
  <2>1. SUFFICES ASSUME gone PROVE d \in 1 .. Len(list) /\ list[d].mac \in Stations
    OBVIOUS
  <2>2. Len(list) >= 2
    BY <1>3, <2>1
  <2>3. d \in 2 .. Len(list)
    BY <1>3, <2>2, OldestIs DEF d
  <2>4. QED
    BY <1>3, <2>3, LeaseFields
<1>5. /\ IsLeases(plist') /\ killed' \in SUBSET Stations /\ killed \subseteq killed'
      /\ \A k \in 1 .. Len(list) : list[k].mac \notin killed' => \E l \in 1 .. Len(plist') : plist'[l] = list[k]
  <2>1. CASE gone
    <3>1. /\ IsLeases(plist')
          /\ \A k \in 1 .. Len(list) : k # d => \E l \in 1 .. Len(plist') : plist'[l] = list[k]
      BY <1>2, <1>3, <1>4, <2>1, RemoveKeeps
    <3>2. killed' = killed \cup {list[d].mac}
      BY <1>2, <2>1
    <3>3. QED
      BY <1>0, <1>4, <2>1, <3>1, <3>2
  <2>2. CASE ~gone
    BY <1>0, <1>2, <1>3, <2>2
  <2>3. QED
    BY <2>1, <2>2
<1>6. ASSUME NEW a \in Stations
      PROVE  /\ held'[a] \in HeldSet /\ held'[a].ip = held[a].ip /\ held'[a].left = held[a].left
             /\ held[a].ip # 0 => held'[a].late /\ Sure(held'[a]) = Sure(held[a]) - 1
             /\ Sure(held[a]) = held[a].left /\ held[a].left \in 0 .. LeaseTimer
  <2>1. held[a] \in HeldSet /\ held[a].left \in 0 .. LeaseTimer /\ ~held[a].late
    BY <1>0, <1>2, HeldFields DEF LeaseState
  <2>2. held'[a] = [held[a] EXCEPT !.late = held[a].ip # 0]
    BY <1>2
  <2>3. /\ held'[a] \in HeldSet /\ held'[a].ip = held[a].ip /\ held'[a].left = held[a].left
        /\ held'[a].late = (held[a].ip # 0)
    BY <2>1, <2>2 DEF HeldSet
  <2>4. QED
    BY <2>1, <2>3 DEF Sure
<1>7. held' \in [Stations -> HeldSet]
  BY <1>2, <1>6
<1>8. ASSUME NEW a \in Stations, held'[a].ip # 0, a \notin killed', Sure(held'[a]) > 0
      PROVE  Has(plist', a, held'[a].ip, Sure(held'[a]))
  <2> DEFINE n == Sure(held[a])
  <2>1. /\ held'[a].ip = held[a].ip /\ Sure(held'[a]) = n - 1 /\ n >= 2 /\ n \in Nat
    BY <1>6, <1>8
  <2>2. Has(plist, a, held[a].ip, n)
    BY <1>5, <1>8, <2>1 DEF LeaseState, Backed
  <2> HIDE DEF n
  <2>3. PICK i \in 1 .. Len(plist) : plist[i].mac = a /\ plist[i].ip = held[a].ip /\ plist[i].lease_timer >= n
    BY <2>2 DEF Has
  <2>4. plist[i] \in LeaseSet /\ plist[i].lease_timer \in Nat
    BY <1>0, LeaseFields
  <2>5. ~Expired(plist[i])
    BY <2>1, <2>3, <2>4 DEF Expired
  <2>6. PICK k \in 1 .. Len(list) : list[k] = Ticked(plist[i])
    BY <1>1, <2>5 DEF KeptInv
  <2>7. list[k].mac = a /\ list[k].ip = held[a].ip /\ list[k].lease_timer = plist[i].lease_timer - 1
    BY <2>3, <2>4, <2>5, <2>6, TickedLease
  <2>8. PICK l \in 1 .. Len(plist') : plist'[l] = list[k]
    BY <1>5, <1>8, <2>7
  <2>9. plist'[l].lease_timer >= n - 1
    BY <2>1, <2>3, <2>4, <2>7, <2>8
  <2>10. QED
    BY <2>1, <2>7, <2>8, <2>9 DEF Has
<1>9. ASSUME NEW a \in killed' PROVE Unconfirmed(held'[a])
  <2>1. a \in Stations
    BY <1>5
  <2>2. CASE held[a].ip # 0
    BY <1>6, <2>1, <2>2 DEF Unconfirmed
  <2>3. CASE held[a].ip = 0
    <3>1. held[a].left = 0
      BY <1>0, <2>1, <2>3, HeldFields
    <3>2. QED
      BY <1>6, <2>1, <3>1 DEF Unconfirmed
  <2>4. QED
    BY <2>2, <2>3
<1>10. QED
  BY <1>2, <1>5, <1>7, <1>8, <1>9 DEF LeaseState, Backed

\* Restarting the server keeps the invariant.
LEMMA RestartKeeps ==
  ASSUME LeaseState, Restart
  PROVE  LeaseState'
<1>1. IsLeases(plist')
  BY DEF Restart, IsLeases, Sorted
<1>2. QED
  BY <1>1, NoLeaseIs, DhcpsAssumption DEF Restart, LeaseState

\* Every step keeps the invariant.
LEMMA LeaseNext ==
  ASSUME LeaseState, [DhcpsNext]_dhcpsVars
  PROVE  LeaseState'
<1>1. CASE UNCHANGED dhcpsVars
  BY <1>1 DEF dhcpsVars, LeaseState
<1>2. CASE DhcpsNext
  BY <1>2, DiscoverKeeps, RequestKeeps, ReleaseKeeps, StationKeeps, TimerKeeps, RestartKeeps DEF DhcpsNext
<1>3. QED
  BY <1>1, <1>2

\* Whatever messages are lost and whoever leaves or comes back, for any number of
\* stations and addresses and any phase of the two clocks: the list of leases stays
\* sorted, with one lease for every address and station; and an address is refused
\* only when all are leased.  A station whose lease kill_oldest_dhcps_pool has not
\* ended has a lease of the address it uses for all of its time but the part of the
\* last minute after the server's own count, so that two stations use the same only
\* with one of them in that part or killed.
THEOREM LeasesHold == DhcpsSpec => []LeaseInv
<1>1. DhcpsInit => LeaseState
  BY LeaseInit
<1>2. LeaseState /\ [DhcpsNext]_dhcpsVars => LeaseState'
  BY LeaseNext
<1>3. LeaseState => LeaseInv
  BY LeaseInvFollows
<1>4. QED
  BY <1>1, <1>2, <1>3, PTL DEF DhcpsSpec
=============================================================================
