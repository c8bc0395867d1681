------------------------------ MODULE DhcpClient ------------------------------
(***************************************************************************)
(* The DHCP client of the station interface (lwip/core/dhcp.c): discovery, *)
(* the request of an offer, the ARP check of the address, renewal,         *)
(* rebinding and the check of the lease on another network.  Replies come  *)
(* over UDP: lost, late, twice, in any order.                              *)
(*                                                                         *)
(* request_timeout is armed or not: the client does not rely on how long   *)
(* it takes.  t1_timeout and t2_timeout are counted, as they are compared. *)
(***************************************************************************)
EXTENDS Integers, FiniteSets

CONSTANTS
    Addresses,      \* what servers offer
    LeaseTimes,     \* and for how long, in ticks of dhcp_coarse_tmr, or Infinite
    TimerRange,     \* of t1_timeout and t2_timeout, unsigned: 65536
    TriesRange,     \* of tries, unsigned: 256
    RequestTries,   \* dhcp_timeout: 5
    RebindTries,    \* dhcp_timeout: 8
    REBOOT_TRIES,   \* 2
    OutOfMemory,    \* whether a message may find no memory: subset of BOOLEAN
    MaxEpochs,      \* bound: how often the client begins anew
    MaxXid          \* bound: how many transaction identifiers are used

Infinite == -1
AnyAddress == "any"     \* IP_ADDR_ANY, 0.0.0.0

ASSUME DhcpAssumption ==
    /\ AnyAddress \notin Addresses
    /\ LeaseTimes \subseteq {Infinite} \cup (1 .. TimerRange - 1)
    /\ TimerRange \in Nat \ {0, 1} /\ TriesRange \in Nat /\ RebindTries + 1 < TriesRange
    /\ RequestTries \in Nat \ {0} /\ RebindTries \in Nat \ {0} /\ REBOOT_TRIES \in Nat
    /\ RequestTries < TriesRange /\ REBOOT_TRIES < TriesRange
    /\ OutOfMemory \subseteq BOOLEAN /\ OutOfMemory # {} /\ MaxEpochs \in Nat /\ MaxXid \in Nat

VARIABLE station    \* the client, its interface and what it has sent

dhcpVars == <<station>>

dhcp == station.dhcp            \* netif->dhcp
netif == station.netif          \* ip_addr, and whether the interface is up
xid == station.xid              \* the counter of dhcp_create_msg
requests == station.requests    \* the messages sent that may be answered
epoch == station.epoch          \* how often the client has begun anew

\* probes: how often the offered address was asked for by ARP since it was
\* acknowledged; nameless: the last offer did not name its server.
Off == [state |-> "OFF", tries |-> 0, armed |-> FALSE, xid |-> 0, offered |-> AnyAddress,
        t1_renew |-> 0, t2_rebind |-> 0, t1 |-> 0, t2 |-> 0, probes |-> 0,
        nameless |-> FALSE]

DhcpInit ==
    station = [dhcp |-> Off, netif |-> [ip |-> AnyAddress, up |-> FALSE], xid |-> 0,
               requests |-> {}, epoch |-> 0]

-----------------------------------------------------------------------------
(* What a callback does is composed of functions from a state of the       *)
(* station to the next.                                                    *)

Becomes(x) == station' = x

dhcp_set_state(x, state) ==
    IF x.dhcp.state = state THEN x
    ELSE [x EXCEPT !.dhcp.state = state, !.dhcp.tries = 0, !.dhcp.armed = FALSE]

\* The address a REQUEST is for: an option, or ciaddr.
Asked(x, type) ==
    CASE type = "REQUEST" /\ x.dhcp.state \in {"RENEWING", "REBINDING"} -> x.netif.ip
      [] type = "REQUEST" -> x.dhcp.offered
      [] OTHER -> AnyAddress

\* A RELEASE and a DECLINE are not answered.
Answerable(r) == IF r.type \in {"DISCOVER", "REQUEST"} THEN {r} ELSE {}

\* Mutant: one identifier for all transactions.
Mut_NewXid(x, type) == x.xid
NewXid(x, type) == IF type # "REQUEST" /\ x.dhcp.tries = 0 THEN x.xid + 1 ELSE x.xid

\* dhcp_create_msg and udp_sendto_if.  Without memory nothing happens, and no
\* identifier is used up.
Send(x, type, fails) ==
    LET id == NewXid(x, type)
        mine == IF type = "REQUEST" THEN x.dhcp.xid ELSE id
    IN  IF fails THEN x
        ELSE [x EXCEPT !.xid = id, !.dhcp.xid = mine,
                       !.requests = @ \cup Answerable([type |-> type, xid |-> mine,
                                                       ip |-> Asked(x, type), epoch |-> x.epoch])]

\* tries++ and the timeout that depends on it: seconds, none of them if the
\* counter has come round to 0.
Tried(x) == [x EXCEPT !.dhcp.tries = (@ + 1) % TriesRange]
Linear(x) == [Tried(x) EXCEPT !.dhcp.armed = Tried(x).dhcp.tries # 0]
Doubling(x) == [Tried(x) EXCEPT !.dhcp.armed = TRUE]

dhcp_discover(x, fails) ==
    LET y == [x EXCEPT !.dhcp.offered = AnyAddress, !.dhcp.nameless = FALSE]
    IN  Doubling(Send(dhcp_set_state(y, "SELECTING"), "DISCOVER", fails))

\* A discovery that gives up what there was.
Anew(x, fails) == dhcp_discover([x EXCEPT !.epoch = @ + 1], fails)

dhcp_select(x, fails) == Doubling(Send(dhcp_set_state(x, "REQUESTING"), "REQUEST", fails))
dhcp_renew(x, fails) == Linear(Send(dhcp_set_state(x, "RENEWING"), "REQUEST", fails))
dhcp_rebind(x, fails) == Linear(Send(dhcp_set_state(x, "REBINDING"), "REQUEST", fails))
dhcp_reboot(x, fails) == Linear(Send(dhcp_set_state(x, "REBOOTING"), "REQUEST", fails))

dhcp_check(x) ==
    LET y == Doubling(dhcp_set_state(x, "CHECKING")) IN [y EXCEPT !.dhcp.probes = @ + 1]

Cleared(x) == [x EXCEPT !.netif = [ip |-> AnyAddress, up |-> FALSE]]

dhcp_release(x, fails) ==
    LET y == dhcp_set_state(x, "OFF")
        z == [y EXCEPT !.dhcp.offered = AnyAddress, !.dhcp.t1_renew = 0, !.dhcp.t2_rebind = 0]
    IN  Cleared(Linear(Send(z, "RELEASE", fails)))

dhcp_decline(x, fails) == Doubling(Send(dhcp_set_state(x, "BACKING_OFF"), "DECLINE", fails))

dhcp_handle_nak(x, fails) == Anew(dhcp_set_state(Cleared(x), "BACKING_OFF"), fails)

\* The times of the lease are kept, and used when the address is.
dhcp_handle_ack(x, ip, lease) ==
    [x EXCEPT !.dhcp.offered = ip, !.dhcp.probes = 0,
              !.dhcp.t1_renew = IF lease = Infinite THEN Infinite ELSE lease \div 2,
              !.dhcp.t2_rebind = lease]

\* A timer that is not set keeps counting from where it is.
Timer(time, old) == IF time = Infinite THEN old ELSE IF time = 0 THEN 1 ELSE time

dhcp_bind(x) ==
    LET t1 == Timer(x.dhcp.t1_renew, x.dhcp.t1)
        t2 == Timer(x.dhcp.t2_rebind, x.dhcp.t2)
        y == [x EXCEPT !.dhcp.t1 = IF t1 >= t2 /\ t2 > 0 THEN 0 ELSE t1, !.dhcp.t2 = t2,
                       !.netif = [ip |-> x.dhcp.offered, up |-> TRUE]]
    IN  dhcp_set_state(y, "BOUND")

-----------------------------------------------------------------------------
(* What calls the client.                                                  *)

\* It is called when the station has joined an access point.
dhcp_start(fails) ==
    /\ ~netif.up
    /\ LET x == Anew([station EXCEPT !.dhcp = Off], fails)
       IN  Becomes(IF fails THEN dhcp_set_state(x, "OFF") ELSE x)

\* The wifi library takes the interface down when the station has left its access
\* point.
netif_set_down ==
    /\ netif.up
    /\ Becomes([station EXCEPT !.netif.up = FALSE])

\* dhcp_stop: the address stays with the interface, which is the caller's.
dhcp_stop ==
    /\ dhcp.state # "OFF"
    /\ Becomes(dhcp_set_state(station, "OFF"))

dhcp_network_changed(fails) ==
    /\ dhcp.state # "OFF"
    /\ LET x == [station EXCEPT !.dhcp.tries = 0]
       IN  Becomes(IF dhcp.state \in {"REBINDING", "RENEWING", "BOUND", "REBOOTING"}
                   THEN dhcp_reboot([x EXCEPT !.netif.up = FALSE], fails)
                   ELSE Anew(x, fails))

\* dhcp_timeout
dhcp_timeout(x, fails) ==
    LET n == x.dhcp.tries
    IN  CASE x.dhcp.state = "SELECTING" -> dhcp_discover(x, fails)
          [] x.dhcp.state = "BACKING_OFF" -> Anew(x, fails)
          [] x.dhcp.state = "REQUESTING" ->
               IF n <= RequestTries THEN dhcp_select(x, fails) ELSE Anew(dhcp_release(x, fails), fails)
          [] x.dhcp.state = "CHECKING" -> IF n <= 1 THEN dhcp_check(x) ELSE dhcp_bind(x)
          [] x.dhcp.state = "RENEWING" -> dhcp_renew(x, fails)
          [] x.dhcp.state = "REBINDING" ->
               IF n <= RebindTries THEN dhcp_rebind(x, fails) ELSE Anew(dhcp_release(x, fails), fails)
          [] x.dhcp.state = "REBOOTING" ->
               IF n < REBOOT_TRIES THEN dhcp_reboot(x, fails) ELSE Anew(x, fails)
          [] OTHER -> x

\* dhcp_fine_tmr, when it has run down the timeout.  DHCP_MAXRTX is 0.
dhcp_fine_tmr(fails) ==
    /\ dhcp.armed
    /\ Becomes(dhcp_timeout([station EXCEPT !.dhcp.armed = FALSE], fails))

\* dhcp_t1_timeout and dhcp_t2_timeout
Renewable == dhcp.state \in {"REQUESTING", "BOUND", "RENEWING"}

Down(t) == (t - 1) % TimerRange

\* dhcp_coarse_tmr: t1_timeout is not counted in the tick in which t2_timeout is up.
dhcp_coarse_tmr(fails) ==
    LET x == [station EXCEPT !.dhcp.t2 = Down(@)]
        y == [x EXCEPT !.dhcp.t1 = Down(@)]
    IN  /\ dhcp.state # "OFF"
        /\ Becomes(IF dhcp.t2 = 1 THEN IF Renewable THEN dhcp_rebind(x, fails) ELSE x
                   ELSE IF dhcp.t1 = 1 /\ Renewable THEN dhcp_renew(y, fails) ELSE y)

\* dhcp_recv: a reply to r.  A server acknowledges what it was asked for, or it
\* does not.
Mine(r) == r.xid = dhcp.xid

RecvOffer(r, ip, fails) ==
    /\ Mine(r) /\ r.type = "DISCOVER" /\ dhcp.state = "SELECTING"
    /\ Becomes(dhcp_select([station EXCEPT !.dhcp.armed = FALSE, !.dhcp.nameless = FALSE, !.dhcp.offered = ip],
                           fails))

RecvAck(r, lease) ==
    /\ Mine(r) /\ r.type = "REQUEST" /\ r.ip # AnyAddress
    /\ \/ dhcp.state = "REQUESTING" /\ Becomes(dhcp_check(dhcp_handle_ack(station, r.ip, lease)))
       \/ dhcp.state \in {"REBOOTING", "REBINDING", "RENEWING"} /\ Becomes(dhcp_bind(station))

RecvNak(r, fails) ==
    /\ Mine(r) /\ r.type = "REQUEST"
    /\ dhcp.state \in {"REBOOTING", "REQUESTING", "REBINDING", "RENEWING"}
    /\ Becomes(dhcp_handle_nak(station, fails))

\* An offer that does not name its server: request_timeout is cleared all the same.
RecvNamelessOffer(r) ==
    /\ Mine(r) /\ r.type = "DISCOVER" /\ dhcp.state = "SELECTING"
    /\ Becomes([station EXCEPT !.dhcp.armed = FALSE, !.dhcp.nameless = TRUE])

\* dhcp_arp_reply from a host that has the address.
dhcp_arp_reply(fails) ==
    /\ dhcp.state = "CHECKING"
    /\ Becomes(dhcp_decline(station, fails))

Within == station'.epoch <= MaxEpochs /\ station'.xid <= MaxXid

FineTimer == \E fails \in OutOfMemory : dhcp_fine_tmr(fails) /\ Within
CoarseTimer == \E fails \in OutOfMemory : dhcp_coarse_tmr(fails)

DhcpNext ==
    \/ FineTimer
    \/ CoarseTimer
    \/ \E fails \in OutOfMemory :
        \/ dhcp_start(fails) /\ Within
        \/ dhcp_stop
        \/ netif_set_down
        \/ dhcp_network_changed(fails) /\ Within
        \/ \E r \in requests, ip \in Addresses : RecvOffer(r, ip, fails)
        \/ \E r \in requests : RecvNamelessOffer(r)
        \/ \E r \in requests, lease \in LeaseTimes : RecvAck(r, lease)
        \/ \E r \in requests : RecvNak(r, fails) /\ Within
        \/ dhcp_arp_reply(fails) /\ Within

DhcpSpec == DhcpInit /\ [][DhcpNext]_dhcpVars

\* The bounds leave room to begin anew, with a RELEASE and a DISCOVER.
Room == epoch < MaxEpochs /\ xid + 2 <= MaxXid

\* lwIP's timers run: weak fairness, with what enables them written out.
DhcpFairness ==
    /\ []<>~(dhcp.armed /\ Room) \/ []<><<FineTimer>>_dhcpVars
    /\ []<>(dhcp.state = "OFF") \/ []<><<CoarseTimer>>_dhcpVars

-----------------------------------------------------------------------------
(* Properties.                                                             *)

States == {"OFF", "SELECTING", "REQUESTING", "CHECKING", "BOUND", "RENEWING", "REBINDING",
           "REBOOTING", "BACKING_OFF"}

\* Every variable has its type; the address of a client that has none is 0.
DhcpTypeOK ==
    /\ dhcp.state \in States /\ dhcp.tries \in 0 .. TriesRange - 1 /\ dhcp.armed \in BOOLEAN
    /\ dhcp.offered \in Addresses \cup {AnyAddress}
    /\ dhcp.t1 \in 0 .. TimerRange - 1 /\ dhcp.t2 \in 0 .. TimerRange - 1
    /\ dhcp.xid \in 0 .. xid
    /\ netif.ip \in Addresses \cup {AnyAddress} /\ netif.up \in BOOLEAN
    /\ dhcp.state \in {"BOUND", "CHECKING", "REQUESTING"} => dhcp.offered # AnyAddress

\* A client that waits for a reply has a timeout armed: but after an offer without
\* a server, and when 256 renewals have not been answered, which leaves the rest to
\* t2_timeout.
Waiting ==
    dhcp.state \notin {"OFF", "BOUND"} =>
        dhcp.armed \/ dhcp.nameless \/ (dhcp.state = "RENEWING" /\ dhcp.tries = 0)

\* The interface is up only while the client has a lease, or renews it, and with an
\* address that was asked for since the client last began anew: not with one that
\* was refused or given back since.
UpWithLease ==
    netif.up /\ dhcp.state # "OFF" =>
        /\ dhcp.state \in {"BOUND", "RENEWING", "REBINDING"}
        /\ \E r \in requests : r.type = "REQUEST" /\ r.ip = netif.ip /\ r.epoch = epoch

\* A reply that would be taken for the client's answers a message sent since the
\* client last began anew: not the acknowledgement of an address it has declined,
\* that was refused, or that belongs to another network.
FreshReplies ==
    dhcp.state # "OFF" => \A r \in requests : Mine(r) => r.epoch = epoch

\* The client: never waiting for nothing, up only with a lease, deaf to replies
\* of an earlier round.
DhcpInv == DhcpTypeOK /\ Waiting /\ UpWithLease /\ FreshReplies

\* Whatever the servers do, an address whose renewal is due is confirmed or given
\* up.
RenewalEnds == []<>(dhcp.state \notin {"RENEWING", "REBINDING"} \/ ~Room)

-----------------------------------------------------------------------------
\* dhcp_recv: "check if the acknowledged lease address is already in use".  No
\* address is used that was not asked for by ARP.
Probed == dhcp.state = "BOUND" => dhcp.probes >= 2
=============================================================================
