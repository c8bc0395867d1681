------------------------------ MODULE DhcpServer ------------------------------
(***************************************************************************)
(* The DHCP server of the soft AP (lwip/app/dhcpserver.c): the sorted list *)
(* of leases, the choice of an address, and the timer that ends leases;    *)
(* and the stations that ask it, over UDP: a message or its answer may be  *)
(* lost.  An address is its last byte: the addresses of a lease range are  *)
(* in one segment, and compare by that byte first in network order.        *)
(*                                                                         *)
(* A lease is counted twice.  The server takes a minute off all of them    *)
(* when its timer comes round, and a station off its own a minute after it *)
(* was confirmed, and so on: between two ticks of the server every station *)
(* counts one, at any point.                                               *)
(***************************************************************************)
EXTENDS Integers, Sequences, SequencesExt, FiniteSets

CONSTANTS
    Stations,           \* MAC addresses
    StartIp, EndIp,     \* dhcps_lease
    LeaseTimer,         \* DHCPS_LEASE_TIMER, in ticks of dhcps_coarse_tmr
    MaxStationNum       \* MAX_STATION_NUM: 8

ASSUME DhcpsAssumption ==
    /\ StartIp \in Nat \ {0} /\ EndIp \in Nat /\ StartIp <= EndIp
    /\ LeaseTimer \in Nat \ {0} /\ MaxStationNum \in Nat \ {0, 1}

VARIABLES
    plist,      \* the leases: records of ip, mac and lease_timer
    plus,       \* client_address_plus, the next address to hand out
    held,       \* per station: the address it uses, 0 for none, the minutes left of
                \* its lease, and whether the server has counted one more of them
    offered,    \* per station: the address it was offered last
    killed      \* the stations whose lease kill_oldest_dhcps_pool ended

dhcpsVars == <<plist, plus, held, offered, killed>>

NoLease == [ip |-> 0, left |-> 0, late |-> FALSE]

\* dhcps_start
DhcpsInit ==
    /\ plist = <<>>
    /\ plus = StartIp
    /\ held = [a \in Stations |-> NoLease]
    /\ offered = [a \in Stations |-> 0]
    /\ killed = {}

-----------------------------------------------------------------------------
Lease(ip, a) == [ip |-> ip, mac |-> a, lease_timer |-> LeaseTimer]

\* node_insert_to_list: before the first lease with a higher address, or at the end.
node_insert_to_list(list, e) ==
    LET place == CHOOSE i \in 1 .. Len(list) + 1 :
                     /\ i <= Len(list) => e.ip < list[i].ip
                     /\ \A j \in 1 .. i - 1 : list[j].ip <= e.ip
    IN  InsertAt(list, place, e)

node_remove_from_list(list, i) == RemoveAt(list, i)

\* Where the list has a lease of a station: the walk through it stops there.
Leases(a) == {i \in DOMAIN plist : plist[i].mac = a}
Known(a) == Leases(a) # {}
LeaseOf(a) == CHOOSE i \in Leases(a) : \A j \in Leases(a) : i <= j

\* The walk through the list, in its order: client_address_plus steps past the
\* leases that have its address, and first_address to the first one free.
\* Walked[i] is what they are after i leases.
Pass(acc, e) ==
    [next |-> IF e.ip = acc.next THEN acc.next + 1 ELSE acc.next,
     first |-> IF acc.flag \/ acc.first < e.ip THEN acc.first ELSE acc.first + 1,
     flag |-> acc.flag \/ acc.first < e.ip]

Walked ==
    LET walk[i \in 0 .. Len(plist)] ==
            IF i = 0 THEN [next |-> plus, first |-> StartIp, flag |-> FALSE]
            ELSE Pass(walk[i - 1], plist[i])
    IN  walk
Walk == Walked[Len(plist)]

ClientAddress == IF Walk.next > EndIp THEN Walk.first ELSE Walk.next

Following(ip) == IF ip = EndIp THEN StartIp ELSE ip + 1

\* What parse_msg does to the list for a station it knows, and for another: the
\* lease is there before the message is looked at.
IpOf(a) == plist[LeaseOf(a)].ip

Refreshed(a) == [plist EXCEPT ![LeaseOf(a)].lease_timer = LeaseTimer]

\* The walk stops at the lease of a station that is known, and has moved
\* client_address_plus on past the ones before it.
PlusKnown(a) == Walked[LeaseOf(a) - 1].next

\* parse_msg: the address for station a, 0 if there is none.
Address(a) == IF Known(a) THEN IpOf(a) ELSE IF ClientAddress > EndIp THEN 0 ELSE ClientAddress

parse_msg(a) ==
    IF Known(a) THEN plist' = Refreshed(a) /\ plus' = PlusKnown(a)
    ELSE IF ClientAddress > EndIp THEN plist' = plist /\ plus' = StartIp
    ELSE /\ plist' = node_insert_to_list(plist, Lease(ClientAddress, a))
         /\ plus' = Following(ClientAddress)

-----------------------------------------------------------------------------
\* A DISCOVER is answered by an OFFER, which may be lost.  The pool may be used
\* up: a NAK.
Discover(a) ==
    /\ parse_msg(a)
    /\ offered' \in {offered, [offered EXCEPT ![a] = Address(a)]}
    /\ UNCHANGED <<held, killed>>

\* parse_options: a request is granted if it names the address of the station's
\* lease, or names none (ciaddr) and renews that.
Grants(a, req, ciaddr) ==
    Address(a) # 0 /\ (req = Address(a) \/ (req = 0 /\ Known(a) /\ ciaddr = IpOf(a)))

\* What an ACK says: the offered time is that of the server's own lease.
Confirmation(ip) == [ip |-> ip, left |-> LeaseTimer, late |-> FALSE]

\* The stations whose lease was ended early, but for one that was confirmed.
StillKilled(a) == IF held'[a] = Confirmation(held'[a].ip) THEN killed \ {a} ELSE killed

\* The answer: an ACK, a NAK, after which the station starts again, or none that
\* arrives.
Answer(a, granted) ==
    \/ held' = [held EXCEPT ![a] = IF granted THEN Confirmation(Address(a)) ELSE NoLease]
    \/ held' = held

\* After an OFFER, and after a restart with the address from before.
Request(a) ==
    /\ offered[a] # 0
    /\ parse_msg(a)
    /\ Answer(a, Grants(a, offered[a], 0))
    /\ killed' = StillKilled(a)
    /\ UNCHANGED offered

Renew(a) ==
    /\ held[a].ip # 0
    /\ parse_msg(a)
    /\ Answer(a, Grants(a, 0, held[a].ip))
    /\ killed' = StillKilled(a)
    /\ UNCHANGED offered

\* A RELEASE ends the lease; so does one from a station that had none, whose lease
\* is made first.
Release(a) ==
    /\ held[a].ip # 0
    /\ held' = [held EXCEPT ![a] = NoLease]
    /\ \/ /\ plist' = IF Known(a) THEN node_remove_from_list(plist, LeaseOf(a)) ELSE plist
          /\ plus' = IF Known(a) THEN PlusKnown(a)
                     ELSE IF ClientAddress > EndIp THEN StartIp ELSE Following(ClientAddress)
       \/ UNCHANGED <<plist, plus>>
    /\ UNCHANGED <<offered, killed>>

\* The station leaves the network without a word.
Leave(a) ==
    /\ held[a].ip # 0
    /\ held' = [held EXCEPT ![a] = NoLease]
    /\ UNCHANGED <<plist, plus, offered, killed>>

-----------------------------------------------------------------------------
\* Mutant: a lease ends a tick early.
Mut_Expired(e) == e.lease_timer <= 2

Expired(e) == e.lease_timer = 1
Ticked(e) == [e EXCEPT !.lease_timer = @ - 1]

\* kill_oldest_dhcps_pool: of all but the first lease, the first with the least
\* time left.
OldestLease(list) ==
    CHOOSE i \in 2 .. Len(list) :
        \A j \in 2 .. Len(list) : \/ list[i].lease_timer < list[j].lease_timer
                                  \/ list[i].lease_timer = list[j].lease_timer /\ i <= j

\* The list after every lease has lost a tick, and those that have none left are
\* gone.
Remaining ==
    LET kept[i \in 0 .. Len(plist)] ==
            IF i = 0 THEN << >>
            ELSE IF Expired(plist[i]) THEN kept[i - 1]
            ELSE Append(kept[i - 1], Ticked(plist[i]))
    IN  kept[Len(plist)]

\* A station's own count, and the end of its lease.
Counted(h) == IF h.left = 1 THEN NoLease ELSE [ip |-> h.ip, left |-> h.left - 1, late |-> FALSE]
StationTick(a) ==
    /\ held[a].ip # 0 /\ held[a].late
    /\ held' = [held EXCEPT ![a] = Counted(held[a])]
    /\ UNCHANGED <<plist, plus, offered, killed>>

\* dhcps_coarse_tmr, a minute after it came last: every station has counted since.
dhcps_coarse_tmr ==
    /\ \A a \in Stations : ~held[a].late
    /\ LET list == Remaining
       IN  IF Len(list) >= MaxStationNum
           THEN /\ plist' = RemoveAt(list, OldestLease(list))
                /\ killed' = killed \cup {list[OldestLease(list)].mac}
           ELSE plist' = list /\ UNCHANGED killed
    /\ held' = [a \in Stations |-> [held[a] EXCEPT !.late = held[a].ip # 0]]
    /\ UNCHANGED <<plus, offered>>

\* dhcps_stop and dhcps_start: the AP is set up again, and its stations have to
\* join it again.
Restart == plist' = <<>> /\ plus' = StartIp /\ killed' = {}
           /\ held' = [a \in Stations |-> NoLease] /\ UNCHANGED offered

DhcpsNext ==
    \/ \E a \in Stations : Discover(a)
    \/ \E a \in Stations : Request(a)
    \/ \E a \in Stations : Renew(a)
    \/ \E a \in Stations : Release(a)
    \/ \E a \in Stations : Leave(a)
    \/ \E a \in Stations : StationTick(a)
    \/ dhcps_coarse_tmr
    \/ Restart

DhcpsSpec == DhcpsInit /\ [][DhcpsNext]_dhcpsVars

-----------------------------------------------------------------------------
(* Properties.                                                             *)

\* Every variable has its type: in particular the next address to hand out is in
\* the range, or one past it, and a station uses an address only for its time.
DhcpsTypeOK ==
    /\ plist \in Seq([ip : StartIp .. EndIp, mac : Stations, lease_timer : 1 .. LeaseTimer])
    /\ plus \in StartIp .. EndIp + 1
    /\ held \in [Stations -> [ip : {0} \cup StartIp .. EndIp, left : 0 .. LeaseTimer, late : BOOLEAN]]
    /\ \A a \in Stations : held[a].ip # 0 => held[a].left > 0
    /\ offered \in [Stations -> {0} \cup StartIp .. EndIp]
    /\ killed \subseteq Stations

\* The list is strictly sorted by address, on which the search for a free one
\* relies, so that no address is leased twice; and a station has one lease.
LeasesDistinct ==
    \A i, j \in DOMAIN plist : i < j => /\ plist[i].ip < plist[j].ip
                                        /\ plist[i].mac # plist[j].mac

\* The minutes a station may count on.  The last one is not among them once the
\* server has counted it: the server's lease is up to a minute shorter than the
\* time it offers.
Sure(h) == IF h.late THEN h.left - 1 ELSE h.left

\* The server still has the lease of every address a station uses, for all the
\* minutes the station may count on, whatever messages are lost and whoever leaves
\* and comes back.  Not so for the station whose lease kill_oldest_dhcps_pool has
\* ended: nothing tells it.
LeaseKept ==
    \A a \in Stations : held[a].ip # 0 /\ Sure(held[a]) > 0 /\ a \notin killed =>
        \E i \in Leases(a) : plist[i].ip = held[a].ip /\ plist[i].lease_timer >= Sure(held[a])

\* No two stations use one address, unless one of them is in the part of its last
\* minute in which the server's lease is over, or had its lease ended by
\* kill_oldest_dhcps_pool.
NoConflict ==
    \A a, b \in Stations : a # b /\ held[a].ip # 0 /\ held[a].ip = held[b].ip =>
        \E c \in {a, b} : Sure(held[c]) = 0 \/ c \in killed

\* The pool is used up only when every address is leased.
UsedUp ==
    \A a \in Stations : Address(a) = 0 => Len(plist) = EndIp - StartIp + 1

\* A lease that was ended early had lasted for a tick of the server at least.
KilledLate == \A a \in killed : held[a].left < LeaseTimer \/ held[a].late

\* The leases, on both sides of a network that loses messages.
LeaseInv == DhcpsTypeOK /\ LeasesDistinct /\ NoConflict /\ LeaseKept /\ UsedUp /\ KilledLate
=============================================================================
