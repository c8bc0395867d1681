---------------------------------- MODULE Dns ----------------------------------
(***************************************************************************)
(* The resolver of lwIP (lwip/core/dns.c), which http_client.c and mqtt.c  *)
(* ask for addresses: a small table of queries, retried by a timer, and    *)
(* answers that come over UDP: late, twice, in any order or not at all.    *)
(*                                                                         *)
(* An answer carries the identifier of a query, from which the entry of    *)
(* the table is computed: its index plus a random number, drawn anew for   *)
(* every query that is sent and kept in one variable for all of them.      *)
(***************************************************************************)
EXTENDS Integers, FiniteSets, SequencesExt

CONSTANTS
    TableSize,      \* DNS_TABLE_SIZE: 4
    DnsServers,     \* how many of the DNS_MAX_SERVERS are set
    MaxRetries,     \* DNS_MAX_RETRIES: 4
    SeqRange,         \* the range of dns_seqno, an 8-bit counter: 256
    Randoms,        \* the random numbers drawn: 0 .. 249
    Callers,        \* what asks for names, one at a time each
    NameOf,         \* per caller: the host name it asks for, a sequence of labels
    MaxQueries      \* bound: how many names are asked for

ASSUME DnsAssumption ==
    /\ TableSize \in Nat \ {0} /\ DnsServers \in Nat \ {0} /\ MaxRetries \in Nat \ {0}
    /\ SeqRange \in Nat \ {0} /\ MaxQueries \in Nat
    /\ Randoms \subseteq Nat /\ Randoms # {}
    /\ DOMAIN NameOf = Callers /\ \A c \in Callers : NameOf[c] # <<>>
    \* No name that is asked for is the beginning of another (dns_compare_name).
    /\ \A c, d \in Callers : IsPrefix(NameOf[c], NameOf[d]) => NameOf[c] = NameOf[d]

VARIABLES
    dns_table, dns_seqno, dns_random,
    sent,       \* the queries that have gone out
    asked,      \* per caller: the name it waits for, <<>> when it does not wait
    calls,      \* the callbacks made in the last step
    queries     \* how many names have been asked for

dnsVars == <<dns_table, dns_seqno, dns_random, sent, asked, calls, queries>>

Entries == 0 .. TableSize - 1
NoName == <<>>

UnusedEntry == [state |-> "UNUSED", name |-> NoName, arg |-> {}, numdns |-> 0, tmr |-> 0,
           retries |-> 0, seqno |-> 0]

\* Of a completed entry, only its age is ever looked at.
Done(e) == [UnusedEntry EXCEPT !.state = "DONE", !.seqno = e.seqno]

\* dns_init: the table is zero.
DnsInit ==
    /\ dns_table = [i \in Entries |-> UnusedEntry]
    /\ dns_seqno = 0
    /\ dns_random \in Randoms
    /\ sent = {}
    /\ asked = [c \in Callers |-> NoName]
    /\ calls = {}
    /\ queries = 0

-----------------------------------------------------------------------------
\* The callback of entry e, with the address that was found (that of a name), or
\* NULL.
NULL == <<"NULL">>
Found(e, addr) == {[to |-> c, addr |-> addr] : c \in e.arg}

Answered(cs) == [c \in Callers |-> IF \E x \in cs : x.to = c THEN NoName ELSE asked[c]]

\* dns_send, for the entries in S: every query draws a random number.
dns_send(S, rnd, tab) ==
    /\ sent' = sent \cup {[id |-> i + rnd[i], name |-> tab[i].name] : i \in S}
    /\ \/ S = {} /\ dns_random' = dns_random
       \/ \E i \in S : (\A j \in S : j <= i) /\ dns_random' = rnd[i]

\* dns_check_entry of a new entry.
Start(e) == [e EXCEPT !.state = "ASKING", !.numdns = 0, !.tmr = 1, !.retries = 0]

\* dns_check_entry of an entry that waits for its answer.  A change of server
\* sends nothing yet.
Due(e) == e.state = "ASKING" /\ e.tmr = 1

Retried(e) == e.retries + 1
LastRetry(e) == Due(e) /\ Retried(e) = MaxRetries

MoreServers(e) == e.numdns + 1 < DnsServers

GivesUp(e) == LastRetry(e) /\ ~MoreServers(e)
Retries(e) == Due(e) /\ ~LastRetry(e)

\* Entries that are DONE run down a time to live, which only hands the entry back
\* earlier.
Expires(e, gone) == e.state = "DONE" /\ gone

dns_check_entry(e, gone) ==
    CASE GivesUp(e) \/ Expires(e, gone) -> UnusedEntry
      [] LastRetry(e) /\ ~GivesUp(e) ->
           [e EXCEPT !.numdns = @ + 1, !.tmr = 1, !.retries = 0]
      [] Retries(e) -> [e EXCEPT !.retries = Retried(e), !.tmr = e.retries + 1]
      [] e.state = "ASKING" /\ ~Due(e) -> [e EXCEPT !.tmr = @ - 1]
      [] OTHER -> e

\* dns_tmr, once a second: dns_check_entries.
dns_tmr(rnd, gone) ==
    /\ LET over == {i \in Entries : GivesUp(dns_table[i])}
           cs == UNION {Found(dns_table[i], NULL) : i \in over}
       IN  calls' = cs /\ asked' = Answered(cs)
    /\ dns_table' = [i \in Entries |-> dns_check_entry(dns_table[i], i \in gone)]
    /\ dns_send({i \in Entries : Retries(dns_table[i])}, rnd, dns_table)
    /\ UNCHANGED <<dns_seqno, queries>>

-----------------------------------------------------------------------------
\* dns_enqueue: the first unused entry, or the oldest completed one.  The ages
\* are differences of two 8-bit numbers, as integers: the age of an entry from
\* before the counter wrapped is negative, and no entry is found older than 0.
FirstUnused == {i \in Entries : /\ dns_table[i].state = "UNUSED"
                                /\ \A j \in 0 .. i - 1 : dns_table[j].state # "UNUSED"}
Age(i) == dns_seqno - dns_table[i].seqno
Completed == {i \in Entries : dns_table[i].state = "DONE" /\ Age(i) > 0}
OldestEntry == IF Completed = {} THEN 0
          ELSE CHOOSE i \in Completed :
                 \A j \in Completed : Age(j) < Age(i) \/ (Age(j) = Age(i) /\ i <= j)

\* Mutant: an entry that waits for its answer is taken over.
Mut_Usable == IF FirstUnused # {} THEN FirstUnused ELSE {OldestEntry}

Usable == IF FirstUnused # {} THEN FirstUnused
          ELSE IF dns_table[OldestEntry].state = "DONE" THEN {OldestEntry} ELSE {}

\* dns_gethostbyname of a name that is not an address; the cache is not looked
\* at.  The query goes out at once.
dns_gethostbyname(c, rnd) ==
    /\ queries < MaxQueries /\ asked[c] = NoName
    /\ \E i \in Usable :
         LET e == Start([UnusedEntry EXCEPT !.name = NameOf[c], !.arg = {c}, !.seqno = dns_seqno])
             tab == [dns_table EXCEPT ![i] = e]
         IN  /\ dns_table' = tab
             /\ dns_send({i}, rnd, tab)
    /\ dns_seqno' = (dns_seqno + 1) % SeqRange
    /\ asked' = [asked EXCEPT ![c] = NameOf[c]]
    /\ calls' = {}
    /\ queries' = queries + 1

\* ERR_MEM: no entry can be used now, and the caller is never called back.
Refused(c) ==
    /\ queries < MaxQueries /\ asked[c] = NoName
    /\ Usable = {}
    /\ calls' = {}
    /\ queries' = queries + 1
    /\ UNCHANGED <<dns_table, dns_seqno, dns_random, sent, asked>>

-----------------------------------------------------------------------------
\* Mutant: an answer for another name is taken.
Mut_dns_compare_name(query, response) == TRUE

\* dns_compare_name stops at the end of the name in the response.
dns_compare_name(query, response) == IsPrefix(response, query)

\* The entry an answer is for: none, if the difference wraps.
EntryOf(id) == {i \in Entries : i = id - dns_random /\ dns_table[i].state = "ASKING"}

\* dns_recv of an answer to the query m: with an address, or without one.
dns_recv(m, good) ==
    LET hit == EntryOf(m.id)
        named == \A i \in hit : good /\ dns_compare_name(dns_table[i].name, m.name)
        cs == UNION {Found(dns_table[i], IF named THEN m.name ELSE NULL) : i \in hit}
    IN  /\ dns_table' = [i \in Entries |->
             IF i \notin hit THEN dns_table[i]
             ELSE IF named THEN Done(dns_table[i]) ELSE UnusedEntry]
        /\ calls' = cs
        /\ asked' = Answered(cs)
        /\ UNCHANGED <<dns_seqno, dns_random, sent, queries>>

DnsNext ==
    \/ \E c \in Callers, rnd \in [Entries -> Randoms] :
         dns_gethostbyname(c, rnd)
    \/ \E c \in Callers : Refused(c)
    \/ \E rnd \in [Entries -> Randoms] :
         \E gone \in SUBSET {i \in Entries : dns_table[i].state = "DONE"} : dns_tmr(rnd, gone)
    \/ \E m \in sent, good \in BOOLEAN : dns_recv(m, good)

DnsSpec == DnsInit /\ [][DnsNext]_dnsVars

\* lwIP's timer runs.
DnsTimer == \E rnd \in [Entries -> Randoms] : dns_tmr(rnd, {})

-----------------------------------------------------------------------------
(* Properties.                                                             *)

\* Every variable has its type: the tries and the timer of an entry stay within
\* their bounds, or the 8-bit countdown would pass zero.
DnsTypeOK ==
    /\ \A i \in Entries : LET e == dns_table[i]
         IN  /\ e.state \in {"UNUSED", "ASKING", "DONE"}
             /\ e.name \in Range(NameOf) \cup {NoName} /\ e.seqno \in 0 .. SeqRange - 1
             /\ e.numdns \in 0 .. DnsServers - 1
             /\ e.retries \in 0 .. MaxRetries - 1
             /\ e.state = "ASKING" => e.tmr \in 1 .. MaxRetries
    /\ dns_seqno \in 0 .. SeqRange - 1 /\ dns_random \in Randoms
    /\ asked \in [Callers -> Range(NameOf) \cup {NoName}]

\* Every query that is being waited for has its entry, and only one: no new query
\* takes an entry from one that is on its way, so the callback is still owed.
EntryPerQuery ==
    \A c \in Callers : asked[c] # NoName =>
        Cardinality({i \in Entries : /\ dns_table[i].state = "ASKING"
                                     /\ dns_table[i].arg = {c}
                                     /\ dns_table[i].name = asked[c]}) = 1

\* A callback goes to a caller that waits, so once for each query, and brings the
\* address of the name it asked for, whichever answer had the identifier.
RightAnswer ==
    [][\A x \in calls' : asked[x.to] # NoName /\ x.addr \in {NULL, asked[x.to]}]_dnsVars

\* Whatever the servers do, a caller that was not refused is called back.
CalledBack == \A c \in Callers : []<>(asked[c] = NoName)

-----------------------------------------------------------------------------
\* dns_enqueue: "no entry can't be used now, table is full".  A query is refused
\* only when every entry of the table is on its way, until the sequence number
\* wraps: from then on completed entries may not be found.
RefusedWhenFull ==
    queries < SeqRange /\ Usable = {} => \A i \in Entries : dns_table[i].state = "ASKING"

\* The table of queries: bounded counters, one entry for each query that waits,
\* and none refused for want of one while an entry could be had.
DnsInv == DnsTypeOK /\ EntryPerQuery /\ RefusedWhenFull
=============================================================================
