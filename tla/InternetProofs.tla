--------------------------- MODULE InternetProofs ---------------------------
(***************************************************************************)
(* Proofs about the resolver (Dns), for every table, number of servers,    *)
(* retries and callers, and about the HTTP client (HttpClient), for every  *)
(* pool and number of calls.                                               *)
(***************************************************************************)
EXTENDS Dns, HttpClient, FiniteSetTheorems, SequenceLemmas

-----------------------------------------------------------------------------
(* The resolver                                                            *)

EntryType ==
    [state : {"UNUSED", "ASKING", "DONE"}, name : Range(NameOf) \cup {NoName}, arg : SUBSET Callers,
     numdns : 0 .. DnsServers - 1, tmr : 0 .. MaxRetries, retries : 0 .. MaxRetries - 1,
     seqno : 0 .. SeqRange - 1]

Asking(i) == dns_table[i].state = "ASKING"

DnsTypes ==
    /\ dns_table \in [Entries -> EntryType]
    /\ \A i \in Entries : Asking(i) => dns_table[i].tmr # 0
    /\ dns_seqno \in 0 .. SeqRange - 1 /\ dns_random \in Randoms /\ queries \in Nat
    /\ sent \subseteq [id : Nat, name : Range(NameOf)]
    /\ asked \in [Callers -> Range(NameOf) \cup {NoName}]

\* Whose an entry is.  A caller that waits has an entry, an entry that is on its
\* way has one caller, which waits for its name, and no two have the same.
Owned(i, c) == Asking(i) /\ dns_table[i].arg = {c}
Owners ==
    /\ \A c \in Callers : asked[c] # NoName => \E i \in Entries : Owned(i, c)
    /\ \A i \in Entries : Asking(i) => \E c \in Callers : Owned(i, c)
    /\ \A i \in Entries, c \in Callers : Owned(i, c) => asked[c] = NameOf[c] /\ dns_table[i].name = NameOf[c]
    /\ \A i, j \in Entries, c \in Callers : Owned(i, c) /\ Owned(j, c) => i = j

\* Until the sequence number wraps, every entry in use is from before it.
Aged ==
    queries < SeqRange =>
        /\ dns_seqno <= queries
        /\ \A i \in Entries : dns_table[i].state # "UNUSED" => dns_table[i].seqno < dns_seqno

DnsIndInv == DnsTypes /\ Owners /\ Aged

\* Entries that are unused, and entries that are done with, are entries.
LEMMA EntryFacts ==
  /\ UnusedEntry \in EntryType /\ UnusedEntry.state = "UNUSED"
  /\ \A e \in EntryType : Done(e) \in EntryType /\ Done(e).state = "DONE" /\ Done(e).seqno = e.seqno
<1>1. 0 \in 0 .. DnsServers - 1 /\ 0 \in 0 .. MaxRetries /\ 0 \in 0 .. MaxRetries - 1 /\ 0 \in 0 .. SeqRange - 1
  BY DnsAssumption
<1>2. UnusedEntry \in EntryType /\ UnusedEntry.state = "UNUSED"
  BY <1>1 DEF UnusedEntry, EntryType
<1>3. ASSUME NEW e \in EntryType
      PROVE  Done(e) \in EntryType /\ Done(e).state = "DONE" /\ Done(e).seqno = e.seqno
  <2>1. e.seqno \in 0 .. SeqRange - 1
    BY DEF EntryType
  <2>2. QED
    BY <1>2, <2>1 DEF EntryType, Done
<1>4. QED
  BY <1>2, <1>3

\* What the timer makes of an entry: one that is on its way stays its caller's
\* unless it is given up.
Checked(e, f) ==
    /\ f \in EntryType
    /\ f.state = "ASKING" => e.state = "ASKING" /\ f.tmr # 0 /\ f.arg = e.arg /\ f.name = e.name
    /\ f.state = "ASKING" <=> e.state = "ASKING" /\ ~GivesUp(e)
    /\ f.state # "UNUSED" => e.state # "UNUSED" /\ f.seqno = e.seqno

\* dns_check_entry keeps an entry in order.
LEMMA CheckedEntry ==
  ASSUME NEW e \in EntryType, e.state = "ASKING" => e.tmr # 0, NEW gone
  PROVE  Checked(e, dns_check_entry(e, gone))
<1> DEFINE f == dns_check_entry(e, gone)
<1> USE DEF Checked
<1>0. /\ e.retries \in 0 .. MaxRetries - 1 /\ e.numdns \in 0 .. DnsServers - 1 /\ e.tmr \in 0 .. MaxRetries
      /\ e.state \in {"UNUSED", "ASKING", "DONE"} /\ MaxRetries \in Nat /\ DnsServers \in Nat
  BY DnsAssumption DEF EntryType
<1>1. /\ LastRetry(e) => Due(e) /\ ~Retries(e)
      /\ GivesUp(e) => LastRetry(e)
      /\ Retries(e) => Due(e)
      /\ Due(e) => e.state = "ASKING"
      /\ Expires(e, gone) => e.state = "DONE"
  BY DEF LastRetry, GivesUp, Retries, Due, Expires
<1>2. CASE GivesUp(e) \/ Expires(e, gone)
  <2>1. f = UnusedEntry
    BY <1>2, <1>1 DEF dns_check_entry
  <2>2. e.state = "ASKING" => GivesUp(e)
    BY <1>2 DEF Expires
  <2>3. QED
    BY <2>1, <2>2, EntryFacts
<1>3. CASE ~(GivesUp(e) \/ Expires(e, gone)) /\ LastRetry(e)
  <2>1. f = [e EXCEPT !.numdns = @ + 1, !.tmr = 1, !.retries = 0]
    BY <1>3, <1>1 DEF dns_check_entry
  <2>2. e.numdns + 1 \in 0 .. DnsServers - 1 /\ 1 \in 0 .. MaxRetries /\ 0 \in 0 .. MaxRetries - 1 /\ e.state = "ASKING"
    BY <1>0, <1>3 DEF GivesUp, MoreServers, LastRetry, Due
  <2>3. f \in EntryType
    BY <2>1, <2>2 DEF EntryType
  <2>4. f.tmr = 1 /\ f.state = e.state /\ f.arg = e.arg /\ f.name = e.name /\ f.seqno = e.seqno
    BY <2>1 DEF EntryType
  <2>5. QED
    BY <1>3, <2>2, <2>3, <2>4
<1>4. CASE ~(GivesUp(e) \/ Expires(e, gone)) /\ ~LastRetry(e) /\ Retries(e)
  <2>1. f = [e EXCEPT !.retries = e.retries + 1, !.tmr = e.retries + 1]
    BY <1>4, <1>1 DEF dns_check_entry, Retried
  <2>2. /\ e.retries + 1 \in 0 .. MaxRetries - 1 /\ e.retries + 1 \in 0 .. MaxRetries /\ e.retries + 1 # 0
        /\ e.state = "ASKING"
    BY <1>0, <1>4 DEF LastRetry, Retries, Retried, Due
  <2>3. f \in EntryType
    BY <2>1, <2>2 DEF EntryType
  <2>4. f.tmr = e.retries + 1 /\ f.state = e.state /\ f.arg = e.arg /\ f.name = e.name /\ f.seqno = e.seqno
    BY <2>1 DEF EntryType
  <2>5. QED
    BY <1>4, <2>2, <2>3, <2>4
<1>5. CASE e.state = "ASKING" /\ ~Due(e) /\ ~GivesUp(e)
  <2>1. f = [e EXCEPT !.tmr = @ - 1]
    BY <1>5 DEF dns_check_entry, Expires, LastRetry, Retries
  <2>2. e.tmr - 1 \in 1 .. MaxRetries
    BY <1>0, <1>5 DEF Due
  <2>3. QED
    BY <1>0, <1>5, <2>1, <2>2 DEF EntryType
<1>6. CASE e.state # "ASKING" /\ ~Expires(e, gone)
  <2>1. f = e
    BY <1>6 DEF dns_check_entry, GivesUp, LastRetry, Retries, Due
  <2>2. QED
    BY <1>6, <2>1
<1>7. QED
  BY <1>2, <1>3, <1>4, <1>5, <1>6 DEF Expires, LastRetry, Retries, Due, GivesUp

\* A step that ends the queries of the entries in over, and no others: its
\* callbacks go to the callers that own them, who wait no more.
EndsOnly(over) ==
    \A i \in Entries : /\ i \in over => Asking(i) /\ ~Asking(i)'
                       /\ i \notin over => /\ Asking(i)' <=> Asking(i)
                                           /\ Asking(i) => /\ dns_table'[i].arg = dns_table[i].arg
                                                           /\ dns_table'[i].name = dns_table[i].name
ToOwners(cs, over, addr) ==
    \A x \in cs : \E i \in over, c \in Callers : Owned(i, c) /\ x = [to |-> c, addr |-> addr]

\* Entries that are done with are taken from their callers, who alone are told.
LEMMA Ended ==
  ASSUME DnsIndInv, NEW over, over \subseteq Entries, EndsOnly(over), NEW addr,
         asked' = Answered(UNION {Found(dns_table[i], addr) : i \in over})
  PROVE  /\ Owners' /\ asked' \in [Callers -> Range(NameOf) \cup {NoName}]
         /\ ToOwners(UNION {Found(dns_table[i], addr) : i \in over}, over, addr)
<1> DEFINE cs == UNION {Found(dns_table[i], addr) : i \in over}
<1> USE DEF EndsOnly
<1>0. Owners /\ asked \in [Callers -> Range(NameOf) \cup {NoName}]
  BY DEF DnsIndInv, DnsTypes
<1>1. ASSUME NEW x \in cs
      PROVE  \E i \in over, c \in Callers : Owned(i, c) /\ x = [to |-> c, addr |-> addr]
  <2>1. PICK i \in over : x \in Found(dns_table[i], addr)
    BY <1>1
  <2>2. PICK c \in Callers : Owned(i, c)
    BY <1>0 DEF Owners
  <2>3. QED
    BY <2>1, <2>2 DEF Found, Owned
<1>2. ASSUME NEW i \in over, NEW c \in Callers, Owned(i, c)
      PROVE  \E x \in cs : x.to = c
  <2>1. [to |-> c, addr |-> addr] \in Found(dns_table[i], addr)
    BY <1>2 DEF Found, Owned
  <2>2. [to |-> c, addr |-> addr] \in cs
    BY <2>1
  <2>3. QED
    BY <2>2
<1>3. \A c \in Callers : asked'[c] = IF \E i \in over : Owned(i, c) THEN NoName ELSE asked[c]
  BY <1>1, <1>2 DEF Answered
<1>4. asked' \in [Callers -> Range(NameOf) \cup {NoName}]
  BY <1>0 DEF Answered
<1>5. \A i \in Entries, c \in Callers : Owned(i, c)' <=> Owned(i, c) /\ i \notin over
  BY DEF Owned, Asking
<1>6. Owners'
  <2>1. ASSUME NEW c \in Callers, asked'[c] # NoName PROVE \E i \in Entries : Owned(i, c)'
    BY <1>0, <1>3, <1>5, <2>1 DEF Owners
  <2>2. ASSUME NEW i \in Entries, Asking(i)' PROVE \E c \in Callers : Owned(i, c)'
    BY <1>0, <1>5, <2>2 DEF Owners, Asking
  <2>3. ASSUME NEW i \in Entries, NEW c \in Callers, Owned(i, c)'
        PROVE  asked'[c] = NameOf[c] /\ dns_table'[i].name = NameOf[c]
    BY <1>0, <1>3, <1>5, <2>3 DEF Owners, Owned
  <2>4. ASSUME NEW i \in Entries, NEW j \in Entries, NEW c \in Callers, Owned(i, c)', Owned(j, c)' PROVE i = j
    BY <1>0, <1>5, <2>4 DEF Owners
  <2>5. QED
    BY <2>1, <2>2, <2>3, <2>4 DEF Owners
<1>7. QED
  BY <1>1, <1>4, <1>6 DEF ToOwners

\* What a step sends is a query of an entry, and the number drawn is a random one.
LEMMA Sends ==
  ASSUME DnsTypes, NEW S \in SUBSET Entries, NEW rnd \in [Entries -> Randoms], NEW tab,
         \A i \in S : tab[i].name \in Range(NameOf), dns_send(S, rnd, tab)
  PROVE  sent' \subseteq [id : Nat, name : Range(NameOf)] /\ dns_random' \in Randoms
<1>1. \A i \in S : i \in Nat /\ rnd[i] \in Nat
  BY DnsAssumption DEF Entries
<1>2. \A i \in S : [id |-> i + rnd[i], name |-> tab[i].name] \in [id : Nat, name : Range(NameOf)]
  BY <1>1
<1>3. QED
  BY <1>2 DEF dns_send, DnsTypes

\* An entry that is asking asks for the name of a caller.
LEMMA AskingName ==
  ASSUME DnsIndInv, NEW i \in Entries, Asking(i)
  PROVE  dns_table[i].name \in Range(NameOf)
<1>1. PICK c \in Callers : dns_table[i].name = NameOf[c]
  BY DEF DnsIndInv, Owners
<1>2. QED
  BY <1>1, DnsAssumption DEF Range

\* Of the completed entries, dns_enqueue finds the oldest, the first of several.
LEMMA OldestIsCompleted == DnsIndInv /\ Completed # {} => OldestEntry \in Completed
<1> SUFFICES ASSUME DnsIndInv, Completed # {} PROVE OldestEntry \in Completed
  OBVIOUS
<1>0. /\ Completed \subseteq Entries /\ dns_seqno \in Nat
      /\ \A i \in Entries : i \in Nat /\ dns_table[i].seqno \in Nat
  <2>1. SeqRange \in Nat /\ TableSize \in Nat
    BY DnsAssumption
  <2>2. dns_table \in [Entries -> EntryType] /\ dns_seqno \in 0 .. SeqRange - 1
    BY Zenon DEF DnsIndInv, DnsTypes
  <2>3. ASSUME NEW i \in Entries PROVE dns_table[i].seqno \in Nat
    <3>1. dns_table[i] \in EntryType
      BY <2>2, Zenon
    <3>2. QED
      BY ONLY <2>1, <3>1 DEF EntryType
  <2>4. Completed \subseteq Entries
    BY Zenon DEF Completed
  <2>5. \A i \in Entries : i \in Nat
    BY ONLY <2>1 DEF Entries
  <2>6. QED
    BY ONLY <2>1, <2>2, <2>3, <2>4, <2>5
<1>1. PICK n \in {dns_table[i].seqno : i \in Completed} : \A m \in {dns_table[i].seqno : i \in Completed} : n <= m
  <2>1. {dns_table[i].seqno : i \in Completed} \in SUBSET Nat /\ {dns_table[i].seqno : i \in Completed} # {}
    BY <1>0
  <2>2. QED
    BY <2>1, LeastOf
<1>2. PICK i \in {j \in Completed : dns_table[j].seqno = n} : \A k \in {j \in Completed : dns_table[j].seqno = n} : i <= k
  <2>1. {j \in Completed : dns_table[j].seqno = n} \in SUBSET Nat /\ {j \in Completed : dns_table[j].seqno = n} # {}
    BY <1>0, <1>1
  <2>2. QED
    BY <2>1, LeastOf
<1>3. ASSUME NEW j \in Completed PROVE Age(j) < Age(i) \/ (Age(j) = Age(i) /\ i <= j)
  <2>1. dns_table[j].seqno \in Nat /\ n <= dns_table[j].seqno /\ dns_table[i].seqno = n
    BY <1>0, <1>1, <1>2
  <2>2. CASE dns_table[j].seqno = n
    BY <1>0, <1>2, <2>1, <2>2 DEF Age
  <2>3. CASE dns_table[j].seqno # n
    BY <1>0, <2>1, <2>3 DEF Age
  <2>4. QED
    BY <2>2, <2>3
<1>4. QED
  BY <1>2, <1>3 DEF OldestEntry

\* The entry of a new query was nobody's.
LEMMA UsableIsIdle == DnsIndInv => \A i \in Usable : i \in Entries /\ ~Asking(i)
<1> SUFFICES ASSUME DnsIndInv, NEW i \in Usable PROVE i \in Entries /\ ~Asking(i)
  OBVIOUS
<1>1. CASE FirstUnused # {}
  BY <1>1 DEF Usable, FirstUnused, Asking
<1>2. CASE FirstUnused = {}
  <2>1. i = OldestEntry /\ dns_table[i].state = "DONE"
    BY <1>2 DEF Usable
  <2>2. CASE Completed = {}
    BY <2>1, <2>2, DnsAssumption DEF OldestEntry, Entries, Asking
  <2>3. CASE Completed # {}
    <3>1. OldestEntry \in Completed
      BY <2>3, OldestIsCompleted
    <3>2. QED
      BY <2>1, <3>1 DEF Completed, Asking
  <2>4. QED
    BY <2>2, <2>3
<1>3. QED
  BY <1>1, <1>2

\* dns_tmr keeps the invariant.
LEMMA TimerKeeps ==
  ASSUME DnsIndInv, NEW rnd \in [Entries -> Randoms], NEW gone \in SUBSET Entries, dns_tmr(rnd, gone)
  PROVE  /\ DnsIndInv'
         /\ \A x \in calls' : asked[x.to] # NoName /\ x.addr = NULL
<1> DEFINE over == {i \in Entries : GivesUp(dns_table[i])}
           cs == UNION {Found(dns_table[i], NULL) : i \in over}
<1>0. DnsTypes /\ Owners /\ Aged
  BY DEF DnsIndInv
<1>1. /\ calls' = cs /\ asked' = Answered(cs) /\ UNCHANGED <<dns_seqno, queries>>
      /\ dns_table' = [i \in Entries |-> dns_check_entry(dns_table[i], i \in gone)]
      /\ dns_send({i \in Entries : Retries(dns_table[i])}, rnd, dns_table)
  BY DEF dns_tmr
<1>2. ASSUME NEW i \in Entries
      PROVE  /\ dns_table'[i] \in EntryType
             /\ Asking(i)' => Asking(i) /\ dns_table'[i].tmr # 0 /\ dns_table'[i].arg = dns_table[i].arg
                                        /\ dns_table'[i].name = dns_table[i].name
             /\ Asking(i)' <=> Asking(i) /\ i \notin over
             /\ dns_table'[i].state # "UNUSED" =>
                  dns_table[i].state # "UNUSED" /\ dns_table'[i].seqno = dns_table[i].seqno
  <2>1. dns_table[i] \in EntryType /\ (dns_table[i].state = "ASKING" => dns_table[i].tmr # 0)
    BY <1>0 DEF DnsTypes, Asking
  <2>2. dns_table'[i] = dns_check_entry(dns_table[i], i \in gone)
    BY <1>1
  <2>3. Checked(dns_table[i], dns_table'[i])
    BY <2>1, <2>2, CheckedEntry, Zenon
  <2>4. QED
    BY <2>3 DEF Checked, Asking
<1>3. \A i \in over : Asking(i)
  BY DEF GivesUp, LastRetry, Due, Asking
<1>4. Owners' /\ asked' \in [Callers -> Range(NameOf) \cup {NoName}] /\ ToOwners(cs, over, NULL)
  <2>1. EndsOnly(over) /\ over \subseteq Entries
    BY <1>2, <1>3 DEF EndsOnly
  <2>2. QED
    BY <1>1, <2>1, Ended
<1>5. sent' \subseteq [id : Nat, name : Range(NameOf)] /\ dns_random' \in Randoms
  <2>1. \A i \in {j \in Entries : Retries(dns_table[j])} : dns_table[i].name \in Range(NameOf)
    BY AskingName DEF Retries, Due, Asking
  <2>2. QED
    BY <1>0, <1>1, <2>1, Sends
<1>6. DnsTypes'
  <2>1. dns_table' \in [Entries -> EntryType]
    BY <1>1, <1>2
  <2>2. QED
    BY <1>0, <1>1, <1>2, <1>4, <1>5, <2>1 DEF DnsTypes
<1>7. Aged'
  BY <1>0, <1>1, <1>2 DEF Aged
<1>8. ASSUME NEW x \in calls' PROVE asked[x.to] # NoName /\ x.addr = NULL
  <2>1. PICK i \in over, c \in Callers : Owned(i, c) /\ x = [to |-> c, addr |-> NULL]
    BY <1>1, <1>4 DEF ToOwners
  <2>2. QED
    BY <1>0, <2>1, DnsAssumption DEF Owners, NoName
<1>9. QED
  BY <1>4, <1>6, <1>7, <1>8 DEF DnsIndInv

\* dns_recv keeps the invariant.
LEMMA AnswerKeeps ==
  ASSUME DnsIndInv, NEW m \in sent, NEW good \in BOOLEAN, dns_recv(m, good)
  PROVE  /\ DnsIndInv'
         /\ \A x \in calls' : asked[x.to] # NoName /\ x.addr \in {NULL, asked[x.to]}
<1> DEFINE hit == EntryOf(m.id)
           named == \A i \in hit : good /\ dns_compare_name(dns_table[i].name, m.name)
           addr == IF named THEN m.name ELSE NULL
           cs == UNION {Found(dns_table[i], addr) : i \in hit}
<1>0. DnsTypes /\ Owners /\ Aged
  BY DEF DnsIndInv
<1>1. /\ dns_table' = [i \in Entries |->
                          IF i \notin hit THEN dns_table[i]
                          ELSE IF named THEN Done(dns_table[i]) ELSE UnusedEntry]
      /\ calls' = cs /\ asked' = Answered(cs)
      /\ UNCHANGED <<dns_seqno, dns_random, sent, queries>>
  BY DEF dns_recv
<1>2. hit \subseteq Entries /\ \A i \in hit : Asking(i)
  BY DEF EntryOf, Asking
<1>3. ASSUME NEW i \in Entries
      PROVE  /\ dns_table'[i] \in EntryType
             /\ i \in hit => ~Asking(i)'
             /\ i \notin hit => dns_table'[i] = dns_table[i]
             /\ dns_table'[i].state # "UNUSED" =>
                  dns_table[i].state # "UNUSED" /\ dns_table'[i].seqno = dns_table[i].seqno
  <2>1. dns_table[i] \in EntryType
    BY <1>0 DEF DnsTypes
  <2>2. CASE i \notin hit
    BY <1>1, <2>1, <2>2
  <2>3. CASE i \in hit /\ named
    <3>1. dns_table'[i] = Done(dns_table[i])
      BY <1>1, <2>3
    <3>2. QED
      BY <1>2, <2>1, <2>3, <3>1, EntryFacts DEF Asking
  <2>4. CASE i \in hit /\ ~named
    <3>1. dns_table'[i] = UnusedEntry
      BY <1>1, <2>4
    <3>2. QED
      BY <2>4, <3>1, EntryFacts DEF Asking
  <2>5. QED
    BY <2>2, <2>3, <2>4
<1>4. Owners' /\ asked' \in [Callers -> Range(NameOf) \cup {NoName}] /\ ToOwners(cs, hit, addr)
  <2>1. EndsOnly(hit)
    BY <1>2, <1>3 DEF EndsOnly, Asking
  <2>2. QED
    BY <1>1, <1>2, <2>1, Ended
<1>5. DnsTypes'
  <2>1. dns_table' \in [Entries -> EntryType]
    BY <1>1, <1>3
  <2>2. \A i \in Entries : Asking(i)' => dns_table'[i].tmr # 0
    BY <1>0, <1>3 DEF DnsTypes, Asking
  <2>3. QED
    BY <1>0, <1>1, <1>4, <2>1, <2>2 DEF DnsTypes
<1>6. Aged'
  BY <1>0, <1>1, <1>3 DEF Aged
<1>7. ASSUME NEW x \in calls' PROVE asked[x.to] # NoName /\ x.addr \in {NULL, asked[x.to]}
  <2>1. PICK i \in hit, c \in Callers : Owned(i, c) /\ x = [to |-> c, addr |-> addr]
    BY <1>1, <1>4 DEF ToOwners
  <2>2. asked[c] = NameOf[c] /\ dns_table[i].name = NameOf[c] /\ NameOf[c] # NoName
    BY <1>0, <1>2, <2>1, DnsAssumption DEF Owners, NoName
  <2>3. CASE named
    <3>1. PICK d \in Callers : m.name = NameOf[d]
      BY <1>0, DnsAssumption DEF DnsTypes, Range
    <3>2. IsPrefix(NameOf[d], NameOf[c])
      BY <2>1, <2>2, <2>3, <3>1 DEF dns_compare_name
    <3>3. QED
      BY <2>1, <2>2, <2>3, <3>1, <3>2, DnsAssumption
  <2>4. CASE ~named
    BY <2>1, <2>2, <2>4
  <2>5. QED
    BY <2>3, <2>4
<1>8. QED
  BY <1>4, <1>5, <1>6, <1>7 DEF DnsIndInv

\* dns_gethostbyname and dns_enqueue keep the invariant.
LEMMA QueryKeeps ==
  ASSUME DnsIndInv, NEW c \in Callers, NEW rnd \in [Entries -> Randoms], dns_gethostbyname(c, rnd)
  PROVE  DnsIndInv'
<1> DEFINE e == Start([UnusedEntry EXCEPT !.name = NameOf[c], !.arg = {c}, !.seqno = dns_seqno])
<1>0. DnsTypes /\ Owners /\ Aged
  BY DEF DnsIndInv
<1>1. PICK i \in Usable : /\ dns_table' = [dns_table EXCEPT ![i] = e]
                          /\ dns_send({i}, rnd, [dns_table EXCEPT ![i] = e])
  BY DEF dns_gethostbyname
<1>2. /\ asked[c] = NoName /\ asked' = [asked EXCEPT ![c] = NameOf[c]]
      /\ dns_seqno' = (dns_seqno + 1) % SeqRange /\ queries' = queries + 1
  BY DEF dns_gethostbyname
<1>3. i \in Entries /\ ~Asking(i)
  BY UsableIsIdle
<1>4. NameOf[c] \in Range(NameOf) /\ NameOf[c] # NoName
  BY DnsAssumption DEF Range, NoName
<1>5. /\ e \in EntryType /\ e.state = "ASKING" /\ e.arg = {c} /\ e.name = NameOf[c] /\ e.tmr = 1
      /\ e.seqno = dns_seqno
  <2> DEFINE d == [UnusedEntry EXCEPT !.name = NameOf[c], !.arg = {c}, !.seqno = dns_seqno]
  <2>1. d \in EntryType /\ d.arg = {c} /\ d.name = NameOf[c] /\ d.seqno = dns_seqno
    <3>1. dns_seqno \in 0 .. SeqRange - 1 /\ UnusedEntry \in EntryType /\ {c} \in SUBSET Callers
      BY <1>0, EntryFacts DEF DnsTypes
    <3>2. QED
      BY <1>4, <3>1 DEF EntryType
  <2>2. 0 \in 0 .. DnsServers - 1 /\ 1 \in 0 .. MaxRetries /\ 0 \in 0 .. MaxRetries - 1
    BY DnsAssumption
  <2> HIDE DEF d
  <2>3. /\ Start(d) \in EntryType /\ Start(d).state = "ASKING" /\ Start(d).arg = d.arg /\ Start(d).name = d.name
        /\ Start(d).tmr = 1 /\ Start(d).seqno = d.seqno
    BY <2>1, <2>2 DEF EntryType, Start
  <2>4. QED
    BY <2>1, <2>3 DEF d
<1> HIDE DEF e
<1>6. dns_table'[i] = e /\ \A j \in Entries : j # i => dns_table'[j] = dns_table[j]
  BY <1>0, <1>1, <1>3 DEF DnsTypes
<1>7. DnsTypes'
  <2>1. dns_table' \in [Entries -> EntryType]
    BY <1>0, <1>1, <1>3, <1>5 DEF DnsTypes
  <2>2. \A j \in Entries : Asking(j)' => dns_table'[j].tmr # 0
    BY <1>0, <1>5, <1>6 DEF DnsTypes, Asking
  <2>3. dns_seqno' \in 0 .. SeqRange - 1 /\ queries' \in Nat
    BY <1>0, <1>2, DnsAssumption DEF DnsTypes
  <2>4. sent' \subseteq [id : Nat, name : Range(NameOf)] /\ dns_random' \in Randoms
    <3>1. \A j \in {i} : [dns_table EXCEPT ![i] = e][j].name \in Range(NameOf)
      BY <1>0, <1>3, <1>4, <1>5 DEF DnsTypes
    <3>2. {i} \in SUBSET Entries
      BY <1>3
    <3>3. QED
      BY <1>0, <1>1, <3>1, <3>2, Sends
  <2>5. asked' \in [Callers -> Range(NameOf) \cup {NoName}]
    BY <1>0, <1>2, <1>4 DEF DnsTypes
  <2>6. QED
    BY <2>1, <2>2, <2>3, <2>4, <2>5 DEF DnsTypes
<1>8. Owners'
  <2>1. \A j \in Entries, d \in Callers : Owned(j, d)' <=> (j = i /\ d = c) \/ (j # i /\ Owned(j, d))
    BY <1>5, <1>6 DEF Owned, Asking
  <2>2. \A d \in Callers : asked'[d] = IF d = c THEN NameOf[c] ELSE asked[d]
    BY <1>0, <1>2 DEF DnsTypes
  <2>3. \A j \in Entries : ~Owned(j, c)
    BY <1>0, <1>2, <1>4 DEF Owners
  <2>4. ASSUME NEW d \in Callers, asked'[d] # NoName PROVE \E j \in Entries : Owned(j, d)'
    <3>1. CASE d = c
      BY <1>3, <2>1, <3>1
    <3>2. CASE d # c
      BY <1>0, <1>3, <2>1, <2>2, <2>4, <3>2 DEF Owners, Owned
    <3>3. QED
      BY <3>1, <3>2
  <2>5. ASSUME NEW j \in Entries, Asking(j)' PROVE \E d \in Callers : Owned(j, d)'
    BY <1>0, <1>6, <2>1, <2>5 DEF Owners, Asking
  <2>6. ASSUME NEW j \in Entries, NEW d \in Callers, Owned(j, d)'
        PROVE  asked'[d] = NameOf[d] /\ dns_table'[j].name = NameOf[d]
    BY <1>0, <1>5, <1>6, <2>1, <2>2, <2>3, <2>6 DEF Owners
  <2>7. ASSUME NEW j \in Entries, NEW k \in Entries, NEW d \in Callers, Owned(j, d)', Owned(k, d)' PROVE j = k
    BY <1>0, <2>1, <2>3, <2>7 DEF Owners
  <2>8. QED
    BY <2>4, <2>5, <2>6, <2>7 DEF Owners
<1>9. Aged'
  <2> SUFFICES ASSUME queries' < SeqRange PROVE
        /\ dns_seqno' <= queries'
        /\ \A j \in Entries : dns_table'[j].state # "UNUSED" => dns_table'[j].seqno < dns_seqno'
    BY DEF Aged
  <2>1. queries < SeqRange /\ dns_seqno <= queries /\ dns_seqno \in Nat /\ queries \in Nat /\ SeqRange \in Nat
    BY <1>0, <1>2, DnsAssumption DEF Aged, DnsTypes
  <2>2. dns_seqno' = dns_seqno + 1
    BY <1>2, <2>1, DnsAssumption
  <2>3. \A j \in Entries : j # i /\ dns_table[j].state # "UNUSED" =>
            dns_table[j].seqno \in Nat /\ dns_table[j].seqno < dns_seqno
    BY <1>0, <2>1 DEF Aged, DnsTypes, EntryType
  <2>4. ASSUME NEW j \in Entries, dns_table'[j].state # "UNUSED" PROVE dns_table'[j].seqno < dns_seqno'
    <3>1. CASE j = i
      BY <1>5, <1>6, <2>1, <2>2, <3>1
    <3>2. CASE j # i
      BY <1>6, <2>1, <2>2, <2>3, <2>4, <3>2
    <3>3. QED
      BY <3>1, <3>2
  <2>5. QED
    BY <1>2, <2>1, <2>2, <2>4
<1>10. QED
  BY <1>7, <1>8, <1>9 DEF DnsIndInv

\* The invariant holds after dns_init.
LEMMA DnsStarts == DnsInit => DnsIndInv
<1> SUFFICES ASSUME DnsInit PROVE DnsIndInv
  OBVIOUS
<1>1. \A i \in Entries : dns_table[i] = UnusedEntry /\ ~Asking(i)
  BY EntryFacts DEF DnsInit, Asking
<1>2. DnsTypes
  BY <1>1, EntryFacts, DnsAssumption DEF DnsInit, DnsTypes
<1>3. Owners
  BY <1>1 DEF DnsInit, Owners, Owned
<1>4. Aged
  BY <1>1, EntryFacts DEF DnsInit, Aged
<1>5. QED
  BY <1>2, <1>3, <1>4 DEF DnsIndInv

\* A query that is refused changes nothing that the invariant reads.
LEMMA RefusedKeeps ==
  ASSUME DnsIndInv, NEW c \in Callers, Refused(c)
  PROVE  DnsIndInv'
<1>1. /\ UNCHANGED <<dns_table, dns_seqno, dns_random, sent, asked>> /\ queries' = queries + 1
      /\ DnsTypes /\ Owners /\ Aged
  BY DEF Refused, DnsIndInv
<1>2. DnsTypes'
  BY <1>1 DEF DnsTypes, Asking
<1>3. Owners'
  BY <1>1 DEF Owners, Owned, Asking
<1>4. Aged'
  BY <1>1, DnsAssumption DEF Aged, DnsTypes
<1>5. QED
  BY <1>2, <1>3, <1>4 DEF DnsIndInv

\* Every step of the resolver keeps the invariant.
LEMMA DnsKept == DnsIndInv /\ [DnsNext]_dnsVars => DnsIndInv'
<1> SUFFICES ASSUME DnsIndInv, [DnsNext]_dnsVars PROVE DnsIndInv'
  OBVIOUS
<1>1. CASE UNCHANGED dnsVars
  <2>1. DnsTypes'
    BY <1>1, Zenon DEF dnsVars, DnsIndInv, DnsTypes, Asking
  <2>2. Owners'
    <3>1. Owners /\ dns_table' = dns_table /\ asked' = asked
      BY <1>1, Zenon DEF dnsVars, DnsIndInv
    <3>2. QED
      BY ONLY <3>1 DEF Owners, Owned, Asking
  <2>3. Aged'
    BY <1>1, Zenon DEF dnsVars, DnsIndInv, Aged
  <2>4. QED
    BY <2>1, <2>2, <2>3, Zenon DEF DnsIndInv
<1>2. QED
  BY <1>1, QueryKeeps, RefusedKeeps, TimerKeeps, AnswerKeeps DEF DnsNext

\* The table of queries (dns.c): the counters stay in range, every caller that
\* waits has one entry, so that its callback is still owed, and dns_enqueue
\* refuses a query only when the table is full, until its counter wraps.
THEOREM DnsCorrect == DnsSpec => []DnsInv
<1>1. DnsIndInv => DnsInv
  <2> SUFFICES ASSUME DnsIndInv PROVE DnsInv
    OBVIOUS
  <2>0. DnsTypes /\ Owners /\ Aged
    BY DEF DnsIndInv
  <2>1. DnsTypeOK
    <3>1. ASSUME NEW i \in Entries
          PROVE  LET e == dns_table[i]
                 IN  /\ e.state \in {"UNUSED", "ASKING", "DONE"}
                     /\ e.name \in Range(NameOf) \cup {NoName} /\ e.seqno \in 0 .. SeqRange - 1
                     /\ e.numdns \in 0 .. DnsServers - 1
                     /\ e.retries \in 0 .. MaxRetries - 1
                     /\ e.state = "ASKING" => e.tmr \in 1 .. MaxRetries
      <4>1. dns_table[i] \in EntryType /\ (Asking(i) => dns_table[i].tmr # 0)
        BY <2>0 DEF DnsTypes
      <4>2. QED
        BY <4>1, DnsAssumption DEF EntryType, Asking
    <3>2. QED
      BY <2>0, <3>1 DEF DnsTypes, DnsTypeOK
  <2>2. EntryPerQuery
    <3>1. SUFFICES ASSUME NEW c \in Callers, asked[c] # NoName
                   PROVE  Cardinality({i \in Entries : /\ dns_table[i].state = "ASKING"
                                                       /\ dns_table[i].arg = {c}
                                                       /\ dns_table[i].name = asked[c]}) = 1
      BY DEF EntryPerQuery
    <3>2. PICK i \in Entries : Owned(i, c)
      BY <2>0, <3>1 DEF Owners
    <3>3. {j \in Entries : /\ dns_table[j].state = "ASKING"
                           /\ dns_table[j].arg = {c}
                           /\ dns_table[j].name = asked[c]} = {i}
      BY <2>0, <3>2 DEF Owners, Owned, Asking
    <3>4. QED
      BY <3>3, FS_Singleton
  <2>3. RefusedWhenFull
    <3>1. SUFFICES ASSUME queries < SeqRange, Usable = {}, NEW i \in Entries, ~Asking(i)
                   PROVE  FALSE
      BY DEF RefusedWhenFull, Asking
    <3>2. FirstUnused = {}
      BY <3>1 DEF Usable
    <3>3. \A j \in Entries : dns_table[j].state # "UNUSED"
      <4>1. SUFFICES ASSUME {j \in Entries : dns_table[j].state = "UNUSED"} # {} PROVE FALSE
        OBVIOUS
      <4>2. {j \in Entries : dns_table[j].state = "UNUSED"} \in SUBSET Nat
        BY DnsAssumption DEF Entries
      <4>3. PICK j \in {k \in Entries : dns_table[k].state = "UNUSED"} :
                \A m \in {k \in Entries : dns_table[k].state = "UNUSED"} : j <= m
        BY <4>1, <4>2, LeastOf
      <4>4. \A k \in 0 .. j - 1 : k \in Entries /\ ~(j <= k)
        BY DnsAssumption DEF Entries
      <4>5. j \in FirstUnused
        BY <4>3, <4>4 DEF FirstUnused
      <4>6. QED
        BY <3>2, <4>5
    <3>4. dns_table[i].state = "DONE"
      BY <2>1, <3>1, <3>3 DEF DnsTypeOK, Asking
    <3>5. Age(i) > 0
      <4>1. dns_table[i].seqno \in Nat /\ dns_seqno \in Nat /\ dns_table[i].seqno < dns_seqno
        BY <2>0, <3>1, <3>4, DnsAssumption DEF Aged, DnsTypes, EntryType
      <4>2. QED
        BY <4>1 DEF Age
    <3>6. OldestEntry \in Completed
      BY <3>4, <3>5, OldestIsCompleted DEF Completed
    <3>7. QED
      BY <3>1, <3>2, <3>6 DEF Completed, Usable
  <2>4. QED
    BY <2>1, <2>2, <2>3 DEF DnsInv
<1>2. QED
  BY <1>1, DnsStarts, DnsKept, PTL DEF DnsSpec

\* A callback of the resolver goes to a caller that waits, so once for each query,
\* with the address of its own name or none: late answers, answers to a query that
\* was sent before and identifiers that meet another entry included.
THEOREM DnsRightAnswer == DnsSpec => RightAnswer
<1>1. ASSUME DnsIndInv, [DnsNext]_dnsVars
      PROVE  [\A x \in calls' : asked[x.to] # NoName /\ x.addr \in {NULL, asked[x.to]}]_dnsVars
  <2>1. ASSUME NEW c \in Callers, NEW rnd \in [Entries -> Randoms], dns_gethostbyname(c, rnd) PROVE calls' = {}
    BY <2>1 DEF dns_gethostbyname
  <2>2. ASSUME NEW c \in Callers, Refused(c) PROVE calls' = {}
    BY <2>2 DEF Refused
  <2>3. ASSUME NEW rnd \in [Entries -> Randoms], NEW gone \in SUBSET Entries, dns_tmr(rnd, gone)
        PROVE  \A x \in calls' : asked[x.to] # NoName /\ x.addr \in {NULL, asked[x.to]}
    BY <1>1, <2>3, TimerKeeps
  <2>4. ASSUME NEW m \in sent, NEW good \in BOOLEAN, dns_recv(m, good)
        PROVE  \A x \in calls' : asked[x.to] # NoName /\ x.addr \in {NULL, asked[x.to]}
    BY <1>1, <2>4, AnswerKeeps
  <2>5. QED
    BY <1>1, <2>1, <2>2, <2>3, <2>4 DEF DnsNext
<1>2. QED
  BY <1>1, DnsStarts, DnsKept, PTL DEF DnsSpec, RightAnswer

-----------------------------------------------------------------------------
(* The HTTP client                                                         *)

\* What a slot holds between two callbacks, by its use.
SlotFields == {"use", "reverse", "data", "timer", "link", "unacked", "got"}
Consistent(r, s) ==
    /\ r = [f \in SlotFields |-> r[f]]
    /\ r.use \in {"free", "call", "client", "other"}
    /\ r.reverse \in (IF r.use = "client" THEN Slots \ {s} ELSE {0})
    /\ r.data \in {0, 1, 99}
    /\ r.link \in {"none", "connecting", "stuck", "open"}
    /\ r.got \in Seq({0, 1, 200})
    /\ r.use # "client" => ~r.timer /\ r.link = "none"
    /\ r.use = "client" => r.timer \/ r.link # "none"
    /\ r.use # "call" => r.got = <<>>
GoodPool(pool) == pool = [s \in Slots |-> pool[s]] /\ \A s \in Slots : Consistent(pool[s], s)

Claims(r) == \E i \in DOMAIN r.got : r.got[i] = 1
NoResult(r) == \A i \in DOMAIN r.got : r.got[i] = 200
OneResult(r) == \E n \in Nat : \A i \in DOMAIN r.got : r.got[i] = 200 \/ i = n

\* The first call has at most one client, and no result while it has it.
FirstCall(pool, n) ==
    /\ n = 0 => \A s \in Slots : pool[s].use \in {"free", "other"}
    /\ n = 1 => /\ \A c, d \in Slots : pool[c].use = "client" /\ pool[d].use = "client" => c = d
                /\ \A c, s \in Slots : pool[c].use = "client" => NoResult(pool[s])
                /\ \A s \in Slots : OneResult(pool[s])

\* What is said of the pool, after n calls.
PoolOK(pool, n, fetched) ==
    /\ GoodPool(pool)
    /\ \A s \in Slots : Claims(pool[s]) => fetched
    /\ FirstCall(pool, n)

Queried(n) == asking \in [Slots -> Nat] /\ \A s \in Slots : asking[s] <= n

ClientIndInv == PoolOK(slot, checks, reached) /\ Queried(checks) /\ checks \in 0 .. MaxChecks

\* A slot that is not a client's is consistent if it has nothing of a client.
LEMMA NoClient ==
  ASSUME NEW r, NEW s, r = [f \in SlotFields |-> r[f]], r.use \in {"free", "call", "other"},
         r.reverse = 0, r.data \in {0, 1, 99}, r.link = "none", ~r.timer, r.got \in Seq({0, 1, 200}),
         r.use # "call" => r.got = <<>>
  PROVE  Consistent(r, s)
<1>1. r.reverse \in (IF r.use = "client" THEN Slots \ {s} ELSE {0})
  OBVIOUS
<1>2. r.use # "client"
  OBVIOUS
<1>3. r.link \in {"none", "connecting", "stuck", "open"} /\ r.use \in {"free", "call", "client", "other"}
  OBVIOUS
<1>4. QED
  BY <1>1, <1>2, <1>3, Zenon DEF Consistent

\* A client's slot is if it points to another slot.
LEMMA AClient ==
  ASSUME NEW r, NEW s, r = [f \in SlotFields |-> r[f]], r.use = "client", r.reverse \in Slots \ {s},
         r.data \in {0, 1, 99}, r.link \in {"none", "connecting", "stuck", "open"},
         r.timer \/ r.link # "none", r.got = <<>>, r.got \in Seq({0, 1, 200})
  PROVE  Consistent(r, s)
<1>1. r.reverse \in (IF r.use = "client" THEN Slots \ {s} ELSE {0})
  BY Zenon
<1>2. r.use \in {"free", "call", "client", "other"} /\ ~(r.use # "client")
  OBVIOUS
<1>3. QED
  BY <1>1, <1>2, Zenon DEF Consistent

\* The slots the actions write.
LEMMA SlotsWritten ==
  ASSUME NEW s \in Slots
  PROVE  /\ Consistent(FreeSlot, s) /\ FreeSlot.use = "free" /\ FreeSlot.got = <<>>
         /\ Consistent(NewCall, s) /\ NewCall.use = "call" /\ NewCall.got = <<200>>
         /\ \A c \in Slots : c # s => Consistent(NewClient(s), c) /\ NewClient(s).use = "client"
         /\ LET r == [FreeSlot EXCEPT !.use = "other"]
            IN  Consistent(r, s) /\ r.use = "other" /\ r.got = <<>>
<1>1. Consistent(FreeSlot, s) /\ FreeSlot.use = "free"
  BY DEF Consistent, FreeSlot, SlotFields
<1>2. /\ FreeSlot = [f \in SlotFields |-> FreeSlot[f]] /\ ~FreeSlot.timer /\ FreeSlot.link = "none"
      /\ FreeSlot.reverse = 0 /\ FreeSlot.data = 0 /\ FreeSlot.got = <<>>
  BY <1>1 DEF Consistent, FreeSlot
<1>3. Consistent(NewCall, s) /\ NewCall.use = "call" /\ NewCall.got = <<200>>
  <2> DEFINE r == NewCall
  <2>1. r = [f \in SlotFields |-> r[f]]
    BY ONLY <1>2 DEF SlotFields, NewCall
  <2>2. /\ r.use = "call" /\ r.reverse = 0 /\ r.data = 1 /\ r.link = "none" /\ r.got = <<200>>
        /\ ~r.timer
    BY <1>2 DEF SlotFields, NewCall
  <2> HIDE DEF r
  <2>3. r.use \in {"free", "call", "other"} /\ r.data \in {0, 1, 99} /\ r.got \in Seq({0, 1, 200})
    BY <2>2
  <2>4. r.use # "call" => r.got = <<>>
    BY <2>2
  <2>5. Consistent(r, s)
    BY <2>1, <2>2, <2>3, <2>4, NoClient, Zenon
  <2>6. QED
    BY <2>2, <2>5 DEF r
<1>4. ASSUME NEW c \in Slots, c # s
      PROVE  Consistent(NewClient(s), c) /\ NewClient(s).use = "client"
  <2> DEFINE r == NewClient(s)
  <2>1. r = [f \in SlotFields |-> r[f]]
    BY <1>2 DEF SlotFields, NewClient
  <2>2. /\ r.use = "client" /\ r.reverse = s /\ r.data = 0 /\ r.link = "none" /\ r.got = <<>>
        /\ r.timer
    BY <1>2 DEF SlotFields, NewClient
  <2> HIDE DEF r
  <2>3. r.data \in {0, 1, 99} /\ r.link \in {"none", "connecting", "stuck", "open"} /\ r.got \in Seq({0, 1, 200})
    BY <2>2
  <2>4. r.reverse \in Slots \ {c}
    BY <1>4, <2>2
  <2>5. Consistent(r, c)
    BY <2>1, <2>2, <2>3, <2>4, AClient, Zenon
  <2>6. QED
    BY <2>2, <2>5 DEF r
<1> DEFINE r == [FreeSlot EXCEPT !.use = "other"]
<1>5. Consistent(r, s) /\ r.use = "other" /\ r.got = <<>>
  <2>1. r = [f \in SlotFields |-> r[f]]
    BY <1>2 DEF SlotFields
  <2>2. /\ r.use = "other" /\ r.reverse = 0 /\ r.data = 0 /\ r.link = "none" /\ r.got = <<>>
        /\ ~r.timer
    BY <1>2 DEF SlotFields
  <2> HIDE DEF r
  <2>3. r.use \in {"free", "call", "other"} /\ r.data \in {0, 1, 99} /\ r.got \in Seq({0, 1, 200})
    BY <2>2
  <2>4. r.use # "call" => r.got = <<>>
    BY <2>2
  <2>5. Consistent(r, s)
    BY <2>1, <2>2, <2>3, <2>4, NoClient, Zenon
  <2>6. QED
    BY <2>2, <2>5
<1> HIDE DEF r
<1>6. QED
  BY <1>1, <1>2, <1>3, <1>4, <1>5 DEF r

\* One slot is written: the others are as they were.
LEMMA OneSlot ==
  ASSUME NEW pool, GoodPool(pool), NEW s \in Slots, NEW r, Consistent(r, s)
  PROVE  /\ GoodPool([pool EXCEPT ![s] = r]) /\ [pool EXCEPT ![s] = r][s] = r
         /\ \A t \in Slots : t # s => [pool EXCEPT ![s] = r][t] = pool[t]
  BY DEF GoodPool

\* A step that adds neither a client nor a packet.
Quiet(old, new) ==
    \A s \in Slots : /\ new[s].got = old[s].got \/ new[s].got = <<>>
                     /\ new[s].use = "client" => old[s].use = "client"
                     /\ old[s].use \in {"free", "other"} => new[s].use \in {"free", "other"}

\* Nothing has been sent.
LEMMA EmptyGot ==
  ASSUME NEW r, r.got = <<>>
  PROVE  ~Claims(r) /\ NoResult(r) /\ OneResult(r)
<1>1. DOMAIN r.got = {}
  OBVIOUS
<1>2. QED
  BY <1>1 DEF Claims, NoResult, OneResult

\* What has been sent stays as it is.
LEMMA SameGot ==
  ASSUME NEW q, NEW r, r.got = q.got
  PROVE  (Claims(r) <=> Claims(q)) /\ (NoResult(r) <=> NoResult(q)) /\ (OneResult(r) <=> OneResult(q))
  BY DEF Claims, NoResult, OneResult

\* A step that tells nobody anything keeps the pool sound.
LEMMA QuietKeeps ==
  ASSUME NEW old, NEW new, NEW n, NEW fetched, PoolOK(old, n, fetched), GoodPool(new), Quiet(old, new)
  PROVE  PoolOK(new, n, fetched)
<1>1. \A s \in Slots : /\ Claims(new[s]) => Claims(old[s])
                       /\ NoResult(old[s]) => NoResult(new[s])
                       /\ OneResult(old[s]) => OneResult(new[s])
  BY EmptyGot, SameGot DEF Quiet
<1>2. \A s \in Slots : Claims(new[s]) => fetched
  BY <1>1, Zenon DEF PoolOK
<1>3. FirstCall(new, n)
  <2>1. ASSUME n = 0, NEW s \in Slots
        PROVE  new[s].use \in {"free", "other"}
    BY <2>1, Zenon DEF PoolOK, FirstCall, Quiet
  <2>2. ASSUME n = 1
        PROVE  /\ \A c, d \in Slots : new[c].use = "client" /\ new[d].use = "client" => c = d
               /\ \A c, s \in Slots : new[c].use = "client" => NoResult(new[s])
               /\ \A s \in Slots : OneResult(new[s])
    BY <1>1, <2>2, Zenon DEF PoolOK, FirstCall, Quiet
  <2>3. QED
    BY <2>1, <2>2, Zenon DEF FirstCall
<1>4. QED
  BY <1>2, <1>3, Zenon DEF PoolOK

\* A slot that is not a call's is given back, or a client's slot is written.
LEMMA QuietSlot ==
  ASSUME NEW pool, NEW n, NEW fetched, PoolOK(pool, n, fetched), NEW s \in Slots, NEW r, Consistent(r, s),
         r.got = pool[s].got \/ r.got = <<>>, r.use = "client" => pool[s].use = "client",
         pool[s].use \in {"free", "other"} => r.use \in {"free", "other"}
  PROVE  PoolOK([pool EXCEPT ![s] = r], n, fetched)
<1> DEFINE new == [pool EXCEPT ![s] = r]
<1>1. GoodPool(pool)
  BY Zenon DEF PoolOK
<1>2. GoodPool(new) /\ new[s] = r /\ \A t \in Slots : t # s => new[t] = pool[t]
  BY <1>1, OneSlot
<1> HIDE DEF new
<1>3. Quiet(pool, new)
  BY <1>2 DEF Quiet
<1>4. PoolOK(new, n, fetched)
  BY <1>2, <1>3, QuietKeeps, Zenon
<1>5. QED
  BY <1>4 DEF new

\* Slots that are freed keep the pool sound.
LEMMA FreedKeeps ==
  ASSUME NEW pool, NEW n, NEW fetched, PoolOK(pool, n, fetched), NEW s \in Slots
  PROVE  PoolOK(Freed(pool, s), n, fetched)
<1>1. Consistent(FreeSlot, s) /\ FreeSlot.use = "free" /\ FreeSlot.got = <<>>
  BY DEF Consistent, FreeSlot, SlotFields
<1>2. QED
  BY <1>1, QuietSlot, Zenon DEF Freed

\* Of the slots that are unused the first is one.
LEMMA FirstSlot ==
  ASSUME NEW S \in SUBSET Slots, S # {}
  PROVE  FirstOf(S) \in S
<1>1. S \in SUBSET Nat
  BY ClientAssumption DEF Slots
<1>2. \E n \in S : \A m \in S : n <= m
  BY <1>1, LeastOf
<1>3. QED
  BY <1>2 DEF FirstOf

\* When two slots are unused there is a second one besides the first.
LEMMA TwoUnused ==
  ASSUME Cardinality(Unused) >= 2
  PROVE  Unused # {} /\ \A s \in Unused : Unused \ {s} # {}
<1>1. IsFiniteSet(Unused)
  <2>1. IsFiniteSet(1 .. NSlots)
    BY ClientAssumption, FS_Interval
  <2>2. Unused \subseteq 1 .. NSlots
    BY DEF Unused, Slots
  <2>3. QED
    BY <2>1, <2>2, FS_Subset
<1>2. Unused # {}
  BY <1>1, FS_EmptySet
<1>3. ASSUME NEW s \in Unused, Unused \ {s} = {}
      PROVE  FALSE
  <2>1. Unused = {s}
    BY <1>3
  <2>2. Cardinality(Unused) = 1
    BY <2>1, FS_Singleton
  <2>3. QED
    BY <2>2
<1>4. QED
  BY <1>2, <1>3

\* What the callback makes of the call's slot: it ends, with one packet more or,
\* if the last one is still on its way, with none.
Informed(q, r, t) ==
    /\ r.use = "call" /\ (r.got = q.got \/ r.got = Append(q.got, t))

TokenWritten(q, x, t) == [Transmit([q EXCEPT !.data = x], t) EXCEPT !.data = 99]

\* The verdict is handed to the caller's connection.
LEMMA TokenSent ==
  ASSUME NEW q, NEW s, Consistent(q, s), q.use = "call", NEW x, NEW t \in {0, 1}
  PROVE  Consistent(TokenWritten(q, x, t), s) /\ Informed(q, TokenWritten(q, x, t), t)
<1> DEFINE p == [q EXCEPT !.data = x]
           u == Transmit(p, t)
           r == [u EXCEPT !.data = 99]
<1>1. q = [f \in SlotFields |-> q[f]] /\ q.got \in Seq({0, 1, 200}) /\ q.link = "none" /\ ~q.timer /\ q.reverse = 0
  BY Zenon DEF Consistent
<1>2. /\ p = [f \in SlotFields |-> p[f]] /\ p.use = "call" /\ p.got = q.got /\ p.link = q.link
      /\ p.timer = q.timer /\ p.reverse = q.reverse
  BY <1>1 DEF SlotFields
<1> HIDE DEF p
<1>3. /\ u = [f \in SlotFields |-> u[f]] /\ u.use = "call" /\ u.link = p.link
      /\ u.timer = p.timer /\ u.reverse = p.reverse
      /\ u.got = p.got \/ u.got = Append(p.got, t)
  <2>1. CASE p.unacked
    BY <1>2, <2>1, Zenon DEF Transmit
  <2>2. CASE ~p.unacked
    <3> DEFINE v == [p EXCEPT !.got = Append(@, t), !.unacked = TRUE]
    <3>1. /\ v = [f \in SlotFields |-> v[f]] /\ v.use = "call" /\ v.link = p.link
          /\ v.timer = p.timer /\ v.reverse = p.reverse /\ v.got = Append(p.got, t)
      BY <1>2 DEF SlotFields
    <3>2. u = v
      BY <2>2, Zenon DEF Transmit
    <3> HIDE DEF u, v
    <3>3. QED
      BY <3>1, <3>2, Zenon
  <2>3. QED
    BY <2>1, <2>2
<1> HIDE DEF u
<1>4. /\ r = [f \in SlotFields |-> r[f]] /\ r.use = "call" /\ r.link = u.link /\ r.data = 99
      /\ r.timer = u.timer /\ r.reverse = u.reverse /\ r.got = u.got
  BY <1>3 DEF SlotFields
<1> HIDE DEF r
<1>5. r.got = q.got \/ r.got = Append(q.got, t)
  BY <1>2, <1>3, <1>4, Zenon
<1>6. r.got \in Seq({0, 1, 200})
  <2>1. Append(q.got, t) \in Seq({0, 1, 200})
    <3>1. t \in {0, 1, 200} /\ q.got \in Seq({0, 1, 200})
      BY <1>1
    <3>2. QED
      BY <3>1, AppendProperties
  <2>2. QED
    BY <1>1, <1>5, <2>1, Zenon
<1>7. r.link = "none" /\ ~r.timer /\ r.reverse = 0
  BY ONLY <1>1, <1>2, <1>3, <1>4
<1>8. r.use \in {"free", "call", "other"} /\ r.data \in {0, 1, 99} /\ r.use = "call"
  BY <1>4
<1>9. Consistent(r, s)
  BY <1>4, <1>6, <1>7, <1>8, NoClient, Zenon
<1>10. Informed(q, r, t)
  BY <1>5, <1>8 DEF Informed
<1>11. TokenWritten(q, x, t) = r
  BY Zenon DEF TokenWritten, r, u, p
<1>12. QED
  BY <1>9, <1>10, <1>11, Zenon

\* The packet that an answered call was sent is the only one that may say more.
LEMMA InformedGot ==
  ASSUME NEW q, q.got \in Seq({0, 1, 200}), NEW r, NEW t \in {0, 1}, Informed(q, r, t)
  PROVE  /\ Claims(r) => Claims(q) \/ t = 1
         /\ NoResult(q) => OneResult(r)
<1>1. CASE r.got = q.got
  BY ONLY <1>1 DEF Claims, NoResult, OneResult
<1>2. CASE r.got = Append(q.got, t)
  <2>1. /\ DOMAIN q.got = 1 .. Len(q.got) /\ DOMAIN r.got = 1 .. Len(q.got) + 1 /\ Len(q.got) \in Nat
        /\ \A i \in 1 .. Len(q.got) : r.got[i] = q.got[i]
        /\ r.got[Len(q.got) + 1] = t
    BY <1>2
  <2>2. \A i \in DOMAIN r.got : (i \in DOMAIN q.got /\ r.got[i] = q.got[i]) \/ (i = Len(q.got) + 1 /\ r.got[i] = t)
    BY <2>1
  <2>3. Len(q.got) + 1 \in Nat
    BY <2>1
  <2>4. Claims(r) => Claims(q) \/ t = 1
    BY <2>2 DEF Claims
  <2>5. NoResult(q) => OneResult(r)
    BY <2>2, <2>3 DEF NoResult, OneResult
  <2>6. QED
    BY <2>4, <2>5
<1>3. QED
  BY <1>1, <1>2 DEF Informed

\* The callback of a client tells its server's connection.
LEMMA ToldPool ==
  ASSUME NEW pool, GoodPool(pool), NEW c \in Slots, pool[c].use = "client", NEW result \in {2, 3}
  PROVE  LET q == pool[c].reverse
         IN  /\ q \in Slots \ {c}
             /\ pool[q].use # "call" => Told(pool, c, result) = pool
             /\ pool[q].use = "call" =>
                  \E r : /\ Told(pool, c, result) = [pool EXCEPT ![q] = r] /\ Consistent(r, q)
                         /\ Informed(pool[q], r, IF result = 2 THEN 1 ELSE 0)
<1> DEFINE q == pool[c].reverse
           t == IF result = 2 THEN 1 ELSE 0
           p == [pool EXCEPT ![q].data = result]
           r == [Transmit([pool[q] EXCEPT !.data = result], t) EXCEPT !.data = 99]
<1>0. r = TokenWritten(pool[q], result, t)
  BY Zenon DEF TokenWritten
<1>1. q \in Slots \ {c} /\ Consistent(pool[q], q)
  <2>1. q \in Slots \ {c}
    BY DEF GoodPool, Consistent
  <2>2. QED
    BY <2>1 DEF GoodPool
<1>2. pool[q].use # "call" => Told(pool, c, result) = pool
  BY Zenon DEF Told
<1>3. ASSUME pool[q].use = "call"
      PROVE  Told(pool, c, result) = [pool EXCEPT ![q] = r]
  <2>1. Told(pool, c, result) = http_wifi_api_check_internet(p, q)
    BY <1>3, Zenon DEF Told
  <2>2. pool[q] = [f \in SlotFields |-> pool[q][f]]
    BY <1>1 DEF Consistent
  <2>3. pool = [s \in Slots |-> pool[s]]
    BY DEF GoodPool
  <2>4. p[q] = [pool[q] EXCEPT !.data = result] /\ p = [pool EXCEPT ![q] = p[q]]
    BY <1>1, <2>3
  <2>5. p[q].data = result
    <3>1. "data" \in DOMAIN pool[q]
      <4>1. "data" \in SlotFields
        BY DEF SlotFields
      <4> HIDE DEF q
      <4>2. QED
        BY ONLY <2>2, <4>1
    <3> HIDE DEF q, p
    <3>2. QED
      BY ONLY <2>4, <3>1
  <2>6. http_wifi_api_check_internet(p, q) = [p EXCEPT ![q] = r]
    <3>1. CASE result = 2
      <4>1. t = 1 /\ p[q].data = 2 /\ p[q].data # 3 /\ p[q].data # 99
        BY <2>5, <3>1
      <4> HIDE DEF t, p
      <4>2. QED
        BY <2>4, <4>1, Zenon DEF http_wifi_api_check_internet
    <3>2. CASE result = 3
      <4>1. t = 0 /\ p[q].data = 3 /\ p[q].data # 2 /\ p[q].data # 99
        BY <2>5, <3>2
      <4> HIDE DEF t, p
      <4>2. QED
        BY <2>4, <4>1, Zenon DEF http_wifi_api_check_internet
    <3>3. QED
      BY <3>1, <3>2
  <2> HIDE DEF r
  <2>7. [p EXCEPT ![q] = r] = [pool EXCEPT ![q] = r]
    BY <1>1, <2>3, <2>4
  <2>8. QED
    BY <2>1, <2>6, <2>7
<1>4. ASSUME pool[q].use = "call"
      PROVE  Consistent(r, q) /\ Informed(pool[q], r, t)
  <2>1. t \in {0, 1}
    OBVIOUS
  <2> HIDE DEF r, t, q
  <2>2. QED
    BY ONLY <1>0, <1>1, <1>4, <2>1, TokenSent, Zenon
<1> HIDE DEF r, t
<1>5. QED
  BY <1>1, <1>2, <1>3, <1>4 DEF t

\* The client brings its result and gives back its slot.
LEMMA ToldKeeps ==
  ASSUME NEW pool, NEW n, NEW f, PoolOK(pool, n, f), NEW c \in Slots, pool[c].use = "client",
         NEW result \in {2, 3}, NEW g, f => g, result = 2 => g
  PROVE  PoolOK(Freed(Told(pool, c, result), c), n, g)
<1> DEFINE q == pool[c].reverse
           t == IF result = 2 THEN 1 ELSE 0
<1>1. GoodPool(pool) /\ \A s \in Slots : Claims(pool[s]) => f
  BY Zenon DEF PoolOK
<1>2. CASE pool[q].use # "call"
  <2>1. Told(pool, c, result) = pool
    BY <1>1, <1>2, ToldPool
  <2>2. PoolOK(Freed(pool, c), n, f)
    BY FreedKeeps
  <2>3. PoolOK(Freed(pool, c), n, g)
    BY <2>2, Zenon DEF PoolOK
  <2>4. QED
    BY <2>1, <2>3, Zenon
<1>3. CASE pool[q].use = "call"
  <2>1. PICK r : /\ Told(pool, c, result) = [pool EXCEPT ![q] = r] /\ Consistent(r, q)
                 /\ Informed(pool[q], r, t)
    BY <1>1, <1>3, ToldPool, Zenon
  <2>2. q \in Slots /\ q # c
    BY <1>1, ToldPool
  <2> DEFINE mid == [pool EXCEPT ![q] = r]
             new == Freed(mid, c)
  <2> HIDE DEF q
  <2>3. GoodPool(mid) /\ mid[q] = r /\ \A s \in Slots : s # q => mid[s] = pool[s]
    <3>1. GoodPool(pool) /\ q \in Slots /\ Consistent(r, q)
      BY <1>1, <2>1, <2>2, Zenon
    <3>2. QED
      BY <3>1, OneSlot
  <2> HIDE DEF mid
  <2>4. Consistent(FreeSlot, c) /\ FreeSlot.use = "free" /\ FreeSlot.got = <<>>
    BY DEF Consistent, FreeSlot, SlotFields
  <2>5. GoodPool(new) /\ new[c] = FreeSlot /\ \A s \in Slots : s # c => new[s] = mid[s]
    BY <2>3, <2>4, OneSlot DEF Freed
  <2> HIDE DEF new
  <2>6. new[q] = r /\ \A s \in Slots : s # c /\ s # q => new[s] = pool[s]
    BY <2>2, <2>3, <2>5
  <2>7. t \in {0, 1} /\ (t = 1 => result = 2)
    OBVIOUS
  <2> HIDE DEF t
  <2>8. pool[q].got \in Seq({0, 1, 200})
    BY <1>1, <2>2, Zenon DEF GoodPool, Consistent
  <2>9. /\ Claims(r) => Claims(pool[q]) \/ t = 1
        /\ NoResult(pool[q]) => OneResult(r)
    BY <2>1, <2>7, <2>8, InformedGot
  <2>10. ~Claims(new[c]) /\ OneResult(new[c])
    BY <2>4, <2>5, EmptyGot
  <2>11. ASSUME NEW s \in Slots, Claims(new[s])
         PROVE  g
    BY <1>1, <2>2, <2>6, <2>7, <2>9, <2>10, <2>11, Zenon
  <2>12. FirstCall(pool, n)
    BY Zenon DEF PoolOK
  <2>13. n # 0
    <3>1. "client" \notin {"free", "other"}
      OBVIOUS
    <3>2. QED
      BY <2>12, <3>1, Zenon DEF FirstCall
  <2>14. ASSUME n = 1, NEW s \in Slots
         PROVE  new[s].use # "client" /\ OneResult(new[s])
    <3>1. CASE s = c
      <4>1. "free" # "client"
        OBVIOUS
      <4>2. QED
        BY <2>4, <2>5, <2>10, <3>1, <4>1, Zenon
    <3>2. CASE s = q
      <4>1. NoResult(pool[q])
        BY <2>2, <2>12, <2>14, Zenon DEF FirstCall
      <4>2. r.use = "call" /\ "call" # "client"
        BY <2>1 DEF Informed
      <4>3. QED
        BY <2>6, <2>9, <3>2, <4>1, <4>2, Zenon
    <3>3. CASE s # c /\ s # q
      BY <2>6, <2>12, <2>14, <3>3, Zenon DEF FirstCall
    <3>4. QED
      BY <3>1, <3>2, <3>3, Zenon
  <2>15. FirstCall(new, n)
    BY <2>13, <2>14, Zenon DEF FirstCall
  <2>16. PoolOK(new, n, g)
    BY <2>5, <2>11, <2>15, Zenon DEF PoolOK
  <2>17. QED
    BY <2>1, <2>16 DEF new, mid
<1>4. QED
  BY <1>2, <1>3

\* An answer of which only the status line has been sent.
LEMMA HeaderOnly ==
  ASSUME NEW r, r.got = << 200 >>
  PROVE  ~Claims(r) /\ NoResult(r) /\ OneResult(r)
<1>1. \A i \in DOMAIN r.got : r.got[i] = 200
  OBVIOUS
<1>2. 200 # 1 /\ 0 \in Nat
  OBVIOUS
<1>3. QED
  BY <1>1, <1>2 DEF Claims, NoResult, OneResult

\* A call is taken up in s, with a client in c or without one.
TakesCall(old, new, s, c) ==
    /\ new[s].use = "call" /\ new[s].got = <<200>>
    /\ \A d \in Slots : d # s => new[d] = old[d] \/ (d = c /\ new[d].use = "client")

\* A call is taken up by a client's slot.
LEMMA CallTaken ==
  ASSUME NEW old, NEW n \in Nat, NEW f, PoolOK(old, n, f), NEW new, GoodPool(new), NEW s \in Slots, NEW c,
         TakesCall(old, new, s, c)
  PROVE  PoolOK(new, n + 1, f)
<1> USE DEF TakesCall
<1>1. \A d \in Slots : /\ d # s /\ new[d] # old[d] => d = c /\ new[d].got = <<>>
                       /\ new[d].use = "client" /\ new[d] = old[d] => old[d].use = "client"
  <2>1. \A d \in Slots : new[d].use = "client" => new[d].got = <<>>
    <3>1. "client" # "call"
      OBVIOUS
    <3>2. QED
      BY <3>1, Zenon DEF GoodPool, Consistent
  <2>2. QED
    BY <2>1, Zenon
<1>2. ASSUME NEW d \in Slots, Claims(new[d])
      PROVE  f
  <2>1. \A e \in Slots : Claims(old[e]) => f
    BY Zenon DEF PoolOK
  <2>2. d # s
    BY <1>2, HeaderOnly, Zenon
  <2>3. new[d] = old[d]
    BY <1>1, <1>2, <2>2, EmptyGot, Zenon
  <2>4. QED
    BY <1>2, <2>1, <2>3, Zenon
<1>3. ASSUME n + 1 = 1
      PROVE  /\ \A d, e \in Slots : new[d].use = "client" /\ new[e].use = "client" => d = e
             /\ \A d \in Slots : NoResult(new[d]) /\ OneResult(new[d])
  <2>1. n = 0
    BY <1>3
  <2>2. \A d \in Slots : old[d].use \in {"free", "other"}
    BY <2>1, Zenon DEF PoolOK, FirstCall
  <2>3. \A d \in Slots : old[d].use # "client" /\ old[d].use # "call"
    BY <2>2
  <2>4. ASSUME NEW d \in Slots PROVE old[d].got = <<>>
    <3>1. Consistent(old[d], d)
      BY Zenon DEF PoolOK, GoodPool
    <3>2. QED
      BY ONLY <2>3, <3>1, d \in Slots, Zenon DEF Consistent
  <2>5. "call" # "client"
    OBVIOUS
  <2>6. \A d \in Slots : d # s => new[d].got = <<>>
    BY <1>1, <2>4, Zenon
  <2>7. \A d \in Slots : NoResult(new[d]) /\ OneResult(new[d])
    BY <2>6, HeaderOnly, EmptyGot, Zenon
  <2>8. \A d \in Slots : new[d].use = "client" => d = c
    BY <1>1, <2>3, <2>5, Zenon
  <2>9. QED
    BY <2>7, <2>8, Zenon
<1>4. n + 1 # 0
  OBVIOUS
<1>5. FirstCall(new, n + 1)
  BY <1>3, <1>4, Zenon DEF FirstCall
<1>6. QED
  BY <1>2, <1>5, Zenon DEF PoolOK

\* The invariant holds at the start.
LEMMA ClientStarts == ClientInit => ClientIndInv
<1> SUFFICES ASSUME ClientInit PROVE ClientIndInv
  OBVIOUS
<1>1. /\ slot = [s \in Slots |-> FreeSlot] /\ asking = [s \in Slots |-> 0] /\ checks = 0
  BY DEF ClientInit
<1>2. \A s \in Slots : /\ slot[s] = FreeSlot /\ Consistent(slot[s], s)
                       /\ slot[s].use = "free" /\ slot[s].got = <<>>
  <2>1. \A s \in Slots : slot[s] = FreeSlot
    BY <1>1
  <2>2. \A s \in Slots : Consistent(FreeSlot, s) /\ FreeSlot.use = "free" /\ FreeSlot.got = <<>>
    BY DEF Consistent, FreeSlot, SlotFields
  <2>3. QED
    BY <2>1, <2>2, Zenon
<1>3. GoodPool(slot)
  BY <1>1, <1>2 DEF GoodPool
<1>4. \A s \in Slots : ~Claims(slot[s])
  BY <1>2, EmptyGot
<1>5. FirstCall(slot, checks)
  <2>1. checks # 1 /\ \A s \in Slots : slot[s].use \in {"free", "other"}
    BY <1>1, <1>2
  <2>2. QED
    BY <2>1, Zenon DEF FirstCall
<1>6. Queried(checks) /\ checks \in 0 .. MaxChecks
  BY <1>1, ClientAssumption DEF Queried
<1>7. QED
  BY <1>3, <1>4, <1>5, <1>6, Zenon DEF ClientIndInv, PoolOK

\* Steps that add no call, and of a query at most its end.
ChecksKept == checks' = checks /\ (asking' = asking \/ \E c \in Slots : asking[c] > 0 /\ asking' = [asking EXCEPT ![c] = @ - 1])

\* Queries that are on their way, when no new check begins.
LEMMA QueriesKept ==
  ASSUME ClientIndInv, ChecksKept
  PROVE  Queried(checks)' /\ checks' \in 0 .. MaxChecks
<1>1. checks' = checks /\ checks \in 0 .. MaxChecks /\ Queried(checks) /\ MaxChecks \in Nat
  BY ClientAssumption DEF ClientIndInv, ChecksKept
<1>2. CASE asking' = asking
  BY <1>1, <1>2 DEF Queried
<1>3. ASSUME NEW c \in Slots, asking[c] > 0, asking' = [asking EXCEPT ![c] = @ - 1]
      PROVE  Queried(checks)'
  BY <1>1, <1>3 DEF Queried
<1>4. QED
  BY <1>1, <1>2, <1>3 DEF ChecksKept

\* A client that goes on is consistent.
LEMMA ClientGoesOn ==
  ASSUME NEW p, NEW s, Consistent(p, s), p.use = "client", NEW r, r = [f \in SlotFields |-> r[f]],
         r.use = p.use, r.reverse = p.reverse, r.data = p.data, r.got = p.got,
         r.link \in {"connecting", "stuck", "open"}
  PROVE  Consistent(r, s)
<1>1. /\ p.reverse \in Slots \ {s} /\ p.data \in {0, 1, 99} /\ p.got = <<>> /\ p.got \in Seq({0, 1, 200})
  <2>1. "client" # "call"
    OBVIOUS
  <2>2. QED
    BY <2>1, Zenon DEF Consistent
<1>2. r.link \in {"none", "connecting", "stuck", "open"} /\ r.link # "none"
  OBVIOUS
<1>3. QED
  BY <1>1, <1>2, AClient, Zenon

\* A client is what has a link or a timer.
LEMMA OnlyClients ==
  ASSUME NEW pool, GoodPool(pool), NEW c \in Slots, pool[c].link # "none" \/ pool[c].timer
  PROVE  pool[c].use = "client"
  BY Zenon DEF GoodPool, Consistent

\* The client's callbacks write its slot: the resolver's, the one for the
\* connection and the one for the acknowledgement.
LEMMA ConnectingWrites ==
  ASSUME NEW pool, GoodPool(pool), NEW c \in Slots, pool[c].use = "client", NEW link \in {"connecting", "stuck"}
  PROVE  Consistent(Connecting(pool[c], link), c) /\ Connecting(pool[c], link).got = pool[c].got
<1> DEFINE p == pool[c]
           r == Connecting(p, link)
<1>1. Consistent(p, c) /\ p = [f \in SlotFields |-> p[f]] /\ p.link \in {"none", "connecting", "stuck", "open"}
  BY Zenon DEF GoodPool, Consistent
<1>2. /\ r = [f \in SlotFields |-> r[f]] /\ r.use = p.use /\ r.reverse = p.reverse /\ r.data = p.data
      /\ r.got = p.got /\ r.link = IF p.link = "none" THEN link ELSE p.link
  BY <1>1 DEF Connecting, SlotFields
<1>3. r.link \in {"connecting", "stuck", "open"}
  BY <1>1, <1>2
<1> HIDE DEF r
<1>4. Consistent(r, c)
  BY <1>1, <1>2, <1>3, ClientGoesOn, Zenon
<1>5. QED
  BY <1>2, <1>4 DEF r

LinkWritten(pool, new, c) ==
    \/ new = [pool EXCEPT ![c].link = "open", ![c].unacked = TRUE]
    \/ new = [pool EXCEPT ![c].unacked = FALSE]

\* espconn writes the link of a client's slot only.
LEMMA LinkWrites ==
  ASSUME NEW pool, GoodPool(pool), NEW c \in Slots, pool[c].use = "client", pool[c].link # "none", NEW new,
         LinkWritten(pool, new, c)
  PROVE  \E r : new = [pool EXCEPT ![c] = r] /\ Consistent(r, c) /\ r.got = pool[c].got
<1> DEFINE p == pool[c]
<1>1. Consistent(p, c) /\ p = [f \in SlotFields |-> p[f]] /\ p.link \in {"none", "connecting", "stuck", "open"}
  BY Zenon DEF GoodPool, Consistent
<1>2. pool = [s \in Slots |-> pool[s]]
  BY DEF GoodPool
<1>3. CASE new = [pool EXCEPT ![c].link = "open", ![c].unacked = TRUE]
  <2> DEFINE r == [p EXCEPT !.link = "open", !.unacked = TRUE]
  <2>1. /\ r = [f \in SlotFields |-> r[f]] /\ r.use = p.use /\ r.reverse = p.reverse /\ r.data = p.data
        /\ r.got = p.got /\ r.link = "open"
    BY <1>1 DEF SlotFields
  <2>2. new = [pool EXCEPT ![c] = r]
    BY <1>2, <1>3
  <2> HIDE DEF r
  <2>3. r.link \in {"connecting", "stuck", "open"}
    BY <2>1
  <2>4. Consistent(r, c)
    BY <1>1, <2>1, <2>3, ClientGoesOn, Zenon
  <2>5. QED
    BY <2>1, <2>2, <2>4, Zenon
<1>4. CASE new = [pool EXCEPT ![c].unacked = FALSE]
  <2> DEFINE r == [p EXCEPT !.unacked = FALSE]
  <2>1. /\ r = [f \in SlotFields |-> r[f]] /\ r.use = p.use /\ r.reverse = p.reverse /\ r.data = p.data
        /\ r.got = p.got /\ r.link = p.link
    BY <1>1 DEF SlotFields
  <2>2. new = [pool EXCEPT ![c] = r]
    BY <1>2, <1>4
  <2> HIDE DEF r
  <2>3. r.link \in {"connecting", "stuck", "open"}
    BY <1>1, <2>1
  <2>4. Consistent(r, c)
    BY <1>1, <2>1, <2>3, ClientGoesOn, Zenon
  <2>5. QED
    BY <2>1, <2>2, <2>4, Zenon
<1>5. QED
  BY <1>3, <1>4 DEF LinkWritten

\* The call's last packet is acknowledged: it waits, or it has ended.
LEMMA CallSentKeeps ==
  ASSUME NEW pool, NEW n, NEW f, PoolOK(pool, n, f), NEW s \in Slots, pool[s].use = "call"
  PROVE  PoolOK(http_wifi_api_check_internet([pool EXCEPT ![s].unacked = FALSE], s), n, f)
<1> DEFINE p == pool[s]
           r == [p EXCEPT !.unacked = FALSE]
           mid == [pool EXCEPT ![s].unacked = FALSE]
<1>1. GoodPool(pool)
  BY Zenon DEF PoolOK
<1>2. /\ p = [g \in SlotFields |-> p[g]] /\ p.reverse = 0 /\ p.data \in {0, 1, 99} /\ p.link = "none"
      /\ ~p.timer /\ p.got \in Seq({0, 1, 200})
  BY <1>1, Zenon DEF GoodPool, Consistent
<1>3. pool = [t \in Slots |-> pool[t]]
  BY <1>1 DEF GoodPool
<1>4. /\ r = [g \in SlotFields |-> r[g]] /\ r.use = "call" /\ r.reverse = 0 /\ r.data = p.data
      /\ r.link = "none" /\ r.timer = p.timer /\ r.got = p.got
  BY <1>2 DEF SlotFields
<1>5. mid = [pool EXCEPT ![s] = r] /\ mid[s] = r
  BY <1>3
<1> HIDE DEF r
<1>6. Consistent(r, s) /\ r.data \in {0, 1, 99}
  <2>1. r.use \in {"free", "call", "other"}
    BY <1>4
  <2>2. QED
    BY <1>2, <1>4, <2>1, NoClient, Zenon
<1>7. PoolOK(mid, n, f)
  <2>1. "call" # "client" /\ "call" \notin {"free", "other"}
    OBVIOUS
  <2>2. PoolOK([pool EXCEPT ![s] = r], n, f)
    BY <1>4, <1>6, <2>1, QuietSlot, Zenon
  <2>3. QED
    BY <1>5, <2>2
<1> HIDE DEF mid
<1>8. PoolOK(Freed(mid, s), n, f)
  BY <1>7, FreedKeeps
<1>9. http_wifi_api_check_internet(mid, s) \in {Freed(mid, s), mid}
  <2>1. mid[s].data # 2 /\ mid[s].data # 3
    BY <1>5, <1>6
  <2>2. QED
    BY <2>1 DEF http_wifi_api_check_internet
<1>10. http_wifi_api_check_internet(mid, s) = Freed(mid, s) \/ http_wifi_api_check_internet(mid, s) = mid
  BY <1>9
<1>11. PoolOK(http_wifi_api_check_internet(mid, s), n, f)
  BY <1>7, <1>8, <1>10, Zenon
<1>12. QED
  BY <1>11 DEF mid

\* The result is brought: Finish, and the answer that the connection's end ends.
LEMMA FinishKeeps ==
  ASSUME ClientIndInv, NEW c \in Slots, slot[c].use = "client", NEW result \in {2, 3}, NEW g,
         reached => g, result = 2 => g,
         slot' = IF Aborted(slot, c) THEN Freed(slot, c) ELSE Freed(Told(slot, c, result), c)
  PROVE  PoolOK(slot', checks, g)
<1>1. PoolOK(slot, checks, reached)
  BY DEF ClientIndInv
<1>2. CASE Aborted(slot, c)
  <2>1. PoolOK(Freed(slot, c), checks, reached)
    BY <1>1, FreedKeeps
  <2>2. PoolOK(Freed(slot, c), checks, g)
    BY <2>1, Zenon DEF PoolOK
  <2>3. slot' = Freed(slot, c)
    BY <1>2, Zenon
  <2>4. QED
    BY <2>2, <2>3, Zenon
<1>3. CASE ~Aborted(slot, c)
  <2>1. PoolOK(Freed(Told(slot, c, result), c), checks, g)
    BY <1>1, ToldKeeps, Zenon
  <2>2. slot' = Freed(Told(slot, c, result), c)
    BY <1>3, Zenon
  <2>3. QED
    BY <2>1, <2>2, Zenon
<1>4. QED
  BY <1>2, <1>3

\* A step of the client or of the connection in slot c.
ClientStep(c) ==
    \/ DnsNotFound(c) \/ DnsFound(c) \/ DnsTimeout(c) \/ Connected(c) \/ ConnectFailed(c)
    \/ ClientSent(c) \/ (\E status \in Statuses : Response(c, status)) \/ ServerCloses(c)
    \/ (\E status \in Statuses : ResponseEndsWithConnection(c, status)) \/ CallSent(c) \/ Leaves(c)

\* Every step keeps the invariant.
LEMMA ClientSteps == ClientIndInv /\ [ClientNext]_clientVars => ClientIndInv'
<1> SUFFICES ASSUME ClientIndInv, [ClientNext]_clientVars
             PROVE  ClientIndInv'
  OBVIOUS
<1>1. PoolOK(slot, checks, reached) /\ GoodPool(slot) /\ checks \in 0 .. MaxChecks /\ checks \in Nat /\ Queried(checks)
  BY ClientAssumption DEF ClientIndInv, PoolOK
<1>2. \A s \in Unused : s \in Slots /\ slot[s].use = "free"
  BY DEF Unused
<1>3. ASSUME PoolOK(slot', checks, reached'), ChecksKept
      PROVE  ClientIndInv'
  <2>1. Queried(checks)' /\ checks' \in 0 .. MaxChecks
    BY <1>3, QueriesKept
  <2>2. PoolOK(slot, checks, reached)'
    BY <1>3 DEF ChecksKept
  <2>3. QED
    BY <2>1, <2>2 DEF ClientIndInv
<1>4. CASE CheckInternet
  <2> DEFINE s == FirstOf(Unused)
             c == FirstOf(Unused \ {s})
             mid == [slot EXCEPT ![s] = NewCall]
  <2>1. Cardinality(Unused) >= 2 /\ checks' = checks + 1 /\ checks < MaxChecks
    BY <1>4 DEF CheckInternet
  <2>2. slot' = [mid EXCEPT ![c] = NewClient(s)] /\ asking' = [asking EXCEPT ![c] = @ + 1] /\ reached' = reached
    BY <1>4, Zenon DEF CheckInternet
  <2>3. s \in Unused
    BY <2>1, <1>2, TwoUnused, FirstSlot
  <2> HIDE DEF s
  <2>4. c \in Unused \ {s}
    BY <2>1, <2>3, <1>2, TwoUnused, FirstSlot
  <2>5. s \in Slots /\ c \in Slots /\ c # s
    BY <1>2, <2>3, <2>4
  <2> HIDE DEF c
  <2>6. /\ Consistent(NewCall, s) /\ NewCall.use = "call" /\ NewCall.got = <<200>>
        /\ Consistent(NewClient(s), c) /\ NewClient(s).use = "client"
    BY <2>5, SlotsWritten
  <2>7. GoodPool(mid) /\ mid[s] = NewCall /\ \A t \in Slots : t # s => mid[t] = slot[t]
    BY <1>1, <2>5, <2>6, OneSlot
  <2> HIDE DEF mid
  <2>8. GoodPool(slot') /\ slot'[c] = NewClient(s) /\ \A t \in Slots : t # c => slot'[t] = mid[t]
    <3>1. LET new == [mid EXCEPT ![c] = NewClient(s)]
          IN  GoodPool(new) /\ new[c] = NewClient(s) /\ \A t \in Slots : t # c => new[t] = mid[t]
      BY <2>5, <2>6, <2>7, OneSlot
    <3>2. QED
      BY <2>2, <3>1, Zenon
  <2>9. slot'[s].use = "call" /\ slot'[s].got = <<200>>
    BY <2>5, <2>6, <2>7, <2>8, Zenon
  <2>10. \A d \in Slots : d # s => slot'[d] = slot[d] \/ (d = c /\ slot'[d].use = "client")
    BY <2>5, <2>6, <2>7, <2>8, Zenon
  <2>11. PoolOK(slot', checks + 1, reached)
    <3>1. TakesCall(slot, slot', s, c)
      BY <2>9, <2>10, Zenon DEF TakesCall
    <3>2. QED
      BY <1>1, <2>5, <2>8, <3>1, CallTaken
  <2>12. Queried(checks)' /\ checks' \in 0 .. MaxChecks
    BY <1>1, <2>1, <2>2, <2>5, ClientAssumption DEF Queried
  <2>13. PoolOK(slot, checks, reached)'
    BY <2>1, <2>2, <2>11
  <2>14. QED
    BY <2>12, <2>13 DEF ClientIndInv
<1>5. CASE CheckWithoutSlot
  <2> DEFINE s == FirstOf(Unused)
  <2>1. Cardinality(Unused) = 1 /\ checks' = checks + 1 /\ checks < MaxChecks /\ asking' = asking
    BY <1>5 DEF CheckWithoutSlot
  <2>2. slot' = [slot EXCEPT ![s] = NewCall] /\ reached' = reached
    BY <1>5, Zenon DEF CheckWithoutSlot
  <2>3. Unused # {}
    BY <2>1, FS_EmptySet
  <2>4. s \in Slots
    BY <1>2, <2>3, FirstSlot
  <2> HIDE DEF s
  <2>5. Consistent(NewCall, s) /\ NewCall.use = "call" /\ NewCall.got = <<200>>
    BY <2>4, SlotsWritten
  <2>6. GoodPool(slot') /\ slot'[s] = NewCall /\ \A t \in Slots : t # s => slot'[t] = slot[t]
    <3>1. LET new == [slot EXCEPT ![s] = NewCall]
          IN  GoodPool(new) /\ new[s] = NewCall /\ \A t \in Slots : t # s => new[t] = slot[t]
      BY <1>1, <2>4, <2>5, OneSlot
    <3>2. QED
      BY <2>2, <3>1, Zenon
  <2>7. PoolOK(slot', checks + 1, reached)
    <3>1. TakesCall(slot, slot', s, s)
      BY <2>4, <2>5, <2>6, Zenon DEF TakesCall
    <3>2. QED
      BY <1>1, <2>4, <2>6, <3>1, CallTaken
  <2>8. Queried(checks)' /\ checks' \in 0 .. MaxChecks
    BY <1>1, <2>1, ClientAssumption DEF Queried
  <2>9. PoolOK(slot, checks, reached)'
    BY <2>1, <2>2, <2>7
  <2>10. QED
    BY <2>8, <2>9 DEF ClientIndInv
<1>6. CASE Other
  <2> DEFINE s == FirstOf(Unused)
             r == [FreeSlot EXCEPT !.use = "other"]
  <2>1. Unused # {} /\ ChecksKept
    BY <1>6 DEF Other, ChecksKept
  <2>2. slot' = [slot EXCEPT ![s] = r] /\ reached' = reached
    BY <1>6, Zenon DEF Other
  <2>3. s \in Slots
    BY <1>2, <2>1, FirstSlot
  <2> HIDE DEF s
  <2>4. Consistent(r, s) /\ r.use = "other" /\ r.got = <<>>
    BY <2>3, SlotsWritten
  <2> HIDE DEF r
  <2>5. r.use # "client" /\ r.use \in {"free", "other"}
    BY <2>4
  <2>6. PoolOK([slot EXCEPT ![s] = r], checks, reached)
    BY <1>1, <2>3, <2>4, <2>5, QuietSlot, Zenon
  <2>7. PoolOK(slot', checks, reached')
    BY <2>2, <2>6
  <2>8. QED
    BY <1>3, <2>1, <2>7
<1>7. ASSUME NEW c \in Slots, ClientStep(c)
      PROVE  ClientIndInv'
  <2>1. PoolOK(Freed(slot, c), checks, reached)
    BY <1>1, FreedKeeps
  <2>2. ASSUME slot' = Freed(slot, c), reached' = reached, ChecksKept
        PROVE  ClientIndInv'
    BY <1>3, <2>1, <2>2
  <2>3. ASSUME slot[c].use = "client", NEW r, Consistent(r, c), r.got = slot[c].got,
               slot' = [slot EXCEPT ![c] = r], reached' = reached, ChecksKept
        PROVE  ClientIndInv'
    <3>1. "client" \notin {"free", "other"}
      OBVIOUS
    <3>2. PoolOK([slot EXCEPT ![c] = r], checks, reached)
      BY <1>1, <2>3, <3>1, QuietSlot, Zenon
    <3>3. PoolOK(slot', checks, reached')
      BY <2>3, <3>2
    <3>4. QED
      BY <1>3, <2>3, <3>3
  <2>4. CASE DnsNotFound(c)
    <3>1. ChecksKept /\ slot' = slot /\ reached' = reached
      BY <2>4 DEF DnsNotFound, ChecksKept
    <3>2. PoolOK(slot', checks, reached')
      BY <1>1, <3>1
    <3>3. QED
      BY <1>3, <3>1, <3>2
  <2>5. CASE DnsFound(c)
    <3>1. ChecksKept /\ reached' = reached
      BY <2>5 DEF DnsFound, ChecksKept
    <3>2. CASE slot[c].use # "client"
      <4>1. slot' = slot
        BY <2>5, <3>2 DEF DnsFound
      <4>2. PoolOK(slot', checks, reached')
        BY <1>1, <3>1, <4>1
      <4>3. QED
        BY <1>3, <3>1, <4>2
    <3>3. CASE slot[c].use = "client" /\ Aborted(slot, c)
      <4>1. slot' = Freed(slot, c)
        BY <2>5, <3>3 DEF DnsFound
      <4>2. QED
        BY <2>2, <3>1, <4>1
    <3>4. CASE slot[c].use = "client" /\ ~Aborted(slot, c)
      <4>1. slot' \in {[slot EXCEPT ![c] = Connecting(@, link)] : link \in {"connecting", "stuck"}}
        BY <2>5, <3>4, Zenon DEF DnsFound
      <4>2. PICK link \in {"connecting", "stuck"} : slot' = [slot EXCEPT ![c] = Connecting(slot[c], link)]
        BY <4>1
      <4> DEFINE r == Connecting(slot[c], link)
      <4>3. Consistent(r, c) /\ r.got = slot[c].got
        BY <1>1, <3>4, ConnectingWrites
      <4>4. slot' = [slot EXCEPT ![c] = r]
        BY <4>2
      <4> HIDE DEF r
      <4>5. QED
        BY <2>3, <3>1, <3>4, <4>3, <4>4
    <3>5. QED
      BY <3>2, <3>3, <3>4
  <2>6. CASE DnsTimeout(c)
    <3>1. ChecksKept /\ slot[c].use = "client" /\ reached' = reached
      BY <2>6 DEF DnsTimeout, ChecksKept
    <3>2. slot' = IF Aborted(slot, c) THEN Freed(slot, c) ELSE Freed(Told(slot, c, 3), c)
      BY <2>6, Zenon DEF DnsTimeout, http_client_dns_timeout, Finish
    <3>3. 3 \in {2, 3} /\ 3 # 2
      OBVIOUS
    <3>4. PoolOK(slot', checks, reached)
      BY <3>1, <3>2, <3>3, FinishKeeps, Zenon
    <3>5. QED
      BY <1>3, <3>1, <3>4
  <2>7. CASE Connected(c)
    <3>1. ChecksKept /\ slot[c].link = "connecting" /\ reached' = reached
      BY <2>7 DEF Connected, ChecksKept
    <3>2. slot[c].link # "none"
      BY <3>1
    <3>3. slot[c].use = "client"
      BY <1>1, <3>2, OnlyClients, Zenon
    <3>4. CASE Aborted(slot, c)
      <4>1. slot' = Freed(slot, c)
        BY <2>7, <3>4, Zenon DEF Connected
      <4>2. QED
        BY <2>2, <3>1, <4>1
    <3>5. CASE ~Aborted(slot, c)
      <4>1. slot' = [slot EXCEPT ![c].link = "open", ![c].unacked = TRUE]
        BY <2>7, <3>5, Zenon DEF Connected
      <4>2. PICK r : slot' = [slot EXCEPT ![c] = r] /\ Consistent(r, c) /\ r.got = slot[c].got
        <5>1. LinkWritten(slot, slot', c)
          BY <4>1, Zenon DEF LinkWritten
        <5>2. QED
          BY <1>1, <3>2, <3>3, <5>1, LinkWrites
      <4>3. QED
        BY <2>3, <3>1, <3>3, <4>2
    <3>6. QED
      BY <3>4, <3>5
  <2>8. CASE ConnectFailed(c)
    <3>1. ChecksKept /\ slot' = Freed(slot, c) /\ reached' = reached
      BY <2>8 DEF ConnectFailed, ChecksKept
    <3>2. QED
      BY <2>2, <3>1
  <2>9. CASE ClientSent(c)
    <3>1. ChecksKept /\ slot[c].link = "open" /\ reached' = reached
      BY <2>9 DEF ClientSent, ChecksKept
    <3>2. slot[c].link # "none"
      BY <3>1
    <3>3. slot[c].use = "client"
      BY <1>1, <3>2, OnlyClients, Zenon
    <3>4. CASE Aborted(slot, c)
      <4>1. slot' = Freed(slot, c)
        BY <2>9, <3>4, Zenon DEF ClientSent
      <4>2. QED
        BY <2>2, <3>1, <4>1
    <3>5. CASE ~Aborted(slot, c)
      <4>1. slot' = [slot EXCEPT ![c].unacked = FALSE]
        BY <2>9, <3>5, Zenon DEF ClientSent
      <4>2. PICK r : slot' = [slot EXCEPT ![c] = r] /\ Consistent(r, c) /\ r.got = slot[c].got
        <5>1. LinkWritten(slot, slot', c)
          BY <4>1, Zenon DEF LinkWritten
        <5>2. QED
          BY <1>1, <3>2, <3>3, <5>1, LinkWrites
      <4>3. QED
        BY <2>3, <3>1, <3>3, <4>2
    <3>6. QED
      BY <3>4, <3>5
  <2>10. ASSUME NEW status \in Statuses, slot[c].link = "open", ChecksKept,
                slot' = IF Aborted(slot, c) THEN Freed(slot, c)
                                            ELSE Freed(Told(slot, c, Verdict(status)), c),
                reached' = (reached \/ status = 200)
         PROVE  ClientIndInv'
    <3>1. slot[c].link # "none"
      BY <2>10
    <3>2. slot[c].use = "client"
      BY <1>1, <3>1, OnlyClients, Zenon
    <3>3. Verdict(status) \in {2, 3} /\ (Verdict(status) = 2 => status = 200)
      BY DEF Verdict
    <3>4. (reached => reached') /\ (Verdict(status) = 2 => reached')
      BY <2>10, <3>3, Zenon
    <3>5. PoolOK(slot', checks, reached')
      BY <2>10, <3>2, <3>3, <3>4, FinishKeeps, Zenon
    <3>6. QED
      BY <1>3, <2>10, <3>5
  <2>11. ASSUME NEW status \in Statuses, Response(c, status)
         PROVE  ClientIndInv'
    <3>1. ChecksKept /\ slot[c].link = "open"
      BY <2>11 DEF Response, ChecksKept
    <3>2. /\ slot' = IF Aborted(slot, c) THEN Freed(slot, c) ELSE Freed(Told(slot, c, Verdict(status)), c)
          /\ reached' = (reached \/ status = 200)
      BY <2>11, Zenon DEF Response, Finish
    <3>3. QED
      BY <2>10, <3>1, <3>2, Zenon
  <2>12. CASE ServerCloses(c)
    <3>1. ChecksKept /\ slot' = Freed(slot, c) /\ reached' = reached
      BY <2>12 DEF ServerCloses, ChecksKept
    <3>2. QED
      BY <2>2, <3>1
  <2>13. ASSUME NEW status \in Statuses, ResponseEndsWithConnection(c, status)
         PROVE  ClientIndInv'
    <3>1. ChecksKept /\ slot[c].link = "open"
      BY <2>13 DEF ResponseEndsWithConnection, ChecksKept
    <3>2. /\ slot' = IF Aborted(slot, c) THEN Freed(slot, c) ELSE Freed(Told(slot, c, Verdict(status)), c)
          /\ reached' = (reached \/ status = 200)
      BY <2>13, Zenon DEF ResponseEndsWithConnection
    <3>3. QED
      BY <2>10, <3>1, <3>2, Zenon
  <2>14. CASE CallSent(c)
    <3>1. ChecksKept /\ slot[c].use = "call" /\ reached' = reached
      BY <2>14 DEF CallSent, ChecksKept
    <3>2. slot' = http_wifi_api_check_internet([slot EXCEPT ![c].unacked = FALSE], c)
      BY <2>14, Zenon DEF CallSent
    <3>3. PoolOK(http_wifi_api_check_internet([slot EXCEPT ![c].unacked = FALSE], c), checks, reached)
      BY <1>1, <3>1, CallSentKeeps
    <3>4. PoolOK(slot', checks, reached')
      BY <3>1, <3>2, <3>3, Zenon
    <3>5. QED
      BY <1>3, <3>1, <3>4
  <2>15. CASE Leaves(c)
    <3>1. ChecksKept /\ slot' = Freed(slot, c) /\ reached' = reached
      BY <2>15 DEF Leaves, ChecksKept
    <3>2. QED
      BY <2>2, <3>1
  <2>16. QED
    BY <1>7, <2>4, <2>5, <2>6, <2>7, <2>8, <2>9, <2>11, <2>12, <2>13, <2>14, <2>15, Zenon DEF ClientStep
<1>8. CASE UNCHANGED clientVars
  <2>1. slot' = slot /\ checks' = checks /\ asking' = asking /\ reached' = reached
    BY <1>8 DEF clientVars
  <2>2. QED
    BY <2>1 DEF ClientIndInv, PoolOK, GoodPool, FirstCall, Queried
<1>9. QED
  BY <1>4, <1>5, <1>6, <1>7, <1>8, Zenon DEF ClientNext, ClientStep

\* The invariant implies what the run checks.
LEMMA ClientMeaning == ClientIndInv => HttpClientInv
<1> SUFFICES ASSUME ClientIndInv PROVE HttpClientInv
  OBVIOUS
<1>1. PoolOK(slot, checks, reached) /\ GoodPool(slot) /\ checks \in 0 .. MaxChecks /\ Queried(checks)
  BY DEF ClientIndInv, PoolOK
<1>2. ClientTypeOK
  <2>1. asking \in [Slots -> 0 .. MaxChecks]
    BY <1>1, ClientAssumption DEF Queried
  <2>2. \A s \in Slots :
          /\ slot[s].use \in {"free", "call", "client", "other"}
          /\ slot[s].reverse \in (IF slot[s].use = "client" THEN Slots \ {s} ELSE {0})
          /\ slot[s].data \in {0, 1, 99}
          /\ slot[s].link \in {"none", "connecting", "stuck", "open"}
          /\ slot[s].use # "client" => ~slot[s].timer /\ slot[s].link = "none"
    BY <1>1, Zenon DEF GoodPool, Consistent
  <2>3. QED
    BY <1>1, <2>1, <2>2, Zenon DEF ClientTypeOK
<1>3. ClientWaits
  BY <1>1, Zenon DEF GoodPool, Consistent, ClientWaits
<1>4. ResultTrue
  <2>1. ASSUME NEW s \in Slots, NEW i \in Results(s), slot[s].got[i] = 1
        PROVE  reached
    <3>1. Claims(slot[s])
      BY <2>1 DEF Results, Claims
    <3>2. QED
      BY <1>1, <3>1, Zenon DEF PoolOK
  <2>2. ASSUME NEW s \in Slots, checks = 1
        PROVE  Cardinality(Results(s)) <= 1
    <3>1. OneResult(slot[s])
      BY <1>1, <2>2, Zenon DEF PoolOK, FirstCall
    <3>2. PICK n \in Nat : \A i \in DOMAIN slot[s].got : slot[s].got[i] = 200 \/ i = n
      BY <3>1 DEF OneResult
    <3>3. Results(s) = {} \/ Results(s) = {n}
      BY <3>2 DEF Results
    <3>4. Cardinality(Results(s)) = 0 \/ Cardinality(Results(s)) = 1
      BY <3>3, FS_EmptySet, FS_Singleton
    <3>5. QED
      BY <3>4
  <2>3. QED
    BY <2>1, <2>2, Zenon DEF ResultTrue
<1>5. QED
  BY <1>2, <1>3, <1>4 DEF HttpClientInv

\* For every pool and every number of calls: a call's peer is told of the Internet
\* only once a page was fetched, the only call is told one thing, and a client in
\* the pool waits for something (http_client.c, cgi_wifi.c).
THEOREM ClientCorrect == ClientSpec => []HttpClientInv
<1>1. ClientInit => ClientIndInv
  BY ClientStarts
<1>2. ClientIndInv /\ [ClientNext]_clientVars => ClientIndInv'
  BY ClientSteps
<1>3. ClientIndInv => HttpClientInv
  BY ClientMeaning
<1>4. QED
  BY <1>1, <1>2, <1>3, PTL DEF ClientSpec
==============================================================================
