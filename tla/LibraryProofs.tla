---------------------------- MODULE LibraryProofs ----------------------------
(***************************************************************************)
(* Proofs about the two data structures of the firmware: the ring of       *)
(* RingBuf, for every size and every set of byte values, and the linked    *)
(* list of LinkedList, for every set of items and every heap.              *)
(***************************************************************************)
EXTENDS RingBuf, LinkedList, SequenceLemmas

-----------------------------------------------------------------------------
(* The ring                                                                *)

\* The ring of RINGBUF_Init is empty, and its pointers agree.
LEMMA InitRingInv == RINGBUF_Init => RingInv
  BY RingAssumption DEF RINGBUF_Init, RingInv, RingTypeOK, PointersAgree, Slots

\* Every call keeps them so.
LEMMA NextRingInv == RingInv /\ [RingNext]_ringVars => RingInv'
<1> SUFFICES ASSUME RingInv, [RingNext]_ringVars PROVE RingInv'
  OBVIOUS
<1> USE RingAssumption DEF RingInv, RingTypeOK, PointersAgree, Slots
<1>1. ASSUME NEW b \in Byte, RINGBUF_Put(b) PROVE RingInv'
  BY <1>1 DEF RINGBUF_Put, Full, Rollback
<1>2. CASE RINGBUF_Get
  BY <1>2 DEF RINGBUF_Get, Empty, Release, Rollback
<1>3. CASE UNCHANGED ringVars
  BY <1>3 DEF ringVars
<1>4. QED
  BY <1>1, <1>2, <1>3 DEF RingNext

\* The pointers and the count of a ring stay in range and agree with each
\* other, whatever sequence of RINGBUF_Put and RINGBUF_Get calls is made.
THEOREM RingCorrect == RingSpec => []RingInv
  BY InitRingInv, NextRingInv, PTL DEF RingSpec

-----------------------------------------------------------------------------

\* What Contents is, for the array, the read offset and the count of any state.
LEMMA ContentsType ==
  ASSUME NEW a \in [Slots -> Byte], NEW r \in Slots, NEW n \in 0 .. Size
  PROVE  LET s == [i \in 1 .. n |-> a[SlotOf(r, i)]]
         IN  s \in Seq(Byte) /\ Len(s) = n
<1>1. \A i \in 1 .. n : SlotOf(r, i) \in Slots
  BY RingAssumption DEF SlotOf, Slots
<1>2. [i \in 1 .. n |-> a[SlotOf(r, i)]] \in [1 .. n -> Byte]
  BY <1>1
<1>3. n \in Nat
  BY RingAssumption
<1>4. QED
  BY <1>2, <1>3

\* The contents of the ring are a sequence as long as the count, in this state
LEMMA ContentsSeq == RingInv => Contents \in Seq(Byte) /\ Len(Contents) = fill_cnt
  BY ContentsType DEF RingInv, RingTypeOK, Contents

\* and in the next.
LEMMA ContentsSeqPrime ==
  RingInv' => Contents' \in Seq(Byte) /\ Len(Contents') = fill_cnt'
  BY ContentsType DEF RingInv, RingTypeOK, Contents

\* A put that is not refused appends its byte to the contents.
LEMMA PutAppends ==
  ASSUME RingInv, RingInv', NEW b \in Byte, RINGBUF_Put(b), ~Full
  PROVE  Contents' = Append(Contents, b)
<1>1. fill_cnt' = fill_cnt + 1 /\ p_r' = p_r /\ buf' = [buf EXCEPT ![p_w] = b]
  BY DEF RINGBUF_Put
<1>2. /\ Append(Contents, b) \in Seq(Byte)
      /\ Len(Append(Contents, b)) = fill_cnt + 1
      /\ \A i \in 1 .. fill_cnt : Append(Contents, b)[i] = Contents[i]
      /\ Append(Contents, b)[fill_cnt + 1] = b
  BY ContentsSeq, AppendProperties
<1>3. ASSUME NEW i \in 1 .. fill_cnt + 1
      PROVE  Contents'[i] = IF i = fill_cnt + 1 THEN b ELSE Contents[i]
  BY <1>1, RingAssumption
  DEF Contents, SlotOf, Full, RingInv, RingTypeOK, PointersAgree, Slots
<1>4. \A i \in 1 .. Len(Contents') : Contents'[i] = Append(Contents, b)[i]
  <2>1. fill_cnt \in Nat
    BY RingAssumption DEF RingInv, RingTypeOK
  <2>2. QED
    BY <1>1, <1>2, <1>3, <2>1, ContentsSeqPrime
<1>5. QED
  BY <1>1, <1>2, <1>4, ContentsSeqPrime, SeqEqual

\* A get that is not refused returns the oldest byte and removes it.
LEMMA GetRemoves ==
  ASSUME RingInv, RingInv', RINGBUF_Get, ~Empty
  PROVE  /\ Contents # <<>>
         /\ c' = Head(Contents)
         /\ Contents' = Tail(Contents)
<1>1. /\ fill_cnt' = fill_cnt - 1
      /\ p_r' = Rollback(p_r + 1)
      /\ buf' = buf
      /\ c' = buf[p_r]
  BY DEF RINGBUF_Get, Release
<1>2. fill_cnt \in Nat \ {0}
  BY RingAssumption DEF RingInv, RingTypeOK, Empty
<1>3. Contents # <<>> /\ Head(Contents) = Contents[1]
  BY <1>2, ContentsSeq
<1>4. c' = Contents[1]
  BY <1>1, <1>2, RingAssumption DEF Contents, SlotOf, RingInv, RingTypeOK, Slots
<1>5. /\ Tail(Contents) \in Seq(Byte)
      /\ Len(Tail(Contents)) = fill_cnt - 1
      /\ \A i \in 1 .. fill_cnt - 1 : Tail(Contents)[i] = Contents[i + 1]
  BY <1>3, ContentsSeq, HeadTailProperties
<1>6. ASSUME NEW i \in 1 .. fill_cnt - 1
      PROVE  Contents'[i] = Contents[i + 1]
  BY <1>1, <1>2, RingAssumption
  DEF Contents, SlotOf, Rollback, RingInv, RingTypeOK, Slots
<1>7. Contents' = Tail(Contents)
  BY <1>1, <1>5, <1>6, ContentsSeqPrime, SeqEqual
<1>8. QED
  BY <1>3, <1>4, <1>7

\* The empty ring is the empty queue.
LEMMA InitImplementsFifo == RINGBUF_Init => Fifo!Init
<1> SUFFICES ASSUME RINGBUF_Init PROVE Fifo!Init
  OBVIOUS
<1>1. Len(Contents) = 0 /\ Contents \in Seq(Byte)
  BY InitRingInv, ContentsSeq DEF RINGBUF_Init
<1>2. QED
  BY <1>1 DEF RINGBUF_Init, Fifo!Init

\* Every call is a step of the queue.
LEMMA StepImplementsFifo == RingInv /\ RingInv' /\ [RingNext]_ringVars => [Fifo!Next]_(Fifo!vars)
<1> SUFFICES ASSUME RingInv, RingInv', [RingNext]_ringVars
             PROVE  Fifo!Next \/ UNCHANGED Fifo!vars
  OBVIOUS
<1>0. fill_cnt \in 0 .. Size /\ Size \in Nat
  BY RingAssumption DEF RingInv, RingTypeOK
<1>1. ASSUME NEW b \in Byte, RINGBUF_Put(b) PROVE Fifo!Put(b)
  <2>1. CASE Full
    <3>1. UNCHANGED <<buf, p_r, fill_cnt, c>> /\ ret' = -1
      BY <1>1, <2>1 DEF RINGBUF_Put
    <3>2. Contents' = Contents
      BY <3>1 DEF Contents, SlotOf
    <3>3. Len(Contents) = Size
      BY <1>0, <2>1, ContentsSeq DEF Full
    <3>4. QED
      BY <3>1, <3>2, <3>3 DEF Fifo!Put
  <2>2. CASE ~Full
    <3>1. Len(Contents) < Size
      BY <1>0, <2>2, ContentsSeq DEF Full
    <3>2. ret' = 0 /\ c' = c
      BY <1>1, <2>2 DEF RINGBUF_Put
    <3>3. QED
      BY <1>1, <2>2, <3>1, <3>2, PutAppends DEF Fifo!Put
  <2>3. QED
    BY <2>1, <2>2
<1>2. CASE RINGBUF_Get
  <2>1. CASE Empty
    <3>1. UNCHANGED <<buf, p_r, fill_cnt, c>> /\ ret' = -1
      BY <1>2, <2>1 DEF RINGBUF_Get
    <3>2. Contents' = Contents
      BY <3>1 DEF Contents, SlotOf
    <3>3. Len(Contents) = 0 /\ Contents \in Seq(Byte)
      BY <1>0, <2>1, ContentsSeq DEF Empty
    <3>4. Contents = <<>>
      BY <3>3
    <3>5. QED
      BY <3>1, <3>2, <3>4 DEF Fifo!Next, Fifo!Get
  <2>2. CASE ~Empty
    <3>1. ret' = 0
      BY <1>2, <2>2 DEF RINGBUF_Get
    <3>2. QED
      BY <1>2, <2>2, <3>1, GetRemoves DEF Fifo!Next, Fifo!Get
  <2>3. QED
    BY <2>1, <2>2
<1>3. CASE UNCHANGED ringVars
  BY <1>3 DEF ringVars, Fifo!vars, Contents, SlotOf
<1>4. QED
  BY <1>1, <1>2, <1>3 DEF RingNext, Fifo!Next

\* Every behaviour of the ring is a behaviour of the FIFO of ByteFifo: the bytes
\* that RINGBUF_Get returns are those that RINGBUF_Put accepted, in order.
THEOREM RingImplementsFifo == RingSpec => ImplementsFifo
<1>1. RingSpec => []RingInv
  BY InitRingInv, NextRingInv, PTL DEF RingSpec
<1>2. QED
  BY <1>1, InitImplementsFifo, StepImplementsFifo, PTL DEF RingSpec, ImplementsFifo, Fifo!Spec

-----------------------------------------------------------------------------
(* The list                                                                *)

\* What the memory of a node may hold.
NodeSet == [item : Item \cup {NULL}, prev : Node \cup {NULL}, next : Node \cup {NULL}]

\* Following next from the head visits ch.
Follows(h, nd, s, ch) ==
    /\ s > 0 => h = ch[1]
    /\ \A k \in 1 .. s : nd[ch[k]].next = IF k = s THEN NULL ELSE ch[k + 1]

\* At, which follows next p times from the head, arrives at the node p + 1 of the
\* chain.  (Its recursive function is the chain: had they a place where they differ,
\* take the least.)
LEMMA AtIs ==
  ASSUME NEW l, NEW ch, l.size \in Nat, Follows(l.head, l.node, l.size, ch),
         NEW p \in Nat, p < l.size
  PROVE  At(l, p) = ch[p + 1]
<1> DEFINE Eq(g) == g = [k \in 0 .. p |-> IF k = 0 THEN l.head ELSE l.node[g[k - 1]].next]
           w == [k \in 0 .. p |-> ch[k + 1]]
           walk == CHOOSE g : Eq(g)
<1>1. /\ l.head = ch[1]
      /\ \A k \in 1 .. p : l.node[ch[k]].next = ch[k + 1]
  <2>1. ASSUME NEW k \in 1 .. p PROVE k \in 1 .. l.size /\ k # l.size
    OBVIOUS
  <2>2. QED
    BY <2>1 DEF Follows
<1>2. Eq(w)
  <2>1. ASSUME NEW k \in 0 .. p
        PROVE  ch[k + 1] = IF k = 0 THEN l.head ELSE l.node[w[k - 1]].next
    <3>1. CASE k = 0
      <4>1. k + 1 = 1
        BY <3>1
      <4>2. QED
        BY <1>1, <3>1, <4>1
    <3>2. CASE k # 0
      <4>1. k \in 1 .. p /\ k - 1 \in 0 .. p /\ (k - 1) + 1 = k
        BY <3>2
      <4>2. w[k - 1] = ch[k]
        BY <4>1
      <4>3. QED
        BY <1>1, <3>2, <4>1, <4>2
    <3>3. QED
      BY <3>1, <3>2
  <2> DEFINE rhs(k) == IF k = 0 THEN l.head ELSE l.node[w[k - 1]].next
  <2>2. w = [k \in 0 .. p |-> ch[k + 1]] /\ \A k \in 0 .. p : ch[k + 1] = rhs(k)
    BY <2>1
  <2>3. SUFFICES w = [k \in 0 .. p |-> rhs(k)]
    OBVIOUS
  <2> HIDE DEF w, rhs
  <2>4. QED
    BY <2>2
<1>3. At(l, p) = walk[p]
  BY DEF At
<1> HIDE DEF Eq
<1>4. Eq(walk)
  BY <1>2
<1> HIDE DEF walk
<1> USE DEF Eq
<1>5. walk[0] = l.head /\ \A k \in 1 .. p : walk[k] = l.node[walk[k - 1]].next
  <2> DEFINE rhs(k) == IF k = 0 THEN l.head ELSE l.node[walk[k - 1]].next
  <2>1. \A k \in 0 .. p : walk[k] = rhs(k)
    BY <1>4, Zenon
  <2>2. 0 \in 0 .. p /\ \A k \in 1 .. p : k \in 0 .. p /\ k # 0
    OBVIOUS
  <2>3. QED
    BY <2>1, <2>2, Zenon
<1> DEFINE S == {k \in 0 .. p : walk[k] # ch[k + 1]}
<1>6. S = {}
  <2>1. SUFFICES ASSUME S # {} PROVE FALSE
    OBVIOUS
  <2>2. PICK m \in S : \A k \in S : m <= k
    <3>1. S \in SUBSET Nat
      OBVIOUS
    <3> HIDE DEF S
    <3>2. QED
      BY <2>1, <3>1, LeastOf
  <2>3. m # 0
    <3>1. walk[0] = ch[0 + 1]
      BY <1>1, <1>5
    <3>2. QED
      BY <3>1
  <2>4. m \in 1 .. p /\ m - 1 \in 0 .. p /\ m - 1 \notin S /\ (m - 1) + 1 = m
    BY <2>2, <2>3
  <2>5. walk[m - 1] = ch[m]
    BY <2>4
  <2>6. walk[m] = ch[m + 1]
    BY <1>1, <1>5, <2>4, <2>5
  <2>7. QED
    BY <2>6
<1>7. QED
  BY <1>3, <1>6

\* The list is linked through the nodes ch.
Linked(ch) ==
    /\ size \in Nat /\ ch \in [1 .. size -> Node] /\ node \in [Node -> NodeSet]
    /\ \A j, k \in 1 .. size : j # k => ch[j] # ch[k]
    /\ live = {ch[k] : k \in 1 .. size}
    /\ \A k \in 1 .. size :
         /\ node[ch[k]].next = IF k = size THEN NULL ELSE ch[k + 1]
         /\ node[ch[k]].prev = IF k = 1 THEN NULL ELSE ch[k - 1]
         /\ node[ch[k]].item \in Item
    /\ head = IF size = 0 THEN NULL ELSE ch[1]
    /\ tail = IF size < 2 THEN NULL ELSE ch[size]

\* The inductive invariant: the nodes can be put in a row such that the pointers are
\* those of the row.  (WellLinked says the same of Chain, which is a walk along the
\* pointers; a step is easier followed on a row that is given.)
ListInv == \E ch : Linked(ch)

\* The items in the nodes ch.
ItemsOf(ch, s, nd) == [k \in 1 .. s |-> nd[ch[k]].item]

\* The walk along the pointers finds that row, in this state
LEMMA ChainIs ==
  ASSUME NEW ch, Linked(ch)
  PROVE  Chain = ch
<1>1. size \in Nat /\ ch = [k \in 1 .. size |-> ch[k]]
  BY DEF Linked
<1>2. list.size = size /\ list.head = head /\ list.node = node
  BY DEF list
<1>3. Follows(head, node, size, ch)
  BY DEF Linked, Follows
<1>4. ASSUME NEW k \in 1 .. size PROVE At(list, k - 1) = ch[k]
  <2>1. k - 1 \in Nat /\ k - 1 < size /\ (k - 1) + 1 = k
    BY <1>1
  <2>2. At(list, k - 1) = ch[(k - 1) + 1]
    BY <1>1, <1>2, <1>3, <2>1, AtIs
  <2>3. QED
    BY <2>1, <2>2
<1>5. QED
  BY <1>1, <1>4, Zenon DEF Chain

\* and in the next.
LEMMA ChainIsNext ==
  ASSUME NEW ch, Linked(ch)'
  PROVE  Chain' = ch
<1>1. size' \in Nat /\ ch = [k \in 1 .. size' |-> ch[k]]
  BY DEF Linked
<1>2. list'.size = size' /\ list'.head = head' /\ list'.node = node'
  BY DEF list
<1>3. Follows(head', node', size', ch)
  BY DEF Linked, Follows
<1>4. ASSUME NEW k \in 1 .. size' PROVE At(list', k - 1) = ch[k]
  <2>1. k - 1 \in Nat /\ k - 1 < size' /\ (k - 1) + 1 = k
    BY <1>1
  <2>2. At(list', k - 1) = ch[(k - 1) + 1]
    BY <1>1, <1>2, <1>3, <2>1, AtIs
  <2>3. QED
    BY <2>1, <2>2
<1>5. QED
  BY <1>1, <1>4, Zenon DEF Chain

\* init_linked_list makes a list without nodes.
LEMMA LinkedInit == ListInit => ListInv
<1> SUFFICES ASSUME ListInit PROVE Linked(<< >>)
  BY DEF ListInv
<1>1. QED
  BY DEF ListInit, Linked, NodeSet

\* The invariant implies what the run checks.
LEMMA LinkedWell == ListInv => WellLinked
<1> SUFFICES ASSUME NEW ch, Linked(ch) PROVE WellLinked
  BY DEF ListInv
<1>1. Chain = ch
  BY ChainIs
<1>2. QED
  BY <1>1 DEF Linked, WellLinked

-----------------------------------------------------------------------------
(* Linking a node in and taking one out                                    *)

\* A node n with item i was linked in as the p-th.
LinksIn(ch, n, p, i) ==
    /\ n \in Node /\ n \notin live
    /\ size' = size + 1 /\ live' = live \cup {n} /\ item' = NULL
    /\ node' \in [Node -> NodeSet]
    /\ node'[n].item = i
    /\ node'[n].prev = IF p = 1 THEN NULL ELSE ch[p - 1]
    /\ node'[n].next = IF p = size + 1 THEN NULL ELSE ch[p]
    /\ \A k \in 1 .. size :
         /\ node'[ch[k]].item = node[ch[k]].item
         /\ node'[ch[k]].next = IF k = p - 1 THEN n ELSE node[ch[k]].next
         /\ node'[ch[k]].prev = IF k = p THEN n ELSE node[ch[k]].prev
    /\ head' = IF p = 1 THEN n ELSE head
    /\ tail' = IF size = 0 THEN NULL ELSE IF p = size + 1 THEN n
               ELSE IF size = 1 THEN ch[1] ELSE tail

\* The new chain nc has the items of ch, with i as the p-th, or without the p-th.
WithItem(nc, ch, p, i) ==
    \A k \in 1 .. size + 1 : node'[nc[k]].item = IF k < p THEN node[ch[k]].item
                                                ELSE IF k = p THEN i ELSE node[ch[k - 1]].item
WithoutItem(nc, ch, p) ==
    \A k \in 1 .. size - 1 : node'[nc[k]].item = IF k < p THEN node[ch[k]].item
                                                ELSE node[ch[k + 1]].item

\* A list with a node linked in is a list again, and has the new item at p.
LEMMA LinkIn ==
  ASSUME NEW ch, Linked(ch), NEW n, NEW p \in 1 .. size + 1, NEW i \in Item, LinksIn(ch, n, p, i)
  PROVE  \E nc : Linked(nc)' /\ WithItem(nc, ch, p, i)
<1>0. PICK nc : nc = [k \in 1 .. size + 1 |-> IF k < p THEN ch[k] ELSE IF k = p THEN n ELSE ch[k - 1]]
  OBVIOUS
<1>1. /\ size \in Nat /\ size' = size + 1 /\ p \in Nat
      /\ \A k \in 1 .. size : ch[k] \in Node /\ ch[k] # n
      /\ \A j, k \in 1 .. size : j # k => ch[j] # ch[k]
      /\ n \in Node /\ node' \in [Node -> NodeSet]
  BY DEF Linked, LinksIn
<1>2. /\ nc \in [1 .. size + 1 -> Node] /\ nc[p] = n
      /\ \A k \in 1 .. size + 1 : k < p => nc[k] = ch[k] /\ k \in 1 .. size
      /\ \A k \in 1 .. size + 1 : k > p => nc[k] = ch[k - 1] /\ k - 1 \in 1 .. size
  BY <1>0, <1>1
<1>3. ASSUME NEW j \in 1 .. size + 1, NEW k \in 1 .. size + 1, j # k PROVE nc[j] # nc[k]
  <2>1. (j < p \/ j = p \/ j > p) /\ (k < p \/ k = p \/ k > p)
    BY <1>1
  <2>2. j - 1 # k - 1 /\ (j < p /\ k > p => j # k - 1) /\ (k < p /\ j > p => k # j - 1)
    BY <1>1, <1>3
  <2>3. QED
    BY <1>1, <1>2, <1>3, <2>1, <2>2
<1>4. live' = {nc[k] : k \in 1 .. size'}
  <2>1. live' = {ch[k] : k \in 1 .. size} \cup {n}
    BY DEF Linked, LinksIn
  <2>2. ASSUME NEW k \in 1 .. size PROVE \E j \in 1 .. size + 1 : nc[j] = ch[k]
    <3>1. CASE k < p
      BY <1>1, <1>2, <3>1
    <3>2. CASE ~(k < p)
      <4>1. k + 1 \in 1 .. size + 1 /\ k + 1 > p /\ (k + 1) - 1 = k
        BY <1>1, <3>2
      <4>2. nc[k + 1] = ch[k]
        BY <1>2, <4>1
      <4>3. QED
        BY <4>1, <4>2
    <3>3. QED
      BY <3>1, <3>2
  <2>3. ASSUME NEW k \in 1 .. size + 1 PROVE nc[k] \in {ch[j] : j \in 1 .. size} \cup {n}
    <3>1. k < p \/ k = p \/ k > p
      BY <1>1
    <3>2. QED
      BY <1>2, <3>1
  <2>4. p \in 1 .. size + 1 /\ nc[p] = n /\ size' = size + 1
    BY <1>1, <1>2
  <2>5. ASSUME NEW x \in live' PROVE x \in {nc[k] : k \in 1 .. size + 1}
    BY ONLY <2>1, <2>2, <2>4, <2>5
  <2>6. ASSUME NEW k \in 1 .. size + 1 PROVE nc[k] \in live'
    BY ONLY <2>1, <2>3, <2>6
  <2>7. QED
    BY ONLY <2>4, <2>5, <2>6
<1>5. ASSUME NEW k \in 1 .. size + 1
      PROVE  /\ node'[nc[k]].next = IF k = size + 1 THEN NULL ELSE nc[k + 1]
             /\ node'[nc[k]].prev = IF k = 1 THEN NULL ELSE nc[k - 1]
             /\ node'[nc[k]].item \in Item
             /\ node'[nc[k]].item = IF k < p THEN node[ch[k]].item
                                   ELSE IF k = p THEN i ELSE node[ch[k - 1]].item
  <2>1. CASE k < p
    <3>1. nc[k] = ch[k] /\ k \in 1 .. size
      BY <1>2, <2>1
    <3>2. /\ node[ch[k]].next = IF k = size THEN NULL ELSE ch[k + 1]
          /\ node[ch[k]].prev = IF k = 1 THEN NULL ELSE ch[k - 1]
          /\ node[ch[k]].item \in Item
      BY <3>1 DEF Linked
    <3>3. /\ node'[ch[k]].item = node[ch[k]].item
          /\ node'[ch[k]].next = IF k = p - 1 THEN n ELSE node[ch[k]].next
          /\ node'[ch[k]].prev = node[ch[k]].prev
      BY <1>1, <2>1, <3>1 DEF LinksIn
    <3>4. k # 1 => k - 1 \in 1 .. size + 1 /\ k - 1 < p /\ nc[k - 1] = ch[k - 1]
      BY <1>1, <1>2, <2>1
    <3>5. k = p - 1 => k + 1 = p
      BY <1>1
    <3>6. k # p - 1 => k + 1 \in 1 .. size + 1 /\ k + 1 < p /\ nc[k + 1] = ch[k + 1]
      BY <1>1, <1>2, <2>1, <3>1
    <3>7. k # size + 1 /\ (k # p - 1 => k # size)
      BY <1>1, <2>1, <3>1
    <3>8. QED
      BY <1>2, <2>1, <3>1, <3>2, <3>3, <3>4, <3>5, <3>6, <3>7
  <2>2. CASE k = p
    <3>1. /\ node'[n].item = i
          /\ node'[n].prev = IF p = 1 THEN NULL ELSE ch[p - 1]
          /\ node'[n].next = IF p = size + 1 THEN NULL ELSE ch[p]
      BY DEF LinksIn
    <3>2. p # 1 => p - 1 \in 1 .. size + 1 /\ p - 1 < p /\ nc[p - 1] = ch[p - 1]
      BY <1>1, <1>2
    <3>3. p # size + 1 => p + 1 \in 1 .. size + 1 /\ p + 1 > p /\ (p + 1) - 1 = p
      BY <1>1
    <3>4. p # size + 1 => nc[p + 1] = ch[p]
      BY <1>2, <3>3
    <3>5. ~(k < p)
      BY <1>1, <2>2
    <3>6. QED
      BY <1>2, <2>2, <3>1, <3>2, <3>4, <3>5
  <2>3. CASE k > p
    <3> DEFINE j == k - 1
    <3>1. nc[k] = ch[j] /\ j \in 1 .. size /\ j \in Nat /\ j >= p /\ k = j + 1
      BY <1>1, <1>2, <2>3
    <3> HIDE DEF j
    <3>2. /\ node[ch[j]].next = IF j = size THEN NULL ELSE ch[j + 1]
          /\ node[ch[j]].prev = IF j = 1 THEN NULL ELSE ch[j - 1]
          /\ node[ch[j]].item \in Item
      BY <3>1 DEF Linked
    <3>3. /\ node'[ch[j]].item = node[ch[j]].item
          /\ node'[ch[j]].next = node[ch[j]].next
          /\ node'[ch[j]].prev = IF j = p THEN n ELSE node[ch[j]].prev
      BY <1>1, <3>1 DEF LinksIn
    <3>4. j # p => j \in 1 .. size + 1 /\ j > p /\ nc[j] = ch[j - 1] /\ j # 1
      BY <1>1, <1>2, <3>1
    <3>5. j # size => k + 1 \in 1 .. size + 1 /\ k + 1 > p /\ (k + 1) - 1 = j + 1
      BY <1>1, <3>1
    <3>6. j # size => nc[k + 1] = ch[j + 1]
      BY <1>2, <3>5
    <3>7. k # 1 /\ k - 1 = j /\ ~(k < p) /\ k # p /\ (k = size + 1 <=> j = size)
      BY <1>1, <3>1
    <3>8. QED
      BY <1>2, <3>1, <3>2, <3>3, <3>4, <3>6, <3>7
  <2>4. QED
    BY <1>1, <2>1, <2>2, <2>3
<1>6. head' = nc[1] /\ size' # 0
  <2>1. p = 1 => head' = n /\ nc[1] = n
    BY <1>2 DEF LinksIn
  <2>2. p # 1 => 1 \in 1 .. size + 1 /\ 1 < p /\ size # 0
    BY <1>1
  <2>3. p # 1 => head' = ch[1] /\ nc[1] = ch[1]
    BY <1>2, <2>2 DEF LinksIn, Linked
  <2>4. QED
    BY <1>1, <2>1, <2>3
<1>7. tail' = IF size' < 2 THEN NULL ELSE nc[size']
  <2>1. /\ tail' = IF size = 0 THEN NULL ELSE IF p = size + 1 THEN n ELSE IF size = 1 THEN ch[1] ELSE tail
        /\ size >= 2 => tail = ch[size]
    BY <1>1 DEF LinksIn, Linked
  <2>2. p # size + 1 => nc[size + 1] = ch[size]
    BY <1>1, <1>2
  <2>3. QED
    BY <1>1, <1>2, <2>1, <2>2
<1>8. Linked(nc)'
  <2>1. size' \in Nat /\ nc \in [1 .. size' -> Node]
    BY <1>1, <1>2
  <2>2. \A j, k \in 1 .. size' : j # k => nc[j] # nc[k]
    BY <1>1, <1>3
  <2>3. \A k \in 1 .. size' : /\ node'[nc[k]].next = IF k = size' THEN NULL ELSE nc[k + 1]
                              /\ node'[nc[k]].prev = IF k = 1 THEN NULL ELSE nc[k - 1]
                              /\ node'[nc[k]].item \in Item
    BY <1>1, <1>5
  <2>4. head' = IF size' = 0 THEN NULL ELSE nc[1]
    BY <1>6
  <2>5. node' \in [Node -> NodeSet]
    BY <1>1
  <2>6. QED
    BY ONLY <1>4, <1>7, <2>1, <2>2, <2>3, <2>4, <2>5 DEF Linked
<1>9. QED
  BY <1>5, <1>8 DEF WithItem

\* The p-th node was taken out.
TakesOut(ch, p) ==
    /\ size' = size - 1 /\ live' = live \ {ch[p]} /\ item' = node[ch[p]].item
    /\ node' \in [Node -> NodeSet]
    /\ \A k \in 1 .. size : k # p =>
         /\ node'[ch[k]].item = node[ch[k]].item
         /\ node'[ch[k]].next = IF k = p - 1 THEN node[ch[p]].next ELSE node[ch[k]].next
         /\ node'[ch[k]].prev = IF k = p + 1 THEN node[ch[p]].prev ELSE node[ch[k]].prev
    /\ head' = IF p = 1 THEN node[ch[1]].next ELSE head
    /\ tail' = IF size - 1 < 2 THEN NULL ELSE IF p = size THEN ch[size - 1] ELSE tail

\* A list with a node taken out is a list again, and has lost the item at p.
LEMMA TakeOut ==
  ASSUME NEW ch, Linked(ch), NEW p \in 1 .. size, TakesOut(ch, p)
  PROVE  \E nc : Linked(nc)' /\ WithoutItem(nc, ch, p)
<1>0. PICK nc : nc = [k \in 1 .. size - 1 |-> IF k < p THEN ch[k] ELSE ch[k + 1]]
  OBVIOUS
<1>1. /\ size \in Nat /\ size' = size - 1 /\ size' \in Nat /\ p \in Nat
      /\ \A k \in 1 .. size : ch[k] \in Node
      /\ \A j, k \in 1 .. size : j # k => ch[j] # ch[k]
      /\ node' \in [Node -> NodeSet]
  BY DEF Linked, TakesOut
<1>2. /\ nc \in [1 .. size - 1 -> Node]
      /\ \A k \in 1 .. size - 1 : k < p => nc[k] = ch[k] /\ k \in 1 .. size
      /\ \A k \in 1 .. size - 1 : ~(k < p) => nc[k] = ch[k + 1] /\ k + 1 \in 1 .. size
  BY <1>0, <1>1
<1>3. ASSUME NEW j \in 1 .. size - 1, NEW k \in 1 .. size - 1, j # k PROVE nc[j] # nc[k]
  <2>1. j + 1 # k + 1 /\ (j < p /\ ~(k < p) => j # k + 1) /\ (k < p /\ ~(j < p) => k # j + 1)
    BY <1>1, <1>3
  <2>2. QED
    BY <1>1, <1>2, <1>3, <2>1
<1>4. live' = {nc[k] : k \in 1 .. size'}
  <2>1. live' = {ch[k] : k \in 1 .. size} \ {ch[p]}
    BY DEF Linked, TakesOut
  <2>2. ASSUME NEW k \in 1 .. size, k # p PROVE \E j \in 1 .. size - 1 : nc[j] = ch[k]
    <3>1. CASE k < p
      <4>1. k \in 1 .. size - 1
        BY <1>1, <3>1
      <4>2. QED
        BY <1>2, <3>1, <4>1
    <3>2. CASE ~(k < p)
      <4>1. k - 1 \in 1 .. size - 1 /\ ~(k - 1 < p) /\ (k - 1) + 1 = k
        BY <1>1, <2>2, <3>2
      <4>2. nc[k - 1] = ch[k]
        BY <1>2, <4>1
      <4>3. QED
        BY <4>1, <4>2
    <3>3. QED
      BY <3>1, <3>2
  <2>3. ASSUME NEW k \in 1 .. size - 1 PROVE nc[k] \in {ch[j] : j \in 1 .. size} \ {ch[p]}
    <3>1. CASE k < p
      BY <1>1, <1>2, <3>1
    <3>2. CASE ~(k < p)
      <4>1. k + 1 \in 1 .. size /\ k + 1 # p /\ nc[k] = ch[k + 1]
        BY <1>1, <1>2, <3>2
      <4>2. QED
        BY <1>1, <4>1
    <3>3. QED
      BY <3>1, <3>2
  <2>4. QED
    BY <1>1, <2>1, <2>2, <2>3
<1>5. ASSUME NEW k \in 1 .. size - 1
      PROVE  /\ node'[nc[k]].next = IF k = size - 1 THEN NULL ELSE nc[k + 1]
             /\ node'[nc[k]].prev = IF k = 1 THEN NULL ELSE nc[k - 1]
             /\ node'[nc[k]].item \in Item
             /\ node'[nc[k]].item = IF k < p THEN node[ch[k]].item ELSE node[ch[k + 1]].item
  <2>0. /\ node[ch[p]].next = IF p = size THEN NULL ELSE ch[p + 1]
        /\ node[ch[p]].prev = IF p = 1 THEN NULL ELSE ch[p - 1]
    BY DEF Linked
  <2>1. CASE k < p
    <3>1. nc[k] = ch[k] /\ k \in 1 .. size /\ k # p /\ k # p + 1
      BY <1>1, <1>2, <2>1
    <3>2. /\ node[ch[k]].next = IF k = size THEN NULL ELSE ch[k + 1]
          /\ node[ch[k]].prev = IF k = 1 THEN NULL ELSE ch[k - 1]
          /\ node[ch[k]].item \in Item
      BY <3>1 DEF Linked
    <3>3. /\ node'[ch[k]].item = node[ch[k]].item
          /\ node'[ch[k]].next = IF k = p - 1 THEN node[ch[p]].next ELSE node[ch[k]].next
          /\ node'[ch[k]].prev = node[ch[k]].prev
      BY <3>1 DEF TakesOut
    <3>4. k # 1 => nc[k - 1] = ch[k - 1]
      BY <1>1, <1>2, <2>1
    <3>5. k = p - 1 => (k = size - 1 <=> p = size) /\ k + 1 = p
      BY <1>1
    <3>6. k = p - 1 /\ k # size - 1 => k + 1 \in 1 .. size - 1 /\ ~(k + 1 < p) /\ (k + 1) + 1 = p + 1
      BY <1>1
    <3>7. k = p - 1 /\ k # size - 1 => nc[k + 1] = ch[p + 1]
      BY <1>2, <3>6
    <3>8. k # p - 1 => k + 1 \in 1 .. size - 1 /\ k + 1 < p /\ k # size - 1 /\ k # size
      BY <1>1, <2>1
    <3>9. k # p - 1 => nc[k + 1] = ch[k + 1]
      BY <1>2, <3>8
    <3>10. QED
      BY <2>0, <2>1, <3>1, <3>2, <3>3, <3>4, <3>5, <3>7, <3>8, <3>9
  <2>2. CASE ~(k < p)
    <3> DEFINE j == k + 1
    <3>1. nc[k] = ch[j] /\ j \in 1 .. size /\ j \in Nat /\ j > p /\ k = j - 1 /\ j # p /\ j # p - 1 /\ j # 1
      BY <1>1, <1>2, <2>2
    <3>2. j = k + 1
      OBVIOUS
    <3> HIDE DEF j
    <3>3. /\ node[ch[j]].next = IF j = size THEN NULL ELSE ch[j + 1]
          /\ node[ch[j]].prev = ch[j - 1]
          /\ node[ch[j]].item \in Item
      BY <3>1 DEF Linked
    <3>4. /\ node'[ch[j]].item = node[ch[j]].item
          /\ node'[ch[j]].next = node[ch[j]].next
          /\ node'[ch[j]].prev = IF j = p + 1 THEN node[ch[p]].prev ELSE node[ch[j]].prev
      BY <3>1 DEF TakesOut
    <3>5. j # size => k + 1 \in 1 .. size - 1 /\ ~(k + 1 < p) /\ (k + 1) + 1 = j + 1
      BY <1>1, <3>1
    <3>6. j # size => nc[k + 1] = ch[j + 1]
      BY <1>2, <3>5
    <3>7. j = p + 1 => k = p
      BY <1>1, <3>1
    <3>8. p # 1 => p - 1 \in 1 .. size - 1 /\ p - 1 < p
      BY <1>1
    <3>9. p # 1 => nc[p - 1] = ch[p - 1]
      BY <1>2, <3>8
    <3>10. j # p + 1 => k - 1 \in 1 .. size - 1 /\ ~(k - 1 < p) /\ (k - 1) + 1 = j - 1 /\ k # 1
      BY <1>1, <3>1
    <3>11. j # p + 1 => nc[k - 1] = ch[j - 1]
      BY <1>2, <3>10
    <3>12. k = size - 1 <=> j = size
      BY <1>1, <3>1
    <3>13. node'[nc[k]].next = IF k = size - 1 THEN NULL ELSE nc[k + 1]
      BY <3>1, <3>3, <3>4, <3>6, <3>12
    <3>14. node'[nc[k]].prev = IF k = 1 THEN NULL ELSE nc[k - 1]
      <4>1. CASE j = p + 1
        BY <2>0, <3>1, <3>4, <3>7, <3>9, <4>1
      <4>2. CASE j # p + 1
        BY <3>1, <3>3, <3>4, <3>10, <3>11, <4>2
      <4>3. QED
        BY <4>1, <4>2
    <3>15. QED
      BY <2>2, <3>1, <3>2, <3>3, <3>4, <3>13, <3>14
  <2>3. QED
    BY <2>1, <2>2
<1>6. head' = IF size' = 0 THEN NULL ELSE nc[1]
  <2>1. /\ head' = IF p = 1 THEN node[ch[1]].next ELSE ch[1]
        /\ node[ch[1]].next = IF 1 = size THEN NULL ELSE ch[2]
    <3>1. 1 \in 1 .. size /\ size # 0 /\ 1 + 1 = 2
      BY <1>1
    <3>2. head = ch[1]
      BY <3>1 DEF Linked
    <3>3. node[ch[1]].next = IF 1 = size THEN NULL ELSE ch[1 + 1]
      BY <3>1 DEF Linked
    <3>4. head' = IF p = 1 THEN node[ch[1]].next ELSE head
      BY DEF TakesOut
    <3>5. QED
      BY <3>1, <3>2, <3>3, <3>4
  <2>2. size # 1 => nc[1] = IF p = 1 THEN ch[2] ELSE ch[1]
    <3>1. SUFFICES ASSUME size # 1 PROVE nc[1] = IF p = 1 THEN ch[2] ELSE ch[1]
      OBVIOUS
    <3>2. 1 \in 1 .. size - 1 /\ 1 + 1 = 2 /\ (1 < p <=> p # 1)
      BY <1>1, <3>1
    <3>3. QED
      BY <1>2, <3>2
  <2>3. size = 1 => p = 1 /\ size' = 0
    BY <1>1
  <2>4. size # 1 => size' # 0
    BY <1>1
  <2>5. QED
    BY <2>1, <2>2, <2>3, <2>4
<1>7. tail' = IF size' < 2 THEN NULL ELSE nc[size']
  <2>1. /\ tail' = IF size - 1 < 2 THEN NULL ELSE IF p = size THEN ch[size - 1] ELSE tail
        /\ size >= 2 => tail = ch[size]
    BY <1>1 DEF TakesOut, Linked
  <2>2. ASSUME size - 1 >= 2 PROVE nc[size - 1] = IF p = size THEN ch[size - 1] ELSE ch[size]
    <3>1. size - 1 \in 1 .. size - 1 /\ (size - 1) + 1 = size /\ (size - 1 < p <=> p = size)
      BY <1>1, <2>2
    <3>2. QED
      BY <1>2, <3>1
  <2>3. QED
    BY <1>1, <2>1, <2>2
<1>8. Linked(nc)'
  <2>1. size' \in Nat /\ nc \in [1 .. size' -> Node]
    BY <1>1, <1>2
  <2>2. \A j, k \in 1 .. size' : j # k => nc[j] # nc[k]
    BY <1>1, <1>3
  <2>3. \A k \in 1 .. size' : /\ node'[nc[k]].next = IF k = size' THEN NULL ELSE nc[k + 1]
                              /\ node'[nc[k]].prev = IF k = 1 THEN NULL ELSE nc[k - 1]
                              /\ node'[nc[k]].item \in Item
    BY <1>1, <1>5
  <2>4. node' \in [Node -> NodeSet]
    BY <1>1
  <2>5. QED
    BY ONLY <1>4, <1>6, <1>7, <2>1, <2>2, <2>3, <2>4 DEF Linked
<1>9. QED
  BY <1>5, <1>8 DEF WithoutItem

-----------------------------------------------------------------------------
(* The operations                                                          *)

\* list_create_node gets a node that the list does not use.
LEMMA FreshIs ==
  ASSUME ListInv, Room
  PROVE  Fresh(list) \in Node /\ Fresh(list) \notin live
<1> DEFINE S == Node \ live
<1>1. live \subseteq Node
  BY DEF ListInv, Linked
<1>2. S \in SUBSET Nat /\ S # {}
  BY <1>1, ListAssumption DEF Room
<1>3. PICK n \in S : \A m \in S : n <= m
  <2> HIDE DEF S
  <2>1. QED
    BY <1>2, LeastOf
<1>4. list.live = live
  BY DEF list
<1>5. QED
  BY <1>3, <1>4 DEF Fresh

\* A list after an operation: its variables are the fields of the record.
Is(l) ==
    /\ head' = l.head /\ tail' = l.tail /\ size' = l.size
    /\ node' = l.node /\ live' = l.live /\ item' = l.item

\* list_add_first links its node in as the first.
LEMMA AddFirstLinks ==
  ASSUME NEW ch, Linked(ch), Room, NEW i \in Item, Is(list_add_first(list, i))
  PROVE  \E n : LinksIn(ch, n, 1, i)
<1> USE ListAssumption
<1>0. PICK n : n = Fresh(list)
  OBVIOUS
<1> DEFINE e == [item |-> i, prev |-> NULL, next |-> NULL]
<1>1. n \in Node /\ n \notin live
  BY <1>0, FreshIs DEF ListInv
<1>2. /\ size \in Nat /\ \A k \in 1 .. size : ch[k] \in Node /\ ch[k] # n
      /\ \A j, k \in 1 .. size : j # k => ch[j] # ch[k]
      /\ node \in [Node -> NodeSet] /\ head = IF size = 0 THEN NULL ELSE ch[1]
      /\ tail = IF size < 2 THEN NULL ELSE ch[size]
  BY <1>1 DEF Linked
<1>3. e \in NodeSet
  BY DEF NodeSet
<1>4. CASE size = 0
  <2>1. head = NULL
    BY <1>2, <1>4
  <2>2. /\ head' = n /\ tail' = tail /\ size' = size + 1 /\ node' = [node EXCEPT ![n] = e]
        /\ live' = live \cup {n} /\ item' = NULL
    BY <1>0, <2>1 DEF Is, list_add_first, list_create_node, list
  <2>3. node' \in [Node -> NodeSet] /\ node'[n] = e
    BY <1>1, <1>2, <1>3, <2>2
  <2>4. e.item = i /\ e.prev = NULL /\ e.next = NULL /\ 1 = size + 1 /\ tail = NULL
    BY <1>2, <1>4
  <2>5. \A k \in 1 .. size : FALSE
    BY <1>4
  <2> HIDE DEF e
  <2>6. QED
    BY ONLY <1>1, <1>4, <2>2, <2>3, <2>4, <2>5 DEF LinksIn
<1>5. CASE size # 0
  <2> DEFINE f == [item |-> i, prev |-> NULL, next |-> head]
             g == [node[head] EXCEPT !.prev = n]
  <2>1. head = ch[1] /\ head \in Node /\ head # NULL /\ head # n
    BY <1>2, <1>5
  <2>2. /\ head' = n /\ tail' = (IF tail = NULL THEN head ELSE tail) /\ size' = size + 1
        /\ live' = live \cup {n} /\ item' = NULL
    BY <1>0, <2>1 DEF Is, list_add_first, list_create_node, list
  <2>3. node' = [[node EXCEPT ![n] = f] EXCEPT ![head] = g]
    <3> DEFINE a == list_create_node(list, i)
               b == [a EXCEPT !.head = n, !.size = @ + 1]
               m == [node EXCEPT ![n] = e]
    <3>1. list.node = node /\ list.head = head
      BY DEF list
    <3>2. a = [list EXCEPT !.node[n] = e, !.live = @ \cup {n}, !.item = NULL]
      BY <1>0, Zenon DEF list_create_node
    <3>3. "node" \in DOMAIN b /\ b.node = m
      <4>1. "node" \in DOMAIN list
        BY DEF list
      <4> HIDE DEF e, a
      <4>2. "node" \in DOMAIN a /\ a.node = m
        BY ONLY <3>1, <3>2, <4>1
      <4> HIDE DEF m
      <4>3. QED
        BY ONLY <4>2
    <3>4. list_add_first(list, i)
            = [b EXCEPT !.node[n].next = head, !.node[head].prev = n,
                        !.tail = IF list.tail = NULL THEN head ELSE list.tail]
      BY <1>0, <2>1, <3>1, Zenon DEF list_add_first
    <3>5. node' = [[m EXCEPT ![n].next = head] EXCEPT ![head].prev = n]
      <4> HIDE DEF a, b, m
      <4>1. list_add_first(list, i).node = [[m EXCEPT ![n].next = head] EXCEPT ![head].prev = n]
        BY ONLY <3>3, <3>4
      <4>2. QED
        BY <4>1 DEF Is
    <3>6. [m EXCEPT ![n].next = head] = [node EXCEPT ![n] = f]
      <4>1. [e EXCEPT !.next = head] = f
        OBVIOUS
      <4> HIDE DEF e, f
      <4>2. QED
        BY ONLY <1>1, <1>2, <4>1
    <3>7. [[node EXCEPT ![n] = f] EXCEPT ![head].prev = n] = [[node EXCEPT ![n] = f] EXCEPT ![head] = g]
      <4> HIDE DEF f
      <4>1. QED
        BY ONLY <1>1, <1>2, <2>1
    <3>8. QED
      BY <3>5, <3>6, <3>7, Zenon
  <2>4. /\ f \in NodeSet /\ f.item = i /\ f.prev = NULL /\ f.next = head
        /\ g \in NodeSet /\ g.prev = n /\ g.item = node[head].item /\ g.next = node[head].next
    BY <1>1, <1>2, <2>1 DEF NodeSet
  <2> HIDE DEF f, g
  <2>5. node' \in [Node -> NodeSet] /\ node'[n] = f /\ node'[head] = g
    BY <1>1, <1>2, <2>1, <2>3, <2>4
  <2>6. \A x \in Node : x # n /\ x # head => node'[x] = node[x]
    BY <1>1, <1>2, <2>1, <2>3, <2>4
  <2>7. \A k \in 1 .. size : k # 1 => ch[k] # head /\ node'[ch[k]] = node[ch[k]]
    <3>1. ASSUME NEW k \in 1 .. size, k # 1 PROVE ch[k] # ch[1] /\ ch[k] \in Node /\ ch[k] # n
      <4>1. 1 \in 1 .. size
        BY <1>2, <1>5
      <4>2. QED
        BY ONLY <1>2, <3>1, <4>1
    <3>2. QED
      BY <2>1, <2>6, <3>1
  <2>8. tail' = IF size = 1 THEN ch[1] ELSE tail
    BY <1>2, <1>5, <2>1, <2>2
  <2>9. 1 # size + 1 /\ ~\E k \in 1 .. size : k = 1 - 1
    BY <1>2, <1>5
  <2>10. ASSUME NEW k \in 1 .. size
         PROVE  /\ node'[ch[k]].item = node[ch[k]].item
                /\ node'[ch[k]].next = node[ch[k]].next
                /\ node'[ch[k]].prev = IF k = 1 THEN n ELSE node[ch[k]].prev
    BY <2>1, <2>4, <2>5, <2>7
  <2>11. QED
    BY ONLY <1>1, <1>5, <2>1, <2>2, <2>4, <2>5, <2>8, <2>9, <2>10 DEF LinksIn
<1>6. QED
  BY <1>4, <1>5

\* list_add_last links its node in as the last.
LEMMA AddLastLinks ==
  ASSUME NEW ch, Linked(ch), Room, NEW i \in Item, Is(list_add_last(list, i))
  PROVE  \E n : LinksIn(ch, n, size + 1, i)
<1> USE ListAssumption
<1>0. PICK n : n = Fresh(list)
  OBVIOUS
<1> DEFINE e == [item |-> i, prev |-> NULL, next |-> NULL]
<1>1. n \in Node /\ n \notin live
  BY <1>0, FreshIs DEF ListInv
<1>2. /\ size \in Nat /\ \A k \in 1 .. size : ch[k] \in Node /\ ch[k] # n
      /\ \A j, k \in 1 .. size : j # k => ch[j] # ch[k]
      /\ node \in [Node -> NodeSet] /\ head = IF size = 0 THEN NULL ELSE ch[1]
      /\ tail = IF size < 2 THEN NULL ELSE ch[size]
  BY <1>1 DEF Linked
<1>3. e \in NodeSet
  BY DEF NodeSet
<1>4. CASE size = 0
  <2>1. head = NULL
    BY <1>2, <1>4
  <2>2. /\ head' = n /\ tail' = tail /\ size' = size + 1 /\ node' = [node EXCEPT ![n] = e]
        /\ live' = live \cup {n} /\ item' = NULL
    BY <1>0, <2>1 DEF Is, list_add_last, list_create_node, list
  <2>3. node' \in [Node -> NodeSet] /\ node'[n] = e
    BY <1>1, <1>2, <1>3, <2>2
  <2>4. e.item = i /\ e.prev = NULL /\ e.next = NULL /\ 1 = size + 1 /\ tail = NULL
    BY <1>2, <1>4
  <2>5. \A k \in 1 .. size : FALSE
    BY <1>4
  <2> HIDE DEF e
  <2>6. LinksIn(ch, n, size + 1, i)
    BY ONLY <1>1, <1>4, <2>2, <2>3, <2>4, <2>5 DEF LinksIn
  <2>7. QED
    BY <2>6
<1>5. CASE size # 0
  <2>1. PICK last : last = IF tail = NULL THEN head ELSE tail
    OBVIOUS
  <2>2. size \in 1 .. size /\ last = ch[size] /\ last \in Node /\ last # n /\ head # NULL
    BY <1>2, <1>5, <2>1
  <2> DEFINE g == [node[last] EXCEPT !.next = n]
             f == [item |-> i, prev |-> last, next |-> NULL]
  <2>3. head' = head /\ tail' = n /\ size' = size + 1 /\ live' = live \cup {n} /\ item' = NULL
    BY <1>0, <2>2 DEF Is, list_add_last, list_create_node, list
  <2>4. node' = [[node EXCEPT ![last] = g] EXCEPT ![n] = f]
    <3>1. node' = [[[node EXCEPT ![n] = e] EXCEPT ![last].next = n] EXCEPT ![n].prev = last]
      BY <1>0, <2>1, <2>2 DEF Is, list_add_last, list_create_node, list
    <3>2. QED
      BY <1>1, <1>2, <2>2, <3>1
  <2>5. /\ f \in NodeSet /\ f.item = i /\ f.prev = last /\ f.next = NULL
        /\ g \in NodeSet /\ g.next = n /\ g.item = node[last].item /\ g.prev = node[last].prev
    BY <1>1, <1>2, <2>2 DEF NodeSet
  <2> HIDE DEF f, g
  <2>6. node' \in [Node -> NodeSet] /\ node'[n] = f /\ node'[last] = g
    BY <1>1, <1>2, <2>2, <2>4, <2>5
  <2>7. \A x \in Node : x # n /\ x # last => node'[x] = node[x]
    BY <1>1, <1>2, <2>2, <2>4, <2>5
  <2>8. \A k \in 1 .. size : k # size => ch[k] # last /\ node'[ch[k]] = node[ch[k]]
    <3>1. ASSUME NEW k \in 1 .. size, k # size PROVE ch[k] # ch[size] /\ ch[k] \in Node /\ ch[k] # n
      BY ONLY <1>2, <2>2, <3>1
    <3>2. QED
      BY <2>2, <2>7, <3>1
  <2>9. size + 1 # 1 /\ (size + 1) - 1 = size /\ ~\E k \in 1 .. size : k = size + 1
    BY <1>2, <1>5
  <2>10. ASSUME NEW k \in 1 .. size
         PROVE  /\ node'[ch[k]].item = node[ch[k]].item
                /\ node'[ch[k]].next = IF k = size THEN n ELSE node[ch[k]].next
                /\ node'[ch[k]].prev = node[ch[k]].prev
    BY <2>2, <2>5, <2>6, <2>8
  <2>11. LinksIn(ch, n, size + 1, i)
    BY ONLY <1>1, <1>5, <2>2, <2>3, <2>5, <2>6, <2>9, <2>10 DEF LinksIn
  <2>12. QED
    BY <2>11
<1>6. QED
  BY <1>4, <1>5

\* list_insert_before links its node in between two others.
LEMMA InsertLinks ==
  ASSUME NEW ch, Linked(ch), Room, NEW i \in Item, NEW p \in Nat, p # 0, p < size,
         Is([list_insert_before(list_create_node(list, i), At(list, p), Fresh(list)) EXCEPT !.size = @ + 1])
  PROVE  \E n : LinksIn(ch, n, p + 1, i)
<1> USE ListAssumption
<1>0. PICK n : n = Fresh(list)
  OBVIOUS
<1>1. n \in Node /\ n \notin live
  BY <1>0, FreshIs DEF ListInv
<1>2. /\ size \in Nat /\ \A k \in 1 .. size : ch[k] \in Node /\ ch[k] # n
      /\ \A j, k \in 1 .. size : j # k => ch[j] # ch[k]
      /\ node \in [Node -> NodeSet]
  BY <1>1 DEF Linked
<1>3. At(list, p) = ch[p + 1]
  <2>1. list.size = size /\ list.head = head /\ list.node = node
    BY DEF list
  <2>2. Follows(head, node, size, ch)
    BY <1>2 DEF Linked, Follows
  <2>3. QED
    BY <1>2, <2>1, <2>2, AtIs
<1>4. PICK x, y : x = ch[p + 1] /\ y = ch[p]
  OBVIOUS
<1>5. /\ p \in 1 .. size /\ p + 1 \in 1 .. size /\ p + 1 # 1 /\ (p + 1) - 1 = p
      /\ p + 1 # size + 1 /\ size # 0 /\ size # 1 /\ p # p + 1
  BY <1>2
<1>6. x \in Node /\ y \in Node /\ x # y /\ x # n /\ y # n /\ node[x].prev = y
  <2>1. node[ch[p + 1]].prev = ch[(p + 1) - 1]
    BY ONLY <1>5, Linked(ch) DEF Linked
  <2>2. QED
    BY <1>2, <1>4, <1>5, <2>1
<1> DEFINE e == [item |-> i, prev |-> NULL, next |-> NULL]
           f == [item |-> i, prev |-> y, next |-> x]
           g == [node[x] EXCEPT !.prev = n]
           h == [node[y] EXCEPT !.next = n]
<1>7. /\ head' = head /\ tail' = tail /\ size' = size + 1 /\ live' = live \cup {n} /\ item' = NULL
  <2> DEFINE a == list_create_node(list, i)
             b == list_insert_before(a, At(list, p), n)
  <2>1. /\ a.head = head /\ a.tail = tail /\ a.size = size /\ a.live = live \cup {n} /\ a.item = NULL
        /\ {"head", "tail", "size", "live", "item", "node"} \subseteq DOMAIN a
    BY <1>0 DEF list_create_node, list
  <2> HIDE DEF a
  <2>2. /\ b.head = head /\ b.tail = tail /\ b.size = size /\ b.live = live \cup {n} /\ b.item = NULL
        /\ "size" \in DOMAIN b
    BY ONLY <2>1 DEF list_insert_before
  <2> HIDE DEF b
  <2>3. Is([b EXCEPT !.size = @ + 1])
    BY <1>0 DEF a, b
  <2>4. QED
    BY ONLY <2>2, <2>3 DEF Is
<1>8. node' = [[[node EXCEPT ![x] = g] EXCEPT ![y] = h] EXCEPT ![n] = f]
  <2>1. [node EXCEPT ![n] = e][x].prev = y
    BY <1>1, <1>2, <1>6
  <2>2. node' = [[[[[node EXCEPT ![n] = e] EXCEPT ![x].prev = n] EXCEPT ![y].next = n]
                     EXCEPT ![n].next = x] EXCEPT ![n].prev = y]
    BY <1>0, <1>3, <1>4, <2>1 DEF Is, list_insert_before, list_create_node, list
  <2>3. QED
    BY ONLY <1>1, <1>2, <1>6, <2>2
<1>9. /\ f \in NodeSet /\ f.item = i /\ f.prev = y /\ f.next = x
      /\ g \in NodeSet /\ g.prev = n /\ g.item = node[x].item /\ g.next = node[x].next
      /\ h \in NodeSet /\ h.next = n /\ h.item = node[y].item /\ h.prev = node[y].prev
  BY <1>1, <1>2, <1>6 DEF NodeSet
<1> HIDE DEF f, g, h
<1>10. node' \in [Node -> NodeSet] /\ node'[n] = f /\ node'[x] = g /\ node'[y] = h
  BY <1>1, <1>2, <1>6, <1>8, <1>9
<1>11. \A z \in Node : z # n /\ z # x /\ z # y => node'[z] = node[z]
  BY <1>1, <1>2, <1>6, <1>8, <1>9
<1>12. \A k \in 1 .. size : k # p /\ k # p + 1 => node'[ch[k]] = node[ch[k]]
  <2>1. ASSUME NEW k \in 1 .. size, k # p, k # p + 1
        PROVE  ch[k] # ch[p] /\ ch[k] # ch[p + 1] /\ ch[k] \in Node /\ ch[k] # n
    BY ONLY <1>2, <1>5, <2>1
  <2>2. QED
    BY <1>4, <1>11, <2>1
<1>13. ASSUME NEW k \in 1 .. size
       PROVE  /\ node'[ch[k]].item = node[ch[k]].item
              /\ node'[ch[k]].next = IF k = p THEN n ELSE node[ch[k]].next
              /\ node'[ch[k]].prev = IF k = p + 1 THEN n ELSE node[ch[k]].prev
  <2>1. CASE k = p
    BY ONLY <1>4, <1>5, <1>9, <1>10, <2>1
  <2>2. CASE k = p + 1
    BY ONLY <1>4, <1>5, <1>9, <1>10, <2>2
  <2>3. CASE k # p /\ k # p + 1
    BY ONLY <1>12, <2>3, k \in 1 .. size
  <2>4. QED
    BY <2>1, <2>2, <2>3
<1>14. LinksIn(ch, n, p + 1, i)
  BY ONLY <1>1, <1>4, <1>5, <1>7, <1>9, <1>10, <1>13 DEF LinksIn
<1>15. QED
  BY <1>14

\* list_remove_first takes the first node out, and with the next to last one the tail.
LEMMA TakeFirstLinks ==
  ASSUME NEW ch, Linked(ch), size # 0, Is(list_remove_first(list))
  PROVE  TakesOut(ch, 1)
<1> USE ListAssumption
<1>1. /\ size \in Nat /\ \A k \in 1 .. size : ch[k] \in Node
      /\ \A j, k \in 1 .. size : j # k => ch[j] # ch[k]
      /\ node \in [Node -> NodeSet] /\ head = ch[1]
      /\ tail = IF size < 2 THEN NULL ELSE ch[size]
  BY DEF Linked
<1>2. 1 \in 1 .. size /\ head \in Node /\ head # NULL /\ 1 + 1 = 2
  BY <1>1
<1>3. PICK x : x = node[head].next
  OBVIOUS
<1>4. x = IF 1 = size THEN NULL ELSE ch[2]
  BY ONLY <1>1, <1>2, <1>3, Linked(ch) DEF Linked
<1>5. ~\E k \in 1 .. size : k = 1 - 1
  OBVIOUS
<1>6. CASE size = 1
  <2>1. x = NULL /\ size - 1 <= 1 /\ size - 1 < 2
    BY <1>4, <1>6
  <2>2. /\ head' = x /\ size' = size - 1 /\ node' = node
        /\ live' = live \ {head} /\ item' = node[head].item
    BY <1>2, <1>3, <2>1 DEF Is, list_remove_first, ClearTail, os_free, list
  <2>3. tail' = NULL
    BY <1>2, <1>3, <2>1 DEF Is, list_remove_first, ClearTail, os_free, list
  <2>4. \A k \in 1 .. size : k # 1 => FALSE
    BY <1>6
  <2>5. QED
    BY ONLY <1>1, <1>3, <2>1, <2>2, <2>3, <2>4 DEF TakesOut
<1>7. CASE size # 1
  <2>1. x = ch[2] /\ 2 \in 1 .. size /\ x \in Node /\ x # NULL /\ x # head /\ size \in Nat
    BY <1>1, <1>2, <1>4, <1>7
  <2> DEFINE g == [node[x] EXCEPT !.prev = NULL]
  <2>2. /\ head' = x /\ size' = size - 1 /\ node' = [node EXCEPT ![x] = g]
        /\ live' = live \ {head} /\ item' = node[head].item
    BY <1>2, <1>3, <2>1 DEF Is, list_remove_first, ClearTail, os_free, list
  <2>3. tail' = IF size - 1 <= 1 THEN NULL ELSE tail
    BY <1>2, <1>3, <2>1 DEF Is, list_remove_first, ClearTail, os_free, list
  <2>4. g \in NodeSet /\ g.prev = NULL /\ g.item = node[x].item /\ g.next = node[x].next
    BY <1>1, <2>1 DEF NodeSet
  <2> HIDE DEF g
  <2>5. node' \in [Node -> NodeSet] /\ node'[x] = g /\ \A z \in Node : z # x => node'[z] = node[z]
    BY <1>1, <2>1, <2>2, <2>4
  <2>6. \A k \in 1 .. size : k # 2 => node'[ch[k]] = node[ch[k]]
    <3>1. ASSUME NEW k \in 1 .. size, k # 2 PROVE ch[k] # ch[2] /\ ch[k] \in Node
      BY ONLY <1>1, <2>1, <3>1
    <3>2. QED
      BY <2>1, <2>5, <3>1
  <2>7. node[ch[1]].prev = NULL
    BY ONLY <1>2, Linked(ch) DEF Linked
  <2>8. ASSUME NEW k \in 1 .. size
        PROVE  /\ node'[ch[k]].item = node[ch[k]].item
               /\ node'[ch[k]].next = node[ch[k]].next
               /\ node'[ch[k]].prev = IF k = 1 + 1 THEN node[ch[1]].prev ELSE node[ch[k]].prev
    <3>1. CASE k = 2
      BY ONLY <1>2, <2>1, <2>4, <2>5, <2>7, <3>1
    <3>2. CASE k # 2
      BY ONLY <1>2, <2>6, <3>2, k \in 1 .. size
    <3>3. QED
      BY <3>1, <3>2
  <2>9. tail' = IF size - 1 < 2 THEN NULL ELSE tail
    BY ONLY <2>1, <2>3
  <2>10. QED
    BY ONLY <1>1, <1>3, <1>5, <1>7, <2>2, <2>5, <2>8, <2>9 DEF TakesOut
<1>8. QED
  BY <1>6, <1>7

\* list_remove_last takes the last node out.
LEMMA TakeLastLinks ==
  ASSUME NEW ch, Linked(ch), size # 0, Is(list_remove_last(list))
  PROVE  TakesOut(ch, size)
<1> USE ListAssumption
<1>1. /\ size \in Nat /\ \A k \in 1 .. size : ch[k] \in Node
      /\ \A j, k \in 1 .. size : j # k => ch[j] # ch[k]
      /\ node \in [Node -> NodeSet] /\ head = ch[1]
      /\ tail = IF size < 2 THEN NULL ELSE ch[size]
  BY DEF Linked
<1>2. CASE size = 1
  <2>1. list_remove_last(list) = list_remove_first(list)
    BY <1>2 DEF list_remove_last, list
  <2>2. TakesOut(ch, 1)
    BY <2>1, TakeFirstLinks
  <2>3. QED
    BY <1>2, <2>2
<1>3. CASE size # 1
  <2>1. /\ size \in 1 .. size /\ size - 1 \in 1 .. size /\ size # 1 /\ size # 0 /\ size >= 2
        /\ (size - 1) + 1 = size /\ size - 1 # size /\ tail = ch[size] /\ tail \in Node
    BY <1>1, <1>3
  <2>2. PICK y : y = node[tail].prev
    OBVIOUS
  <2>3. y = ch[size - 1] /\ node[tail].next = NULL
    BY ONLY <2>1, <2>2, Linked(ch) DEF Linked
  <2>4. y \in Node /\ y # tail
    BY ONLY <1>1, <2>1, <2>3
  <2> DEFINE g == [node[y] EXCEPT !.next = NULL]
  <2>5. /\ head' = head /\ size' = size - 1 /\ node' = [node EXCEPT ![y] = g]
        /\ live' = live \ {tail} /\ item' = node[tail].item
    BY <1>3, <2>1, <2>2 DEF Is, list_remove_last, ClearTail, os_free, list
  <2>6. tail' = IF size - 1 <= 1 THEN NULL ELSE y
    BY <1>3, <2>1, <2>2 DEF Is, list_remove_last, ClearTail, os_free, list
  <2>7. g \in NodeSet /\ g.next = NULL /\ g.item = node[y].item /\ g.prev = node[y].prev
    BY <1>1, <2>4 DEF NodeSet
  <2> HIDE DEF g
  <2>8. node' \in [Node -> NodeSet] /\ node'[y] = g /\ \A z \in Node : z # y => node'[z] = node[z]
    BY <1>1, <2>4, <2>5, <2>7
  <2>9. \A k \in 1 .. size : k # size - 1 => node'[ch[k]] = node[ch[k]]
    <3>1. ASSUME NEW k \in 1 .. size, k # size - 1 PROVE ch[k] # ch[size - 1] /\ ch[k] \in Node
      BY ONLY <1>1, <2>1, <3>1
    <3>2. QED
      BY <2>3, <2>8, <3>1
  <2>10. ASSUME NEW k \in 1 .. size
         PROVE  /\ node'[ch[k]].item = node[ch[k]].item
                /\ node'[ch[k]].next = IF k = size - 1 THEN node[ch[size]].next ELSE node[ch[k]].next
                /\ node'[ch[k]].prev = node[ch[k]].prev
    <3>1. CASE k = size - 1
      BY ONLY <2>1, <2>3, <2>7, <2>8, <3>1
    <3>2. CASE k # size - 1
      BY ONLY <2>9, <3>2, k \in 1 .. size
    <3>3. QED
      BY <3>1, <3>2
  <2>11. tail' = IF size - 1 < 2 THEN NULL ELSE ch[size - 1]
    BY ONLY <1>1, <2>3, <2>6
  <2>12. ~\E k \in 1 .. size : k = size + 1
    BY ONLY <1>1
  <2>13. QED
    BY ONLY <2>1, <2>5, <2>8, <2>10, <2>11, <2>12 DEF TakesOut
<1>4. QED
  BY <1>2, <1>3

\* list_remove takes a node between two others out.
LEMMA TakeMiddleLinks ==
  ASSUME NEW ch, Linked(ch), NEW p \in Nat, p # 0, p + 1 < size, Is(list_remove(list, p))
  PROVE  TakesOut(ch, p + 1)
<1> USE ListAssumption
<1>1. /\ size \in Nat /\ \A k \in 1 .. size : ch[k] \in Node
      /\ \A j, k \in 1 .. size : j # k => ch[j] # ch[k]
      /\ node \in [Node -> NodeSet]
  BY DEF Linked
<1>2. /\ p \in 1 .. size /\ p + 1 \in 1 .. size /\ p + 2 \in 1 .. size /\ p + 1 # 1 /\ (p + 1) - 1 = p
      /\ (p + 1) + 1 = p + 2 /\ p + 1 # size /\ size # 0 /\ p # p + 1 /\ p # p + 2 /\ p + 1 # p + 2
      /\ ~(p >= size) /\ ~(size - 1 < 2)
  BY <1>1
<1>3. At(list, p) = ch[p + 1]
  <2>1. list.size = size /\ list.head = head /\ list.node = node
    BY DEF list
  <2>2. Follows(head, node, size, ch)
    BY <1>1 DEF Linked, Follows
  <2>3. QED
    BY <1>1, <1>2, <2>1, <2>2, AtIs
<1>4. PICK n, x, y : n = ch[p + 1] /\ x = node[n].next /\ y = node[n].prev
  OBVIOUS
<1>5. x = ch[p + 2] /\ y = ch[p]
  BY ONLY <1>2, <1>4, Linked(ch) DEF Linked
<1>6. x \in Node /\ y \in Node /\ n \in Node /\ x # y /\ x # n /\ y # n
  BY ONLY <1>1, <1>2, <1>4, <1>5
<1> DEFINE g == [node[y] EXCEPT !.next = x]
           h == [node[x] EXCEPT !.prev = y]
<1>7. /\ head' = head /\ tail' = tail /\ size' = size - 1 /\ live' = live \ {n} /\ item' = node[n].item
  BY <1>2, <1>3, <1>4 DEF Is, list_remove, os_free, list
<1>8. node' = [[node EXCEPT ![y] = g] EXCEPT ![x] = h]
  <2>1. node' = [[node EXCEPT ![y].next = x] EXCEPT ![x].prev = y]
    BY <1>2, <1>3, <1>4 DEF Is, list_remove, os_free, list
  <2>2. QED
    BY <1>1, <1>6, <2>1
<1>9. /\ g \in NodeSet /\ g.next = x /\ g.item = node[y].item /\ g.prev = node[y].prev
      /\ h \in NodeSet /\ h.prev = y /\ h.item = node[x].item /\ h.next = node[x].next
  BY <1>1, <1>6 DEF NodeSet
<1> HIDE DEF g, h
<1>10. /\ node' \in [Node -> NodeSet] /\ node'[y] = g /\ node'[x] = h
       /\ \A z \in Node : z # x /\ z # y => node'[z] = node[z]
  BY <1>1, <1>6, <1>8, <1>9
<1>11. \A k \in 1 .. size : k # p /\ k # p + 2 => node'[ch[k]] = node[ch[k]]
  <2>1. ASSUME NEW k \in 1 .. size, k # p, k # p + 2
        PROVE  ch[k] # ch[p] /\ ch[k] # ch[p + 2] /\ ch[k] \in Node
    BY ONLY <1>1, <1>2, <2>1
  <2>2. QED
    BY <1>5, <1>10, <2>1
<1>12. ASSUME NEW k \in 1 .. size
       PROVE  /\ node'[ch[k]].item = node[ch[k]].item
              /\ node'[ch[k]].next = IF k = p THEN x ELSE node[ch[k]].next
              /\ node'[ch[k]].prev = IF k = p + 2 THEN y ELSE node[ch[k]].prev
  <2>1. CASE k = p
    BY ONLY <1>2, <1>5, <1>9, <1>10, <2>1
  <2>2. CASE k = p + 2
    BY ONLY <1>2, <1>5, <1>9, <1>10, <2>2
  <2>3. CASE k # p /\ k # p + 2
    BY ONLY <1>11, <2>3, k \in 1 .. size
  <2>4. QED
    BY <2>1, <2>2, <2>3
<1>13. QED
  BY ONLY <1>2, <1>4, <1>7, <1>10, <1>12 DEF TakesOut

-----------------------------------------------------------------------------
(* The sequence                                                            *)

\* The sequence the list stands for: the refinement mapping of ImplementsSequence.
Items == [k \in 1 .. size |-> node[Chain[k]].item]

\* The items of the row, in this state
LEMMA ItemsAre ==
  ASSUME NEW ch, Linked(ch)
  PROVE  /\ Items \in Seq(Item) /\ Len(Items) = size /\ size \in Nat
         /\ \A k \in 1 .. size : Items[k] = node[ch[k]].item
<1>1. Chain = ch
  BY ChainIs
<1>2. size \in Nat /\ \A k \in 1 .. size : node[ch[k]].item \in Item
  BY DEF Linked
<1>3. Items = [k \in 1 .. size |-> node[ch[k]].item]
  BY <1>1 DEF Items
<1>4. QED
  BY <1>2, <1>3

\* and in the next.
LEMMA ItemsAreNext ==
  ASSUME NEW ch, Linked(ch)'
  PROVE  /\ Items' \in Seq(Item) /\ Len(Items') = size' /\ size' \in Nat
         /\ \A k \in 1 .. size' : Items'[k] = node'[ch[k]].item
<1>1. Chain' = ch
  BY ChainIsNext
<1>2. size' \in Nat /\ \A k \in 1 .. size' : node'[ch[k]].item \in Item
  BY DEF Linked
<1>3. Items' = [k \in 1 .. size' |-> node'[ch[k]].item]
  BY <1>1 DEF Items
<1>4. QED
  BY <1>2, <1>3

\* Sequences of one length that agree everywhere are equal.
LEMMA SameSeq ==
  ASSUME NEW S, NEW s \in Seq(S), NEW t \in Seq(S), Len(s) = Len(t),
         \A k \in 1 .. Len(s) : s[k] = t[k]
  PROVE  s = t
OBVIOUS

\* Linking in is InsertAt on the items.
LEMMA LinkInItems ==
  ASSUME NEW ch, Linked(ch), NEW n, NEW p \in 1 .. size + 1, NEW i \in Item, LinksIn(ch, n, p, i)
  PROVE  ListInv' /\ Items' = InsertAt(Items, p, i) /\ item' = NULL
<1>1. PICK nc : Linked(nc)' /\ WithItem(nc, ch, p, i)
  BY LinkIn
<1>2. /\ Items \in Seq(Item) /\ Len(Items) = size /\ size \in Nat
      /\ \A k \in 1 .. size : Items[k] = node[ch[k]].item
  BY ItemsAre
<1>3. /\ Items' \in Seq(Item) /\ Len(Items') = size'
      /\ \A k \in 1 .. size' : Items'[k] = node'[nc[k]].item
  BY <1>1, ItemsAreNext
<1>4. size' = size + 1 /\ item' = NULL
  BY DEF LinksIn
<1>5. p \in 1 .. Len(Items) + 1
  BY <1>2
<1>6. InsertAt(Items, p, i) \in Seq(Item) /\ IsInserted(InsertAt(Items, p, i), Items, p, i)
  BY <1>2, <1>5, InsertedAt
<1>7. ASSUME NEW k \in 1 .. size + 1 PROVE Items'[k] = InsertAt(Items, p, i)[k]
  <2>1. InsertAt(Items, p, i)[k] = IF k < p THEN Items[k] ELSE IF k = p THEN i ELSE Items[k - 1]
    BY <1>2, <1>6 DEF IsInserted
  <2>2. Items'[k] = IF k < p THEN node[ch[k]].item ELSE IF k = p THEN i ELSE node[ch[k - 1]].item
    BY <1>1, <1>3, <1>4 DEF WithItem
  <2>3. /\ k < p => k \in 1 .. size
        /\ ~(k < p) /\ k # p => k - 1 \in 1 .. size
    BY <1>2
  <2>4. QED
    BY ONLY <1>2, <2>1, <2>2, <2>3
<1>8. Len(InsertAt(Items, p, i)) = size + 1
  BY <1>2, <1>6 DEF IsInserted
<1>9. Items' = InsertAt(Items, p, i)
  BY <1>3, <1>4, <1>6, <1>7, <1>8, SameSeq
<1>10. QED
  BY <1>1, <1>4, <1>9 DEF ListInv

\* Taking out is RemoveAt on the items, and returns the item.
LEMMA TakeOutItems ==
  ASSUME NEW ch, Linked(ch), NEW p \in 1 .. size, TakesOut(ch, p)
  PROVE  ListInv' /\ Items' = RemoveAt(Items, p) /\ item' = Items[p]
<1>1. PICK nc : Linked(nc)' /\ WithoutItem(nc, ch, p)
  BY TakeOut
<1>2. /\ Items \in Seq(Item) /\ Len(Items) = size /\ size \in Nat
      /\ \A k \in 1 .. size : Items[k] = node[ch[k]].item
  BY ItemsAre
<1>3. /\ Items' \in Seq(Item) /\ Len(Items') = size'
      /\ \A k \in 1 .. size' : Items'[k] = node'[nc[k]].item
  BY <1>1, ItemsAreNext
<1>4. size' = size - 1 /\ item' = node[ch[p]].item
  BY DEF TakesOut
<1>5. p \in 1 .. Len(Items)
  BY <1>2
<1>6. RemoveAt(Items, p) \in Seq(Item) /\ IsRemoved(RemoveAt(Items, p), Items, p)
  BY <1>2, <1>5, RemovedAt
<1>7. ASSUME NEW k \in 1 .. size - 1 PROVE Items'[k] = RemoveAt(Items, p)[k]
  <2>1. RemoveAt(Items, p)[k] = IF k < p THEN Items[k] ELSE Items[k + 1]
    BY <1>2, <1>6 DEF IsRemoved
  <2>2. Items'[k] = IF k < p THEN node[ch[k]].item ELSE node[ch[k + 1]].item
    BY <1>1, <1>3, <1>4 DEF WithoutItem
  <2>3. k \in 1 .. size /\ k + 1 \in 1 .. size
    BY <1>2
  <2>4. QED
    BY ONLY <1>2, <2>1, <2>2, <2>3
<1>8. Len(RemoveAt(Items, p)) = size - 1
  BY <1>2, <1>6 DEF IsRemoved
<1>9. Items' = RemoveAt(Items, p)
  BY <1>3, <1>4, <1>6, <1>7, <1>8, SameSeq
<1>10. QED
  BY <1>1, <1>2, <1>4, <1>9 DEF ListInv

\* An operation that changes nothing but what it returns.
LEMMA SameList ==
  ASSUME ListInv, head' = head, tail' = tail, size' = size, node' = node, live' = live
  PROVE  ListInv' /\ Items' = Items
<1>1. PICK ch : Linked(ch)
  BY DEF ListInv
<1>2. Linked(ch)'
  BY <1>1 DEF Linked
<1>3. Chain' = ch /\ Chain = ch
  BY <1>1, <1>2, ChainIs, ChainIsNext
<1>4. QED
  BY <1>2, <1>3 DEF ListInv, Items

\* list_add, wherever it puts the item.
LEMMA AddIs ==
  ASSUME ListInv, Room, NEW i \in Item, NEW p \in Nat, Is(list_add(list, i, p))
  PROVE  /\ ListInv' /\ item' = NULL
         /\ Items' = IF p > Len(Items) THEN Items ELSE InsertAt(Items, p + 1, i)
<1>1. PICK ch : Linked(ch)
  BY DEF ListInv
<1>2. Len(Items) = size /\ size \in Nat /\ list.size = size
  BY <1>1, ItemsAre DEF list
<1>3. CASE p > size
  <2>1. Is([list EXCEPT !.item = NULL])
    BY <1>2, <1>3 DEF list_add
  <2>2. head' = head /\ tail' = tail /\ size' = size /\ node' = node /\ live' = live /\ item' = NULL
    BY <2>1 DEF Is, list
  <2>3. QED
    BY <1>2, <1>3, <2>2, SameList
<1>4. CASE ~(p > size)
  <2>0. p + 1 \in 1 .. size + 1
    BY <1>2, <1>4
  <2>1. \E n : LinksIn(ch, n, p + 1, i)
    <3>1. CASE p = 0
      <4>1. Is(list_add_first(list, i)) /\ p + 1 = 1
        BY <1>2, <1>4, <3>1 DEF list_add
      <4>2. QED
        BY <1>1, <4>1, AddFirstLinks
    <3>2. CASE p # 0 /\ p = size
      <4>1. Is(list_add_last(list, i)) /\ p + 1 = size + 1
        BY <1>2, <1>4, <3>2 DEF list_add
      <4>2. QED
        BY <1>1, <4>1, AddLastLinks
    <3>3. CASE p # 0 /\ p # size
      <4>1. Is([list_insert_before(list_create_node(list, i), At(list, p), Fresh(list)) EXCEPT !.size = @ + 1])
        BY <1>2, <1>4, <3>3 DEF list_add
      <4>2. p < size
        BY <1>2, <1>4, <3>3
      <4>3. QED
        BY <1>1, <3>3, <4>1, <4>2, InsertLinks
    <3>4. QED
      BY <3>1, <3>2, <3>3
  <2>2. PICK n : LinksIn(ch, n, p + 1, i)
    BY <2>1
  <2>3. ListInv' /\ Items' = InsertAt(Items, p + 1, i) /\ item' = NULL
    BY <1>1, <2>0, <2>2, LinkInItems
  <2>4. QED
    BY <1>2, <1>4, <2>3
<1>5. QED
  BY <1>3, <1>4

\* list_remove, wherever it takes the item.
LEMMA TakeIs ==
  ASSUME ListInv, NEW p \in Nat, Is(list_remove(list, p))
  PROVE  /\ ListInv'
         /\ IF p < Len(Items) THEN Items' = RemoveAt(Items, p + 1) /\ item' = Items[p + 1]
                              ELSE Items' = Items /\ item' = NULL
<1>1. PICK ch : Linked(ch)
  BY DEF ListInv
<1>2. Len(Items) = size /\ size \in Nat /\ list.size = size
  BY <1>1, ItemsAre DEF list
<1>3. CASE p >= size
  <2>1. Is([list EXCEPT !.item = NULL])
    BY <1>2, <1>3 DEF list_remove
  <2>2. head' = head /\ tail' = tail /\ size' = size /\ node' = node /\ live' = live /\ item' = NULL
    BY <2>1 DEF Is, list
  <2>3. QED
    BY <1>2, <1>3, <2>2, SameList
<1>4. CASE ~(p >= size)
  <2>0. p + 1 \in 1 .. size /\ size # 0
    BY <1>2, <1>4
  <2>1. TakesOut(ch, p + 1)
    <3>1. CASE p = 0
      <4>1. Is(list_remove_first(list)) /\ p + 1 = 1
        BY <1>2, <1>4, <2>0, <3>1 DEF list_remove
      <4>2. TakesOut(ch, 1)
        BY <1>1, <2>0, <4>1, TakeFirstLinks
      <4>3. QED
        BY <4>1, <4>2
    <3>2. CASE p # 0 /\ p + 1 = size
      <4>1. Is(list_remove_last(list))
        BY <1>2, <1>4, <2>0, <3>2 DEF list_remove
      <4>2. TakesOut(ch, size)
        BY <1>1, <2>0, <4>1, TakeLastLinks
      <4>3. QED
        BY <3>2, <4>2
    <3>3. CASE p # 0 /\ p + 1 # size
      <4>1. p + 1 < size
        BY <1>2, <1>4, <3>3
      <4>2. QED
        BY <1>1, <3>3, <4>1, TakeMiddleLinks
    <3>4. QED
      BY <3>1, <3>2, <3>3
  <2>2. ListInv' /\ Items' = RemoveAt(Items, p + 1) /\ item' = Items[p + 1]
    BY <1>1, <2>0, <2>1, TakeOutItems
  <2>3. QED
    BY <1>2, <1>4, <2>2
<1>5. QED
  BY <1>3, <1>4

\* list_get, wherever the item is.
LEMMA GetIs ==
  ASSUME ListInv, NEW p \in Nat
  PROVE  list_get(list, p) = IF p < Len(Items) THEN Items[p + 1] ELSE NULL
<1>1. PICK ch : Linked(ch)
  BY DEF ListInv
<1>2. /\ Len(Items) = size /\ size \in Nat
      /\ list.size = size /\ list.head = head /\ list.node = node /\ list.tail = tail
      /\ \A k \in 1 .. size : Items[k] = node[ch[k]].item
  BY <1>1, ItemsAre DEF list
<1>3. CASE p >= size
  BY <1>2, <1>3 DEF list_get
<1>4. CASE ~(p >= size)
  <2>0. p + 1 \in 1 .. size /\ size # 0 /\ p < Len(Items) /\ Items[p + 1] = node[ch[p + 1]].item
    BY <1>2, <1>4
  <2>1. head = ch[1] /\ (size # 1 => tail = ch[size])
    BY <1>1, <1>2, <2>0 DEF Linked
  <2>2. CASE p = 0
    <3>1. list_get(list, p) = node[head].item /\ p + 1 = 1
      BY <1>2, <1>4, <2>0, <2>2 DEF list_get, list_get_first
    <3>2. QED
      BY <2>0, <2>1, <3>1
  <2>3. CASE p # 0 /\ p + 1 = size
    <3>1. size # 1
      BY <1>2, <2>3
    <3>2. list_get(list, p) = node[tail].item
      BY <1>2, <1>4, <2>0, <2>3, <3>1 DEF list_get, list_get_last
    <3>3. QED
      BY <2>0, <2>1, <2>3, <3>1, <3>2
  <2>4. CASE p # 0 /\ p + 1 # size
    <3>1. list_get(list, p) = node[At(list, p)].item
      BY <1>2, <1>4, <2>0, <2>4 DEF list_get
    <3>2. Follows(head, node, size, ch)
      BY <1>1, <1>2 DEF Linked, Follows
    <3>3. At(list, p) = ch[p + 1]
      BY <1>2, <1>4, <3>2, AtIs
    <3>4. QED
      BY <2>0, <3>1, <3>3
  <2>5. QED
    BY <2>2, <2>3, <2>4
<1>5. QED
  BY <1>3, <1>4

-----------------------------------------------------------------------------
(* The refinement                                                          *)

\* What an operation of ItemSeq does to the items.
Added(p, i) == item' = NULL /\ Items' = IF p > Len(Items) THEN Items ELSE InsertAt(Items, p + 1, i)
Taken(p) == IF p < Len(Items) THEN Items' = RemoveAt(Items, p + 1) /\ item' = Items[p + 1]
                              ELSE Items' = Items /\ item' = NULL
Got(p) == Items' = Items /\ item' = IF p < Len(Items) THEN Items[p + 1] ELSE NULL

\* An operation that does this to the items is a step of ItemSeq.
LEMMA Steps ==
  ASSUME NEW p \in 0 .. Len(Items) + 1
  PROVE  /\ \A i \in Item : Added(p, i) /\ call' = <<"add", p, i>> => Sequence!Next
         /\ Taken(p) /\ call' = <<"take", p, NULL>> => Sequence!Next
         /\ Got(p) /\ call' = <<"get", p, NULL>> => Sequence!Next
<1>a. \A s, k, x : Sequence!InsertAt(s, k, x) = InsertAt(s, k, x)
  BY DEF InsertAt, Sequence!InsertAt
<1>b. \A s, k : Sequence!RemoveAt(s, k) = RemoveAt(s, k)
  BY DEF RemoveAt, Sequence!RemoveAt
<1>1. ASSUME NEW i \in Item, Added(p, i), call' = <<"add", p, i>> PROVE Sequence!Add(p, i)
  BY <1>a, <1>1 DEF Sequence!Add, Added, Items
<1>2. ASSUME Taken(p), call' = <<"take", p, NULL>> PROVE Sequence!Take(p)
  BY <1>b, <1>2 DEF Sequence!Take, Taken, Items
<1>3. ASSUME Got(p), call' = <<"get", p, NULL>> PROVE Sequence!Get(p)
  BY <1>3 DEF Sequence!Get, Got, Items
<1>4. QED
  BY <1>1, <1>2, <1>3 DEF Sequence!Next, Items

\* An action of LinkedList stores the list its operation made.
LEMMA Becoming ==
  ASSUME NEW l, NEW op, NEW p, NEW i, Becomes(l, op, p, i)
  PROVE  Is(l) /\ call' = <<op, p, i>>
BY DEF Becomes, Is

\* The actions that add,
LEMMA AddSteps ==
  ASSUME ListInv, AddItem \/ AddFirst \/ AddLast
  PROVE  ListInv' /\ Sequence!Next
<1>0. PICK ch : Linked(ch)
  BY DEF ListInv
<1>1. /\ Len(Items) = size /\ size \in Nat /\ 0 \in 0 .. Len(Items) + 1 /\ size \in 0 .. Len(Items) + 1
      /\ list.size = size
  BY <1>0, ItemsAre DEF list
<1>2. Room
  BY DEF AddItem, AddFirst, AddLast
<1>3. CASE AddItem
  <2>1. PICK i \in Item, p \in Positions : Becomes(list_add(list, i, p), "add", p, i)
    BY <1>3 DEF AddItem
  <2>2. p \in Nat /\ p \in 0 .. Len(Items) + 1
    BY <1>1 DEF Positions
  <2>3. Is(list_add(list, i, p)) /\ call' = <<"add", p, i>>
    BY <2>1, Becoming
  <2>4. ListInv' /\ Added(p, i)
    BY <1>2, <2>2, <2>3, AddIs DEF Added
  <2>5. QED
    BY <2>2, <2>3, <2>4, Steps
<1>4. CASE AddFirst
  <2>1. PICK i \in Item : Becomes(list_add_first(list, i), "add", 0, i)
    BY <1>4 DEF AddFirst
  <2>2. Is(list_add_first(list, i)) /\ call' = <<"add", 0, i>>
    BY <2>1, Becoming
  <2>3. PICK n : LinksIn(ch, n, 1, i)
    BY <1>0, <1>2, <2>2, AddFirstLinks
  <2>4. ListInv' /\ Items' = InsertAt(Items, 1, i) /\ item' = NULL
    BY <1>0, <1>1, <2>3, LinkInItems
  <2>5. ~(0 > Len(Items)) /\ 0 + 1 = 1
    BY <1>1
  <2>6. Added(0, i)
    BY <2>4, <2>5 DEF Added
  <2>7. QED
    BY <1>1, <2>2, <2>4, <2>6, Steps
<1>5. CASE AddLast
  <2>1. PICK i \in Item : Becomes(list_add_last(list, i), "add", size, i)
    BY <1>5 DEF AddLast
  <2>2. Is(list_add_last(list, i)) /\ call' = <<"add", size, i>>
    BY <2>1, Becoming
  <2>3. PICK n : LinksIn(ch, n, size + 1, i)
    BY <1>0, <1>2, <2>2, AddLastLinks
  <2>4. ListInv' /\ Items' = InsertAt(Items, size + 1, i) /\ item' = NULL
    <3>1. size + 1 \in 1 .. size + 1
      BY <1>1
    <3>2. QED
      BY <1>0, <2>3, <3>1, LinkInItems
  <2>5. ~(size > Len(Items))
    BY <1>1
  <2>6. Added(size, i)
    BY <2>4, <2>5 DEF Added
  <2>7. QED
    BY <1>1, <2>2, <2>4, <2>6, Steps
<1>6. QED
  BY <1>3, <1>4, <1>5

\* that take
LEMMA TakeSteps ==
  ASSUME ListInv, TakeItem \/ TakeFirst \/ TakeLast
  PROVE  ListInv' /\ Sequence!Next
<1>0. PICK ch : Linked(ch)
  BY DEF ListInv
<1>1. /\ Len(Items) = size /\ size \in Nat /\ 0 \in 0 .. Len(Items) + 1 /\ Last0 \in 0 .. Len(Items) + 1
      /\ list.size = size /\ list.head = head
  BY <1>0, ItemsAre DEF list, Last0
<1>2. ASSUME Is([list EXCEPT !.item = NULL]), size = 0
      PROVE  ListInv' /\ Taken(0)
  <2>1. head' = head /\ tail' = tail /\ size' = size /\ node' = node /\ live' = live /\ item' = NULL
    BY <1>2 DEF Is, list
  <2>2. ListInv' /\ Items' = Items
    BY <2>1, SameList
  <2>3. ~(0 < Len(Items))
    BY <1>1, <1>2
  <2>4. QED
    BY <2>1, <2>2, <2>3 DEF Taken
<1>3. CASE TakeItem
  <2>1. PICK p \in Positions : Becomes(list_remove(list, p), "take", p, NULL)
    BY <1>3 DEF TakeItem
  <2>2. p \in Nat /\ p \in 0 .. Len(Items) + 1
    BY <1>1 DEF Positions
  <2>3. Is(list_remove(list, p)) /\ call' = <<"take", p, NULL>>
    BY <2>1, Becoming
  <2>4. ListInv' /\ Taken(p)
    BY <2>2, <2>3, TakeIs DEF Taken
  <2>5. QED
    BY <2>2, <2>3, <2>4, Steps
<1>4. CASE TakeFirst
  <2>1. Is(list_remove_first(list)) /\ call' = <<"take", 0, NULL>>
    BY <1>4, Becoming DEF TakeFirst
  <2>2. ListInv' /\ Taken(0)
    <3>1. CASE size = 0
      <4>1. head = NULL
        BY <1>0, <3>1 DEF Linked
      <4>2. Is([list EXCEPT !.item = NULL])
        BY <1>1, <2>1, <4>1 DEF list_remove_first
      <4>3. QED
        BY <1>2, <3>1, <4>2
    <3>2. CASE size # 0
      <4>1. 1 \in 1 .. size /\ 0 < Len(Items) /\ 0 + 1 = 1
        BY <1>1, <3>2
      <4>2. TakesOut(ch, 1)
        BY <1>0, <2>1, <3>2, TakeFirstLinks
      <4>3. ListInv' /\ Items' = RemoveAt(Items, 1) /\ item' = Items[1]
        BY <1>0, <4>1, <4>2, TakeOutItems
      <4>4. QED
        BY <4>1, <4>3 DEF Taken
    <3>3. QED
      BY <3>1, <3>2
  <2>3. QED
    BY <1>1, <2>1, <2>2, Steps
<1>5. CASE TakeLast
  <2>1. Is(list_remove_last(list)) /\ call' = <<"take", Last0, NULL>>
    BY <1>5, Becoming DEF TakeLast
  <2>2. ListInv' /\ Taken(Last0)
    <3>1. CASE size = 0
      <4>1. Is([list EXCEPT !.item = NULL]) /\ Last0 = 0
        BY <1>1, <2>1, <3>1 DEF list_remove_last, Last0
      <4>2. QED
        BY <1>2, <3>1, <4>1
    <3>2. CASE size # 0
      <4>1. size \in 1 .. size /\ Last0 < Len(Items) /\ Last0 + 1 = size
        BY <1>1, <3>2 DEF Last0
      <4>2. TakesOut(ch, size)
        BY <1>0, <2>1, <3>2, TakeLastLinks
      <4>3. ListInv' /\ Items' = RemoveAt(Items, size) /\ item' = Items[size]
        BY <1>0, <4>1, <4>2, TakeOutItems
      <4>4. QED
        BY <4>1, <4>3 DEF Taken
    <3>3. QED
      BY <3>1, <3>2
  <2>3. QED
    BY <1>1, <2>1, <2>2, Steps
<1>6. QED
  BY <1>3, <1>4, <1>5

\* and that read keep the list linked and are steps of the sequence.
LEMMA GetSteps ==
  ASSUME ListInv, GetItem \/ GetFirst \/ GetLast
  PROVE  ListInv' /\ Sequence!Next
<1>0. PICK ch : Linked(ch)
  BY DEF ListInv
<1>1. /\ Len(Items) = size /\ size \in Nat /\ 0 \in 0 .. Len(Items) + 1 /\ Last0 \in 0 .. Len(Items) + 1
      /\ list.size = size
  BY <1>0, ItemsAre DEF list, Last0
<1>2. \E p \in 0 .. Len(Items) + 1 : Becomes([list EXCEPT !.item = list_get(list, p)], "get", p, NULL)
  <2>1. CASE GetItem
    BY <1>1, <2>1 DEF GetItem, Positions
  <2>2. CASE GetFirst
    <3>1. list_get(list, 0) = list_get_first(list)
      BY <1>1 DEF list_get, list_get_first
    <3>2. QED
      BY <1>1, <2>2, <3>1 DEF GetFirst
  <2>3. CASE GetLast
    <3>1. list_get(list, Last0) = list_get_last(list)
      BY <1>1 DEF list_get, list_get_last, list_get_first, Last0
    <3>2. QED
      BY <1>1, <2>3, <3>1 DEF GetLast
  <2>4. QED
    BY <2>1, <2>2, <2>3
<1>3. PICK p \in 0 .. Len(Items) + 1 : Becomes([list EXCEPT !.item = list_get(list, p)], "get", p, NULL)
  BY <1>2
<1>4. Is([list EXCEPT !.item = list_get(list, p)]) /\ call' = <<"get", p, NULL>>
  BY <1>3, Becoming
<1>5. /\ head' = head /\ tail' = tail /\ size' = size /\ node' = node /\ live' = live
      /\ item' = list_get(list, p)
  BY <1>4 DEF Is, list
<1>6. ListInv' /\ Items' = Items
  BY <1>5, SameList
<1>7. Got(p)
  <2>1. p \in Nat
    BY <1>1
  <2>2. QED
    BY <1>5, <1>6, <2>1, GetIs DEF Got
<1>8. QED
  BY <1>4, <1>6, <1>7, Steps

\* Every step does, or changes neither.
LEMMA ListStep ==
  ASSUME ListInv, [ListNext]_listVars
  PROVE  ListInv' /\ [Sequence!Next]_<<Items, item, call>>
<1>1. CASE ListNext
  BY <1>1, AddSteps, TakeSteps, GetSteps DEF ListNext
<1>2. CASE UNCHANGED listVars
  <2>1. head' = head /\ tail' = tail /\ size' = size /\ node' = node /\ live' = live
        /\ item' = item /\ call' = call
    BY <1>2 DEF listVars
  <2>2. ListInv' /\ Items' = Items
    BY <2>1, SameList
  <2>3. QED
    BY <2>1, <2>2
<1>3. QED
  BY <1>1, <1>2

\* The empty list is the empty sequence.
LEMMA SequenceInit == ListInit => Sequence!Init
<1> SUFFICES ASSUME ListInit PROVE Sequence!Init
  OBVIOUS
<1>1. size = 0 /\ item = NULL /\ call = <<"none", 0, NULL>>
  BY DEF ListInit
<1>2. Items = << >>
  BY <1>1 DEF Items
<1>3. QED
  BY <1>1, <1>2 DEF Sequence!Init, Items

\* Whatever the order of operations, the pointers of the list stay consistent: size
\* counts the nodes, prev is the way back, tail is the last of at least two, and the
\* allocated nodes are those of the list: none leaks, none is used after it was freed.
THEOREM ListLinked == ListSpec => []WellLinked
<1>1. ListInit => ListInv
  BY LinkedInit
<1>2. ListInv /\ [ListNext]_listVars => ListInv'
  BY ListStep
<1>3. ListInv => WellLinked
  BY LinkedWell
<1>4. QED
  BY <1>1, <1>2, <1>3, PTL DEF ListSpec

\* The pointer operations of linked_list.c implement a sequence of items: every add,
\* remove and get has the effect and the result it has on the sequence, at every
\* position, for every length of the list.
THEOREM ListImplementsSequence == ListSpec => ImplementsSequence
<1>1. ListInit => ListInv
  BY LinkedInit
<1>2. ListInv /\ [ListNext]_listVars => ListInv'
  BY ListStep
<1>3. ListInv /\ [ListNext]_listVars => [Sequence!Next]_<<Items, item, call>>
  BY ListStep
<1>4. QED
  BY <1>1, <1>2, <1>3, SequenceInit, PTL DEF ListSpec, ImplementsSequence, Sequence!Spec, Items
==============================================================================
