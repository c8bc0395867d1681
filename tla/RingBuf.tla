------------------------------- MODULE RingBuf -------------------------------
(***************************************************************************)
(* The RINGBUF library of the MQTT client (mqtt/ringbuf.c).  A ring is the *)
(* byte array p_o[0 .. size-1], a read and a write pointer into it and a   *)
(* count of the filled slots; the pointers are kept as offsets from p_o.   *)
(*                                                                         *)
(* The library's only other user-visible state is what a call returned:    *)
(* its return code and, for a Get, the byte stored through its argument.   *)
(***************************************************************************)
EXTENDS Integers, Sequences

CONSTANTS
    Byte,   \* the values a U8 can take
    Size    \* the size argument of RINGBUF_Init

ASSUME RingAssumption ==
    /\ Size \in Nat /\ Size >= 2    \* RINGBUF_Init refuses a smaller ring
    /\ 0 \in Byte                   \* QUEUE_Init allocates with os_zalloc

VARIABLES
    buf,        \* the array behind p_o
    p_r,        \* read offset
    p_w,        \* write offset
    fill_cnt,   \* number of filled slots
    c,          \* the byte the last successful RINGBUF_Get stored
    ret         \* what the last call returned

ringVars == <<buf, p_r, p_w, fill_cnt, c, ret>>

Slots == 0 .. Size - 1

\* A pointer that passes the physical boundary goes back to p_o.
Rollback(p) == IF p >= Size THEN 0 ELSE p

\* Mutant: the test is off by one.
Mut_Full == fill_cnt > Size
Full == fill_cnt >= Size

Empty == fill_cnt <= 0

\* A successful Get gives its slot back.  Mutant: the slot is not given back.
Mut_Release == fill_cnt' = fill_cnt
Release == fill_cnt' = fill_cnt - 1

RINGBUF_Init ==
    /\ buf = [i \in Slots |-> 0]
    /\ p_r = 0
    /\ p_w = 0
    /\ fill_cnt = 0
    /\ c \in Byte
    /\ ret = 0

RINGBUF_Put(b) ==
    \/ /\ Full
       /\ ret' = -1
       /\ UNCHANGED <<buf, p_r, p_w, fill_cnt, c>>
    \/ /\ ~Full
       /\ fill_cnt' = fill_cnt + 1
       /\ buf' = [buf EXCEPT ![p_w] = b]
       /\ p_w' = Rollback(p_w + 1)
       /\ ret' = 0
       /\ UNCHANGED <<p_r, c>>

RINGBUF_Get ==
    \/ /\ Empty
       /\ ret' = -1
       /\ UNCHANGED <<buf, p_r, p_w, fill_cnt, c>>
    \/ /\ ~Empty
       /\ Release
       /\ c' = buf[p_r]
       /\ p_r' = Rollback(p_r + 1)
       /\ ret' = 0
       /\ UNCHANGED <<buf, p_w>>

RingNext == RINGBUF_Get \/ \E b \in Byte : RINGBUF_Put(b)

RingSpec == RINGBUF_Init /\ [][RingNext]_ringVars

-----------------------------------------------------------------------------

\* Both pointers stay inside the array and the count inside 0..size: no call
\* of RINGBUF_Put or RINGBUF_Get writes or reads outside p_o[0 .. size-1].
RingTypeOK ==
    /\ buf \in [Slots -> Byte]
    /\ p_r \in Slots
    /\ p_w \in Slots
    /\ fill_cnt \in 0 .. Size
    /\ c \in Byte
    /\ ret \in {0, -1}

\* The three redundant pieces of state agree: the write pointer is fill_cnt
\* slots ahead of the read pointer, around the boundary.  A full and an empty
\* ring have equal pointers and differ in fill_cnt only.
PointersAgree ==
    p_w = IF p_r + fill_cnt < Size THEN p_r + fill_cnt
                                   ELSE p_r + fill_cnt - Size

\* The two together are inductive: the ranges need the roll-back, and the
\* agreement of pointers and count needs the ranges.
RingInv == RingTypeOK /\ PointersAgree

\* The offset of the i-th oldest byte of a ring whose read offset is r.
SlotOf(r, i) == IF r + i - 1 < Size THEN r + i - 1 ELSE r + i - 1 - Size

\* The bytes of the ring, oldest first.
Contents == [i \in 1 .. fill_cnt |-> buf[SlotOf(p_r, i)]]

Fifo == INSTANCE ByteFifo WITH q <- Contents

\* The ring is the FIFO of ByteFifo: bytes come out once each, in the order in
\* which they went in, and a call is refused only when it has to be.
ImplementsFifo == Fifo!Spec
=============================================================================
