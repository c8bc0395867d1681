------------------------------ MODULE ByteFifo ------------------------------
(***************************************************************************)
(* What mqtt/ringbuf.h promises its callers: a first-in first-out queue of *)
(* at most Size bytes whose Put refuses a byte when the queue is full and  *)
(* whose Get refuses when it is empty.  RingBuf implements it.             *)
(***************************************************************************)
EXTENDS Integers, Sequences

CONSTANTS
    Byte,   \* the values a U8 can take
    Size    \* the number of bytes the queue can hold

VARIABLES
    q,      \* the bytes put and not yet got, oldest first
    c,      \* the byte the last successful Get returned
    ret     \* what the last call returned: 0, or -1 for a refusal

vars == <<q, c, ret>>

Init ==
    /\ q = <<>>
    /\ c \in Byte
    /\ ret = 0

Put(b) ==
    \/ /\ Len(q) < Size
       /\ q' = Append(q, b)
       /\ ret' = 0
       /\ UNCHANGED c
    \/ /\ Len(q) = Size
       /\ ret' = -1
       /\ UNCHANGED <<q, c>>

Get ==
    \/ /\ q # <<>>
       /\ c' = Head(q)
       /\ q' = Tail(q)
       /\ ret' = 0
    \/ /\ q = <<>>
       /\ ret' = -1
       /\ UNCHANGED <<q, c>>

Next == Get \/ \E b \in Byte : Put(b)

Spec == Init /\ [][Next]_vars
=============================================================================
