----------------------------- MODULE PacketQueue -----------------------------
(***************************************************************************)
(* What the MQTT client may rely on when it queues packets to be sent: the *)
(* queue hands out whole packets, in the order they came in.               *)
(***************************************************************************)
EXTENDS Naturals, Sequences

CONSTANTS Payload       \* the packets

VARIABLES
    packets,    \* the packets in the queue
    out,        \* the packet last handed out
    ret         \* how the last operation ended: TRUE on success

Init == packets = <<>> /\ out = <<>> /\ ret = TRUE

\* A packet is taken as a whole or not at all.
Put(p) ==
    /\ \/ packets' = Append(packets, p) /\ ret' = TRUE
       \/ packets' = packets /\ ret' = FALSE
    /\ UNCHANGED out

\* To make room for a packet, older ones are dropped, the oldest first.  If that
\* does not help, nothing is left.
PutDropping(p) ==
    /\ \/ /\ \E n \in 0 .. Len(packets) :
               packets' = Append(SubSeq(packets, n + 1, Len(packets)), p)
          /\ ret' = TRUE
       \/ packets' = <<>> /\ ret' = FALSE
    /\ UNCHANGED out

Get ==
    \/ /\ packets # <<>>
       /\ out' = Head(packets) /\ packets' = Tail(packets) /\ ret' = TRUE
    \/ /\ packets = <<>>
       /\ ret' = FALSE
       /\ UNCHANGED <<packets, out>>

Next ==
    \/ \E p \in Payload : Put(p) \/ PutDropping(p)
    \/ Get

Spec == Init /\ [][Next]_<<packets, out, ret>>
=============================================================================
