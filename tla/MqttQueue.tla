------------------------------ MODULE MqttQueue ------------------------------
(***************************************************************************)
(* The outbound queue of the MQTT client (mqtt/queue.c): packets framed by *)
(* mqtt/proto.c and stored byte by byte in the ring buffer.  The ring      *)
(* buffer is taken as the queue of bytes that it implements (RingBuf,      *)
(* theorem RingImplementsFifo).                                            *)
(***************************************************************************)
EXTENDS Integers, Sequences, SequencesExt

CONSTANTS
    QUEUE_BUFFER_SIZE,  \* length of the ring buffer
    MaxLen,     \* MQTT_BUF_SIZE
    Payload     \* the packets: sequences of bytes

ASSUME QueueAssumption ==
    /\ QUEUE_BUFFER_SIZE \in Nat \ {0} /\ MaxLen \in Nat
    /\ \A p \in Payload : p \in Seq(0 .. 255) /\ Len(p) \in 1 .. MaxLen

VARIABLES
    q,      \* the bytes in the ring buffer
    out,    \* the packet QUEUE_Gets last handed out
    done    \* the last call of QUEUE_Puts, MQTT_Publish or QUEUE_Gets succeeded

queueVars == <<q, out, done>>

ESC == 125
START == 126
END == 127

\* value ^ 0x20
Xor20(b) == IF (b \div 32) % 2 = 1 THEN b - 32 ELSE b + 32

-----------------------------------------------------------------------------
\* What PROTO_AddRb writes for one byte of a packet, and for a packet.
Escape(b) == IF b \in {ESC, START, END} THEN <<ESC, Xor20(b)>> ELSE <<b>>

Frame(p) == <<START>> \o FlattenSeq([i \in DOMAIN p |-> Escape(p[i])]) \o <<END>>

\* RINGBUF_Put fails when the buffer is full.
Fits(bytes, f) == Len(bytes) + Len(f) <= QUEUE_BUFFER_SIZE

\* A frame that does not fit is written as far as there is room, and stays.
PROTO_AddRb(bytes, p) ==
    LET f == Frame(p)
    IN  IF Fits(bytes, f) THEN [q |-> bytes \o f, ret |-> Len(f)]
        ELSE [q |-> bytes \o SubSeq(f, 1, QUEUE_BUFFER_SIZE - Len(bytes)), ret |-> -1]

\* Mutant: a frame that was cut short is not forgotten at the next start marker.
Mut_OnStart(parser) == [parser EXCEPT !.isEsc = FALSE, !.isBegin = TRUE]

OnStart(parser) == [parser EXCEPT !.buf = <<>>, !.isEsc = FALSE, !.isBegin = TRUE]

PROTO_ParseByte(parser, b) ==
    CASE b = ESC   -> [parser EXCEPT !.isEsc = TRUE]
      [] b = START -> OnStart(parser)
      [] b = END   -> [parser EXCEPT !.isBegin = FALSE]
      [] OTHER ->
           IF ~parser.isBegin THEN parser
           ELSE LET v == IF parser.isEsc THEN Xor20(b) ELSE b
                IN  [parser EXCEPT !.isEsc = FALSE,
                       !.buf = IF Len(@) < MaxLen THEN Append(@, v) ELSE @]

\* PROTO_Init does not set isBegin of the parser on the stack.
PROTO_Init(isBegin) == [buf |-> <<>>, isEsc |-> FALSE, isBegin |-> isBegin]

\* Reads up to the first end marker, or everything.
PROTO_ParseRb(bytes, isBegin) ==
    LET ends == {i \in DOMAIN bytes : bytes[i] = END}
    IN  IF ends = {} THEN [q |-> <<>>, ret |-> -1, buf |-> <<>>]
        ELSE LET n == Min(ends)
             IN  [q |-> SubSeq(bytes, n + 1, Len(bytes)), ret |-> 0,
                  buf |-> FoldLeft(PROTO_ParseByte, PROTO_Init(isBegin), SubSeq(bytes, 1, n)).buf]

-----------------------------------------------------------------------------
QUEUE_Init == q = <<>> /\ out = <<>> /\ done = TRUE

\* From mqtt_tcpclient_recv, which ignores the result.
QUEUE_Puts(p) ==
    LET r == PROTO_AddRb(q, p)
    IN  q' = r.q /\ done' = (r.ret # -1) /\ UNCHANGED out

\* MQTT_Publish and MQTT_Subscribe: queue the packet, dropping the oldest packets
\* until it fits.  A round that does not end the loop drops a complete frame, so
\* there are at most as many rounds as frames, and one more.
Enqueue(bytes, p) ==
    LET rounds == 1 + Cardinality({i \in DOMAIN bytes : bytes[i] = END})
        loop[n \in 0 .. rounds] ==
            IF n = 0 THEN [q |-> bytes, ret |-> "again"]
            ELSE LET before == loop[n - 1]
                     put    == PROTO_AddRb(before.q, p)
                     got    == PROTO_ParseRb(put.q, FALSE)
                 IN  CASE before.ret # "again"               -> before
                       [] before.ret = "again" /\ put.ret # -1 -> [q |-> put.q, ret |-> "queued"]
                       [] OTHER -> [q |-> got.q, ret |-> IF got.ret = -1 THEN "error" ELSE "again"]
    IN  loop[rounds]

MQTT_Publish(p) ==
    LET r == Enqueue(q, p)
    IN  q' = r.q /\ done' = (r.ret = "queued") /\ UNCHANGED out

\* MQTT_Task: QUEUE_Gets, unless QUEUE_IsEmpty.
QUEUE_IsEmpty == Len(q) = 0

QUEUE_Gets ==
    \E isBegin \in BOOLEAN :
        LET r == PROTO_ParseRb(q, isBegin)
        IN  /\ ~QUEUE_IsEmpty
            /\ q' = r.q /\ done' = (r.ret = 0)
            /\ out' = IF r.ret = 0 THEN r.buf ELSE out

QueueNext ==
    \/ \E p \in Payload : QUEUE_Puts(p)
    \/ \E p \in Payload : MQTT_Publish(p)
    \/ QUEUE_Gets

QueueSpec == QUEUE_Init /\ [][QueueNext]_queueVars

-----------------------------------------------------------------------------
\* Every variable has its type: the ring buffer is never overfilled and what is
\* handed out is no longer than the caller's buffer.
QueueTypeOK ==
    /\ q \in Seq(0 .. 255) /\ Len(q) <= QUEUE_BUFFER_SIZE
    /\ out \in Seq(0 .. 255) /\ Len(out) <= MaxLen
    /\ done \in BOOLEAN

\* The markers delimit frames: the queue begins with a start marker, and so does
\* whatever follows an end marker.  This is why it does no harm that PROTO_Init
\* leaves isBegin of its parser unset.
Framed ==
    \A i \in DOMAIN q : (i = 1 \/ q[i - 1] = END) => q[i] = START

\* The bytes of the queue: within bounds, and nothing but frames and the
\* beginnings of frames.
QueueInv == QueueTypeOK /\ Framed

\* The packets whose frames are complete: the i-th end marker ends the frame of
\* the i-th packet.
FrameOf == [p \in Payload |-> Frame(p)]
EndsFrame(p, e) == e >= Len(FrameOf[p]) /\ SubSeq(q, e - Len(FrameOf[p]) + 1, e) = FrameOf[p]
Stored ==
    LET ends == SetToSortSeq({i \in DOMAIN q : q[i] = END}, <)
    IN  [i \in DOMAIN ends |-> CHOOSE p \in Payload : EndsFrame(p, ends[i])]

Packets == INSTANCE PacketQueue WITH packets <- Stored, ret <- done

\* The queue of bytes implements the queue of packets: although a packet that
\* does not fit leaves part of its frame in the buffer, QUEUE_Gets returns exactly
\* the packets queued with success, each once, whole, in order; MQTT_Publish drops
\* the oldest packets only, and all of them if it fails.
ImplementsPackets == Packets!Spec
=============================================================================
