---------------------------- MODULE MqttMessages ----------------------------
(***************************************************************************)
(* The MQTT codec (mqtt/mqtt_msg.c) and the two sides that use it: the     *)
(* functions that build a message in out_buffer, and mqtt_tcpclient_recv,  *)
(* which takes a TCP segment, one or more messages, apart.                 *)
(*                                                                         *)
(* Bytes are numbers.  Topics and payloads are runs of bytes whose lengths *)
(* are chosen by the model; what they say does not matter here.  `queued`  *)
(* and `delivered` are what the last call queued and handed to dataCb;     *)
(* `asked` and `segment` are what it was to say and what it was given.     *)
(***************************************************************************)
EXTENDS Integers, Sequences, FiniteSets, FiniteSetsExt, SequencesExt

CONSTANTS
    MQTT_BUF_SIZE,      \* length of in_buffer and out_buffer
    ID_BITS,            \* width of message_id, 16 in the code
    Topics, Payloads,   \* topics and payloads, as sequences of bytes
    MaxSegment,         \* bound: messages in a segment
    MaxSegments         \* bound: segments received

ASSUME MessageAssumption ==
    /\ MQTT_BUF_SIZE \in Nat /\ ID_BITS \in 2 .. 16 /\ MaxSegment \in Nat /\ MaxSegments \in Nat
    /\ \A s \in Topics \cup Payloads : \A k \in DOMAIN s : s[k] \in 0 .. 255

VARIABLES
    in_buffer,      \* the bytes of mqtt_state.in_buffer; those behind are 0
    message_id,     \* mqtt_connection.message_id
    queued, asked,  \* the packets the last call queued, and what it was to say
    delivered,      \* the (topic, payload) pairs the last call gave to dataCb
    segment,        \* the messages of the segment it took apart
    recent,         \* history: the last ids that were assigned
    segments        \* bound on ReceiveSegment

messageVars == <<in_buffer, message_id, queued, asked, delivered, segment, recent, segments>>

CONNECT == 1
PUBLISH == 3
PUBACK == 4
PUBREC == 5
PUBREL == 6
PUBCOMP == 7
SUBSCRIBE == 8
SUBACK == 9
UNSUBACK == 11
PINGREQ == 12
PINGRESP == 13

MQTT_MAX_FIXED_HEADER_SIZE == 3

-----------------------------------------------------------------------------
(* Building a message.  Its body is collected behind the room for the      *)
(* longest fixed header; a piece that does not fit makes it fail.          *)

init_message == [body |-> << >>, ok |-> TRUE]

Fail(m) == [m EXCEPT !.ok = FALSE]

AppendBytes(m, bytes) ==
    IF m.ok /\ MQTT_MAX_FIXED_HEADER_SIZE + Len(m.body) + Len(bytes) <= MQTT_BUF_SIZE
    THEN [m EXCEPT !.body = @ \o bytes] ELSE Fail(m)

TwoBytes(n) == <<n \div 256, n % 256>>
append_string(m, s) == AppendBytes(m, TwoBytes(Len(s)) \o s)

\* The id append_message_id assigns when it is given 0: the next one, but 0.
NextId(id) == IF (id + 1) % 2^ID_BITS = 0 THEN 1 ELSE (id + 1) % 2^ID_BITS
append_message_id(m, id) == AppendBytes(m, TwoBytes(id))

FirstByte(type, qos, retain) == 16 * type + 2 * qos + retain

\* The fixed header goes in front of the body: one byte of length or two.
\* A message that failed has no bytes.  Mutant: one byte up to 128.
Mut_fini_message(m, type, qos, retain) ==
    LET n == Len(m.body)
    IN  IF ~m.ok THEN << >>
        ELSE <<FirstByte(type, qos, retain)>>
             \o (IF n > 128 THEN <<128 + (n % 128), n \div 128>> ELSE <<n>>) \o m.body
fini_message(m, type, qos, retain) ==
    LET n == Len(m.body)
    IN  IF ~m.ok THEN << >>
        ELSE <<FirstByte(type, qos, retain)>>
             \o (IF n > 127 THEN <<128 + (n % 128), n \div 128>> ELSE <<n>>) \o m.body

\* CONNECT: protocol name and level, flags, keep-alive, then the strings.
ConnectHeader(user, password) ==
    <<0, 6, 77, 81, 73, 115, 100, 112, 3,
      2 + (IF user # << >> THEN 128 ELSE 0) + (IF password # << >> THEN 64 ELSE 0), 0, 120>>
mqtt_msg_connect(client_id, user, password) ==
    LET named == append_string(AppendBytes(init_message, ConnectHeader(user, password)), client_id)
        withUser == IF user = << >> THEN named ELSE append_string(named, user)
        withPassword == IF password = << >> THEN withUser ELSE append_string(withUser, password)
    IN  fini_message(IF client_id = << >> THEN Fail(withPassword) ELSE withPassword, CONNECT, 0, 0)

mqtt_msg_publish(topic, data, qos, retain, id) ==
    LET titled == append_string(init_message, topic)
        numbered == IF qos > 0 THEN append_message_id(titled, id) ELSE titled
    IN  fini_message(IF topic = << >> THEN Fail(numbered) ELSE AppendBytes(numbered, data), PUBLISH, qos, retain)

mqtt_msg_subscribe(topic, qos, id) ==
    LET m == AppendBytes(append_string(append_message_id(init_message, id), topic), <<qos>>)
    IN  fini_message(IF topic = << >> THEN Fail(m) ELSE m, SUBSCRIBE, 1, 0)

\* mqtt_msg_puback, _pubrec, _pubrel and _pubcomp differ in type and qos only.
Acknowledge(type, id) ==
    fini_message(append_message_id(init_message, id), type, IF type = PUBREL THEN 1 ELSE 0, 0)

mqtt_msg_pingreq == fini_message(init_message, PINGREQ, 0, 0)
mqtt_msg_pingresp == fini_message(init_message, PINGRESP, 0, 0)

-----------------------------------------------------------------------------
(* Reading a message.                                                      *)

At0(b, i) == IF i < Len(b) THEN b[i + 1] ELSE 0
mqtt_get_type(b) == At0(b, 0) \div 16
mqtt_get_qos(b) == (At0(b, 0) \div 2) % 4

\* Where the loop over the bytes of the remaining length stops.
LengthEnd(b, length) ==
    LET stops == {i \in 1 .. length - 1 : At0(b, i) < 128}
    IN  IF stops = {} THEN length ELSE Min(stops) + 1

mqtt_get_total_length(b, length) ==
    LET i == LengthEnd(b, length)
    IN  i + MapThenSumSet(LAMBDA k : (At0(b, k) % 128) * 128^(k - 1), 1 .. i - 1)

TopicLen(b, i) == At0(b, i) * 256 + At0(b, i + 1)

\* What the readers return: a pointer, as an offset, and a length; -1 is NULL.
mqtt_get_publish_topic(b, length) ==
    LET i == LengthEnd(b, length)
        topiclen == TopicLen(b, i)
    IN  IF i + 2 >= length \/ i + 2 + topiclen > length
        THEN [at |-> -1, length |-> length]
        ELSE [at |-> i + 2, length |-> topiclen]

\* The bytes of a message that came, if more of them came than it has.
PayloadLen(total, length, i) == IF total <= length THEN total - i ELSE length - i

mqtt_get_publish_data(b, length) ==
    LET l == LengthEnd(b, length)
        end == l + 2 + TopicLen(b, l)
        i == IF mqtt_get_qos(b) > 0 THEN end + 2 ELSE end
        total == mqtt_get_total_length(b, length)
    IN  CASE l + 2 >= length -> [at |-> -1, length |-> length]
          [] l + 2 < length /\ end >= length -> [at |-> -1, length |-> 0]
          [] OTHER -> IF (i > end /\ i >= length) \/ total < i THEN [at |-> -1, length |-> length]
                      ELSE [at |-> i, length |-> PayloadLen(total, length, i)]

mqtt_get_id(b, length) ==
    LET l == LengthEnd(b, length)
        end == l + 2 + TopicLen(b, l)
    IN  IF mqtt_get_type(b) = PUBLISH
        THEN IF l + 2 >= length \/ end >= length \/ mqtt_get_qos(b) = 0 \/ end + 2 >= length THEN 0
             ELSE TopicLen(b, end)
        ELSE IF mqtt_get_type(b) \in {PUBACK, PUBREC, PUBREL, PUBCOMP, SUBACK, UNSUBACK, SUBSCRIBE}
                /\ length >= 4 /\ At0(b, 1) < 128
             THEN TopicLen(b, 2) ELSE 0

-----------------------------------------------------------------------------
(* mqtt_tcpclient_recv in the state MQTT_DATA.                             *)

\* os_memcpy of a segment over what in_buffer held.
Overlay(b, pdata) == pdata \o SubSeq(b, Len(pdata) + 1, Len(b))

\* What dataCb finds there; behind NULL are no bytes of the message.
Bytes(b, r) == IF r.at = -1 THEN [k \in 1 .. r.length |-> -1] ELSE SubSeq(b, r.at + 1, r.at + r.length)

\* The packets the switch over msg_type queues.  Id 0 makes
\* append_message_id assign one.
Response(b, id) ==
    CASE mqtt_get_type(b) = PUBLISH /\ mqtt_get_qos(b) = 1 -> <<Acknowledge(PUBACK, id)>>
      [] mqtt_get_type(b) = PUBLISH /\ mqtt_get_qos(b) = 2 -> <<Acknowledge(PUBREC, id)>>
      [] mqtt_get_type(b) = PUBREC  -> <<Acknowledge(PUBREL, id)>>
      [] mqtt_get_type(b) = PUBREL  -> <<Acknowledge(PUBCOMP, id)>>
      [] mqtt_get_type(b) = PINGREQ -> <<mqtt_msg_pingresp>>
      [] OTHER -> << >>

\* deliver_publish
deliver_publish(b, length) ==
    <<Bytes(b, mqtt_get_publish_topic(b, length)), Bytes(b, mqtt_get_publish_data(b, length))>>

\* Only a PUBLISH is followed by another round, which begins here.
NextAt(b, length) == mqtt_get_total_length(b, length)

\* One round, from READPACKET on.
ReadPacket(r) ==
    LET len == Len(r.pdata)
        b == Overlay(r.in_buffer, r.pdata)
        id == mqtt_get_id(b, MQTT_BUF_SIZE)
        publish == mqtt_get_type(b) = PUBLISH
        more == publish /\ NextAt(b, len) < len
    IN  IF ~(len < MQTT_BUF_SIZE /\ len > 0) THEN [r EXCEPT !.pdata = << >>]
        ELSE [pdata |-> IF more THEN SubSeq(r.pdata, NextAt(b, len) + 1, len) ELSE << >>,
              in_buffer |-> b,
              queued |-> r.queued \o Response(b, id),
              delivered |-> IF publish THEN Append(r.delivered, deliver_publish(b, len)) ELSE r.delivered]

Received(pdata) ==
    LET rounds[k \in 0 .. MaxSegment] ==
            IF k = 0 THEN [pdata |-> pdata, in_buffer |-> in_buffer, queued |-> << >>, delivered |-> << >>]
            ELSE IF rounds[k - 1].pdata = << >> THEN rounds[k - 1] ELSE ReadPacket(rounds[k - 1])
    IN  rounds[MaxSegment]

-----------------------------------------------------------------------------
(* What a broker sends, and how a message reads by the MQTT specification. *)

\* A message of the broker: remaining length in the fewest bytes.
Sends(type, qos, body) ==
    LET n == Len(body)
    IN  <<16 * type + 2 * qos>> \o (IF n < 128 THEN <<n>> ELSE <<(n % 128) + 128, n \div 128>>) \o body

\* The client subscribes with QoS 0, for which a broker sends QoS 0; it handles
\* the others too.
BrokerMessages ==
    [type : {PUBLISH}, qos : {0}, id : {0}, topic : Topics, data : Payloads]
    \cup [type : {PUBLISH}, qos : {1, 2}, id : {258}, topic : Topics, data : Payloads]
    \cup [type : {PUBREC, PUBREL, SUBACK, PINGREQ, PINGRESP}, qos : {0}, id : {3}, topic : {<< >>}, data : {<< >>}]

Encoded(m) ==
    CASE m.type = PUBLISH ->
            Sends(PUBLISH, m.qos, TwoBytes(Len(m.topic)) \o m.topic
                                  \o (IF m.qos > 0 THEN TwoBytes(m.id) ELSE << >>) \o m.data)
      [] m.type = SUBACK -> Sends(SUBACK, 0, TwoBytes(m.id) \o <<0>>)
      [] m.type \in {PUBREC, PUBREL} -> Sends(m.type, 0, TwoBytes(m.id))
      [] OTHER -> Sends(m.type, 0, << >>)

\* A message as MQTT describes it: type, flags and body.
Parsed(p) ==
    LET n == Min({k \in 2 .. Len(p) : p[k] < 128})
    IN  [type |-> p[1] \div 16, flags |-> p[1] % 16, body |-> SubSeq(p, n + 1, Len(p)),
         length |-> IF n = 2 THEN p[2] ELSE p[2] - 128 + 128 * p[3]]

\* What a call is to say, in the same form; the topic and the payload of a
\* call are given to it, the rest follows from the protocol.
Says(type, flags, body) == [type |-> type, flags |-> flags, body |-> body, length |-> Len(body)]

AnswerDue(m) ==
    CASE m.type = PUBLISH /\ m.qos = 1 -> <<Says(PUBACK, 0, TwoBytes(m.id))>>
      [] m.type = PUBLISH /\ m.qos = 2 -> <<Says(PUBREC, 0, TwoBytes(m.id))>>
      [] m.type = PUBREC  -> <<Says(PUBREL, 2, TwoBytes(m.id))>>
      [] m.type = PUBREL  -> <<Says(PUBCOMP, 0, TwoBytes(m.id))>>
      [] m.type = PINGREQ -> <<Says(PINGRESP, 0, << >>)>>
      [] OTHER -> << >>

-----------------------------------------------------------------------------

MessageInit ==
    /\ in_buffer = << >>
    /\ message_id = 0
    /\ queued = << >> /\ asked = << >>
    /\ delivered = << >> /\ segment = << >>
    /\ recent = << >>
    /\ segments = 0

\* A call queues packets and may use an id.
Queues(packets, says, id) ==
    /\ queued' = packets
    /\ asked' = says
    /\ message_id' = id
    /\ recent' = IF id = message_id THEN recent
                 ELSE LET all == Append(recent, id)
                      IN  SubSeq(all, Max({1, Len(all) - 2^ID_BITS + 3}), Len(all))
    /\ delivered' = << >> /\ segment' = << >>
    /\ UNCHANGED <<in_buffer, segments>>

\* MQTT_Publish gives up a message that could not be built.
PublishMessage ==
    \E topic \in Topics, data \in Payloads, qos \in 0 .. 2, retain \in 0 .. 1 :
        LET fits == 3 + 2 + Len(topic) <= MQTT_BUF_SIZE
            id == IF qos > 0 /\ fits THEN NextId(message_id) ELSE message_id
            packet == mqtt_msg_publish(topic, data, qos, retain, id)
            says == Says(PUBLISH, 2 * qos + retain,
                         TwoBytes(Len(topic)) \o topic \o (IF qos > 0 THEN TwoBytes(id) ELSE << >>) \o data)
        IN  IF packet = << >> THEN Queues(<< >>, << >>, id) ELSE Queues(<<packet>>, <<says>>, id)

\* MQTT_Subscribe hands 0 to mqtt_msg_subscribe, whatever qos it is given.
GrantedQos(qos) == 0
SubscribeMessage ==
    \E topic \in Topics, qos \in 0 .. 1 :
        LET id == NextId(message_id)
        IN  Queues(<<mqtt_msg_subscribe(topic, GrantedQos(qos), id)>>,
                   <<Says(SUBSCRIBE, 2, TwoBytes(id) \o TwoBytes(Len(topic)) \o topic \o <<GrantedQos(qos)>>)>>,
                   id)

\* The CONNECT of mqtt_tcpclient_connect_cb; the user and the password are
\* optional, the application has neither.
ConnectMessage ==
    \E user \in {<< >>} \cup Topics, password \in {<< >>} \cup Topics, client_id \in Topics :
        Queues(<<mqtt_msg_connect(client_id, user, password)>>,
               <<Says(CONNECT, 0, ConnectHeader(user, password) \o TwoBytes(Len(client_id)) \o client_id
                       \o (IF user # << >> THEN TwoBytes(Len(user)) \o user ELSE << >>)
                       \o (IF password # << >> THEN TwoBytes(Len(password)) \o password ELSE << >>))>>,
               message_id)

\* mqtt_timer
PingMessage == Queues(<<mqtt_msg_pingreq>>, <<Says(PINGREQ, 0, << >>)>>, message_id)

Segments == SeqOf(BrokerMessages, MaxSegment) \ {<< >>}

ReceiveSegment ==
    /\ segments < MaxSegments
    /\ segments' = segments + 1
    /\ \E messages \in Segments :
           LET pdata == FlattenSeq([k \in DOMAIN messages |-> Encoded(messages[k])])
               r == Received(pdata)
           IN  /\ Len(pdata) < MQTT_BUF_SIZE
               /\ in_buffer' = r.in_buffer
               /\ queued' = r.queued
               /\ delivered' = r.delivered
               /\ asked' = FlattenSeq([k \in DOMAIN messages |-> AnswerDue(messages[k])])
               /\ segment' = messages
               /\ UNCHANGED <<message_id, recent>>

\* Building and receiving share nothing but the queue, which is emptied
\* elsewhere (MqttQueue).
BuildNext == PublishMessage \/ SubscribeMessage \/ ConnectMessage \/ PingMessage
MessageNext == BuildNext \/ ReceiveSegment

MessageSpec == MessageInit /\ [][MessageNext]_messageVars

-----------------------------------------------------------------------------
(* Properties                                                              *)

\* mqtt_tcpclient_recv leaves a segment at the first message that is not a
\* PUBLISH: the ones behind it are neither delivered nor answered.
Skips == \E j, k \in DOMAIN segment : j < k /\ segment[j].type # PUBLISH

\* Whatever is queued is a message by MQTT's own rules (its length field is
\* the length of its body, also where one byte of length no longer does) and
\* says what it was to say; and it was built inside out_buffer.  A segment that
\* is left early has some of its answers missing, at the end.
WellFormed ==
    /\ IF Skips THEN Len(queued) <= Len(asked) ELSE Len(queued) = Len(asked)
    /\ \A k \in DOMAIN queued : Parsed(queued[k]) = asked[k] /\ Len(queued[k]) <= MQTT_BUF_SIZE

\* However a broker's messages fall into segments of whole messages, each
\* PUBLISH is delivered once, in order, with its own topic and payload and none
\* of its neighbour's bytes, whatever an earlier, longer segment has left in
\* in_buffer.  Two exceptions: of a segment that is left early only a beginning
\* is delivered; and mqtt_get_publish_data takes an empty payload behind a
\* message id at the end of the segment for none, and the segment's length for
\* the payload's.
NoPayload(k) == segment # << >> /\ k = Len(segment) /\ segment[k].qos > 0 /\ segment[k].data = << >>
Delivers ==
    LET due == {k \in DOMAIN segment : segment[k].type = PUBLISH}
        sent(n) == CHOOSE k \in due : Cardinality(due \cap 1 .. k) = n
    IN  /\ IF Skips THEN Len(delivered) <= Cardinality(due) ELSE Len(delivered) = Cardinality(due)
        /\ \A n \in DOMAIN delivered :
               /\ delivered[n][1] = segment[sent(n)].topic
               /\ delivered[n][2] = segment[sent(n)].data \/ NoPayload(sent(n))

\* Ids are never 0, and are used again only after all the others.
IdsFresh ==
    /\ \A k \in DOMAIN recent : recent[k] # 0
    /\ IsInjective(recent)

\* What the builders make, from the first message over the wrap of the ids on.
BuiltRight == WellFormed /\ IdsFresh

\* What MQTT_Subscribe's description says of qos.
SubscribesAsAsked == \A qos \in 0 .. 1 : GrantedQos(qos) = qos
==============================================================================
