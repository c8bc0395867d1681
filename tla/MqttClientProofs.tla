-------------------------- MODULE MqttClientProofs --------------------------
(***************************************************************************)
(* Proofs about MqttClient, for all timeouts, queue lengths and numbers of *)
(* relays.                                                                 *)
(***************************************************************************)
EXTENDS MqttClient, SequenceTheorems, TLAPS

IsQueue(q) == q \in Seq(Packet) /\ Len(q) <= QueueLen

\* Queueing packets leaves a queue of packets, no longer than it may be.
LEMMA EnqueuedType ==
  ASSUME NEW q \in Seq(Packet), NEW ps \in Seq(Packet), NEW r \in Enqueued(q, ps)
  PROVE  IsQueue(r)
<1>1. /\ q \o ps \in Seq(Packet) /\ Len(q \o ps) \in Nat
      /\ \A i \in 1 .. Len(q \o ps) : (q \o ps)[i] \in Packet
  BY ConcatProperties, ElementOfSeq, LenProperties
<1>2. PICK n \in 1 .. Len(q \o ps) + 1 : r = SubSeq(q \o ps, n, Len(q \o ps))
  BY DEF Enqueued
<1>3. n \in Int /\ Len(q \o ps) \in Int /\ \A i \in n .. Len(q \o ps) : (q \o ps)[i] \in Packet
  BY <1>1
<1>4. r \in Seq(Packet)
  BY <1>2, <1>3, SubSeqProperties
<1>5. QED
  BY <1>4 DEF Enqueued, IsQueue

LEMMA RespondedType ==
  ASSUME NEW q, IsQueue(q), NEW r \in Responded(q)
  PROVE  IsQueue(r)
  BY DEF Responded, IsQueue, Packet

LEMMA DeliveredType ==
  ASSUME NEW q, IsQueue(q), NEW r \in Delivered(q)
  PROVE  IsQueue(r)
<1>1. <<"PUBLISH">> \in Seq(Packet)
  BY DEF Packet
<1>2. QED
  BY <1>1, EnqueuedType DEF Delivered, IsQueue

LEMMA AnsweredType ==
  ASSUME NEW q, IsQueue(q), NEW m, NEW r \in Answered(q, m)
  PROVE  IsQueue(r)
<1>1. CASE m = "PUBLISH"
  BY <1>1, DeliveredType DEF Answered
<1>2. CASE m = "PUBLISH_QOS"
  <2>1. PICK s \in Responded(q) : r \in Delivered(s)
    BY <1>2 DEF Answered
  <2>2. QED
    BY <2>1, RespondedType, DeliveredType
<1>3. CASE m = "REQUEST"
  BY <1>3, RespondedType DEF Answered
<1>4. CASE m \notin {"PUBLISH", "PUBLISH_QOS", "REQUEST"}
  BY <1>4 DEF Answered
<1>5. QED
  BY <1>1, <1>2, <1>3, <1>4

LEMMA GreetingType == Greeting \in Seq(Packet)
<1>1. 2 * Relays \in Nat
  BY MqttAssumption
<1>2. \A i \in 1 .. 2 * Relays : (IF i % 2 = 1 THEN "SUBSCRIBE" ELSE "PUBLISH") \in Packet
  BY DEF Packet
<1>3. Greeting \in [1 .. 2 * Relays -> Packet]
  BY <1>2 DEF Greeting
<1>4. QED
  BY <1>1, <1>3, SeqDef

\* A message from the broker leaves the queue a queue of packets.
LEMMA RecvQueue ==
  ASSUME TypeOK, NEW m, OnRecv(m)
  PROVE  IsQueue(queue')
<1>1. IsQueue(queue)
  BY DEF TypeOK, QueueOK, IsQueue
<1>2. CASE queue' \in Enqueued(queue, Greeting)
  BY <1>1, <1>2, GreetingType, EnqueuedType DEF IsQueue
<1>3. CASE queue' \in Answered(queue, m)
  BY <1>1, <1>3, AnsweredType
<1>4. CASE queue' = queue
  BY <1>1, <1>4
<1>5. QED
  BY <1>2, <1>3, <1>4 DEF OnRecv

LEMMA PublishQueue ==
  ASSUME TypeOK, NEW n \in {1, 3}, Publish(n)
  PROVE  IsQueue(queue')
<1>1. [i \in 1 .. n |-> "PUBLISH"] \in [1 .. n -> Packet] /\ n \in Nat
  BY DEF Packet
<1>2. [i \in 1 .. n |-> "PUBLISH"] \in Seq(Packet)
  BY <1>1, SeqDef
<1>3. QED
  BY <1>2, EnqueuedType DEF Publish, TypeOK, QueueOK

LEMMA SendNextQueue ==
  ASSUME TypeOK, SendNext
  PROVE  IsQueue(queue') /\ Head(queue) \in Packet
<1>1. queue \in Seq(Packet) /\ queue # <<>> /\ queue' = Tail(queue) /\ Len(queue) <= QueueLen
  BY DEF TypeOK, QueueOK, SendNext, MayDequeue
<1>2. Head(queue) \in Packet /\ Tail(queue) \in Seq(Packet) /\ Len(Tail(queue)) = Len(queue) - 1
  BY <1>1, HeadTailProperties
<1>3. Len(queue) \in Nat
  BY <1>1, LenProperties
<1>4. QED
  BY <1>1, <1>2, <1>3, MqttAssumption DEF IsQueue

-----------------------------------------------------------------------------

\* sendTimeout runs only while a packet is out; otherwise a post that finds it
\* running would be lost.
OneInFlight == tcp = "open" /\ sendTimeout > 0 => unacked

ClientInv == TypeOK /\ NoWakeupLost /\ HandshakePending /\ OneInFlight

LEMMA InitTypeOK == Init => TypeOK
<1> SUFFICES ASSUME Init PROVE TypeOK
  OBVIOUS
<1>1. TicksOK
  BY MqttAssumption DEF Init, TicksOK
<1>2. QueueOK
  BY MqttAssumption, EmptySeq DEF Init, QueueOK
<1>3. ControlOK
  BY DEF Init, ControlOK
<1>4. FlagsOK
  BY Zenon DEF Init, FlagsOK
<1>5. QED
  BY <1>1, <1>2, <1>3, <1>4 DEF TypeOK

\* The timers and the counters stay in their ranges.
LEMMA NextTicksOK == TypeOK /\ [Next]_vars => TicksOK'
<1> SUFFICES ASSUME TicksOK, [Next]_vars PROVE TicksOK'
  BY DEF TypeOK
<1> USE DEF TicksOK
<1>0. /\ KeepAlive \in Nat /\ SendTimeout \in Nat /\ SendTimeout > 0
      /\ ReconnectTimeout \in Nat
  BY MqttAssumption
<1>1. CASE mqtt_tcpclient_connect_cb
  BY <1>0, <1>1 DEF mqtt_tcpclient_connect_cb, OnConnect
<1>2. CASE mqtt_tcpclient_sent_cb
  BY <1>0, <1>2 DEF mqtt_tcpclient_sent_cb, OnSent
<1>3. CASE UNCHANGED ticks
  BY <1>3 DEF ticks
<1>4. CASE OrphanConnects
  BY <1>0, <1>4 DEF OrphanConnects, OnConnect, ticks
<1>5. CASE OrphanSent
  BY <1>0, <1>5 DEF OrphanSent, OnSent
<1>6. CASE WifiUp
  BY <1>0, <1>6 DEF WifiUp, MQTT_Connect
<1>7. CASE WifiDown
  BY <1>7 DEF WifiDown, MQTT_Disconnect
<1>8. CASE mqtt_timer
  <2>1. sendTimeout' \in 0 .. SendTimeout /\ keepAliveTick' \in 0 .. KeepAlive
    <3>1. CASE KeepAliveDue
      BY <1>0, <1>8, <3>1 DEF mqtt_timer, KeepAliveStep
    <3>2. CASE ~KeepAliveDue
      BY <1>0, <1>8, <3>2 DEF mqtt_timer, KeepAliveStep, KeepAliveDue
    <3>3. QED
      BY <3>1, <3>2
  <2>2. reconnectTick' \in 0 .. ReconnectTimeout
    BY <1>0, <1>8 DEF mqtt_timer, RetryStep, RetryDue
  <2>3. QED
    BY <2>1, <2>2
<1>9. CASE MQTT_Task
  BY <1>0, <1>9 DEF MQTT_Task, SendNext, MQTT_Connect, ticks
<1>10. QED
  BY <1>1, <1>2, <1>3, <1>4, <1>5, <1>6, <1>7, <1>8, <1>9
     DEF Next, mqtt_tcpclient_recv, OrphanRecv, OnRecv, PeerCloses, mqtt_tcpclient_discon_cb,
         OnEnd, OrphanEnds, Publish, vars

LEMMA NextQueueOK == TypeOK /\ [Next]_vars => QueueOK'
<1> SUFFICES ASSUME TypeOK, [Next]_vars PROVE IsQueue(queue')
  BY DEF QueueOK, IsQueue
<1>1. ASSUME NEW m \in Message, mqtt_tcpclient_recv(m) PROVE IsQueue(queue')
  BY <1>1, RecvQueue DEF mqtt_tcpclient_recv
<1>2. ASSUME NEW m \in Message, OrphanRecv(m) PROVE IsQueue(queue')
  BY <1>2, RecvQueue DEF OrphanRecv
<1>3. ASSUME NEW n \in {1, 3}, Publish(n) PROVE IsQueue(queue')
  BY <1>3, PublishQueue
<1>4. CASE SendNext
  BY <1>4, SendNextQueue
<1>5. CASE queue' = queue
  BY <1>5 DEF TypeOK, QueueOK, IsQueue
<1>6. QED
  BY <1>1, <1>2, <1>3, <1>4, <1>5
     DEF Next, mqtt_tcpclient_connect_cb, OnConnect, mqtt_tcpclient_sent_cb, OnSent, PeerCloses,
         mqtt_tcpclient_discon_cb, OnEnd, OrphanConnects, OrphanSent, OrphanEnds, WifiUp,
         WifiDown, mqtt_timer, MQTT_Task, vars

\* The states, and the names of pending messages, are those of the code.
LEMMA NextControlOK == TypeOK /\ [Next]_vars => ControlOK'
<1> SUFFICES ASSUME TypeOK, ControlOK, [Next]_vars PROVE ControlOK'
  BY DEF TypeOK
<1> USE DEF ControlOK
<1>1. CASE mqtt_tcpclient_connect_cb
  BY <1>1 DEF mqtt_tcpclient_connect_cb, OnConnect
<1>2. CASE mqtt_tcpclient_sent_cb
  BY <1>2 DEF mqtt_tcpclient_sent_cb, OnSent
<1>3. ASSUME NEW m \in Message, mqtt_tcpclient_recv(m) PROVE ControlOK'
  BY <1>3 DEF mqtt_tcpclient_recv, OnRecv
<1>4. CASE PeerCloses
  BY <1>4 DEF PeerCloses
<1>5. CASE mqtt_tcpclient_discon_cb
  BY <1>5 DEF mqtt_tcpclient_discon_cb, OnEnd
<1>6. CASE OrphanConnects
  BY <1>6 DEF OrphanConnects, OnConnect, espconn_send, link
<1>7. CASE OrphanSent
  BY <1>7 DEF OrphanSent, OnSent, link
<1>8. ASSUME NEW m \in Message, OrphanRecv(m) PROVE ControlOK'
  BY <1>8 DEF OrphanRecv, OnRecv
<1>9. CASE OrphanEnds
  BY <1>9 DEF OrphanEnds, OnEnd, link
<1>10. CASE WifiUp
  BY <1>10 DEF WifiUp, MQTT_Connect, Freed
<1>11. CASE WifiDown
  BY <1>11 DEF WifiDown, MQTT_Disconnect, Freed
<1>12. ASSUME NEW n \in {1, 3}, Publish(n) PROVE ControlOK'
  BY <1>12 DEF Publish, link
<1>13. CASE mqtt_timer
  BY <1>13 DEF mqtt_timer, KeepAliveStep, RetryStep, espconn_send
<1>14. CASE MQTT_Task
  <2>1. CASE SendNext
    BY <1>14, <2>1, SendNextQueue DEF MQTT_Task, SendNext, espconn_send
  <2>2. CASE MQTT_Connect(wifi) /\ UNCHANGED <<pending, queue>>
    BY <1>14, <2>2 DEF MQTT_Task, MQTT_Connect, Freed
  <2>3. CASE UNCHANGED <<connState, pending, ticks, queue, link, orphan>>
    BY <1>14, <2>3 DEF MQTT_Task, link
  <2>4. QED
    BY <1>14, <2>1, <2>2, <2>3 DEF MQTT_Task
<1>15. CASE UNCHANGED vars
  BY <1>15 DEF vars, link
<1>16. QED
  BY <1>1, <1>2, <1>3, <1>4, <1>5, <1>6, <1>7, <1>8, <1>9, <1>10, <1>11, <1>12, <1>13, <1>14,
     <1>15 DEF Next

LEMMA NextFlagsOK == TypeOK /\ [Next]_vars => FlagsOK'
<1> SUFFICES ASSUME FlagsOK, [Next]_vars PROVE FlagsOK'
  BY DEF TypeOK
<1> USE DEF FlagsOK
<1>1. CASE mqtt_tcpclient_connect_cb
  BY <1>1, Zenon DEF mqtt_tcpclient_connect_cb, OnConnect
<1>2. CASE mqtt_tcpclient_sent_cb
  BY <1>2, Zenon DEF mqtt_tcpclient_sent_cb, OnSent
<1>3. ASSUME NEW m \in Message, mqtt_tcpclient_recv(m) PROVE FlagsOK'
  BY <1>3, Zenon DEF mqtt_tcpclient_recv, OnRecv, ticks
<1>4. CASE PeerCloses
  BY <1>4, Zenon DEF PeerCloses, ticks
<1>5. CASE mqtt_tcpclient_discon_cb
  BY <1>5, Zenon DEF mqtt_tcpclient_discon_cb, OnEnd, ticks
<1>6. CASE OrphanConnects
  BY <1>6, Zenon DEF OrphanConnects, OnConnect, espconn_send, ticks, link
<1>7. CASE OrphanSent
  BY <1>7, Zenon DEF OrphanSent, OnSent, link
<1>8. ASSUME NEW m \in Message, OrphanRecv(m) PROVE FlagsOK'
  BY <1>8, Zenon DEF OrphanRecv, OnRecv, ticks
<1>9. CASE OrphanEnds
  BY <1>9, Zenon DEF OrphanEnds, OnEnd, ticks, link
<1>10. CASE WifiUp
  BY <1>10, Zenon DEF WifiUp, MQTT_Connect
<1>11. CASE WifiDown
  BY <1>11, Zenon DEF WifiDown, MQTT_Disconnect
<1>12. ASSUME NEW n \in {1, 3}, Publish(n) PROVE FlagsOK'
  BY <1>12, Zenon DEF Publish, ticks, link
<1>13. CASE mqtt_timer
  BY <1>13, Zenon DEF mqtt_timer, KeepAliveStep, RetryStep, espconn_send
<1>14. CASE MQTT_Task
  <2>1. CASE SendNext
    BY <1>14, <2>1, Zenon DEF MQTT_Task, SendNext, espconn_send
  <2>2. CASE MQTT_Connect(wifi) /\ UNCHANGED <<pending, queue>>
    BY <1>14, <2>2, Zenon DEF MQTT_Task, MQTT_Connect
  <2>3. CASE UNCHANGED <<connState, pending, ticks, queue, link, orphan>>
    BY <1>14, <2>3, Zenon DEF MQTT_Task, link, ticks
  <2>4. QED
    BY <1>14, <2>1, <2>2, <2>3 DEF MQTT_Task
<1>15. CASE UNCHANGED vars
  BY <1>15, Zenon DEF vars, link, ticks
<1>16. QED
  BY <1>1, <1>2, <1>3, <1>4, <1>5, <1>6, <1>7, <1>8, <1>9, <1>10, <1>11, <1>12, <1>13, <1>14,
     <1>15 DEF Next

LEMMA NextTypeOK == TypeOK /\ [Next]_vars => TypeOK'
  BY NextTicksOK, NextQueueOK, NextControlOK, NextFlagsOK DEF TypeOK

-----------------------------------------------------------------------------
LEMMA InitClientInv == Init => ClientInv
<1> SUFFICES ASSUME Init PROVE ClientInv
  OBVIOUS
<1>1. TypeOK
  BY InitTypeOK
<1>2. NoWakeupLost /\ HandshakePending /\ OneInFlight
  BY DEF Init, NoWakeupLost, HandshakePending, OneInFlight
<1>3. QED
  BY <1>1, <1>2 DEF ClientInv

\* Only the callback that sends a CONNECT enters MQTT_CONNECT_SENDING, and in that
\* state neither the task nor the timer sends anything.
LEMMA NextHandshakePending == ClientInv /\ [Next]_vars => HandshakePending'
<1> SUFFICES ASSUME HandshakePending, [Next]_vars PROVE HandshakePending'
  BY DEF ClientInv
<1> USE DEF HandshakePending
<1>1. CASE mqtt_timer
  BY <1>1 DEF mqtt_timer, KeepAliveStep, KeepAliveDue, RetryStep
<1>2. CASE MQTT_Task
  BY <1>2 DEF MQTT_Task, SendNext, MayDequeue, MQTT_Connect
<1>3. CASE OrphanConnects
  BY <1>3 DEF OrphanConnects, OnConnect
<1>4. CASE connState' = connState /\ pending' = pending
  BY <1>4
<1>5. CASE connState' # "MQTT_CONNECT_SENDING"
  BY <1>5
<1>6. CASE pending' = "CONNECT"
  BY <1>6
<1>7. QED
  BY <1>1, <1>2, <1>3, <1>4, <1>5, <1>6
     DEF Next, mqtt_tcpclient_connect_cb, OnConnect, mqtt_tcpclient_sent_cb, OnSent,
         mqtt_tcpclient_recv, OnRecv, PeerCloses, mqtt_tcpclient_discon_cb, OnEnd, OrphanSent,
         OrphanRecv, OrphanEnds, WifiUp, WifiDown, MQTT_Connect, MQTT_Disconnect, Publish, vars

\* Whoever sets sendTimeout has just handed a packet to the connection, or found
\* that it still has one.
LEMMA NextOneInFlight == ClientInv /\ [Next]_vars => OneInFlight'
<1> SUFFICES ASSUME TicksOK, OneInFlight, [Next]_vars PROVE OneInFlight'
  BY DEF ClientInv, TypeOK
<1>0. sendTimeout \in Nat /\ SendTimeout \in Nat
  BY MqttAssumption DEF TicksOK
<1> USE DEF OneInFlight
<1>1. CASE mqtt_timer
  <2>1. CASE KeepAliveDue
    BY <1>1, <2>1 DEF mqtt_timer, KeepAliveStep, espconn_send, Taken
  <2>2. CASE ~KeepAliveDue
    <3>1. UNCHANGED <<tcp, unacked>> /\ (sendTimeout' > 0 => sendTimeout > 0)
      BY <1>0, <1>1, <2>2 DEF mqtt_timer, KeepAliveStep
    <3>2. QED
      BY <3>1
  <2>3. QED
    BY <2>1, <2>2
<1>2. CASE MQTT_Task
  <2>1. CASE SendNext
    BY <2>1 DEF SendNext, espconn_send, Taken
  <2>2. CASE MQTT_Connect(wifi)
    BY <2>2 DEF MQTT_Connect
  <2>3. CASE UNCHANGED <<connState, pending, ticks, queue, link, orphan>>
    BY <2>3 DEF ticks, link
  <2>4. QED
    BY <1>2, <2>1, <2>2, <2>3 DEF MQTT_Task
<1>3. CASE OrphanConnects
  BY <1>3 DEF OrphanConnects, OnConnect, espconn_send, Taken, ticks, link
<1>4. CASE tcp' # "open"
  BY <1>4
<1>5. CASE sendTimeout' = 0
  BY <1>5
<1>6. CASE unacked'
  BY <1>6
<1>7. CASE UNCHANGED <<tcp, unacked, sendTimeout>>
  BY <1>7
<1>8. CASE \E m \in Message : mqtt_tcpclient_recv(m) \/ OrphanRecv(m)
  BY <1>8 DEF mqtt_tcpclient_recv, OrphanRecv, OnRecv, ticks
<1>9. QED
  BY <1>1, <1>2, <1>3, <1>4, <1>5, <1>6, <1>7, <1>8
     DEF Next, mqtt_tcpclient_connect_cb, mqtt_tcpclient_sent_cb, PeerCloses,
         mqtt_tcpclient_discon_cb, OrphanSent, OnSent, OrphanEnds, OnEnd,
         WifiUp, WifiDown, MQTT_Connect, MQTT_Disconnect, Publish, vars, ticks, link

\* Everything but the task that adds to the queue or frees the connection posts,
\* and the task leaves packets behind only while one is out.
LEMMA NextNoWakeupLost == ClientInv /\ [Next]_vars => NoWakeupLost'
<1> SUFFICES ASSUME TicksOK, NoWakeupLost, OneInFlight, [Next]_vars PROVE NoWakeupLost'
  BY DEF ClientInv, TypeOK
<1> USE DEF NoWakeupLost
<1>1. CASE MQTT_Task
  <2>1. CASE SendNext
    BY <2>1 DEF SendNext, espconn_send, Taken
  <2>2. CASE MQTT_Connect(wifi)
    BY <2>2 DEF MQTT_Connect
  <2>3. CASE ~MayDequeue /\ UNCHANGED <<connState, pending, ticks, queue, link, orphan>>
    <3>1. sendTimeout # 0 => sendTimeout > 0
      BY DEF TicksOK
    <3>2. QED
      BY <2>3, <3>1 DEF MayDequeue, OneInFlight, link
  <2>4. QED
    BY <1>1, <2>1, <2>2, <2>3 DEF MQTT_Task
<1>2. ASSUME NEW n \in {1, 3}, Publish(n) PROVE NoWakeupLost'
  BY <1>2 DEF Publish, link
<1>3. CASE mqtt_timer
  BY <1>3 DEF mqtt_timer, KeepAliveStep, RetryStep, espconn_send
<1>4. CASE posted'
  BY <1>4
<1>5. CASE connState' # "MQTT_DATA" \/ tcp' # "open"
  BY <1>5
<1>6. CASE UNCHANGED <<connState, tcp, queue, posted, unacked>>
  BY <1>6
<1>7. QED
  BY <1>1, <1>2, <1>3, <1>4, <1>5, <1>6
     DEF Next, mqtt_tcpclient_connect_cb, OnConnect, mqtt_tcpclient_sent_cb, OnSent,
         mqtt_tcpclient_recv, OnRecv, PeerCloses, mqtt_tcpclient_discon_cb, OnEnd, OrphanConnects,
         OrphanSent, OrphanRecv, OrphanEnds, WifiUp, WifiDown, MQTT_Connect, MQTT_Disconnect,
         vars, link

LEMMA NextClientInv == ClientInv /\ [Next]_vars => ClientInv'
  BY NextTypeOK, NextHandshakePending, NextOneInFlight, NextNoWakeupLost DEF ClientInv

\* No wake-up of MQTT_Task is lost, whatever the order of callbacks, timers and
\* publishes, network losses and late callbacks of freed connections included.
THEOREM ClientNoWakeupLost == Spec => []NoWakeupLost
  BY InitClientInv, NextClientInv, PTL DEF Spec, ClientInv

\* A CONNACK always finds the CONNECT pending, under the same conditions.
THEOREM ClientHandshakePending == Spec => []HandshakePending
  BY InitClientInv, NextClientInv, PTL DEF Spec, ClientInv

\* Type correctness of the client.
THEOREM ClientTypeOK == Spec => []TypeOK
  BY InitClientInv, NextClientInv, PTL DEF Spec, ClientInv

-----------------------------------------------------------------------------
(***************************************************************************)
(* While the station keeps its network no espconn is freed before its      *)
(* connection has ended, and more holds.                                   *)
(***************************************************************************)
SteadyInv ==
    /\ orphan = "none"
    /\ ~wifi => tcp = "none"
    /\ connState \in {"TCP_RECONNECT_REQ", "TCP_RECONNECT"} => tcp = "none"
    /\ connState = "MQTT_DATA" /\ tcp = "open" => greeted = "connack"
    /\ ConnectFirst

Guarded == unacked /\ ~overdue => sendTimeout > 0

LEMMA InitSteady == Init => SteadyInv /\ Guarded
  BY DEF Init, SteadyInv, ConnectFirst, Guarded

LEMMA NextSteadyInv ==
  ASSUME WifiMayDrop = FALSE, SteadyInv, [Next]_vars
  PROVE  SteadyInv'
<1> USE DEF SteadyInv, ConnectFirst
<1>1. CASE mqtt_tcpclient_connect_cb
  BY <1>1 DEF mqtt_tcpclient_connect_cb, OnConnect
<1>2. CASE mqtt_tcpclient_sent_cb
  BY <1>2 DEF mqtt_tcpclient_sent_cb, OnSent
<1>3. ASSUME NEW m \in Message, mqtt_tcpclient_recv(m) PROVE SteadyInv'
  BY <1>3 DEF mqtt_tcpclient_recv, OnRecv
<1>4. CASE PeerCloses
  BY <1>4 DEF PeerCloses
<1>5. CASE mqtt_tcpclient_discon_cb
  BY <1>5 DEF mqtt_tcpclient_discon_cb, OnEnd
<1>6. CASE OrphanConnects \/ OrphanSent \/ (\E m \in Message : OrphanRecv(m)) \/ OrphanEnds
  BY <1>6 DEF OrphanConnects, OrphanSent, OrphanRecv, OrphanEnds
<1>7. CASE WifiUp
  BY <1>7 DEF WifiUp, MQTT_Connect, Freed
<1>8. CASE WifiDown
  BY <1>8 DEF WifiDown
<1>9. ASSUME NEW n \in {1, 3}, Publish(n) PROVE SteadyInv'
  BY <1>9 DEF Publish, link
<1>10. CASE mqtt_timer
  BY <1>10 DEF mqtt_timer, KeepAliveStep, KeepAliveDue, RetryStep, RetryDue, espconn_send, Taken
<1>11. CASE MQTT_Task
  <2>0. wifi' = wifi
    BY <1>11 DEF MQTT_Task
  <2>1. CASE SendNext
    BY <2>0, <2>1 DEF SendNext, MayDequeue, espconn_send, Taken
  <2>2. CASE connState = "TCP_RECONNECT" /\ MQTT_Connect(wifi)
    <3>1. orphan' = "none" /\ connState' = "TCP_CONNECTING" /\ early' = early
      BY <2>2 DEF MQTT_Connect, Freed
    <3>2. ~wifi => tcp' = "none"
      BY <2>2 DEF MQTT_Connect
    <3>3. QED
      BY <2>0, <3>1, <3>2
  <2>3. CASE UNCHANGED <<connState, pending, ticks, queue, link, orphan>>
    BY <2>0, <2>3 DEF link
  <2>4. QED
    BY <1>11, <2>1, <2>2, <2>3 DEF MQTT_Task
<1>12. CASE UNCHANGED vars
  BY <1>12 DEF vars, link
<1>13. QED
  BY <1>1, <1>2, <1>3, <1>4, <1>5, <1>6, <1>7, <1>8, <1>9, <1>10, <1>11, <1>12 DEF Next

\* Nobody but the acknowledgement of the packet that is out resets sendTimeout.
LEMMA NextGuarded ==
  ASSUME SteadyInv, ClientInv, Guarded, [Next]_vars
  PROVE  Guarded'
<1>0. SendTimeout \in Nat /\ SendTimeout > 0 /\ sendTimeout \in Nat
  BY MqttAssumption DEF ClientInv, TypeOK, TicksOK
<1> USE DEF Guarded
<1>1. CASE mqtt_tcpclient_connect_cb
  BY <1>0, <1>1 DEF mqtt_tcpclient_connect_cb, OnConnect
<1>2. CASE mqtt_tcpclient_sent_cb
  BY <1>2 DEF mqtt_tcpclient_sent_cb
<1>3. CASE \E m \in Message : mqtt_tcpclient_recv(m)
  BY <1>3 DEF mqtt_tcpclient_recv, OnRecv, ticks
<1>4. CASE UNCHANGED <<unacked, overdue, sendTimeout>>
  BY <1>4
<1>5. CASE ~unacked'
  BY <1>5
<1>6. CASE mqtt_timer
  <2>1. sendTimeout' \in Nat
    BY <1>0, <1>6 DEF mqtt_timer, KeepAliveStep
  <2>2. unacked' /\ ~overdue' => sendTimeout' # 0
    BY <1>6 DEF mqtt_timer
  <2>3. QED
    BY <2>1, <2>2
<1>7. CASE MQTT_Task
  <2>1. CASE SendNext
    BY <1>0, <2>1 DEF SendNext
  <2>2. CASE MQTT_Connect(wifi)
    BY <2>2 DEF MQTT_Connect
  <2>3. CASE UNCHANGED <<connState, pending, ticks, queue, link, orphan>>
    BY <2>3 DEF ticks, link
  <2>4. QED
    BY <1>7, <2>1, <2>2, <2>3 DEF MQTT_Task
<1>8. QED
  BY <1>1, <1>2, <1>3, <1>4, <1>5, <1>6, <1>7
     DEF Next, SteadyInv, PeerCloses, mqtt_tcpclient_discon_cb, OrphanConnects, OrphanSent,
         OrphanRecv, OrphanEnds, WifiUp, WifiDown, MQTT_Connect, MQTT_Disconnect, Publish, vars,
         ticks, link

LEMMA TaskSends ==
  ASSUME Guarded, ClientInv, [Next]_vars,
         posted, ~posted', queue' # queue, tcp = "open", ~overdue
  PROVE  ~unacked /\ unacked'
<1>1. MQTT_Task
  BY DEF Next, mqtt_tcpclient_connect_cb, OnConnect, mqtt_tcpclient_sent_cb, OnSent,
         mqtt_tcpclient_recv, OnRecv, PeerCloses, mqtt_tcpclient_discon_cb, OnEnd, OrphanConnects,
         OrphanSent, OrphanRecv, OrphanEnds, WifiUp, WifiDown, Publish, mqtt_timer, vars
<1>2. SendNext
  BY <1>1 DEF MQTT_Task
<1>3. ~unacked
  BY <1>2 DEF Guarded, SendNext, MayDequeue
<1>4. QED
  BY <1>2, <1>3 DEF SendNext, espconn_send, Taken

\* While the station keeps its network, no connection carries a packet before its
\* CONNACK.
THEOREM ClientConnectFirst == ASSUME WifiMayDrop = FALSE PROVE Spec => []ConnectFirst
<1>1. SteadyInv /\ [Next]_vars => SteadyInv'
  BY NextSteadyInv
<1>2. QED
  BY <1>1, InitSteady, PTL DEF Spec, SteadyInv

\* While the station keeps its network, MQTT_Task takes a packet from the queue only
\* to send it, unless the one before was not acknowledged in time.
THEOREM ClientDequeuedIsSent == ASSUME WifiMayDrop = FALSE PROVE Spec => DequeuedIsSent
<1>1. SteadyInv /\ ClientInv /\ Guarded /\ [Next]_vars => SteadyInv' /\ ClientInv' /\ Guarded'
  BY NextSteadyInv, NextGuarded, NextClientInv
<1>2. Init => SteadyInv /\ ClientInv /\ Guarded
  BY InitSteady, InitClientInv
<1>3. ClientInv /\ Guarded /\ [Next]_vars
        => [posted /\ ~posted' /\ queue' # queue /\ tcp = "open" /\ ~overdue
              => ~unacked /\ unacked']_vars
  BY TaskSends
<1>4. QED
  BY <1>1, <1>2, <1>3, PTL DEF Spec, DequeuedIsSent

=============================================================================
