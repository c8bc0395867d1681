------------------------------ MODULE MqttClient ------------------------------
(***************************************************************************)
(* The MQTT client (mqtt/mqtt.c) with the application that drives it       *)
(* (mqtt/app.c): connecting and reconnecting to the broker, and sending    *)
(* the queued packets one at a time from a task.                           *)
(*                                                                         *)
(* One action is one callback, one timer or one run of the task.  The      *)
(* queue is the queue of packets that MqttQueue implements.  A segment     *)
(* from the broker carries one message: of more, the code handles those    *)
(* after a PUBLISH one by one and drops those after anything else.  The    *)
(* broker is given by its address (MQTT_SERVER_IP), without TLS.           *)
(***************************************************************************)
EXTENDS Integers, Sequences

CONSTANTS
    KeepAlive,          \* connect_info.keepalive, in seconds
    SendTimeout,        \* MQTT_SEND_TIMOUT
    ReconnectTimeout,   \* MQTT_RECONNECT_TIMEOUT
    QueueLen,           \* a bound on the number of packets in the queue
    Relays,             \* RELAY_COUNT
    WifiMayDrop,        \* the station may lose its network
    ConnectMayFail      \* espconn_connect may find all connections in use

ASSUME MqttAssumption ==
    /\ KeepAlive \in Nat /\ SendTimeout \in Nat \ {0} /\ ReconnectTimeout \in Nat
    /\ QueueLen \in Nat \ {0} /\ Relays \in Nat
    /\ WifiMayDrop \in BOOLEAN /\ ConnectMayFail \in BOOLEAN

VARIABLES
    connState,      \* client->connState
    pending,        \* mqtt_state.pending_msg_type
    sendTimeout, keepAliveTick, reconnectTick,
    timerOn,        \* mqttTimer is armed
    posted,         \* the task's queue, of length 1, holds an event
    queue,          \* client->msgQueue
    pCon,           \* client->pCon is not NULL
    tcp,            \* its TCP connection
    unacked,        \* which has taken a packet that is not acknowledged,
    overdue,        \*   not even when sendTimeout had run down,
    greeted,        \*   and has carried "nothing", a "connect", its "connack"
    early,          \* some connection carried another packet before its CONNACK
    orphan,         \* the TCP connection of an espconn that has been freed
    wifi            \* lastWifiStatus is STATION_GOT_IP

link == <<pCon, tcp, unacked, overdue, greeted, early>>
ticks == <<sendTimeout, keepAliveTick, reconnectTick, timerOn>>
vars == <<connState, pending, ticks, posted, queue, link, orphan, wifi>>

Packet == {"SUBSCRIBE", "PUBLISH", "RESPONSE"}

\* MQTT_InitConnection and MQTT_InitClient
Init ==
    /\ connState = "WIFI_INIT" /\ pending = "NONE"
    /\ sendTimeout = 0 /\ keepAliveTick = 0 /\ reconnectTick = 0 /\ timerOn = FALSE
    /\ posted = TRUE /\ queue = <<>>
    /\ pCon = FALSE /\ tcp = "none" /\ unacked = FALSE /\ overdue = FALSE
    /\ greeted = "nothing" /\ early = FALSE /\ orphan = "none" /\ wifi = FALSE

-----------------------------------------------------------------------------
(***************************************************************************)
(* Sending, queueing, connecting.                                          *)
(***************************************************************************)

\* espconn_send on client->pCon: one packet at a time.  Its result is ignored.
Taken == tcp = "open" /\ ~unacked

espconn_send ==
    /\ unacked' = (unacked \/ Taken)
    /\ early' = (early \/ (Taken /\ greeted # "connack"))
    /\ UNCHANGED <<pCon, tcp, greeted>>

\* MQTT_Publish and MQTT_Subscribe of some packets, one after the other: each may
\* find the queue full, and then drops the oldest packets, or all of them and
\* itself.  How full the queue is depends on lengths that are not modelled.
Enqueued(q, ps) ==
    {r \in {SubSeq(q \o ps, n, Len(q \o ps)) : n \in 1 .. Len(q \o ps) + 1} : Len(r) <= QueueLen}

\* QUEUE_Puts of a response, which a full queue does not take.
Responded(q) == {q} \cup {r \in {Append(q, "RESPONSE")} : Len(r) <= QueueLen}

\* An espconn is freed, and what its TCP connection does from then on.
Freed ==
    IF tcp = "none" THEN orphan ELSE IF tcp \in {"syn", "open"} THEN tcp ELSE "ending"

MQTT_Disconnect ==
    /\ pCon' = FALSE /\ tcp' = "none" /\ unacked' = FALSE /\ overdue' = FALSE
    /\ greeted' = "nothing" /\ orphan' = Freed
    /\ timerOn' = FALSE
    /\ UNCHANGED <<early, connState, sendTimeout, keepAliveTick, reconnectTick>>

\* MQTT_Disconnect, then a new espconn.  Whether it connects is not looked at.
MQTT_Connect(up) ==
    /\ pCon' = TRUE /\ unacked' = FALSE /\ overdue' = FALSE /\ greeted' = "nothing"
    /\ tcp' \in IF up THEN {"syn"} \cup {t \in {"none"} : ConnectMayFail} ELSE {"none"}
    /\ orphan' = Freed
    /\ timerOn' = TRUE /\ keepAliveTick' = 0 /\ reconnectTick' = 0
    /\ connState' = "TCP_CONNECTING"
    /\ UNCHANGED <<early, sendTimeout>>

-----------------------------------------------------------------------------
(***************************************************************************)
(* What the callbacks of a connection do to the client.                    *)
(***************************************************************************)

\* Mutant: the client takes the connection for ready before the CONNACK.
Mut_OnConnect ==
    /\ pending' = "CONNECT" /\ sendTimeout' = SendTimeout
    /\ connState' = "MQTT_DATA"
    /\ posted' = TRUE
    /\ UNCHANGED <<keepAliveTick, reconnectTick, timerOn, queue>>

\* mqtt_tcpclient_connect_cb, which also sends a CONNECT
OnConnect ==
    /\ pending' = "CONNECT" /\ sendTimeout' = SendTimeout
    /\ connState' = "MQTT_CONNECT_SENDING"
    /\ posted' = TRUE
    /\ UNCHANGED <<keepAliveTick, reconnectTick, timerOn, queue>>

\* Mutant: the task is not told that the connection is free again.
Mut_OnSent ==
    /\ sendTimeout' = 0
    /\ UNCHANGED <<connState, pending, keepAliveTick, reconnectTick, timerOn, queue, posted>>

\* mqtt_tcpclient_sent_cb
OnSent ==
    /\ sendTimeout' = 0 /\ posted' = TRUE
    /\ UNCHANGED <<connState, pending, keepAliveTick, reconnectTick, timerOn, queue>>

\* mqtt_tcpclient_discon_cb and mqtt_tcpclient_recon_cb
OnEnd ==
    /\ connState' = "TCP_RECONNECT_REQ" /\ posted' = TRUE
    /\ UNCHANGED <<pending, ticks, queue>>

\* mqttConnectedCb subscribes to every relay and publishes its state.
Greeting == [i \in 1 .. 2 * Relays |-> IF i % 2 = 1 THEN "SUBSCRIBE" ELSE "PUBLISH"]

\* mqttDataCb sets a relay, whose new state is published, or does nothing.
Delivered(q) == {q} \cup Enqueued(q, <<"PUBLISH">>)

\* REQUEST stands for PUBREC, PUBREL and PINGREQ.
Answered(q, m) ==
    CASE m = "PUBLISH"  -> Delivered(q)
      [] m = "PUBLISH_QOS" -> UNION {Delivered(r) : r \in Responded(q)}
      [] m = "REQUEST"  -> Responded(q)
      [] OTHER          -> {q}

Message == {"CONNACK", "PUBLISH", "PUBLISH_QOS", "REQUEST", "OTHER"}

\* mqtt_tcpclient_recv: only a CONNACK to a CONNECT makes the client ready.
OnRecv(m) ==
    /\ posted' = TRUE
    /\ \/ /\ connState = "MQTT_CONNECT_SENDING" /\ m = "CONNACK"
          /\ IF pending = "CONNECT"
             THEN /\ connState' = "MQTT_DATA" /\ queue' \in Enqueued(queue, Greeting)
                  /\ UNCHANGED tcp
             ELSE /\ tcp' = IF tcp = "open" THEN "closing" ELSE tcp
                  /\ UNCHANGED <<connState, queue>>
       \/ /\ connState = "MQTT_DATA"
          /\ queue' \in Answered(queue, m)
          /\ UNCHANGED <<connState, tcp>>
       \/ /\ ~(connState = "MQTT_CONNECT_SENDING" /\ m = "CONNACK") /\ connState # "MQTT_DATA"
          /\ UNCHANGED <<connState, queue, tcp>>
    /\ UNCHANGED <<pending, ticks>>

-----------------------------------------------------------------------------
(***************************************************************************)
(* The connection to the broker.                                           *)
(***************************************************************************)
mqtt_tcpclient_connect_cb ==
    /\ tcp = "syn"
    /\ tcp' = "open" /\ unacked' = TRUE /\ overdue' = FALSE /\ greeted' = "connect"
    /\ OnConnect
    /\ UNCHANGED <<pCon, early, orphan, wifi>>

mqtt_tcpclient_sent_cb ==
    /\ tcp = "open" /\ unacked
    /\ unacked' = FALSE /\ overdue' = FALSE
    /\ OnSent
    /\ UNCHANGED <<pCon, tcp, greeted, early, orphan, wifi>>

\* The broker speaks when it has been sent a CONNECT, and says CONNACK first.
mqtt_tcpclient_recv(m) ==
    /\ tcp = "open" /\ greeted = IF m = "CONNACK" THEN "connect" ELSE "connack"
    /\ greeted' = "connack"
    /\ OnRecv(m)
    /\ UNCHANGED <<pCon, unacked, overdue, early, orphan, wifi>>

\* The broker closes the connection, or it is refused or breaks down; espconn's
\* task will report it.
PeerCloses ==
    /\ \/ tcp = "open" /\ tcp' = "closing"
       \/ tcp \in {"syn", "open"} /\ tcp' = "failed"
    /\ UNCHANGED <<connState, pending, ticks, posted, queue,
                   pCon, unacked, overdue, greeted, early, orphan, wifi>>

mqtt_tcpclient_discon_cb ==
    /\ tcp \in {"closing", "failed"}
    /\ tcp' = "none" /\ unacked' = FALSE /\ overdue' = FALSE
    /\ OnEnd
    /\ UNCHANGED <<pCon, greeted, early, orphan, wifi>>

(***************************************************************************)
(* A connection whose espconn has been freed goes on.  Its callbacks read  *)
(* the client's address from freed memory: they may find it there, and     *)
(* then act on the client and its new connection, or not.                  *)
(***************************************************************************)
OrphanConnects ==
    /\ orphan = "syn" /\ orphan' = "open"
    /\ \/ OnConnect /\ espconn_send /\ UNCHANGED overdue
       \/ UNCHANGED <<connState, pending, ticks, posted, queue, link>>
    /\ UNCHANGED wifi

OrphanSent ==
    /\ orphan = "open"
    /\ OnSent
    /\ UNCHANGED <<link, orphan, wifi>>

OrphanRecv(m) ==
    /\ orphan = "open"
    /\ OnRecv(m)
    /\ UNCHANGED <<pCon, unacked, overdue, greeted, early, orphan, wifi>>

OrphanEnds ==
    /\ orphan # "none" /\ orphan' = "none"
    /\ \/ OnEnd
       \/ UNCHANGED <<connState, pending, ticks, posted, queue>>
    /\ UNCHANGED <<link, wifi>>

-----------------------------------------------------------------------------
(***************************************************************************)
(* The timers, the application and the task.                               *)
(***************************************************************************)

\* mqtt_app_timer_cb: the station got or lost its address.  No second espconn is
\* freed while the connection of the first goes on (a bound).
WifiUp ==
    /\ ~wifi /\ wifi' = TRUE
    /\ MQTT_Connect(TRUE)
    /\ UNCHANGED <<pending, posted, queue>>

WifiDown ==
    /\ WifiMayDrop /\ wifi /\ wifi' = FALSE
    /\ orphan = "none" \/ tcp = "none"
    /\ MQTT_Disconnect
    /\ UNCHANGED <<pending, posted, queue>>

\* mqtt_relay_change_cb and sensor_read_timer_cb publish one and three packets.
Publish(n) ==
    /\ queue' \in Enqueued(queue, [i \in 1 .. n |-> "PUBLISH"])
    /\ posted' = (posted \/ queue' # <<>>)
    /\ UNCHANGED <<connState, pending, ticks, link, orphan, wifi>>

\* mqtt_timer, once a second
KeepAliveDue == connState = "MQTT_DATA" /\ keepAliveTick = KeepAlive

RetryDue == connState = "TCP_RECONNECT_REQ" /\ reconnectTick = ReconnectTimeout

KeepAliveStep ==
    IF KeepAliveDue
    THEN /\ pending' = "PINGREQ" /\ keepAliveTick' = 0 /\ sendTimeout' = SendTimeout - 1
         /\ espconn_send
    ELSE /\ keepAliveTick' = keepAliveTick + IF connState = "MQTT_DATA" THEN 1 ELSE 0
         /\ sendTimeout' = IF sendTimeout > 0 THEN sendTimeout - 1 ELSE 0
         /\ UNCHANGED <<pending, pCon, tcp, unacked, greeted, early>>

RetryStep ==
    IF RetryDue THEN reconnectTick' = 0 /\ connState' = "TCP_RECONNECT"
    ELSE /\ reconnectTick' = reconnectTick + IF connState = "TCP_RECONNECT_REQ" THEN 1 ELSE 0
         /\ UNCHANGED connState

\* Mutant: the task is not woken up to connect again.
Mut_TimerPosts == KeepAliveDue

TimerPosts == KeepAliveDue \/ RetryDue

mqtt_timer ==
    /\ timerOn
    /\ KeepAliveStep /\ RetryStep
    /\ posted' = (posted \/ TimerPosts)
    /\ overdue' = (overdue \/ (unacked' /\ sendTimeout' = 0))
    /\ UNCHANGED <<timerOn, queue, orphan, wifi>>

\* Mutant: the task does not wait for the last packet to be acknowledged.
Mut_MayDequeue == connState = "MQTT_DATA" /\ queue # <<>>

\* Mutant: a connection that has not been acknowledged by the broker will do.
Mut_MayDequeueEarly ==
    connState \in {"MQTT_CONNECT_SENDING", "MQTT_DATA"} /\ queue # <<>> /\ sendTimeout = 0

MayDequeue == connState = "MQTT_DATA" /\ queue # <<>> /\ sendTimeout = 0

\* QUEUE_Gets, then espconn_send
SendNext ==
    /\ MayDequeue
    /\ queue' = Tail(queue) /\ pending' = Head(queue) /\ sendTimeout' = SendTimeout
    /\ espconn_send
    /\ UNCHANGED <<connState, overdue, keepAliveTick, reconnectTick, timerOn, orphan>>

MQTT_Task ==
    /\ posted /\ posted' = FALSE
    /\ \/ SendNext
       \/ connState = "TCP_RECONNECT" /\ MQTT_Connect(wifi) /\ UNCHANGED <<pending, queue>>
       \/ /\ connState # "TCP_RECONNECT" /\ ~MayDequeue
          /\ UNCHANGED <<connState, pending, ticks, queue, link, orphan>>
    /\ UNCHANGED wifi

-----------------------------------------------------------------------------
Next ==
    \/ mqtt_tcpclient_connect_cb \/ mqtt_tcpclient_sent_cb
    \/ \E m \in Message : mqtt_tcpclient_recv(m)
    \/ PeerCloses \/ mqtt_tcpclient_discon_cb
    \/ OrphanConnects \/ OrphanSent \/ (\E m \in Message : OrphanRecv(m)) \/ OrphanEnds
    \/ WifiUp \/ WifiDown
    \/ \E n \in {1, 3} : Publish(n)
    \/ mqtt_timer \/ MQTT_Task

Spec == Init /\ [][Next]_vars

\* The timer goes off once a second, the system runs a task that has an event and
\* espconn's task reports a connection that has ended.
LiveSpec ==
    /\ Spec
    /\ WF_vars(mqtt_timer) /\ WF_vars(MQTT_Task) /\ WF_vars(mqtt_tcpclient_discon_cb)

-----------------------------------------------------------------------------
\* Every variable has its type; the timers stay below their limits and the queue
\* below its own.
TicksOK ==
    /\ sendTimeout \in 0 .. SendTimeout /\ keepAliveTick \in 0 .. KeepAlive
    /\ reconnectTick \in 0 .. ReconnectTimeout
QueueOK == queue \in Seq(Packet) /\ Len(queue) <= QueueLen
ControlOK ==
    /\ connState \in {"WIFI_INIT", "TCP_RECONNECT_REQ", "TCP_RECONNECT", "TCP_CONNECTING",
                      "MQTT_CONNECT_SENDING", "MQTT_DATA"}
    /\ pending \in {"NONE", "CONNECT", "PINGREQ"} \cup Packet
    /\ tcp \in {"none", "syn", "open", "closing", "failed"}
    /\ greeted \in {"nothing", "connect", "connack"}
    /\ orphan \in {"none", "syn", "open", "ending"}
FlagsOK ==
    /\ timerOn \in BOOLEAN /\ posted \in BOOLEAN /\ pCon \in BOOLEAN /\ unacked \in BOOLEAN
    /\ overdue \in BOOLEAN /\ early \in BOOLEAN /\ wifi \in BOOLEAN
TypeOK == TicksOK /\ QueueOK /\ ControlOK /\ FlagsOK

\* No wake-up is lost.  Nobody polls the queue: MQTT_Task sends one packet per run
\* and returns without posting itself, so whenever the connection is ready and
\* packets wait, either the task has an event or a packet is out whose
\* acknowledgement will post one.  It holds although MQTT_Publish, the keep-alive
\* timer and every callback share a task queue of length one.
NoWakeupLost ==
    connState = "MQTT_DATA" /\ tcp = "open" /\ queue # <<>> => posted \/ unacked

\* While the client waits for a CONNACK, the pending message is its CONNECT: the
\* pings and the queue leave pending_msg_type alone, so that mqtt_tcpclient_recv
\* never takes a CONNACK for an invalid packet.
HandshakePending == connState = "MQTT_CONNECT_SENDING" => pending = "CONNECT"

\* A connection carries nothing but a CONNECT before the broker's CONNACK, whatever
\* the queue, the timers and the state of the connection before it were.
ConnectFirst == ~early

\* MQTT_Task takes a packet from the queue only when the connection will take it,
\* unless the packet before has been unacknowledged for MQTT_SEND_TIMOUT seconds:
\* sendTimeout, which the pings share, guards the one buffer of the connection.
DequeuedIsSent ==
    [][posted /\ ~posted' /\ queue' # queue /\ tcp = "open" /\ ~overdue
         => ~unacked /\ unacked']_vars

\* MQTT_Connect begins to connect: a client in TCP_CONNECTING has a connection
\* under way, whose callbacks will take it out of that state.
ConnectBegun == connState = "TCP_CONNECTING" /\ wifi => tcp \in {"syn", "failed"}

\* A client that has lost its connection, or did not get one, tries again.
Retries == (wifi /\ tcp = "none") ~> (tcp # "none")
=============================================================================
