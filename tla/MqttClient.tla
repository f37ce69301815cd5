----------------------------- MODULE MqttClient -----------------------------
(***************************************************************************)
(* The connection state machine of mqtt.c, with what drives it: the Wi-Fi  *)
(* callback of user_main.c, the timers of sleep.c, the espconn and DNS     *)
(* layers.  Every handler runs to completion on the SDK's single thread    *)
(* and is one action.                                                      *)
(*                                                                         *)
(* A connection is known to two parties.  The client holds pCon, a heap    *)
(* block; espconn holds a node in plink_active that points to the block.   *)
(* espconn_delete removes no node of a client connection, so a block can   *)
(* be freed, and its address handed out again, while a node or a DNS query *)
(* still points to it.  A callback through a freed block is undefined: it  *)
(* finds the old contents and runs, or finds no callback, or the device    *)
(* faults (Restart).                                                       *)
(***************************************************************************)
EXTENDS Integers, Sequences, FiniteSets

CONSTANTS
    Blocks,            \* heap addresses os_zalloc can return for a pCon
    NULL,
    SendTimeout,       \* MQTT_SEND_TIMOUT
    KeepAlive,         \* connect_info.keepalive, in timer ticks
    ReconnectTimeout,  \* MQTT_RECONNECT_TIMEOUT, in timer ticks
    QueueCap,          \* whole messages the queue holds
    DnsTable,          \* DNS queries one block can have outstanding
    Segments           \* what one TCP segment from the broker can hold

\* PINGREQ stands for PUBREC and PUBREL, too: each is answered by one reply.
\* What the replies contain is MqttMsg's.
Packet == {"CONNACK", "PUBLISH", "PUBLISH_QOS", "PINGREQ", "OTHER"}

ASSUME ClientAssumption ==
    /\ NULL \notin Blocks
    /\ SendTimeout \in Nat \ {0}
    /\ KeepAlive \in Nat
    /\ ReconnectTimeout \in Nat
    /\ QueueCap \in Nat \ {0}
    /\ DnsTable \in Nat
    /\ Segments \subseteq Seq(Packet)

VARIABLES
    connState,      \* tConnState
    pCon,           \* the client's espconn block, or NULL
    pending,        \* mqtt_state.pending_msg_type: CONNECT or another
    sendTimeout, keepAliveTick, reconnectTick,
    timerSet,       \* mqttTimer has its function (os_timer_setfn)
    timerArmed,     \* mqttTimer is armed
    posted,         \* an event waits for MQTT_Task, whose queue has length 1
    queue,          \* msgQueue: whole messages and bytes of an unfinished one
    wifi,           \* lastWifiStatus: GOT_IP, or IDLE for all the others
    hostIsIP,       \* UTILS_StrToIP accepts the configured host
    node,           \* espconn: state of the node that points to each block
    unacked,        \* espconn: that node has an espconn_buf not yet acknowledged
    reg,            \* the block holds the recv, sent and disconnect callbacks
    dns,            \* DNS queries outstanding with each block as argument
    forced          \* history: a block was freed under a node or a query

espconnVars == <<node, unacked, reg, dns>>
timerVars == <<timerSet, timerArmed>>
tickVars == <<sendTimeout, keepAliveTick, reconnectTick>>
envVars == <<wifi, hostIsIP>>
clientVars == <<connState, pCon, pending, tickVars, timerVars, posted, queue,
                forced>>
vars == <<clientVars, espconnVars, envVars>>

\* espconn_msg: connecting, established, CONNECT sent, CONNACK received, closed
\* in vain (tcp_close got no memory: nothing is received any more and nobody is
\* told), and SIG_ESPCONN_CLOSE or SIG_ESPCONN_ERRER posted to espconn_Task.
Established == {"est", "sent", "acked", "shut"}
Open == {"syn"} \cup Established
NodeState == {"none", "close", "error"} \cup Open

ConnState == {"WIFI_INIT", "TCP_DISCONNECTING", "TCP_DISCONNECTED",
              "TCP_RECONNECT_DISCONNECTING", "TCP_RECONNECT_REQ",
              "TCP_RECONNECT", "TCP_CONNECTING", "MQTT_CONNECT_SENDING",
              "MQTT_DATA", "MQTT_KEEPALIVE_SEND"}

QueueState == [whole : 0 .. QueueCap, part : BOOLEAN]
Empty == [whole |-> 0, part |-> FALSE]

\* user_init up to WIFI_Connect and sleepInit; MQTT_InitClient posts an event.
Init ==
    /\ connState = "WIFI_INIT" /\ pCon = NULL /\ pending = "OTHER"
    /\ sendTimeout = 0 /\ keepAliveTick = 0 /\ reconnectTick = 0
    /\ timerSet = FALSE /\ timerArmed = FALSE
    /\ posted = TRUE
    /\ queue = Empty
    /\ wifi = "IDLE" /\ hostIsIP \in BOOLEAN
    /\ node = [b \in Blocks |-> "none"]
    /\ unacked = [b \in Blocks |-> FALSE]
    /\ reg = [b \in Blocks |-> FALSE]
    /\ dns = [b \in Blocks |-> 0]
    /\ forced = FALSE

-----------------------------------------------------------------------------
(***************************************************************************)
(* The message queue, as Queue describes it: a failed QUEUE_Puts leaves    *)
(* bytes of an unfinished message behind the whole ones, and these vanish  *)
(* when a message follows them or when QUEUE_Gets finds nothing else.      *)
(***************************************************************************)
\* rb.fill_cnt > 0: !QUEUE_IsEmpty
Filled(q) == q.whole > 0 \/ q.part

\* MQTT_Publish: the message is stored, maybe after throwing away old ones,
\* or everything was thrown away in vain ("Serious buffer error").
AfterPublish(q) ==
    {s \in QueueState : s.whole \in 1 .. q.whole + 1 /\ ~s.part}
        \cup {s \in {Empty} : Filled(q)}

\* n replies of mqtt_tcpclient_recv, each stored or refused ("Queue full").
AfterReplies(q, n) ==
    {s \in QueueState :
        /\ s.whole \in q.whole .. q.whole + n
        /\ n = 0 => s = q
        /\ n > 0 /\ s.whole = q.whole + n => ~s.part}

\* QUEUE_Gets
AfterGets(q) ==
    IF q.whole > 0 THEN [q EXCEPT !.whole = @ - 1] ELSE Empty

-----------------------------------------------------------------------------
(***************************************************************************)
(* espconn and DNS calls, as relations on espconn's state.                 *)
(***************************************************************************)
\* espconn_connect: ESPCONN_ISCONN when a node already points to the block,
\* otherwise it may be refused for lack of memory, nodes or an IP address.
\* Its callers ignore the result.
espconn_connect(b, n) ==
    {n} \cup {m \in {[n EXCEPT ![b] = "syn"]} : n[b] = "none"}

\* espconn_sent: whether it may return ESPCONN_OK: the node is established
\* and has no other buffer (espconn_tcp_set_buf_count is 1).  It may also fail.
SentOk(b, n) ==
    {FALSE} \cup {ok \in {TRUE} : b \in Blocks /\ n[b] \in Established /\ ~unacked[b]}

\* espconn_client_close: the node is closed, or stays; tcp_close fails only when
\* it has to send a FIN.
espconn_client_close(b, n) ==
    {[n EXCEPT ![b] = "close"]}
        \cup {m \in {[n EXCEPT ![b] = "shut"]} : n[b] \in Established}

\* espconn_disconnect: ESPCONN_INPROGRESS for a node closed already, ESPCONN_OK
\* for one that could not be closed.
espconn_disconnect(b, n) ==
    IF b \in Blocks /\ n[b] \in Open THEN espconn_client_close(b, n) ELSE {n}

\* espconn_gethostbyname: no cache; refused when the table is full.
espconn_gethostbyname(b, d) ==
    {d} \cup {e \in {[d EXCEPT ![b] = @ + 1]} : d[b] < DnsTable}

\* system_os_post(MQTT_TASK_PRIO, 0, client): a full queue holds an event with
\* the same parameter.
system_os_post == posted' = TRUE

\* mqtt_tcpclient_delete frees pCon: is anything still pointing to it?
InUse == pCon # NULL /\ (node[pCon] # "none" \/ dns[pCon] > 0)

mqtt_tcpclient_delete ==
    /\ pCon' = NULL
    /\ forced' = (forced \/ InUse)

MQTT_Connect ==
    \E b \in Blocks :
        /\ pCon' = b
        /\ forced' = (forced \/ InUse)
        /\ reg' = [reg EXCEPT ![b] = FALSE]
        /\ keepAliveTick' = 0 /\ reconnectTick' = 0
        /\ timerSet' = TRUE /\ timerArmed' = FALSE
        /\ IF hostIsIP
           THEN node' \in espconn_connect(b, node) /\ UNCHANGED dns
           ELSE dns' \in espconn_gethostbyname(b, dns) /\ UNCHANGED node
        /\ connState' = "TCP_CONNECTING"

MQTT_Disconnect ==
    /\ connState' = "TCP_DISCONNECTING"
    /\ system_os_post
    /\ timerArmed' = FALSE

\* wifi_check_ip found another status: wifiConnectCb.  Of the statuses without
\* an address one can follow another.
wifiConnectCb(status) ==
    /\ status = "GOT_IP" => wifi # "GOT_IP"
    /\ wifi' = status
    /\ IF status = "GOT_IP"
       THEN MQTT_Connect /\ UNCHANGED posted
       ELSE MQTT_Disconnect
            /\ UNCHANGED <<pCon, forced, keepAliveTick, reconnectTick, timerSet,
                           espconnVars>>
    /\ UNCHANGED <<pending, sendTimeout, queue, unacked, hostIsIP>>

-----------------------------------------------------------------------------
(***************************************************************************)
(* Callbacks.                                                              *)
(***************************************************************************)
\* The query made for block b is answered, with an address, with 0.0.0.0 or
\* without one.
Answers == {"address", "zero", "none"}
mqtt_dns_found(b, answer) ==
    /\ dns[b] > 0
    /\ dns' = [dns EXCEPT ![b] = @ - 1]
    /\ \/ /\ answer = "address"
          /\ pCon # NULL      \* else a write through NULL: Restart
          /\ node' \in espconn_connect(pCon, node)
          /\ connState' = "TCP_CONNECTING"
          /\ system_os_post
       \/ answer = "zero" /\ system_os_post /\ UNCHANGED <<node, connState>>
       \/ /\ answer = "none"
          /\ connState' = "TCP_RECONNECT_REQ"
          /\ UNCHANGED <<node, posted>>
    /\ UNCHANGED <<pCon, pending, tickVars, timerVars, queue, forced, unacked,
                   reg, envVars>>

\* The callbacks are registered on, and CONNECT is sent to, client->pCon,
\* whichever block the connection belongs to.
mqtt_tcpclient_connect_cb(n) ==
    /\ reg' = [b \in Blocks |-> reg[b] \/ b = pCon]
    /\ \E ok \in SentOk(pCon, n) :
          /\ unacked' = [b \in Blocks |-> unacked[b] \/ (ok /\ b = pCon)]
          /\ node' = [b \in Blocks |->
                        IF ok /\ b = pCon /\ n[b] = "est" THEN "sent" ELSE n[b]]
    /\ pending' = "CONNECT"
    /\ sendTimeout' = SendTimeout
    /\ connState' = "MQTT_CONNECT_SENDING"
    /\ system_os_post

\* Through a freed block the callback may also be missing.
TcpConnected(b) ==
    /\ node[b] = "syn"
    /\ LET n == [node EXCEPT ![b] = "est"] IN
       \/ /\ mqtt_tcpclient_connect_cb(n)
          /\ UNCHANGED <<pCon, keepAliveTick, reconnectTick, timerVars, queue,
                         forced>>
       \/ /\ b # pCon
          /\ node' = n
          /\ UNCHANGED <<clientVars, unacked, reg>>
    /\ UNCHANGED <<dns, envVars>>

\* The broker acknowledges the buffer.
TcpSent(b) ==
    /\ node[b] \in Established
    /\ unacked[b]
    /\ unacked' = [unacked EXCEPT ![b] = FALSE]
    /\ \/ /\ reg[b]                                     \* mqtt_tcpclient_sent_cb
          /\ sendTimeout' = 0 /\ keepAliveTick' = 0
          /\ system_os_post
          /\ UNCHANGED <<connState, pCon, pending, reconnectTick, timerVars,
                         queue, forced>>
       \/ /\ ~reg[b] \/ b # pCon
          /\ UNCHANGED clientVars
    /\ UNCHANGED <<node, reg, dns, envVars>>

Publishes(p) == p \in {"PUBLISH", "PUBLISH_QOS"}

\* READPACKET: packets are taken from the segment as long as they are PUBLISH;
\* the first other one is the last one looked at.
Read(seg) == {i \in DOMAIN seg : \A j \in 1 .. i - 1 : Publishes(seg[j])}
Replies(seg) ==
    Cardinality({i \in Read(seg) : seg[i] \in {"PUBLISH_QOS", "PINGREQ"}})

\* mqttConnectedCb: three MQTT_Publish and the will of the next connection.
mqttConnectedCb ==
    \E q1 \in AfterPublish(queue) : \E q2 \in AfterPublish(q1) :
        queue' \in AfterPublish(q2)

CONNACKReceived(n, seg) ==
    /\ connState = "MQTT_CONNECT_SENDING"
    /\ seg # <<>> /\ seg[1] = "CONNACK"
    /\ IF pending = "CONNECT"
       THEN /\ connState' = "MQTT_DATA"
            /\ mqttConnectedCb
            /\ node' = n
       ELSE /\ node' \in espconn_disconnect(pCon, n)
            /\ UNCHANGED <<connState, queue>>

DataReceived(n, seg) ==
    /\ connState \in {"MQTT_DATA", "MQTT_KEEPALIVE_SEND"}
    /\ queue' \in AfterReplies(queue, Replies(seg))
    /\ node' = n
    /\ UNCHANGED connState

mqtt_tcpclient_recv(n, seg) ==
    /\ \/ CONNACKReceived(n, seg)
       \/ DataReceived(n, seg)
       \/ /\ \/ connState \notin {"MQTT_CONNECT_SENDING", "MQTT_DATA",
                                  "MQTT_KEEPALIVE_SEND"}
             \/ connState = "MQTT_CONNECT_SENDING"
                /\ (seg = <<>> \/ seg[1] # "CONNACK")
          /\ node' = n
          /\ UNCHANGED <<connState, queue>>
    /\ keepAliveTick' = 0
    /\ system_os_post

\* A segment arrives; <<>> stands for one of MQTT_BUF_SIZE bytes or more.  The
\* broker answers a CONNECT with CONNACK first and never repeats that.
TcpRecv(b, seg) ==
    /\ \/ node[b] = "sent" /\ seg # <<>> /\ seg[1] = "CONNACK"
       \/ node[b] = "acked" /\ \A i \in DOMAIN seg : seg[i] # "CONNACK"
    /\ LET n == [node EXCEPT ![b] = "acked"] IN
       \/ /\ reg[b]
          /\ mqtt_tcpclient_recv(n, seg)
          /\ UNCHANGED <<pCon, pending, sendTimeout, reconnectTick, timerVars,
                         forced>>
       \/ /\ ~reg[b] \/ b # pCon
          /\ node' = n
          /\ UNCHANGED clientVars
    /\ UNCHANGED <<unacked, reg, dns, envVars>>

\* The broker closes the connection, or it breaks: espconn_Task is told, unless
\* the answer to a FIN fails.
TcpEnds(b) ==
    /\ \/ node[b] \in Established /\ node' \in espconn_client_close(b, node)
       \/ node[b] \in Open /\ node' = [node EXCEPT ![b] = "error"]
    /\ UNCHANGED <<clientVars, unacked, reg, dns, envVars>>

\* Mutant: MQTT_Task is not told of the disconnection.
mqtt_tcpclient_discon_cbQuiet ==
    /\ connState' = IF connState = "TCP_DISCONNECTING" THEN "TCP_DISCONNECTED"
                    ELSE "TCP_RECONNECT_REQ"
    /\ UNCHANGED posted

\* Mutant: a closed connection is taken for the one the client gave up.
mqtt_tcpclient_discon_cbFinal ==
    /\ connState' = "TCP_DISCONNECTED"
    /\ system_os_post

mqtt_tcpclient_discon_cb ==
    /\ connState' = IF connState = "TCP_DISCONNECTING" THEN "TCP_DISCONNECTED"
                    ELSE "TCP_RECONNECT_REQ"
    /\ system_os_post

\* Mutant: an error on an established connection is ignored.
mqtt_tcpclient_recon_cbLate ==
    /\ connState' = IF connState = "TCP_CONNECTING" THEN "TCP_RECONNECT_REQ"
                    ELSE connState
    /\ system_os_post

mqtt_tcpclient_recon_cb ==
    /\ connState' = "TCP_RECONNECT_REQ"
    /\ system_os_post

\* espconn_Task tells the client and frees the node.
espconn_Task(b) ==
    /\ \/ /\ node[b] = "close"
          /\ \/ reg[b] /\ mqtt_tcpclient_discon_cb
             \/ (~reg[b] \/ b # pCon) /\ UNCHANGED <<connState, posted>>
       \/ /\ node[b] = "error"
          /\ \/ mqtt_tcpclient_recon_cb
             \/ b # pCon /\ UNCHANGED <<connState, posted>>
    /\ node' = [node EXCEPT ![b] = "none"]
    /\ unacked' = [unacked EXCEPT ![b] = FALSE]
    /\ UNCHANGED <<pCon, pending, tickVars, timerVars, queue, forced, reg, dns, envVars>>

-----------------------------------------------------------------------------
(***************************************************************************)
(* Timers and MQTT_Task.                                                   *)
(***************************************************************************)
Countdown == sendTimeout' = IF sendTimeout > 0 THEN sendTimeout - 1 ELSE 0

\* Mutant: the reconnect counter is not reset when it has run out.
ReconnectTimerStuck ==
    /\ connState = "TCP_RECONNECT_REQ"
    /\ reconnectTick' = reconnectTick + 1
    /\ IF reconnectTick + 1 > ReconnectTimeout
       THEN connState' = "TCP_RECONNECT" /\ system_os_post
       ELSE UNCHANGED <<connState, posted>>
    /\ UNCHANGED keepAliveTick

ReconnectTimer ==
    /\ connState = "TCP_RECONNECT_REQ"
    /\ IF reconnectTick + 1 > ReconnectTimeout
       THEN reconnectTick' = 0 /\ connState' = "TCP_RECONNECT" /\ system_os_post
       ELSE reconnectTick' = reconnectTick + 1 /\ UNCHANGED <<connState, posted>>
    /\ UNCHANGED keepAliveTick

\* Mutant: the keep-alive request is sent by the next event, whenever it comes.
KeepAliveTimerIdle ==
    /\ connState = "MQTT_DATA"
    /\ keepAliveTick' = IF keepAliveTick = KeepAlive THEN 0 ELSE keepAliveTick + 1
    /\ UNCHANGED <<connState, posted, reconnectTick>>

KeepAliveTimer ==
    /\ connState = "MQTT_DATA"
    /\ keepAliveTick' = keepAliveTick + 1
    /\ IF keepAliveTick + 1 > KeepAlive
       THEN connState' = "MQTT_KEEPALIVE_SEND" /\ system_os_post
       ELSE UNCHANGED <<connState, posted>>
    /\ UNCHANGED reconnectTick

mqtt_timer ==
    /\ timerArmed
    /\ timerSet                \* else a call through NULL: Restart
    /\ \/ KeepAliveTimer
       \/ ReconnectTimer
       \/ /\ connState \notin {"MQTT_DATA", "TCP_RECONNECT_REQ"}
          /\ UNCHANGED <<connState, posted, keepAliveTick, reconnectTick>>
    /\ Countdown
    /\ UNCHANGED <<pCon, pending, timerVars, queue, forced, espconnVars, envVars>>

\* Mutant: the timer is not armed for a queue that cannot be sent yet.
goToSleepUnarmed ==
    /\ timerArmed' = (Filled(queue) /\ connState = "MQTT_DATA")
    /\ UNCHANGED <<connState, pCon, pending, tickVars, timerSet, posted, queue,
                   forced, espconnVars, envVars>>

\* goToSleep keeps mqttTimer running as long as something is queued.
goToSleep ==
    /\ timerArmed' = Filled(queue)
    /\ UNCHANGED <<connState, pCon, pending, tickVars, timerSet, posted, queue,
                   forced, espconnVars, envVars>>

\* One call by the application; sendADCData makes nine in a row.
MQTT_Publish ==
    /\ queue' \in AfterPublish(queue)
    /\ posted' = (posted \/ queue' # Empty)
    /\ UNCHANGED <<connState, pCon, pending, tickVars, timerVars, forced,
                   espconnVars, envVars>>

mqtt_send_keepalive ==
    /\ connState = "MQTT_KEEPALIVE_SEND"
    /\ pending' = "OTHER"
    /\ sendTimeout' = SendTimeout
    /\ \E ok \in SentOk(pCon, node) :
          /\ unacked' = [b \in Blocks |-> unacked[b] \/ (ok /\ b = pCon)]
          /\ keepAliveTick' = IF ok THEN 0 ELSE keepAliveTick
          /\ connState' = IF ok THEN "MQTT_DATA" ELSE "TCP_RECONNECT_DISCONNECTING"
    /\ system_os_post
    /\ UNCHANGED <<pCon, reconnectTick, timerVars, queue, forced, node, reg, dns>>

\* The result of espconn_send is ignored.
TaskSend ==
    /\ connState = "MQTT_DATA" /\ Filled(queue) /\ sendTimeout = 0
    /\ queue' = AfterGets(queue)
    /\ IF queue.whole > 0
       THEN /\ pending' = "OTHER"
            /\ sendTimeout' = SendTimeout
            /\ \E ok \in SentOk(pCon, node) :
                  unacked' = [b \in Blocks |-> unacked[b] \/ (ok /\ b = pCon)]
       ELSE UNCHANGED <<pending, sendTimeout, unacked>>
    /\ posted' = FALSE
    /\ UNCHANGED <<connState, pCon, keepAliveTick, reconnectTick, timerVars,
                   forced, node, reg, dns>>

TaskReconnect ==
    /\ connState = "TCP_RECONNECT"
    /\ MQTT_Connect
    /\ posted' = FALSE
    /\ UNCHANGED <<pending, sendTimeout, queue, unacked>>

TaskDisconnect ==
    /\ connState \in {"TCP_DISCONNECTING", "TCP_RECONNECT_DISCONNECTING"}
    /\ node' \in espconn_disconnect(pCon, node)
    /\ posted' = FALSE
    /\ UNCHANGED <<connState, pCon, pending, tickVars, timerVars, queue, forced,
                   unacked, reg, dns>>

TaskDisconnected ==
    /\ connState = "TCP_DISCONNECTED"
    /\ mqtt_tcpclient_delete
    /\ posted' = FALSE
    /\ UNCHANGED <<connState, pending, tickVars, timerVars, queue, espconnVars>>

TaskIdle ==
    /\ \/ connState \in {"WIFI_INIT", "TCP_RECONNECT_REQ", "TCP_CONNECTING",
                         "MQTT_CONNECT_SENDING"}
       \/ connState = "MQTT_DATA" /\ (~Filled(queue) \/ sendTimeout # 0)
    /\ posted' = FALSE
    /\ UNCHANGED <<connState, pCon, pending, tickVars, timerVars, queue, forced,
                   espconnVars>>

MQTT_Task ==
    /\ posted
    /\ \/ mqtt_send_keepalive \/ TaskSend \/ TaskReconnect \/ TaskDisconnect
       \/ TaskDisconnected \/ TaskIdle
    /\ UNCHANGED envVars

\* Power loss, the watchdog, a fault, or a new configuration: user_init again.
Restart ==
    /\ connState' = "WIFI_INIT" /\ pCon' = NULL /\ pending' = "OTHER"
    /\ sendTimeout' = 0 /\ keepAliveTick' = 0 /\ reconnectTick' = 0
    /\ timerSet' = FALSE /\ timerArmed' = FALSE
    /\ posted' = TRUE
    /\ queue' = Empty
    /\ wifi' = "IDLE" /\ hostIsIP' \in BOOLEAN
    /\ node' = [b \in Blocks |-> "none"]
    /\ unacked' = [b \in Blocks |-> FALSE]
    /\ reg' = [b \in Blocks |-> FALSE]
    /\ dns' = [b \in Blocks |-> 0]
    /\ forced' = FALSE

Next ==
    \/ \E status \in {"IDLE", "GOT_IP"} : wifiConnectCb(status)
    \/ \E b \in Blocks, answer \in Answers : mqtt_dns_found(b, answer)
    \/ \E b \in Blocks : TcpConnected(b) \/ TcpSent(b) \/ TcpEnds(b) \/ espconn_Task(b)
    \/ \E b \in Blocks, seg \in Segments : TcpRecv(b, seg)
    \/ mqtt_timer
    \/ goToSleep
    \/ MQTT_Publish
    \/ MQTT_Task
    \/ Restart

Spec == Init /\ [][Next]_vars

-----------------------------------------------------------------------------
\* The counters stay below their limits, and the queue within its ring,
\* whatever state a tick, a callback or a publish finds the client in.
TypeOK ==
    /\ connState \in ConnState
    /\ pCon \in Blocks \cup {NULL}
    /\ pending \in {"CONNECT", "OTHER"}
    /\ sendTimeout \in 0 .. SendTimeout
    /\ keepAliveTick \in 0 .. KeepAlive + 1
    /\ reconnectTick \in 0 .. ReconnectTimeout
    /\ timerSet \in BOOLEAN /\ timerArmed \in BOOLEAN
    /\ posted \in BOOLEAN
    /\ queue \in QueueState
    /\ wifi \in {"IDLE", "GOT_IP"} /\ hostIsIP \in BOOLEAN
    /\ node \in [Blocks -> NodeState]
    /\ unacked \in [Blocks -> BOOLEAN]
    /\ reg \in [Blocks -> BOOLEAN]
    /\ dns \in [Blocks -> 0 .. DnsTable]
    /\ forced \in BOOLEAN

\* A state that MQTT_Task has to act on never waits without an event, although
\* the task's queue has one slot and the result of system_os_post is ignored:
\* a reconnect, a keep-alive request, a block to free, and a connection to close
\* until espconn was asked to; espconn may fail to, and tell nobody.
NoLostWakeup ==
    /\ connState \in {"TCP_RECONNECT", "MQTT_KEEPALIVE_SEND"} => posted
    /\ connState = "TCP_DISCONNECTED" /\ pCon # NULL => posted
    /\ connState \in {"TCP_DISCONNECTING", "TCP_RECONNECT_DISCONNECTING"}
          /\ pCon # NULL /\ node[pCon] \in Open \ {"shut"} => posted

\* As long as no connection was freed by force, the client sends messages and
\* keep-alive requests only on a connection whose own CONNACK it has seen,
\* across every reconnect, disconnect and late answer.
SessionMatches ==
    ~forced /\ connState \in {"MQTT_DATA", "MQTT_KEEPALIVE_SEND"} =>
        pCon # NULL /\ node[pCon] \in {"acked", "shut", "close", "error"}

\* The client rests without a connection only as long as the Wi-Fi has no
\* address: no late disconnect, error or answer of a connection that the Wi-Fi
\* took away takes the client back there after the Wi-Fi has returned.  Nothing
\* but the next change of the Wi-Fi leads out of these states.
RestsOffline ==
    connState \in {"WIFI_INIT", "TCP_DISCONNECTING", "TCP_DISCONNECTED"}
        => wifi # "GOT_IP"

\* "Clean up the old connection forcefully": once the client has a new block,
\* espconn keeps no connection for an old one.
OldConnectionReleased == \A b \in Blocks : node[b] # "none" => b = pCon

\* mqtt_timer clears sendTimeout without posting an event, which leaves queued
\* messages waiting for nothing; goToSleep and the keep-alive bring the client
\* out of that.
Stalled ==
    connState = "MQTT_DATA" /\ Filled(queue) /\ sendTimeout = 0 /\ ~posted
NotStalledForever == Stalled ~> ~Stalled

\* A client that asked for a reconnect gets it as long as it has something to
\* send: mqttTimer, which counts towards it, only runs when goToSleep finds the
\* queue filled.
Waiting == connState = "TCP_RECONNECT_REQ" /\ Filled(queue)
Reconnects == Waiting ~> ~Waiting
=============================================================================
