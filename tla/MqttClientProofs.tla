-------------------------- MODULE MqttClientProofs --------------------------
(***************************************************************************)
(* Proofs about MqttClient: types and bounds, no lost wake-up, where the   *)
(* client rests, and which connection it sends on.                         *)
(***************************************************************************)
EXTENDS MqttClient, TLAPS

\* A tick is only counted in MQTT_DATA, which is entered with the counter at 0.
KeepAliveBound == connState = "MQTT_DATA" => keepAliveTick <= KeepAlive

TypeInv == TypeOK /\ KeepAliveBound

-----------------------------------------------------------------------------
\* What the queue operations leave is a state of the queue.
LEMMA EmptyType == Empty \in QueueState
BY ClientAssumption DEF Empty, QueueState

LEMMA PublishType == \A q : AfterPublish(q) \subseteq QueueState
BY EmptyType DEF AfterPublish

LEMMA RepliesType == \A q, n : AfterReplies(q, n) \subseteq QueueState
BY DEF AfterReplies

LEMMA GetsType ==
    ASSUME NEW q \in QueueState
    PROVE  AfterGets(q) \in QueueState
<1>1. CASE q.whole > 0
  <2>1. q.whole \in 0 .. QueueCap /\ q.part \in BOOLEAN
    BY DEF QueueState
  <2>2. q.whole - 1 \in 0 .. QueueCap
    BY <1>1, <2>1, ClientAssumption
  <2>3. AfterGets(q) = [whole |-> q.whole - 1, part |-> q.part]
    BY <1>1 DEF AfterGets, QueueState
  <2> QED
    BY <2>1, <2>2, <2>3 DEF QueueState
<1>2. CASE ~(q.whole > 0)
  BY <1>2, EmptyType DEF AfterGets
<1> QED
  BY <1>1, <1>2

\* What the espconn and DNS calls leave.
LEMMA ConnectType ==
    ASSUME NEW b \in Blocks, NEW n \in [Blocks -> NodeState],
           NEW m \in espconn_connect(b, n)
    PROVE  m \in [Blocks -> NodeState]
BY DEF espconn_connect, NodeState, Open

LEMMA CloseType ==
    ASSUME NEW b \in Blocks, NEW n \in [Blocks -> NodeState],
           NEW m \in espconn_client_close(b, n)
    PROVE  m \in [Blocks -> NodeState]
BY DEF espconn_client_close, NodeState, Open, Established

LEMMA DisconnectType ==
    ASSUME NEW b, NEW n \in [Blocks -> NodeState], NEW m \in espconn_disconnect(b, n)
    PROVE  m \in [Blocks -> NodeState]
BY CloseType DEF espconn_disconnect

LEMMA DnsType ==
    ASSUME NEW b \in Blocks, NEW d \in [Blocks -> 0 .. DnsTable],
           NEW e \in espconn_gethostbyname(b, d)
    PROVE  e \in [Blocks -> 0 .. DnsTable]
BY ClientAssumption DEF espconn_gethostbyname

LEMMA SentOkType == \A b, n : SentOk(b, n) \subseteq BOOLEAN
BY DEF SentOk

-----------------------------------------------------------------------------
LEMMA MQTT_ConnectType ==
    ASSUME TypeInv, MQTT_Connect
    PROVE  /\ connState' \in ConnState /\ connState' # "MQTT_DATA"
           /\ pCon' \in Blocks \cup {NULL}
           /\ keepAliveTick' \in 0 .. KeepAlive + 1
           /\ reconnectTick' \in 0 .. ReconnectTimeout
           /\ timerSet' \in BOOLEAN /\ timerArmed' \in BOOLEAN
           /\ node' \in [Blocks -> NodeState]
           /\ reg' \in [Blocks -> BOOLEAN]
           /\ dns' \in [Blocks -> 0 .. DnsTable]
           /\ forced' \in BOOLEAN
<1>1. PICK b \in Blocks :
        /\ pCon' = b
        /\ forced' = (forced \/ InUse)
        /\ reg' = [reg EXCEPT ![b] = FALSE]
        /\ keepAliveTick' = 0 /\ reconnectTick' = 0
        /\ timerSet' = TRUE /\ timerArmed' = FALSE
        /\ IF hostIsIP
           THEN node' \in espconn_connect(b, node) /\ UNCHANGED dns
           ELSE dns' \in espconn_gethostbyname(b, dns) /\ UNCHANGED node
        /\ connState' = "TCP_CONNECTING"
  BY DEF MQTT_Connect
<1>2. node' \in [Blocks -> NodeState] /\ dns' \in [Blocks -> 0 .. DnsTable]
  <2>1. node \in [Blocks -> NodeState] /\ dns \in [Blocks -> 0 .. DnsTable]
    BY DEF TypeInv, TypeOK
  <2>2. CASE hostIsIP
    BY <1>1, <2>1, <2>2, ConnectType
  <2>3. CASE ~hostIsIP
    BY <1>1, <2>1, <2>3, DnsType
  <2> QED
    BY <2>2, <2>3
<1>3. reg' \in [Blocks -> BOOLEAN]
  BY <1>1 DEF TypeInv, TypeOK
<1>4. forced' \in BOOLEAN
  BY <1>1
<1>5. 0 \in 0 .. KeepAlive + 1 /\ 0 \in 0 .. ReconnectTimeout
  BY ClientAssumption
<1> QED
  BY <1>1, <1>2, <1>3, <1>4, <1>5 DEF ConnState

LEMMA InitType == Init => TypeInv
<1> SUFFICES ASSUME Init PROVE TypeInv
  OBVIOUS
<1>1. 0 \in 0 .. SendTimeout /\ 0 \in 0 .. KeepAlive + 1
      /\ 0 \in 0 .. ReconnectTimeout /\ 0 \in 0 .. DnsTable
  BY ClientAssumption
<1> QED
  BY <1>1, EmptyType DEF Init, TypeInv, TypeOK, KeepAliveBound, ConnState, NodeState

\* A restart leads back to an initial state.
LEMMA RestartType == Restart => TypeInv'
<1> SUFFICES ASSUME Restart PROVE TypeInv'
  OBVIOUS
<1>1. 0 \in 0 .. SendTimeout /\ 0 \in 0 .. KeepAlive + 1
      /\ 0 \in 0 .. ReconnectTimeout /\ 0 \in 0 .. DnsTable
  BY ClientAssumption
<1> QED
  BY <1>1, EmptyType DEF Restart, TypeInv, TypeOK, KeepAliveBound, ConnState, NodeState

\* Every step keeps the types and the bounds.
LEMMA TypeStep ==
    ASSUME TypeInv, Next
    PROVE  TypeInv'
<1> USE DEF TypeInv
<1>0. /\ SendTimeout \in Nat /\ KeepAlive \in Nat /\ ReconnectTimeout \in Nat
      /\ 0 \in 0 .. SendTimeout /\ SendTimeout \in 0 .. SendTimeout
      /\ 0 \in 0 .. KeepAlive + 1 /\ 0 \in 0 .. ReconnectTimeout
  BY ClientAssumption
<1>1. ASSUME NEW status \in {"IDLE", "GOT_IP"}, wifiConnectCb(status)
      PROVE  TypeInv'
  <2>1. CASE status = "GOT_IP"
    <3>1. MQTT_Connect /\ UNCHANGED <<posted, pending, sendTimeout, queue, unacked>>
          /\ wifi' = status /\ UNCHANGED hostIsIP
      BY <1>1, <2>1 DEF wifiConnectCb
    <3> QED
      BY <1>1, <3>1, MQTT_ConnectType DEF envVars, TypeOK, KeepAliveBound
  <2>2. CASE status # "GOT_IP"
    BY <1>1, <2>2 DEF wifiConnectCb, MQTT_Disconnect, system_os_post, espconnVars,
                      envVars, TypeOK, KeepAliveBound, ConnState
  <2> QED
    BY <2>1, <2>2
<1>2. ASSUME NEW b \in Blocks, NEW answer \in Answers, mqtt_dns_found(b, answer)
      PROVE  TypeInv'
  <2>1. node' \in [Blocks -> NodeState]
    BY <1>2, ConnectType DEF mqtt_dns_found, TypeOK
  <2>2. dns' \in [Blocks -> 0 .. DnsTable]
    BY <1>2, ClientAssumption DEF mqtt_dns_found, TypeOK
  <2>3. /\ connState' \in {connState, "TCP_CONNECTING", "TCP_RECONNECT_REQ"}
        /\ posted' \in BOOLEAN
    BY <1>2 DEF mqtt_dns_found, system_os_post, TypeOK
  <2> QED
    BY <1>2, <2>1, <2>2, <2>3 DEF mqtt_dns_found, tickVars, timerVars, envVars, TypeOK,
                                  KeepAliveBound, ConnState
<1>3. ASSUME NEW b \in Blocks, TcpConnected(b)
      PROVE  TypeInv'
  <2> DEFINE n == [node EXCEPT ![b] = "est"]
  <2>1. n \in [Blocks -> NodeState]
    BY DEF TypeOK, NodeState, Open, Established
  <2>2. CASE mqtt_tcpclient_connect_cb(n)
             /\ UNCHANGED <<pCon, keepAliveTick, reconnectTick, timerVars, queue, forced>>
    <3>1. reg' \in [Blocks -> BOOLEAN]
      BY <2>2 DEF mqtt_tcpclient_connect_cb
    <3>2. unacked' \in [Blocks -> BOOLEAN]
      BY <2>2 DEF mqtt_tcpclient_connect_cb
    <3>3. node' \in [Blocks -> NodeState]
      BY <2>1, <2>2 DEF mqtt_tcpclient_connect_cb, NodeState, Open, Established
    <3> QED
      BY <1>0, <1>3, <2>2, <3>1, <3>2, <3>3
      DEF TcpConnected, mqtt_tcpclient_connect_cb, system_os_post, timerVars,
          envVars, TypeOK, KeepAliveBound, ConnState
  <2>3. CASE node' = n /\ UNCHANGED <<clientVars, unacked, reg>>
    BY <1>3, <2>1, <2>3
    DEF TcpConnected, clientVars, tickVars, timerVars, envVars, TypeOK, KeepAliveBound
  <2> QED
    BY <1>3, <2>2, <2>3 DEF TcpConnected
<1>4. ASSUME NEW b \in Blocks, TcpSent(b)
      PROVE  TypeInv'
  <2>1. unacked' \in [Blocks -> BOOLEAN]
    BY <1>4 DEF TcpSent, TypeOK
  <2>2. /\ connState' = connState
        /\ \/ sendTimeout' = 0 /\ keepAliveTick' = 0
           \/ sendTimeout' = sendTimeout /\ keepAliveTick' = keepAliveTick
        /\ posted' \in BOOLEAN
        /\ UNCHANGED <<pCon, pending, reconnectTick, timerSet, timerArmed, queue, forced>>
    BY <1>4 DEF TcpSent, system_os_post, clientVars, tickVars, timerVars, TypeOK
  <2>3. TypeOK'
    BY <1>0, <1>4, <2>1, <2>2 DEF TcpSent, envVars, TypeOK
  <2>4. KeepAliveBound'
    BY <1>0, <2>2 DEF KeepAliveBound
  <2> QED
    BY <2>3, <2>4
<1>5. ASSUME NEW b \in Blocks, TcpEnds(b)
      PROVE  TypeInv'
  <2>1. node' \in [Blocks -> NodeState]
    BY <1>5, CloseType DEF TcpEnds, TypeOK, NodeState
  <2> QED
    BY <1>5, <2>1 DEF TcpEnds, clientVars, tickVars, timerVars, envVars, TypeOK, KeepAliveBound
<1>6. ASSUME NEW b \in Blocks, espconn_Task(b)
      PROVE  TypeInv'
  <2>1. node' \in [Blocks -> NodeState] /\ unacked' \in [Blocks -> BOOLEAN]
    BY <1>6 DEF espconn_Task, TypeOK, NodeState
  <2>2. /\ connState' \in {connState, "TCP_DISCONNECTED", "TCP_RECONNECT_REQ"}
        /\ posted' \in BOOLEAN
    BY <1>6 DEF espconn_Task, mqtt_tcpclient_discon_cb, mqtt_tcpclient_recon_cb,
                system_os_post, TypeOK
  <2> QED
    BY <1>6, <2>1, <2>2
    DEF espconn_Task, tickVars, timerVars, envVars, TypeOK, KeepAliveBound, ConnState
<1>7. ASSUME NEW b \in Blocks, NEW seg \in Segments, TcpRecv(b, seg)
      PROVE  TypeInv'
  <2> DEFINE n == [node EXCEPT ![b] = "acked"]
  <2>1. n \in [Blocks -> NodeState]
    BY DEF TypeOK, NodeState, Open, Established
  <2>2. CASE mqtt_tcpclient_recv(n, seg)
             /\ UNCHANGED <<pCon, pending, sendTimeout, reconnectTick, timerVars, forced>>
    <3>1. node' \in [Blocks -> NodeState]
      <4>1. node' = n \/ node' \in espconn_disconnect(pCon, n)
        BY <2>2 DEF mqtt_tcpclient_recv, CONNACKReceived, DataReceived
      <4> QED
        BY <2>1, <4>1, DisconnectType
    <3>2. queue' \in QueueState
      BY <2>2, PublishType, RepliesType
      DEF mqtt_tcpclient_recv, CONNACKReceived, DataReceived, mqttConnectedCb, TypeOK
    <3>3. connState' \in ConnState
      BY <2>2 DEF mqtt_tcpclient_recv, CONNACKReceived, DataReceived, TypeOK, ConnState
    <3> QED
      BY <1>0, <1>7, <2>2, <3>1, <3>2, <3>3
      DEF TcpRecv, mqtt_tcpclient_recv, system_os_post, timerVars, envVars, TypeOK, KeepAliveBound
  <2>3. CASE node' = n /\ UNCHANGED clientVars
    BY <1>7, <2>1, <2>3
    DEF TcpRecv, clientVars, tickVars, timerVars, envVars, TypeOK, KeepAliveBound
  <2> QED
    BY <1>7, <2>2, <2>3 DEF TcpRecv
<1>8. CASE mqtt_timer
  <2>1. sendTimeout' \in 0 .. SendTimeout
    BY <1>0, <1>8 DEF mqtt_timer, Countdown, TypeOK
  <2>2. CASE KeepAliveTimer
    <3>1. keepAliveTick \in 0 .. KeepAlive
      BY <1>0, <2>2 DEF KeepAliveTimer, envVars, TypeOK, KeepAliveBound
    <3>2. /\ keepAliveTick' \in 0 .. KeepAlive + 1
          /\ connState' = "MQTT_DATA" => keepAliveTick' <= KeepAlive
      BY <1>0, <2>2, <3>1 DEF KeepAliveTimer
    <3>3. /\ connState' \in {connState, "MQTT_KEEPALIVE_SEND"}
          /\ posted' \in {posted, TRUE}
          /\ UNCHANGED reconnectTick
      BY <2>2 DEF KeepAliveTimer, system_os_post
    <3>4. connState' \in ConnState /\ posted' \in BOOLEAN /\ KeepAliveBound'
      BY <3>2, <3>3 DEF TypeOK, ConnState, KeepAliveBound
    <3>5. UNCHANGED <<pCon, pending, timerSet, timerArmed, queue, forced, node,
                      unacked, reg, dns, wifi, hostIsIP>>
      BY <1>8 DEF mqtt_timer, timerVars, espconnVars, envVars
    <3> QED
      BY <2>1, <3>2, <3>3, <3>4, <3>5 DEF TypeOK
  <2>3. CASE ReconnectTimer
    <3>1. reconnectTick' \in 0 .. ReconnectTimeout
      BY <1>0, <2>3 DEF ReconnectTimer, TypeOK
    <3>2. /\ connState' \in {"TCP_RECONNECT_REQ", "TCP_RECONNECT"}
          /\ posted' \in {posted, TRUE}
          /\ UNCHANGED keepAliveTick
      BY <2>3 DEF ReconnectTimer, system_os_post
    <3> QED
      BY <1>8, <2>1, <3>1, <3>2
      DEF mqtt_timer, timerVars, espconnVars, envVars, TypeOK, KeepAliveBound, ConnState
  <2>4. CASE UNCHANGED <<connState, posted, keepAliveTick, reconnectTick>>
    BY <1>8, <2>1, <2>4 DEF mqtt_timer, timerVars, espconnVars, envVars, TypeOK, KeepAliveBound
  <2> QED
    BY <1>8, <2>2, <2>3, <2>4 DEF mqtt_timer
<1>9. CASE goToSleep
  BY <1>9 DEF goToSleep, Filled, tickVars, espconnVars, envVars, TypeOK, KeepAliveBound
<1>10. CASE MQTT_Publish
  <2>1. queue' \in QueueState
    BY <1>10, PublishType DEF MQTT_Publish
  <2> QED
    BY <1>10, <2>1 DEF MQTT_Publish, tickVars, timerVars, espconnVars, envVars, TypeOK, KeepAliveBound
<1>11. CASE MQTT_Task
  <2>1. CASE mqtt_send_keepalive
    <3>1. unacked' \in [Blocks -> BOOLEAN]
      BY <2>1 DEF mqtt_send_keepalive
    <3>2. /\ connState' \in ConnState
          /\ keepAliveTick' \in 0 .. KeepAlive + 1
          /\ connState' = "MQTT_DATA" => keepAliveTick' = 0
      BY <1>0, <2>1 DEF mqtt_send_keepalive, TypeOK, ConnState
    <3> QED
      BY <1>0, <1>11, <2>1, <3>1, <3>2
      DEF MQTT_Task, mqtt_send_keepalive, system_os_post, timerVars, envVars, TypeOK, KeepAliveBound
  <2>2. CASE TaskSend
    <3>1. unacked' \in [Blocks -> BOOLEAN]
      BY <2>2 DEF TaskSend, TypeOK
    <3>2. queue' \in QueueState
      BY <2>2, GetsType DEF TaskSend, TypeOK
    <3> QED
      BY <1>0, <1>11, <2>2, <3>1, <3>2 DEF MQTT_Task, TaskSend, timerVars, envVars, TypeOK, KeepAliveBound
  <2>3. CASE TaskReconnect
    BY <1>11, <2>3, MQTT_ConnectType DEF MQTT_Task, TaskReconnect, envVars, TypeOK, KeepAliveBound
  <2>4. CASE TaskDisconnect
    <3>1. node' \in [Blocks -> NodeState]
      BY <2>4, DisconnectType DEF TaskDisconnect, TypeOK
    <3> QED
      BY <1>11, <2>4, <3>1 DEF MQTT_Task, TaskDisconnect, tickVars, timerVars, envVars, TypeOK,
                               KeepAliveBound
  <2>5. CASE TaskDisconnected
    BY <1>11, <2>5 DEF MQTT_Task, TaskDisconnected, mqtt_tcpclient_delete, tickVars,
                       timerVars, espconnVars, envVars, TypeOK, KeepAliveBound
  <2>6. CASE TaskIdle
    BY <1>11, <2>6 DEF MQTT_Task, TaskIdle, tickVars, timerVars, espconnVars, envVars, TypeOK,
                       KeepAliveBound
  <2> QED
    BY <1>11, <2>1, <2>2, <2>3, <2>4, <2>5, <2>6 DEF MQTT_Task
<1> QED
  BY <1>1, <1>2, <1>3, <1>4, <1>5, <1>6, <1>7, <1>8, <1>9, <1>10, <1>11, RestartType
  DEF Next

-----------------------------------------------------------------------------
\* Every step that leaves the client something to do posts an event, and
\* MQTT_Task takes the event away only with the work.
LEMMA WakeupStep ==
    ASSUME TypeInv, NoLostWakeup, Next
    PROVE  NoLostWakeup'
<1>0. node \in [Blocks -> NodeState] /\ pCon \in Blocks \cup {NULL} /\ NULL \notin Blocks
  BY ClientAssumption DEF TypeInv, TypeOK
<1> USE DEF NoLostWakeup
<1>1. ASSUME NEW status \in {"IDLE", "GOT_IP"}, wifiConnectCb(status)
      PROVE  NoLostWakeup'
  BY <1>1 DEF wifiConnectCb, MQTT_Connect, MQTT_Disconnect, system_os_post
<1>2. ASSUME NEW b \in Blocks, NEW answer \in Answers, mqtt_dns_found(b, answer)
      PROVE  NoLostWakeup'
  BY <1>2 DEF mqtt_dns_found, system_os_post
<1>3. ASSUME NEW b \in Blocks, TcpConnected(b)
      PROVE  NoLostWakeup'
  <2> DEFINE n == [node EXCEPT ![b] = "est"]
  <2>1. CASE mqtt_tcpclient_connect_cb(n)
    BY <2>1 DEF mqtt_tcpclient_connect_cb
  <2>2. CASE b # pCon /\ node' = n /\ UNCHANGED <<clientVars, unacked, reg>>
    BY <1>0, <2>2 DEF clientVars
  <2> QED
    BY <1>3, <2>1, <2>2 DEF TcpConnected
<1>4. ASSUME NEW b \in Blocks, TcpSent(b)
      PROVE  NoLostWakeup'
  BY <1>4 DEF TcpSent, system_os_post, clientVars
<1>5. ASSUME NEW b \in Blocks, TcpEnds(b)
      PROVE  NoLostWakeup'
  BY <1>0, <1>5 DEF TcpEnds, espconn_client_close, clientVars, Open, Established
<1>6. ASSUME NEW b \in Blocks, espconn_Task(b)
      PROVE  NoLostWakeup'
  <2>1. /\ node' = [node EXCEPT ![b] = "none"] /\ pCon' = pCon
        /\ posted' \/ UNCHANGED <<connState, posted>>
    BY <1>6 DEF espconn_Task, mqtt_tcpclient_discon_cb, mqtt_tcpclient_recon_cb,
                system_os_post
  <2> QED
    BY <1>0, <2>1 DEF Open, Established
<1>7. ASSUME NEW b \in Blocks, NEW seg \in Segments, TcpRecv(b, seg)
      PROVE  NoLostWakeup'
  <2> DEFINE n == [node EXCEPT ![b] = "acked"]
  <2>1. CASE mqtt_tcpclient_recv(n, seg)
    BY <2>1 DEF mqtt_tcpclient_recv, system_os_post
  <2>2. CASE node' = n /\ UNCHANGED clientVars
    <3>1. node[b] \in Open \ {"shut"}
      BY <1>7 DEF TcpRecv, Open, Established
    <3> QED
      BY <1>0, <2>2, <3>1 DEF clientVars
  <2> QED
    BY <1>7, <2>1, <2>2 DEF TcpRecv
<1>8. CASE mqtt_timer
  BY <1>8 DEF mqtt_timer, KeepAliveTimer, ReconnectTimer, system_os_post, espconnVars
<1>9. CASE goToSleep
  BY <1>9 DEF goToSleep, espconnVars
<1>10. CASE MQTT_Publish
  BY <1>10 DEF MQTT_Publish, espconnVars
<1>11. CASE MQTT_Task
  <2>1. CASE mqtt_send_keepalive
    BY <2>1 DEF mqtt_send_keepalive, system_os_post
  <2>2. CASE TaskSend
    BY <2>2 DEF TaskSend
  <2>3. CASE TaskReconnect
    BY <2>3 DEF TaskReconnect, MQTT_Connect
  <2>4. CASE TaskDisconnect
    <3>1. pCon' # NULL => node'[pCon'] \notin Open \ {"shut"}
      BY <1>0, <2>4 DEF TaskDisconnect, espconn_disconnect, espconn_client_close, Open,
                        Established
    <3> QED
      BY <2>4, <3>1 DEF TaskDisconnect
  <2>5. CASE TaskDisconnected
    BY <2>5 DEF TaskDisconnected, mqtt_tcpclient_delete
  <2>6. CASE TaskIdle
    BY <2>6 DEF TaskIdle
  <2> QED
    BY <1>11, <2>1, <2>2, <2>3, <2>4, <2>5, <2>6 DEF MQTT_Task
<1>12. CASE Restart
  BY <1>12 DEF Restart
<1> QED
  BY <1>1, <1>2, <1>3, <1>4, <1>5, <1>6, <1>7, <1>8, <1>9, <1>10, <1>11, <1>12
  DEF Next

\* The counters and the queue stay within bounds, and a state MQTT_Task has to
\* act on never waits without an event, for any limits and any number of heap
\* addresses, callbacks through freed blocks included.
THEOREM NoLostWakeupHolds == Spec => [](TypeOK /\ NoLostWakeup)
<1>1. Init => TypeInv /\ NoLostWakeup
  BY InitType DEF Init, NoLostWakeup
<1>2. TypeInv /\ NoLostWakeup /\ [Next]_vars => (TypeInv /\ NoLostWakeup)'
  <2>1. ASSUME TypeInv, NoLostWakeup, Next
        PROVE  (TypeInv /\ NoLostWakeup)'
    BY <2>1, TypeStep, WakeupStep
  <2>2. ASSUME TypeInv, NoLostWakeup, UNCHANGED vars
        PROVE  (TypeInv /\ NoLostWakeup)'
    <3>1. TypeInv'
      BY <2>2 DEF vars, clientVars, espconnVars, envVars, tickVars, timerVars, TypeInv,
                  TypeOK, KeepAliveBound
    <3>2. NoLostWakeup'
      BY <2>2 DEF vars, clientVars, espconnVars, NoLostWakeup
    <3> QED
      BY <3>1, <3>2
  <2> QED
    BY <2>1, <2>2
<1>3. TypeInv /\ NoLostWakeup => TypeOK /\ NoLostWakeup
  BY DEF TypeInv
<1> QED
  BY <1>1, <1>2, <1>3, PTL DEF Spec

\* For any limits of mqtt_timer, the counters stay within them: each is reset
\* by the handler that leaves the state it is counted in.
THEOREM TypeCorrect == Spec => []TypeOK
  BY NoLostWakeupHolds, PTL

-----------------------------------------------------------------------------
\* The states without a connection are entered by a Wi-Fi that is gone, or from
\* one another, and a Wi-Fi that returns leads out of them.
LEMMA RestsStep ==
    ASSUME RestsOffline, Next
    PROVE  RestsOffline'
<1> USE DEF RestsOffline
<1>1. ASSUME NEW status \in {"IDLE", "GOT_IP"}, wifiConnectCb(status)
      PROVE  RestsOffline'
  BY <1>1 DEF wifiConnectCb, MQTT_Connect, MQTT_Disconnect
<1>2. ASSUME NEW b \in Blocks, NEW answer \in Answers, mqtt_dns_found(b, answer)
      PROVE  RestsOffline'
  BY <1>2 DEF mqtt_dns_found, envVars
<1>3. ASSUME NEW b \in Blocks, TcpConnected(b) \/ TcpSent(b) \/ TcpEnds(b)
      PROVE  RestsOffline'
  BY <1>3 DEF TcpConnected, TcpSent, TcpEnds, mqtt_tcpclient_connect_cb, clientVars, envVars
<1>4. ASSUME NEW b \in Blocks, espconn_Task(b)
      PROVE  RestsOffline'
  BY <1>4 DEF espconn_Task, mqtt_tcpclient_discon_cb, mqtt_tcpclient_recon_cb, envVars
<1>5. ASSUME NEW b \in Blocks, NEW seg \in Segments, TcpRecv(b, seg)
      PROVE  RestsOffline'
  BY <1>5 DEF TcpRecv, mqtt_tcpclient_recv, CONNACKReceived, DataReceived, clientVars, envVars
<1>6. CASE mqtt_timer \/ goToSleep \/ MQTT_Publish
  BY <1>6 DEF mqtt_timer, KeepAliveTimer, ReconnectTimer, goToSleep, MQTT_Publish, envVars
<1>7. CASE MQTT_Task
  BY <1>7 DEF MQTT_Task, mqtt_send_keepalive, TaskSend, TaskReconnect, MQTT_Connect,
              TaskDisconnect, TaskDisconnected, TaskIdle, envVars
<1>8. CASE Restart
  BY <1>8 DEF Restart
<1> QED
  BY <1>1, <1>2, <1>3, <1>4, <1>5, <1>6, <1>7, <1>8 DEF Next

\* The client is without a connection, and tries for none, only while the Wi-Fi
\* has no address, whatever arrives late from connections of before.
THEOREM RestsOfflineHolds == Spec => []RestsOffline
<1>1. Init => RestsOffline
  BY DEF Init, RestsOffline
<1>2. RestsOffline /\ [Next]_vars => RestsOffline'
  BY RestsStep DEF vars, clientVars, envVars, RestsOffline
<1> QED
  BY <1>1, <1>2, PTL DEF Spec

-----------------------------------------------------------------------------
(***************************************************************************)
(* SessionMatches is not inductive: that a closed connection takes the     *)
(* client out of MQTT_DATA depends on the disconnect callback being        *)
(* registered, and that the callback is about the client's connection on   *)
(* no other one being left.                                                *)
(***************************************************************************)
OnlyCurrent == \A b \in Blocks : node[b] # "none" \/ dns[b] > 0 => b = pCon

InSession == connState \in {"MQTT_DATA", "MQTT_KEEPALIVE_SEND"}

Registered ==
    InSession \/ connState = "MQTT_CONNECT_SENDING" => pCon \in Blocks /\ reg[pCon]

Handshake ==
    connState = "MQTT_CONNECT_SENDING" => node[pCon] \in {"est", "sent", "shut", "close", "error"}

Accepted == InSession => node[pCon] \in {"acked", "shut", "close", "error"}

Session == OnlyCurrent /\ Registered /\ Handshake /\ Accepted

SessionInv == ~forced => Session

\* With nothing pointing to the old block, a new connection starts alone.
LEMMA ConnectSession ==
    ASSUME TypeInv, SessionInv, MQTT_Connect
    PROVE  SessionInv'
<1> SUFFICES ASSUME ~forced' PROVE Session'
  BY DEF SessionInv
<1>1. PICK b \in Blocks :
        /\ pCon' = b
        /\ forced' = (forced \/ InUse)
        /\ IF hostIsIP
           THEN node' \in espconn_connect(b, node) /\ UNCHANGED dns
           ELSE dns' \in espconn_gethostbyname(b, dns) /\ UNCHANGED node
        /\ connState' = "TCP_CONNECTING"
  BY DEF MQTT_Connect
<1>2. ~forced /\ ~InUse /\ OnlyCurrent
  BY <1>1 DEF SessionInv, Session
<1>3. node \in [Blocks -> NodeState] /\ dns \in [Blocks -> 0 .. DnsTable]
  BY DEF TypeInv, TypeOK
<1>4. \A c \in Blocks : node[c] = "none" /\ ~(dns[c] > 0)
  BY <1>2, ClientAssumption DEF InUse, OnlyCurrent
<1>5. OnlyCurrent'
  <2>1. \A c \in Blocks : c # b => node'[c] = node[c] /\ dns'[c] = dns[c]
    BY <1>1, <1>3 DEF espconn_connect, espconn_gethostbyname
  <2> QED
    BY <1>1, <1>4, <2>1 DEF OnlyCurrent
<1> QED
  BY <1>1, <1>5 DEF Session, Registered, Handshake, Accepted, InSession

\* Every step keeps the client's session on its own connection.
LEMMA SessionStep ==
    ASSUME TypeInv, SessionInv, Next
    PROVE  SessionInv'
<1>0. /\ node \in [Blocks -> NodeState] /\ dns \in [Blocks -> 0 .. DnsTable]
      /\ reg \in [Blocks -> BOOLEAN]
      /\ pCon \in Blocks \cup {NULL} /\ NULL \notin Blocks
  BY ClientAssumption DEF TypeInv, TypeOK
<1>1. ASSUME NEW status \in {"IDLE", "GOT_IP"}, wifiConnectCb(status)
      PROVE  SessionInv'
  <2>1. CASE MQTT_Connect
    BY <2>1, ConnectSession
  <2>2. CASE MQTT_Disconnect /\ UNCHANGED <<pCon, forced, espconnVars>>
    BY <2>2 DEF MQTT_Disconnect, espconnVars, SessionInv, Session, OnlyCurrent,
                Registered, Handshake, Accepted, InSession
  <2> QED
    BY <1>1, <2>1, <2>2 DEF wifiConnectCb
<1>2. ASSUME NEW b \in Blocks, NEW answer \in Answers, mqtt_dns_found(b, answer)
      PROVE  SessionInv'
  <2> SUFFICES ASSUME ~forced' PROVE Session'
    BY DEF SessionInv
  <2>1. /\ ~forced /\ dns[b] > 0 /\ pCon' = pCon
        /\ dns' = [dns EXCEPT ![b] = @ - 1]
        /\ \/ connState' \in {"TCP_CONNECTING", "TCP_RECONNECT_REQ"}
           \/ UNCHANGED <<connState, node, reg>>
    BY <1>2 DEF mqtt_dns_found
  <2>2. Session /\ OnlyCurrent /\ b = pCon
    BY <2>1 DEF SessionInv, Session, OnlyCurrent
  <2>3. \A c \in Blocks : c # pCon => node'[c] = node[c] /\ dns'[c] = dns[c]
    BY <1>0, <1>2, <2>1, <2>2 DEF mqtt_dns_found, espconn_connect
  <2>4. OnlyCurrent'
    BY <2>1, <2>2, <2>3 DEF OnlyCurrent
  <2> QED
    BY <2>1, <2>2, <2>4 DEF Session, Registered, Handshake, Accepted, InSession
<1>3. ASSUME NEW b \in Blocks, TcpConnected(b)
      PROVE  SessionInv'
  <2> SUFFICES ASSUME ~forced' PROVE Session'
    BY DEF SessionInv
  <2> DEFINE n == [node EXCEPT ![b] = "est"]
  <2>1. ~forced /\ node[b] = "syn" /\ dns' = dns
    BY <1>3 DEF TcpConnected, clientVars
  <2>2. OnlyCurrent /\ b = pCon
    BY <2>1 DEF SessionInv, Session, OnlyCurrent
  <2>3. mqtt_tcpclient_connect_cb(n) /\ pCon' = pCon
    BY <1>3, <2>2 DEF TcpConnected
  <2>4. /\ connState' = "MQTT_CONNECT_SENDING"
        /\ reg'[pCon] /\ node'[pCon] \in {"est", "sent"}
        /\ \A c \in Blocks : c # pCon => node'[c] = node[c]
    BY <1>0, <2>2, <2>3 DEF mqtt_tcpclient_connect_cb
  <2>5. OnlyCurrent'
    BY <2>1, <2>2, <2>3, <2>4 DEF OnlyCurrent
  <2> QED
    BY <2>2, <2>3, <2>4, <2>5 DEF Session, Registered, Handshake, Accepted, InSession
<1>4. ASSUME NEW b \in Blocks, TcpSent(b)
      PROVE  SessionInv'
  BY <1>4 DEF TcpSent, clientVars, SessionInv, Session, OnlyCurrent,
              Registered, Handshake, Accepted, InSession
<1>5. ASSUME NEW b \in Blocks, TcpEnds(b)
      PROVE  SessionInv'
  <2>1. /\ node[b] # "none" /\ UNCHANGED <<connState, pCon, forced, reg, dns>>
        /\ \E e \in {"shut", "close", "error"} : node' = [node EXCEPT ![b] = e]
    BY <1>5 DEF TcpEnds, espconn_client_close, clientVars, Open, Established
  <2> QED
    BY <1>0, <2>1 DEF SessionInv, Session, OnlyCurrent, Registered, Handshake, Accepted,
                      InSession
<1>6. ASSUME NEW b \in Blocks, espconn_Task(b)
      PROVE  SessionInv'
  <2> SUFFICES ASSUME ~forced' PROVE Session'
    BY DEF SessionInv
  <2>1. /\ ~forced /\ node[b] \in {"close", "error"}
        /\ UNCHANGED <<pCon, reg, dns>>
        /\ node' = [node EXCEPT ![b] = "none"]
    BY <1>6 DEF espconn_Task
  <2>2. OnlyCurrent /\ Registered /\ b = pCon
    BY <2>1 DEF SessionInv, Session, OnlyCurrent
  <2>3. connState' \notin {"MQTT_CONNECT_SENDING", "MQTT_DATA", "MQTT_KEEPALIVE_SEND"}
    BY <1>6, <2>2 DEF espconn_Task, mqtt_tcpclient_discon_cb, mqtt_tcpclient_recon_cb,
                      Registered, InSession
  <2>4. OnlyCurrent'
    BY <1>0, <2>1, <2>2 DEF OnlyCurrent
  <2> QED
    BY <2>3, <2>4 DEF Session, Registered, Handshake, Accepted, InSession
<1>7. ASSUME NEW b \in Blocks, NEW seg \in Segments, TcpRecv(b, seg)
      PROVE  SessionInv'
  <2> SUFFICES ASSUME ~forced' PROVE Session'
    BY DEF SessionInv
  <2> DEFINE n == [node EXCEPT ![b] = "acked"]
  <2>1. /\ ~forced /\ node[b] \in {"sent", "acked"}
        /\ UNCHANGED <<pCon, reg, dns>>
    BY <1>7 DEF TcpRecv, clientVars
  <2>2. OnlyCurrent /\ Registered /\ Handshake /\ Accepted /\ b = pCon
    BY <2>1 DEF SessionInv, Session, OnlyCurrent
  <2>3. \/ /\ connState = "MQTT_CONNECT_SENDING" /\ connState' = "MQTT_DATA"
           /\ node' = n
        \/ node' \in espconn_disconnect(pCon, n) /\ connState' = connState
           /\ connState = "MQTT_CONNECT_SENDING"
        \/ node' = n /\ connState' = connState
           /\ (connState = "MQTT_CONNECT_SENDING" => node[b] = "acked" \/ ~reg[b])
    BY <1>7, <2>2 DEF TcpRecv, mqtt_tcpclient_recv, CONNACKReceived, DataReceived,
                      clientVars
  <2>4. /\ node'[b] \in {"acked", "shut", "close"}
        /\ \A c \in Blocks : c # b => node'[c] = node[c]
    BY <1>0, <2>2, <2>3 DEF espconn_disconnect, espconn_client_close
  <2>5. OnlyCurrent' /\ Registered'
    BY <2>1, <2>2, <2>3, <2>4 DEF OnlyCurrent, Registered, InSession
  <2>6. Handshake'
    BY <1>0, <2>1, <2>2, <2>3 DEF Handshake, Registered, espconn_disconnect,
                                        espconn_client_close, Open, Established
  <2>7. Accepted'
    BY <2>1, <2>2, <2>4 DEF Accepted
  <2> QED
    BY <2>5, <2>6, <2>7 DEF Session
<1>8. CASE mqtt_timer
  BY <1>8 DEF mqtt_timer, KeepAliveTimer, ReconnectTimer, espconnVars, SessionInv, Session,
              OnlyCurrent, Registered, Handshake, Accepted, InSession
<1>9. CASE goToSleep
  BY <1>9 DEF goToSleep, espconnVars, SessionInv, Session,
              OnlyCurrent, Registered, Handshake, Accepted, InSession
<1>10. CASE MQTT_Publish
  BY <1>10 DEF MQTT_Publish, espconnVars, SessionInv, Session,
               OnlyCurrent, Registered, Handshake, Accepted, InSession
<1>11. CASE MQTT_Task
  <2>1. CASE mqtt_send_keepalive
    BY <2>1 DEF mqtt_send_keepalive, SessionInv, Session, OnlyCurrent, Registered,
                Handshake, Accepted, InSession
  <2>2. CASE TaskSend
    BY <2>2 DEF TaskSend, SessionInv, Session, OnlyCurrent, Registered,
                Handshake, Accepted, InSession
  <2>3. CASE TaskReconnect
    BY <2>3, ConnectSession DEF TaskReconnect
  <2>4. CASE TaskDisconnect
    <3>1. \A c \in Blocks : node[c] = "none" => node'[c] = "none"
      BY <1>0, <2>4 DEF TaskDisconnect, espconn_disconnect, espconn_client_close, Open,
                        Established
    <3> QED
      BY <2>4, <3>1 DEF TaskDisconnect, SessionInv, Session, OnlyCurrent, Registered,
                        Handshake, Accepted, InSession
  <2>5. CASE TaskDisconnected
    <3> SUFFICES ASSUME ~forced' PROVE Session'
      BY DEF SessionInv
    <3>1. ~forced /\ ~InUse /\ OnlyCurrent
      BY <2>5 DEF TaskDisconnected, mqtt_tcpclient_delete, SessionInv, Session
    <3>2. \A c \in Blocks : node[c] = "none" /\ ~(dns[c] > 0)
      BY <1>0, <3>1 DEF InUse, OnlyCurrent
    <3> QED
      BY <2>5, <3>2 DEF TaskDisconnected, espconnVars, Session, OnlyCurrent, Registered,
                        Handshake, Accepted, InSession
  <2>6. CASE TaskIdle
    BY <2>6 DEF TaskIdle, espconnVars, SessionInv, Session, OnlyCurrent, Registered,
                Handshake, Accepted, InSession
  <2> QED
    BY <1>11, <2>1, <2>2, <2>3, <2>4, <2>5, <2>6 DEF MQTT_Task
<1>12. CASE Restart
  BY <1>12 DEF Restart, SessionInv, Session, OnlyCurrent, Registered, Handshake,
               Accepted, InSession
<1> QED
  BY <1>1, <1>2, <1>3, <1>4, <1>5, <1>6, <1>7, <1>8, <1>9, <1>10, <1>11, <1>12
  DEF Next

\* Until a connection is freed by force, messages and keep-alive requests go
\* out only on a connection whose own CONNACK the client has seen.
THEOREM SessionMatchesHolds == Spec => []SessionMatches
<1>1. Init => TypeInv /\ SessionInv
  BY InitType DEF Init, SessionInv, Session, OnlyCurrent, Registered, Handshake,
                  Accepted, InSession
<1>2. TypeInv /\ SessionInv /\ [Next]_vars => (TypeInv /\ SessionInv)'
  <2>1. ASSUME TypeInv, SessionInv, Next
        PROVE  (TypeInv /\ SessionInv)'
    BY <2>1, TypeStep, SessionStep
  <2>2. ASSUME TypeInv, SessionInv, UNCHANGED vars
        PROVE  (TypeInv /\ SessionInv)'
    <3>1. TypeInv'
      BY <2>2 DEF vars, clientVars, espconnVars, envVars, tickVars, timerVars, TypeInv,
                  TypeOK, KeepAliveBound
    <3>2. SessionInv'
      BY <2>2 DEF vars, clientVars, espconnVars, SessionInv, Session, OnlyCurrent,
                  Registered, Handshake, Accepted, InSession
    <3> QED
      BY <3>1, <3>2
  <2> QED
    BY <2>1, <2>2
<1>3. TypeInv /\ SessionInv => SessionMatches
  BY ClientAssumption
  DEF SessionInv, Session, Registered, Accepted, InSession, SessionMatches
<1> QED
  BY <1>1, <1>2, <1>3, PTL DEF Spec

=============================================================================
