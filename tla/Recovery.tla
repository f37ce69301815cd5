------------------------------ MODULE Recovery ------------------------------
(***************************************************************************)
(* The client in surroundings that calm down: up to some moment anything   *)
(* may happen, as in MqttClient; from then on the Wi-Fi, the broker and    *)
(* espconn do what they are asked to, nobody publishes and nothing         *)
(* restarts.  Whether the client then gets its queue sent depends on the   *)
(* state that the time before has left it in.                              *)
(***************************************************************************)
EXTENDS MqttClient

CONSTANT NameBlocks    \* bound: the heap addresses while the host is a name

\* The broker may answer a CONNECT with a CONNACK and nothing else.
ASSUME RecoveryAssumption ==
    /\ <<"CONNACK">> \in Segments
    /\ NameBlocks \subseteq Blocks

VARIABLE calm

recoveryVars == <<vars, calm>>

\* espconn starts the connection, or has a node for the block already.
Reached == IF hostIsIP THEN node'[pCon'] # "none" ELSE dns'[pCon'] > 0

\* espconn takes a buffer whenever it can.
CanSend == pCon # NULL /\ node[pCon] \in Established /\ ~unacked[pCon]
Sends == connState = "MQTT_KEEPALIVE_SEND" \/ queue.whole > queue'.whole

\* A connection that espconn is asked to close is closed.
Closes == connState \in {"TCP_DISCONNECTING", "TCP_RECONNECT_DISCONNECTING"}
CalmTask ==
    /\ MQTT_Task
    /\ connState = "TCP_RECONNECT" => Reached
    /\ Sends /\ CanSend => unacked'[pCon]
    /\ Closes /\ pCon # NULL => node'[pCon] # "shut"

CalmConnected(b) == TcpConnected(b) /\ (b = pCon => unacked'[b])
CalmFound(b) == mqtt_dns_found(b, "address") /\ node'[pCon] # "none"
CalmWifi == wifiConnectCb("GOT_IP") /\ Reached
CalmAnswer(b) ==
    /\ node[b] = "sent" /\ TcpRecv(b, <<"CONNACK">>)
    /\ \A c \in Blocks : node'[c] = "shut" => node[c] = "shut"

\* In each state of a node at most one of these is possible.
CalmMoves(b) == CalmConnected(b) \/ CalmAnswer(b) \/ espconn_Task(b)

\* An event is handled within the 100 ms between two ticks, a buffer is
\* acknowledged within the keep-alive time.
CalmTimer ==
    /\ mqtt_timer /\ ~posted
    /\ keepAliveTick = KeepAlive /\ connState = "MQTT_DATA" => ~unacked[pCon]

CalmNext ==
    \/ CalmWifi
    \/ \E b \in Blocks : CalmFound(b) \/ TcpSent(b) \/ CalmMoves(b)
    \/ CalmTimer \/ goToSleep \/ CalmTask

Settle == ~calm /\ calm' = TRUE /\ UNCHANGED vars

RecoveryInit == Init /\ calm = FALSE
RecoveryNext ==
    /\ \/ ~calm /\ Next /\ UNCHANGED calm
       \/ Settle
       \/ calm /\ CalmNext /\ UNCHANGED calm
    /\ ~hostIsIP' => pCon' \in NameBlocks \cup {NULL}

\* MQTT_Task runs when it has an event.  The wake-up interrupt recurs, and with
\* it goToSleep; an armed mqttTimer fires every 100 ms.  Of the network, the
\* broker and the Wi-Fi nothing is assumed until it is calm, and then that they
\* deliver; of the sensors nothing at all.
Steadily(A, C) == (IF calm THEN C ELSE A) /\ UNCHANGED calm
Calmly(C) == calm /\ C /\ UNCHANGED calm
RecoverySpec ==
    /\ RecoveryInit /\ [][RecoveryNext]_recoveryVars
    /\ WF_recoveryVars(Steadily(MQTT_Task, CalmTask))
    /\ WF_recoveryVars(Steadily(goToSleep, goToSleep))
    /\ WF_recoveryVars(Steadily(mqtt_timer, CalmTimer))
    /\ WF_recoveryVars(Calmly(CalmWifi))
    /\ \A b \in Blocks :
          /\ WF_recoveryVars(Calmly(CalmFound(b)))
          /\ WF_recoveryVars(Calmly(TcpSent(b)))
          /\ WF_recoveryVars(Calmly(CalmMoves(b)))

-----------------------------------------------------------------------------
NodeIn(states) == pCon # NULL /\ node[pCon] \in states

\* No timer looks at these three states: an attempt that espconn refused, that
\* met a node of an earlier connection, or that lost its CONNECT or its CONNACK;
\* and a disconnect after a failed keep-alive that finds no connection, or whose
\* close failed or went through a block without callbacks.
Hung ==
    \/ /\ connState = "TCP_CONNECTING" /\ ~NodeIn({"syn", "close", "error"})
       /\ pCon # NULL => dns[pCon] = 0
    \/ connState = "MQTT_CONNECT_SENDING" /\ ~NodeIn({"sent", "close", "error"})
    \/ /\ connState = "TCP_RECONNECT_DISCONNECTING" /\ ~posted
       /\ ~NodeIn({"close", "error"})

\* Whatever happened before, once the surroundings are calm the queue is sent,
\* over as many timeouts, keep-alives and reconnects as that takes, unless the
\* client hangs in one of the three states above.
Recovers == calm /\ Filled(queue) ~> ~Filled(queue) \/ Hung
=============================================================================
