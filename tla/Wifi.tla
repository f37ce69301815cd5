-------------------------------- MODULE Wifi --------------------------------
(***************************************************************************)
(* Wi-Fi supervision, wifi.c.  wifi_check_ip has two callers: the SDK's    *)
(* event handler, on the one thread, and the wake-up interrupt of sleep.c, *)
(* which runs to completion and can hit the handler between two of its     *)
(* accesses to wifiStatus and lastWifiStatus.  The build (-Os) reads       *)
(* wifiStatus again after the os_printf of the switch, and keeps that      *)
(* value for the comparison, the assignment and the call.                  *)
(***************************************************************************)
EXTENDS Naturals

CONSTANT
    Failures    \* WRONG_PASSWORD, NO_AP_FOUND, CONNECT_FAIL

Status == {"IDLE", "CONNECTING", "GOT_IP"} \cup Failures

ASSUME WifiAssumption == Failures \cap {"IDLE", "CONNECTING", "GOT_IP"} = {}

VARIABLES
    station,        \* wifi_station_get_connect_status
    attempt,        \* the station is connected or trying to
    events,         \* events the SDK has for wifi_handle_event_cb
    wifiStatus, lastWifiStatus,
    told,           \* history: the status wifiCb was called with last
    pc,             \* where the event handler is
    value,          \* its copy of the status
    overtaken,      \* history: the interrupt called wifiCb while the handler
                    \* was about to
    preempts        \* whether the interrupt ever hits the handler: some
                    \* behaviours are undisturbed

sdkVars == <<station, attempt, events>>
vars == <<sdkVars, wifiStatus, lastWifiStatus, told, pc, value, overtaken, preempts>>

Events == {"CONNECTED", "DISCONNECTED", "GOT_IP"}

\* WIFI_Connect, which ends with wifi_station_connect
Init ==
    /\ station = "IDLE" /\ attempt = TRUE /\ events = {}
    /\ wifiStatus = "IDLE" /\ lastWifiStatus = "IDLE"
    /\ told = "IDLE"
    /\ pc = "idle" /\ value = "IDLE"
    /\ overtaken = FALSE
    /\ preempts \in BOOLEAN

-----------------------------------------------------------------------------
(***************************************************************************)
(* The station.                                                            *)
(***************************************************************************)
Progress ==
    /\ attempt
    /\ \/ station' = "CONNECTING" /\ events' \in {events, events \cup {"CONNECTED"}}
       \/ station' = "GOT_IP" /\ events' = events \cup {"GOT_IP"}
    /\ UNCHANGED <<attempt, wifiStatus, lastWifiStatus, told, pc, value, overtaken, preempts>>

\* The attempt fails or the connection is lost.  The station may give up in a
\* status that wifi_check_ip does nothing about, and without an event.
Fail ==
    /\ station' \in Status \ {"GOT_IP"}
    /\ attempt' = FALSE
    /\ events' \in {events, events \cup {"DISCONNECTED"}}
    /\ UNCHANGED <<wifiStatus, lastWifiStatus, told, pc, value, overtaken, preempts>>

\* wifi_check_ip's switch
AttemptAfter(status) == attempt \/ status \in Failures

-----------------------------------------------------------------------------
(***************************************************************************)
(* wifi_check_ip in the interrupt.                                         *)
(***************************************************************************)
\* Mutant: the new status is not remembered.
InterruptForgets ==
    /\ pc = "idle" \/ preempts
    /\ wifiStatus' = station
    /\ attempt' = AttemptAfter(station)
    /\ told' = IF station # lastWifiStatus THEN station ELSE told
    /\ overtaken' = (overtaken \/ (station # lastWifiStatus /\ pc = "call"))
    /\ UNCHANGED <<station, events, lastWifiStatus, pc, value, preempts>>

Interrupt ==
    /\ pc = "idle" \/ preempts
    /\ wifiStatus' = station
    /\ attempt' = AttemptAfter(station)
    /\ lastWifiStatus' = station
    /\ told' = IF station # lastWifiStatus THEN station ELSE told
    /\ overtaken' = (overtaken \/ (station # lastWifiStatus /\ pc = "call"))
    /\ UNCHANGED <<station, events, pc, value, preempts>>

-----------------------------------------------------------------------------
(***************************************************************************)
(* wifi_handle_event_cb, with wifi_check_ip access by access.              *)
(***************************************************************************)
wifi_handle_event_cb(e) ==
    /\ pc = "idle"
    /\ e \in events
    /\ events' = events \ {e}
    /\ attempt' = (attempt \/ e = "DISCONNECTED")
    /\ pc' = "get"
    /\ UNCHANGED <<station, wifiStatus, lastWifiStatus, told, value, overtaken, preempts>>

\* Mutant: the event's name is taken for a status.
GetEvent ==
    /\ pc = "get"
    /\ value' \in Events
    /\ pc' = "store"
    /\ UNCHANGED <<sdkVars, wifiStatus, lastWifiStatus, told, overtaken, preempts>>

GetStatus ==
    /\ pc = "get"
    /\ value' = station
    /\ pc' = "store"
    /\ UNCHANGED <<sdkVars, wifiStatus, lastWifiStatus, told, overtaken, preempts>>

StoreStatus ==
    /\ pc = "store"
    /\ wifiStatus' = value
    /\ attempt' = AttemptAfter(value)
    /\ pc' = "compare"
    /\ UNCHANGED <<station, events, lastWifiStatus, told, value, overtaken, preempts>>

Compare ==
    /\ pc = "compare"
    /\ value' = wifiStatus
    /\ pc' = IF wifiStatus # lastWifiStatus THEN "remember" ELSE "idle"
    /\ UNCHANGED <<sdkVars, wifiStatus, lastWifiStatus, told, overtaken, preempts>>

\* Mutant: the status is remembered only after the call.
RememberNothing ==
    /\ pc = "remember"
    /\ pc' = "call"
    /\ UNCHANGED <<sdkVars, wifiStatus, lastWifiStatus, told, value, overtaken, preempts>>

Remember ==
    /\ pc = "remember"
    /\ lastWifiStatus' = value
    /\ pc' = "call"
    /\ UNCHANGED <<sdkVars, wifiStatus, told, value, overtaken, preempts>>

CallBack ==
    /\ pc = "call"
    /\ told' = value
    /\ pc' = "idle"
    /\ UNCHANGED <<sdkVars, wifiStatus, lastWifiStatus, value, overtaken, preempts>>

Handler ==
    \/ \E e \in Events : wifi_handle_event_cb(e)
    \/ GetStatus \/ StoreStatus \/ Compare \/ Remember \/ CallBack

Next == Progress \/ Fail \/ Interrupt \/ Handler

Spec == Init /\ [][Next]_vars

\* The handler finishes and takes every event; the interrupt recurs.
FairSpec == Spec /\ WF_vars(Handler) /\ WF_vars(Interrupt)

-----------------------------------------------------------------------------
\* Every variable holds a status, a set of events or a step of the handler.
TypeOK ==
    /\ station \in Status /\ attempt \in BOOLEAN
    /\ events \subseteq Events
    /\ {wifiStatus, lastWifiStatus, told, value} \subseteq Status
    /\ pc \in {"idle", "get", "store", "compare", "remember", "call"}
    /\ overtaken \in BOOLEAN /\ preempts \in BOOLEAN

\* As long as nothing preempts the handler, the callback hears each change once,
\* and in the end the status the station settles on: MQTT_Connect is not called
\* twice for one connection, and never left out.  A behaviour with preemption
\* shows as one in which nothing happens.
Undisturbed(s) == IF preempts THEN "IDLE" ELSE s
Feed == INSTANCE StatusFeed WITH
    station <- Undisturbed(station),
    sampled <- Undisturbed(IF pc = "store" THEN value ELSE wifiStatus),
    told <- Undisturbed(told)
FeedsStatus == Feed!FairSpec

\* What lastWifiStatus says is what the callback heard last, unless the
\* interrupt called it in the one gap that matters, between remembering and
\* calling.  In every other gap the handler's stale status does no such harm.
AgreesUnlessOvertaken ==
    pc # "call" /\ ~overtaken => told = lastWifiStatus

\* Wherever the interrupt hits, a stale lastWifiStatus does not survive: it
\* becomes the status the station settles on.
Settles(s) == <>[](station = s) => <>[](lastWifiStatus = s)
Converges == \A s \in Status : Settles(s)
=============================================================================
