------------------------------- MODULE Sleep -------------------------------
(***************************************************************************)
(* Sleep control, sleep.c: the wake-up interrupt with its debounce, the    *)
(* timers it arms, and goToSleep, which looks at the message queue and     *)
(* either stays awake or lets the device go into light sleep.              *)
(*                                                                         *)
(* Time passes in ticks of 10 ms.  An armed timer counts down; a due       *)
(* callback runs at most Slack ticks late, since the handlers of the one   *)
(* thread run one after the other.  The interrupt may come between any two *)
(* statements of goToSleep.  Of the queue only whether it is filled is     *)
(* kept; MqttClient and Queue describe the rest.                           *)
(***************************************************************************)
EXTENDS Integers

CONSTANTS
    ReadDelay,      \* readADC_timer, 10 ms
    SleepDelay,     \* goToSleep_timer armed by the interrupt, 100 ms
    RetryDelay,     \* goToSleep_timer armed by goToSleep, 500 ms
    MqttPeriod,     \* mqttTimer, 100 ms
    Debounce,       \* 10000 ticks of the RTC, at least 50 ms
    Wakes,          \* interrupts per measurement, 3
    Slack           \* how late a timer's callback may run

ASSUME SleepAssumption ==
    /\ {ReadDelay, SleepDelay, RetryDelay, MqttPeriod, Debounce, Wakes}
          \subseteq Nat \ {0}
    /\ Slack \in Nat

VARIABLES
    armed,          \* the timers that are armed
    left,           \* ticks until a timer is due; 0 for the others
    timerSet,       \* mqttTimer has its function (os_timer_setfn)
    sleepType,      \* wifi_set_sleep_type; MODEM is what the SDK starts with
    wakeCount,
    sinceWake,      \* ticks since lastWakeTime, as far as the debounce looks
    low,            \* GPIO14: the capacitor is discharged
    filled,         \* msgQueue.rb.fill_cnt > 0
    pc,             \* where goToSleep is
    overwritten     \* history: the last interrupt that ended light sleep came
                    \* while goToSleep was on its way to begin it

timers == <<armed, left>>
vars == <<timers, timerSet, sleepType, wakeCount, sinceWake, low, filled, pc, overwritten>>

Timers == {"readADC", "goToSleep", "mqtt"}
Longest == {ReadDelay, SleepDelay, RetryDelay, MqttPeriod}

\* Timer states as records, so that os_timer_* compose.
Now == [armed |-> armed, left |-> left]
os_timer_disarm(T, t) ==
    [armed |-> T.armed \ {t}, left |-> [T.left EXCEPT ![t] = 0]]
os_timer_arm(T, t, delay) ==
    [armed |-> T.armed \cup {t}, left |-> [T.left EXCEPT ![t] = delay]]
Become(T) == armed' = T.armed /\ left' = T.left

\* user_init and sleepInit, which leaves GPIO14 low.  The RTC keeps counting
\* over a reset.
Init ==
    /\ armed = {} /\ left = [t \in Timers |-> 0]
    /\ timerSet = FALSE
    /\ sleepType = "MODEM"
    /\ wakeCount = 0
    /\ sinceWake \in 0 .. Debounce
    /\ low = TRUE
    /\ filled = FALSE
    /\ pc = "idle"
    /\ overwritten = FALSE

-----------------------------------------------------------------------------
(***************************************************************************)
(* The interrupt.                                                          *)
(***************************************************************************)
\* goToSleep has begun, and will switch to light sleep without looking at what
\* the interrupt does: the queue stays as it is until goToSleep has returned.
GoingToSleep == pc \in {"sleep", "light"} \/ (pc = "look" /\ ~filled)

\* De-bounce: the level is still low, so the interrupt comes again.
Bounce ==
    /\ low
    /\ sinceWake < Debounce
    /\ UNCHANGED vars

\* What wifi_check_ip and wifiConnectCb do to mqttTimer: nothing,
\* MQTT_Connect or MQTT_Disconnect.
ClientCalls == {"none", "connect", "disconnect"}
AfterCall(T, call) == IF call = "none" THEN T ELSE os_timer_disarm(T, "mqtt")

\* Mutant: every wake-up starts the timers afresh, however close they are.
wakeUpBouncing(call) ==
    /\ low
    /\ sinceWake' = 0 /\ low' = FALSE
    /\ timerSet' = (timerSet \/ call = "connect")
    /\ sleepType' = "NONE"
    /\ Become(os_timer_arm(os_timer_arm(AfterCall(Now, call), "readADC", ReadDelay),
                           "goToSleep", SleepDelay))
    /\ UNCHANGED <<wakeCount, filled, pc, overwritten>>

\* Mutant: the timers are armed without ending light sleep.
wakeUpAsleep(call) ==
    /\ low
    /\ sinceWake = Debounce
    /\ sinceWake' = 0 /\ low' = FALSE
    /\ timerSet' = (timerSet \/ call = "connect")
    /\ wakeCount' = (wakeCount + 1) % Wakes
    /\ LET T == AfterCall(Now, call) IN
       Become(IF wakeCount' = 0
              THEN os_timer_arm(os_timer_arm(T, "readADC", ReadDelay),
                                "goToSleep", SleepDelay)
              ELSE T)
    /\ UNCHANGED <<sleepType, filled, pc, overwritten>>

\* Mutant: wakeCount is not reset.
wakeUpCounting(call) ==
    /\ low
    /\ sinceWake = Debounce
    /\ sinceWake' = 0 /\ low' = FALSE
    /\ timerSet' = (timerSet \/ call = "connect")
    /\ wakeCount' = wakeCount + 1
    /\ Become(AfterCall(Now, call))
    /\ UNCHANGED <<sleepType, filled, pc, overwritten>>

\* sleepWakeOnInterruptHandeler beyond the debounce
wakeUp(call) ==
    /\ low
    /\ sinceWake = Debounce
    /\ sinceWake' = 0 /\ low' = FALSE
    /\ timerSet' = (timerSet \/ call = "connect")
    /\ LET T == AfterCall(Now, call) IN
       IF wakeCount + 1 >= Wakes
       THEN /\ wakeCount' = 0
            /\ sleepType' = "NONE"
            /\ overwritten' = GoingToSleep
            /\ Become(os_timer_arm(os_timer_arm(T, "readADC", ReadDelay),
                                   "goToSleep", SleepDelay))
       ELSE wakeCount' = wakeCount + 1 /\ Become(T) /\ UNCHANGED <<sleepType, overwritten>>
    /\ UNCHANGED <<filled, pc>>

-----------------------------------------------------------------------------
(***************************************************************************)
(* The timers' callbacks.                                                  *)
(***************************************************************************)
Due(t) == pc = "idle" /\ t \in armed /\ left[t] <= 0

\* Nine messages are queued.
sendADCData ==
    /\ Due("readADC")
    /\ Become(os_timer_disarm(Now, "readADC"))
    /\ filled' = TRUE
    /\ UNCHANGED <<timerSet, sleepType, wakeCount, sinceWake, low, pc, overwritten>>

\* goToSleep disarms its timer, looks at the queue ...
goToSleep ==
    /\ Due("goToSleep")
    /\ Become(os_timer_disarm(Now, "goToSleep"))
    /\ pc' = "look"
    /\ UNCHANGED <<timerSet, sleepType, wakeCount, sinceWake, low, filled, overwritten>>

look ==
    /\ pc = "look"
    /\ pc' = IF filled THEN "stay" ELSE "sleep"
    /\ UNCHANGED <<timers, timerSet, sleepType, wakeCount, sinceWake, low, filled,
                   overwritten>>

\* Mutant: goToSleep does not come back to a filled queue.
stayOnce ==
    /\ pc = "stay"
    /\ pc' = "process"
    /\ UNCHANGED <<timers, timerSet, sleepType, wakeCount, sinceWake, low, filled,
                   overwritten>>

\* ... and comes back later if it is filled,
stay ==
    /\ pc = "stay"
    /\ pc' = "process"
    /\ Become(os_timer_arm(Now, "goToSleep", RetryDelay))
    /\ UNCHANGED <<timerSet, sleepType, wakeCount, sinceWake, low, filled, overwritten>>

\* Mutant: mqttTimer is left as it is.
processIdle ==
    /\ pc = "process"
    /\ pc' = "idle"
    /\ UNCHANGED <<timers, timerSet, sleepType, wakeCount, sinceWake, low, filled,
                   overwritten>>

\* with mqttTimer running meanwhile,
process ==
    /\ pc = "process"
    /\ pc' = "idle"
    /\ Become(os_timer_arm(Now, "mqtt", MqttPeriod))
    /\ UNCHANGED <<timerSet, sleepType, wakeCount, sinceWake, low, filled, overwritten>>

\* or stops mqttTimer
stop ==
    /\ pc = "sleep"
    /\ pc' = "light"
    /\ Become(os_timer_disarm(Now, "mqtt"))
    /\ UNCHANGED <<timerSet, sleepType, wakeCount, sinceWake, low, filled, overwritten>>

\* and sleeps.
light ==
    /\ pc = "light"
    /\ pc' = "idle"
    /\ sleepType' = "LIGHT"
    /\ UNCHANGED <<timers, timerSet, wakeCount, sinceWake, low, filled, overwritten>>

\* mqtt_timer and its periodic rearming; MqttClient says what it does.
mqtt_timer ==
    /\ Due("mqtt") /\ timerSet
    /\ Become(os_timer_arm(Now, "mqtt", MqttPeriod))
    /\ UNCHANGED <<timerSet, sleepType, wakeCount, sinceWake, low, filled, pc, overwritten>>

\* mqttTimer has no function yet: a call through NULL, and user_init again.
NullCall ==
    /\ Due("mqtt") /\ ~timerSet
    /\ armed' = {} /\ left' = [t \in Timers |-> 0]
    /\ sleepType' = "MODEM" /\ wakeCount' = 0
    /\ sinceWake' \in 0 .. Debounce
    /\ low' = TRUE /\ filled' = FALSE /\ overwritten' = FALSE
    /\ UNCHANGED <<timerSet, pc>>

-----------------------------------------------------------------------------
(***************************************************************************)
(* The surroundings.                                                       *)
(***************************************************************************)
\* MQTT_Connect or MQTT_Disconnect from a Wi-Fi event or from MQTT_Task.
ClientCall(call) ==
    /\ pc = "idle"
    /\ call # "none"
    /\ timerSet' = (timerSet \/ call = "connect")
    /\ Become(AfterCall(Now, call))
    /\ UNCHANGED <<sleepType, wakeCount, sinceWake, low, filled, pc, overwritten>>

\* MQTT_Task has sent the last message.
Drain ==
    /\ pc = "idle" /\ filled
    /\ filled' = FALSE
    /\ UNCHANGED <<timers, timerSet, sleepType, wakeCount, sinceWake, low, pc, overwritten>>

\* mqttConnectedCb or a reply fills the queue; there was a connection.
Fill ==
    /\ pc = "idle" /\ ~filled /\ timerSet
    /\ filled' = TRUE
    /\ UNCHANGED <<timers, timerSet, sleepType, wakeCount, sinceWake, low, pc, overwritten>>

\* The capacitor has discharged.
Discharge ==
    /\ ~low /\ low' = TRUE
    /\ UNCHANGED <<timers, timerSet, sleepType, wakeCount, sinceWake, filled, pc, overwritten>>

Tick ==
    /\ pc = "idle"
    /\ \A t \in armed : left[t] > -Slack
    /\ left' = [t \in Timers |-> IF t \in armed THEN left[t] - 1 ELSE 0]
    /\ sinceWake' = IF sinceWake < Debounce THEN sinceWake + 1 ELSE Debounce
    /\ UNCHANGED <<armed, timerSet, sleepType, wakeCount, low, filled, pc, overwritten>>

WakeUp == \E call \in ClientCalls : wakeUp(call)

Next ==
    \/ Bounce \/ WakeUp
    \/ sendADCData \/ goToSleep \/ look \/ stay \/ process \/ stop \/ light
    \/ mqtt_timer \/ NullCall
    \/ \E call \in ClientCalls : ClientCall(call)
    \/ Drain \/ Fill \/ Discharge \/ Tick

Spec == Init /\ [][Next]_vars

\* Time passes, the capacitor discharges, interrupts are taken, callbacks run
\* and finish.  Nothing is assumed of the queue and the connection.
FairSpec ==
    /\ Spec
    /\ WF_vars(Tick) /\ WF_vars(Discharge) /\ WF_vars(WakeUp)
    /\ WF_vars(sendADCData) /\ WF_vars(goToSleep)
    /\ WF_vars(mqtt_timer) /\ WF_vars(NullCall)
    /\ WF_vars(look \/ stay \/ process \/ stop \/ light)

-----------------------------------------------------------------------------
\* No timer is later than its slack or armed for longer than its longest
\* delay, and wakeCount stays below its limit, wherever the interrupt hits.
TypeOK ==
    /\ armed \subseteq Timers
    /\ left \in [Timers -> Int]
    /\ \A t \in Timers : -Slack <= left[t] /\ \E d \in Longest : left[t] <= d
    /\ timerSet \in BOOLEAN
    /\ sleepType \in {"MODEM", "NONE", "LIGHT"}
    /\ wakeCount \in 0 .. Wakes - 1
    /\ sinceWake \in 0 .. Debounce
    /\ low \in BOOLEAN /\ filled \in BOOLEAN
    /\ pc \in {"idle", "look", "stay", "process", "sleep", "light"}
    /\ overwritten \in BOOLEAN

\* A device that is kept awake has goToSleep ahead of it: wherever the
\* interrupt hits, no order of arming and disarming leaves it awake for good.
NeverStuckAwake ==
    sleepType = "NONE" => "goToSleep" \in armed \/ pc \in {"look", "stay", "sleep", "light"}

\* "Keep the IC awake and let the queue process": while the queue is filled and
\* goToSleep is to look at it again, the device is not in light sleep.
KeptAwake == filled /\ "goToSleep" \in armed => sleepType = "NONE"

\* That holds unless the interrupt came in one of the gaps between goToSleep's
\* first statement and its switch to light sleep, with the queue empty.  In every
\* other gap, whatever the timers do, the interrupt's NONE_SLEEP_T stands; and
\* the next interrupt that counts puts it right again.
KeptAwakeUnlessOverwritten == ~overwritten => KeptAwake

\* If the queue is empty whenever goToSleep looks, from some time on, an awake
\* device sleeps again (or restarts), however fast the interrupts come: the
\* debounce keeps them from putting goToSleep off for ever.
DrainedInTime == <>[][look => ~filled]_vars
SleepsAgain == DrainedInTime => (sleepType = "NONE" ~> sleepType # "NONE")

\* goToSleep and the measurement recur for ever, although each interrupt that
\* counts disarms both timers and starts them afresh.
LooksAgain == []<><<look>>_vars
MeasuresAgain == []<><<sendADCData>>_vars

\* While the queue stays filled and the client leaves the timer alone,
\* mqtt_timer runs for ever, although goToSleep starts its period afresh each
\* time it looks at the queue.
LeftAlone == <>[]["mqtt" \in armed /\ "mqtt" \notin armed' => stop]_vars
TicksWhileFilled ==
    LeftAlone => (<>[](filled /\ timerSet) => []<><<mqtt_timer>>_vars)
=============================================================================
