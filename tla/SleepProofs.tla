---------------------------- MODULE SleepProofs ----------------------------
(***************************************************************************)
(* Proofs about Sleep: types and bounds, that a device kept awake is       *)
(* looked at again, and that a filled queue keeps it awake unless an       *)
(* interrupt was overwritten.                                              *)
(***************************************************************************)
EXTENDS Sleep, TLAPS

\* What a timer's remaining time can be.
Bounded(f) ==
    /\ f \in [Timers -> Int]
    /\ \A t \in Timers : -Slack <= f[t] /\ \E d \in Longest : f[t] <= d
Sound(T) == T.armed \subseteq Timers /\ Bounded(T.left)

\* Disarming a timer keeps its bounds, ...
LEMMA DisarmSound ==
    ASSUME NEW T, NEW t \in Timers, Sound(T)
    PROVE  Sound(os_timer_disarm(T, t))
<1>1. \E d \in Longest : 0 <= d
  BY SleepAssumption DEF Longest
<1> QED
  BY <1>1, SleepAssumption DEF Sound, Bounded, os_timer_disarm

\* ... and so does arming it for one of the code's delays.
LEMMA ArmSound ==
    ASSUME NEW T, NEW t \in Timers, NEW d \in Longest, Sound(T)
    PROVE  Sound(os_timer_arm(T, t, d))
<1>1. d \in Nat
  BY SleepAssumption DEF Longest
<1> QED
  BY <1>1, SleepAssumption DEF Sound, Bounded, os_timer_arm

\* So does what MQTT_Connect and MQTT_Disconnect do to mqttTimer.
LEMMA CallSound ==
    ASSUME NEW T, NEW call, Sound(T)
    PROVE  Sound(AfterCall(T, call))
BY DisarmSound DEF AfterCall, Timers

\* Sound timers may become the timers.
LEMMA BecomeSound ==
    ASSUME NEW T, Sound(T), Become(T)
    PROVE  armed' \subseteq Timers /\ Bounded(left')
BY DEF Sound, Become

\* The variables that are not timers.
RestOK ==
    /\ timerSet \in BOOLEAN
    /\ sleepType \in {"MODEM", "NONE", "LIGHT"}
    /\ wakeCount \in 0 .. Wakes - 1
    /\ sinceWake \in 0 .. Debounce
    /\ low \in BOOLEAN /\ filled \in BOOLEAN
    /\ pc \in {"idle", "look", "stay", "process", "sleep", "light"}
    /\ overwritten \in BOOLEAN

\* The type invariant is that of the timers and that of the rest, ...
LEMMA TypeParts == TypeOK <=> armed \subseteq Timers /\ Bounded(left) /\ RestOK
BY DEF TypeOK, Bounded, RestOK

\* ... also in the next state.
LEMMA TypePartsNext == TypeOK' <=> armed' \subseteq Timers /\ Bounded(left') /\ RestOK'
BY DEF TypeOK, Bounded, RestOK

\* All timers at rest are within bounds.
LEMMA RestSound == Bounded([t \in Timers |-> 0])
<1>1. \E d \in Longest : 0 <= d
  BY SleepAssumption DEF Longest
<1> QED
  BY <1>1, SleepAssumption DEF Bounded

\* sleepInit leaves all timers at rest.
LEMMA InitType == Init => TypeOK
<1> SUFFICES ASSUME Init PROVE TypeOK
  OBVIOUS
<1>1. wakeCount \in 0 .. Wakes - 1
  BY SleepAssumption DEF Init
<1>2. RestOK
  BY <1>1 DEF Init, RestOK
<1>3. armed \subseteq Timers /\ Bounded(left)
  BY RestSound DEF Init
<1> QED
  BY <1>2, <1>3, TypeParts

\* Every handler arms timers only for the delays of the code.
LEMMA StepType == TypeOK /\ [Next]_vars => TypeOK'
<1> SUFFICES ASSUME TypeOK, [Next]_vars PROVE TypeOK'
  OBVIOUS
<1>0. Sound(Now) /\ RestOK
  BY TypeParts DEF Sound, Now
<1>a. /\ ReadDelay \in Longest /\ SleepDelay \in Longest
      /\ RetryDelay \in Longest /\ MqttPeriod \in Longest
      /\ "readADC" \in Timers /\ "goToSleep" \in Timers /\ "mqtt" \in Timers
  BY DEF Longest, Timers
<1>1. CASE Bounce \/ UNCHANGED vars
  BY <1>1 DEF Bounce, vars, timers, TypeOK
<1>2. CASE WakeUp
  <2>1. PICK call \in ClientCalls : wakeUp(call)
    BY <1>2 DEF WakeUp
  <2>2. RestOK'
    <3>1. wakeCount' \in 0 .. Wakes - 1
      BY <1>0, <2>1, SleepAssumption DEF wakeUp, RestOK
    <3>2. sinceWake' \in 0 .. Debounce
      BY <2>1, SleepAssumption DEF wakeUp
    <3>3. timerSet' \in BOOLEAN /\ low' \in BOOLEAN
      BY <2>1 DEF wakeUp
    <3>4. overwritten' \in BOOLEAN
      <4>1. overwritten' = GoingToSleep \/ overwritten' = overwritten
        BY <2>1 DEF wakeUp
      <4>2. overwritten \in BOOLEAN /\ GoingToSleep \in BOOLEAN
        BY <1>0 DEF RestOK, GoingToSleep
      <4> QED
        BY <4>1, <4>2, Zenon
    <3>5. /\ sleepType' \in {"MODEM", "NONE", "LIGHT"}
          /\ filled' \in BOOLEAN
          /\ pc' \in {"idle", "look", "stay", "process", "sleep", "light"}
      BY <1>0, <2>1 DEF wakeUp, RestOK
    <3> QED
      BY <3>1, <3>2, <3>3, <3>4, <3>5 DEF RestOK
  <2>3. armed' \subseteq Timers /\ Bounded(left')
    <3> DEFINE T == AfterCall(Now, call)
               U == os_timer_arm(T, "readADC", ReadDelay)
               V == os_timer_arm(U, "goToSleep", SleepDelay)
    <3>1. Become(T) \/ Become(V)
      BY <2>1 DEF wakeUp
    <3> HIDE DEF T, U, V
    <3>2. Sound(T)
      BY <1>0, CallSound DEF T
    <3>3. Sound(U)
      BY <1>a, <3>2, ArmSound DEF U
    <3>4. Sound(V)
      BY <1>a, <3>3, ArmSound DEF V
    <3> QED
      BY <3>1, <3>2, <3>4, BecomeSound
  <2> QED
    BY <2>2, <2>3, TypePartsNext
<1>3. CASE sendADCData
  <2>1. RestOK'
    BY <1>0, <1>3 DEF sendADCData, RestOK
  <2> QED
    BY <1>0, <1>a, <1>3, <2>1, DisarmSound, BecomeSound, TypePartsNext DEF sendADCData
<1>4. CASE goToSleep
  <2>1. RestOK'
    BY <1>0, <1>4 DEF goToSleep, RestOK
  <2> QED
    BY <1>0, <1>a, <1>4, <2>1, DisarmSound, BecomeSound, TypePartsNext DEF goToSleep
<1>l. CASE look
  BY <1>l DEF look, TypeOK, timers
<1>5. CASE stay
  <2>1. RestOK'
    BY <1>0, <1>5 DEF stay, RestOK
  <2> QED
    BY <1>0, <1>a, <1>5, <2>1, ArmSound, BecomeSound, TypePartsNext DEF stay
<1>6. CASE process
  <2>1. RestOK'
    BY <1>0, <1>6 DEF process, RestOK
  <2> QED
    BY <1>0, <1>a, <1>6, <2>1, ArmSound, BecomeSound, TypePartsNext DEF process
<1>7. CASE stop
  <2>1. RestOK'
    BY <1>0, <1>7 DEF stop, RestOK
  <2> QED
    BY <1>0, <1>a, <1>7, <2>1, DisarmSound, BecomeSound, TypePartsNext DEF stop
<1>8. CASE light
  BY <1>8 DEF light, TypeOK, timers
<1>9. CASE mqtt_timer
  <2>1. RestOK'
    BY <1>0, <1>9 DEF mqtt_timer, RestOK
  <2> QED
    BY <1>0, <1>a, <1>9, <2>1, ArmSound, BecomeSound, TypePartsNext DEF mqtt_timer
<1>10. CASE NullCall
  <2>1. RestOK'
    <3>1. wakeCount' \in 0 .. Wakes - 1
      BY <1>10, SleepAssumption DEF NullCall
    <3> QED
      BY <1>0, <1>10, <3>1 DEF NullCall, RestOK
  <2> QED
    BY <1>10, <2>1, RestSound, TypePartsNext DEF NullCall
<1>11. CASE \E call \in ClientCalls : ClientCall(call)
  <2>1. PICK call \in ClientCalls : ClientCall(call)
    BY <1>11
  <2>2. RestOK'
    <3>1. timerSet' \in BOOLEAN
      BY <2>1 DEF ClientCall
    <3> QED
      BY <1>0, <2>1, <3>1 DEF ClientCall, RestOK
  <2> QED
    BY <1>0, <2>1, <2>2, CallSound, BecomeSound, TypePartsNext DEF ClientCall
<1>12. CASE Drain \/ Fill \/ Discharge
  BY <1>12 DEF Drain, Fill, Discharge, TypeOK, timers
<1>13. CASE Tick
  <2>1. RestOK'
    BY <1>0, <1>13, SleepAssumption DEF Tick, RestOK
  <2>2. Bounded(left')
    <3>1. ASSUME NEW t \in Timers
          PROVE  /\ left'[t] \in Int /\ -Slack <= left'[t]
                 /\ \E d \in Longest : left'[t] <= d
      <4>1. PICK d \in Longest : left[t] <= d
        BY <3>1 DEF TypeOK
      <4>2. d \in Nat /\ left[t] \in Int
        BY <3>1, SleepAssumption DEF Longest, TypeOK
      <4>3. left'[t] = IF t \in armed THEN left[t] - 1 ELSE 0
        BY <1>13, <3>1 DEF Tick
      <4>4. t \in armed => left[t] > -Slack
        BY <1>13 DEF Tick
      <4> QED
        BY <4>1, <4>2, <4>3, <4>4, SleepAssumption
    <3>2. left' = [t \in Timers |-> left'[t]]
      BY <1>13 DEF Tick
    <3> QED
      BY <3>1, <3>2 DEF Bounded
  <2> QED
    BY <1>0, <1>13, <2>1, <2>2, TypePartsNext DEF Tick, Sound, Now
<1> QED
  BY <1>1, <1>2, <1>3, <1>4, <1>l, <1>5, <1>6, <1>7, <1>8, <1>9, <1>10, <1>11, <1>12, <1>13
     DEF Next

\* For any delays and any slack, and wherever the interrupt hits goToSleep, no
\* timer runs late beyond its slack and wakeCount stays below its limit.
THEOREM TypeCorrect == Spec => []TypeOK
  BY InitType, StepType, PTL DEF Spec

-----------------------------------------------------------------------------
\* Only goToSleep disarms its timer, and it then arms it again or sleeps; the
\* interrupt arms it when it ends light sleep.
LEMMA StepAwake == NeverStuckAwake /\ [Next]_vars => NeverStuckAwake'
<1> SUFFICES ASSUME NeverStuckAwake, [Next]_vars PROVE NeverStuckAwake'
  OBVIOUS
<1> USE DEF NeverStuckAwake, Become, Now, os_timer_arm, os_timer_disarm, AfterCall
<1>1. CASE Bounce \/ UNCHANGED vars
  BY <1>1 DEF Bounce, vars, timers
<1>2. CASE WakeUp
  BY <1>2 DEF WakeUp, wakeUp
<1>3. CASE sendADCData
  BY <1>3 DEF sendADCData
<1>4. CASE goToSleep
  BY <1>4 DEF goToSleep, Due
<1>l. CASE look
  BY <1>l DEF look, timers
<1>5. CASE stay
  BY <1>5 DEF stay
<1>6. CASE process
  BY <1>6 DEF process
<1>7. CASE stop
  BY <1>7 DEF stop
<1>8. CASE light
  BY <1>8 DEF light, timers
<1>9. CASE mqtt_timer
  BY <1>9 DEF mqtt_timer
<1>10. CASE NullCall
  BY <1>10 DEF NullCall
<1>11. CASE \E call \in ClientCalls : ClientCall(call)
  BY <1>11 DEF ClientCall
<1>12. CASE Drain \/ Fill \/ Discharge
  BY <1>12 DEF Drain, Fill, Discharge, timers
<1>13. CASE Tick
  BY <1>13 DEF Tick
<1> QED
  BY <1>1, <1>2, <1>3, <1>4, <1>l, <1>5, <1>6, <1>7, <1>8, <1>9, <1>10, <1>11, <1>12, <1>13
     DEF Next

\* For any delays, and wherever the interrupt hits goToSleep, a device that is
\* kept awake has goToSleep ahead of it.
THEOREM NeverStuckAwakeHolds == Spec => []NeverStuckAwake
<1>1. Init => NeverStuckAwake
  BY DEF Init, NeverStuckAwake
<1> QED
  BY <1>1, StepAwake, PTL DEF Spec

-----------------------------------------------------------------------------
\* Unless the interrupt's switch was overwritten, light sleep is over whenever
\* goToSleep is armed or has begun and not yet decided to sleep, and goToSleep is
\* not armed while it lets the device sleep.
AwakeInv ==
    ~overwritten =>
        /\ "goToSleep" \in armed => sleepType = "NONE" /\ ~GoingToSleep
        /\ pc \in {"look", "stay", "process"} => sleepType = "NONE"

\* Every handler keeps it; the interrupt, because overwritten says where it hit.
LEMMA StepKept ==
    ASSUME AwakeInv, [Next]_vars
    PROVE  AwakeInv'
<1> USE DEF AwakeInv, GoingToSleep, Become, Now, os_timer_arm, os_timer_disarm, AfterCall
<1>1. CASE Bounce \/ UNCHANGED vars
  BY <1>1 DEF Bounce, vars, timers
<1>2. CASE WakeUp
  <2>1. PICK call \in ClientCalls : wakeUp(call)
    BY <1>2 DEF WakeUp
  <2>2. filled' = filled /\ pc' = pc
    BY <2>1 DEF wakeUp
  <2>3. CASE wakeCount + 1 >= Wakes
    <3>1. sleepType' = "NONE" /\ overwritten' = GoingToSleep
      BY <2>1, <2>3 DEF wakeUp
    <3> QED
      BY <2>2, <3>1
  <2>4. CASE ~(wakeCount + 1 >= Wakes)
    <3>1. sleepType' = sleepType /\ overwritten' = overwritten
      BY <2>1, <2>4 DEF wakeUp
    <3>2. "goToSleep" \in armed' => "goToSleep" \in armed
      BY <2>1, <2>4 DEF wakeUp
    <3> QED
      BY <2>2, <3>1, <3>2
  <2> QED
    BY <2>3, <2>4
<1>3. CASE sendADCData
  BY <1>3 DEF sendADCData
<1>4. CASE goToSleep
  BY <1>4 DEF goToSleep, Due
<1>l. CASE look
  BY <1>l DEF look, timers
<1>5. CASE stay
  BY <1>5 DEF stay
<1>6. CASE process
  BY <1>6 DEF process
<1>7. CASE stop
  BY <1>7 DEF stop
<1>8. CASE light
  BY <1>8 DEF light, timers
<1>9. CASE mqtt_timer
  BY <1>9 DEF mqtt_timer
<1>10. CASE NullCall
  BY <1>10 DEF NullCall, Due
<1>11. CASE \E call \in ClientCalls : ClientCall(call)
  BY <1>11 DEF ClientCall
<1>12. CASE Drain \/ Fill \/ Discharge
  BY <1>12 DEF Drain, Fill, Discharge, timers
<1>13. CASE Tick
  BY <1>13 DEF Tick
<1> QED
  BY <1>1, <1>2, <1>3, <1>4, <1>l, <1>5, <1>6, <1>7, <1>8, <1>9, <1>10, <1>11, <1>12, <1>13
     DEF Next

\* For any delays, a device with a filled queue that is to be looked at again is
\* not in light sleep, unless the interrupt came between goToSleep's first
\* statement and its switch to light sleep, with the queue empty.
THEOREM KeptAwakeHolds == Spec => []KeptAwakeUnlessOverwritten
<1>1. Init => AwakeInv
  BY DEF Init, AwakeInv, GoingToSleep
<1>2. AwakeInv /\ [Next]_vars => AwakeInv'
  BY StepKept
<1>3. AwakeInv => KeptAwakeUnlessOverwritten
  BY DEF AwakeInv, KeptAwakeUnlessOverwritten, KeptAwake
<1> QED
  BY <1>1, <1>2, <1>3, PTL DEF Spec
=============================================================================
