----------------------------- MODULE WifiProofs -----------------------------
(***************************************************************************)
(* Proofs about Wifi: types, what lastWifiStatus and the callback agree    *)
(* on, and that the supervision feeds the application as StatusFeed says   *)
(* as long as nothing preempts it.                                         *)
(***************************************************************************)
EXTENDS Wifi, TLAPS

\* Types hold at the start ...
LEMMA InitType == Init => TypeOK
BY DEF Init, TypeOK, Status

\* ... and after every step.
LEMMA StepType == TypeOK /\ [Next]_vars => TypeOK'
<1> SUFFICES ASSUME TypeOK, [Next]_vars PROVE TypeOK'
  OBVIOUS
<1> USE DEF TypeOK
<1>1. CASE Progress
  BY <1>1 DEF Progress, Events, Status
<1>2. CASE Fail
  BY <1>2 DEF Fail, Events, Status
<1>3. CASE Interrupt
  BY <1>3 DEF Interrupt, AttemptAfter
<1>4. CASE \E e \in Events : wifi_handle_event_cb(e)
  BY <1>4 DEF wifi_handle_event_cb
<1>5. CASE GetStatus
  BY <1>5 DEF GetStatus, sdkVars
<1>6. CASE StoreStatus
  BY <1>6 DEF StoreStatus, AttemptAfter
<1>7. CASE Compare
  BY <1>7 DEF Compare, sdkVars
<1>8. CASE Remember
  BY <1>8 DEF Remember, sdkVars
<1>9. CASE CallBack
  BY <1>9 DEF CallBack, sdkVars
<1>10. CASE UNCHANGED vars
  BY <1>10 DEF vars, sdkVars
<1> QED
  BY <1>1, <1>2, <1>3, <1>4, <1>5, <1>6, <1>7, <1>8, <1>9, <1>10 DEF Next, Handler

\* For any failure codes, every copy wifi_check_ip makes of the status is one.
THEOREM TypeCorrect == Spec => []TypeOK
  BY InitType, StepType, PTL DEF Spec

-----------------------------------------------------------------------------
\* Between remembering and calling, lastWifiStatus is what the handler is about
\* to tell, unless the interrupt told something in between.
AgreeInv ==
    /\ AgreesUnlessOvertaken
    /\ pc = "call" /\ ~overtaken => lastWifiStatus = value

\* One step per access of the handler; the interrupt is the one to look at.
LEMMA StepAgree == TypeOK /\ AgreeInv /\ [Next]_vars => AgreeInv'
<1> SUFFICES ASSUME TypeOK, AgreeInv, [Next]_vars PROVE AgreeInv'
  OBVIOUS
<1> USE DEF AgreeInv, AgreesUnlessOvertaken
<1>1. CASE Progress
  BY <1>1 DEF Progress
<1>2. CASE Fail
  BY <1>2 DEF Fail
<1>3. CASE Interrupt
  <2>1. CASE pc = "call"
    BY <1>3, <2>1 DEF Interrupt
  <2>2. CASE pc # "call"
    BY <1>3, <2>2 DEF Interrupt
  <2> QED
    BY <2>1, <2>2
<1>4. CASE \E e \in Events : wifi_handle_event_cb(e)
  BY <1>4 DEF wifi_handle_event_cb
<1>5. CASE GetStatus
  BY <1>5 DEF GetStatus
<1>6. CASE StoreStatus
  BY <1>6 DEF StoreStatus
<1>7. CASE Compare
  BY <1>7 DEF Compare
<1>8. CASE Remember
  BY <1>8 DEF Remember
<1>9. CASE CallBack
  BY <1>9 DEF CallBack
<1>10. CASE UNCHANGED vars
  BY <1>10 DEF vars
<1> QED
  BY <1>1, <1>2, <1>3, <1>4, <1>5, <1>6, <1>7, <1>8, <1>9, <1>10 DEF Next, Handler

\* Wherever the interrupt hits wifi_check_ip, only a call of wifiCb in the gap
\* between the handler's assignment and its own call makes them disagree.
THEOREM AgreesUnlessOvertakenHolds == Spec => []AgreesUnlessOvertaken
<1>1. Init => AgreeInv
  BY DEF Init, AgreeInv, AgreesUnlessOvertaken
<1>2. AgreeInv => AgreesUnlessOvertaken
  BY DEF AgreeInv
<1> QED
  BY <1>1, <1>2, InitType, StepType, StepAgree, PTL DEF Spec

-----------------------------------------------------------------------------
\* Without preemption the handler's copy, wifiStatus and lastWifiStatus differ
\* only where the handler has yet to store one in the other.
AloneInv ==
    /\ pc = "call" => lastWifiStatus = value /\ told # value
    /\ pc # "call" => told = lastWifiStatus
    /\ pc \in {"compare", "remember", "call"} => value = wifiStatus
    /\ pc \in {"idle", "get"} => wifiStatus = lastWifiStatus
    /\ pc = "remember" => wifiStatus # lastWifiStatus

\* Without preemption every access of the handler, and the interrupt as a whole,
\* is a step of the feed or none.
LEMMA StepAlone ==
    ASSUME ~preempts, TypeOK, AloneInv, [Next]_vars
    PROVE  AloneInv' /\ [Feed!Next]_(Feed!feedVars) /\ ~preempts'
<1> USE DEF AloneInv, TypeOK, Feed!Next, Feed!feedVars, Feed!Change, Feed!Sample, Feed!Tell,
            Feed!SampleAndTell, Undisturbed
<1>1. CASE Progress
  BY <1>1 DEF Progress, Status
<1>2. CASE Fail
  BY <1>2 DEF Fail, Status
<1>3. CASE Interrupt
  BY <1>3 DEF Interrupt
<1>4. CASE \E e \in Events : wifi_handle_event_cb(e)
  BY <1>4 DEF wifi_handle_event_cb
<1>5. CASE GetStatus
  BY <1>5 DEF GetStatus, sdkVars
<1>6. CASE StoreStatus
  BY <1>6 DEF StoreStatus
<1>7. CASE Compare
  BY <1>7 DEF Compare, sdkVars
<1>8. CASE Remember
  BY <1>8 DEF Remember, sdkVars
<1>9. CASE CallBack
  BY <1>9 DEF CallBack, sdkVars
<1>10. CASE UNCHANGED vars
  BY <1>10 DEF vars, sdkVars
<1> QED
  BY <1>1, <1>2, <1>3, <1>4, <1>5, <1>6, <1>7, <1>8, <1>9, <1>10 DEF Next, Handler

\* With preemption the feed stands still.
LEMMA StepDisturbed ==
    ASSUME preempts, [Next]_vars
    PROVE  preempts' /\ UNCHANGED Feed!feedVars
<1>1. preempts'
  BY DEF Next, Handler, Progress, Fail, Interrupt, wifi_handle_event_cb, GetStatus,
         StoreStatus, Compare, Remember, CallBack, vars
<1> QED
  BY <1>1 DEF Feed!feedVars, Undisturbed

\* As long as nothing preempts wifi_check_ip, the callback hears each status that
\* differs from the one it heard last, once, and nothing else: the safety part of
\* FeedsStatus, for any failure codes.
THEOREM FeedsSafely == Spec => Feed!Spec
<1> DEFINE Inv == ~preempts => AloneInv
<1>1. Init => Inv /\ Feed!Init
  BY DEF Init, AloneInv, Feed!Init, Status, Undisturbed
<1>2. TypeOK /\ Inv /\ [Next]_vars => Inv' /\ [Feed!Next]_(Feed!feedVars)
  <2> SUFFICES ASSUME TypeOK, Inv, [Next]_vars
               PROVE  Inv' /\ [Feed!Next]_(Feed!feedVars)
    OBVIOUS
  <2>1. CASE preempts
    BY <2>1, StepDisturbed
  <2>2. CASE ~preempts
    BY <2>2, StepAlone
  <2> QED
    BY <2>1, <2>2
<1> QED
  BY <1>1, <1>2, InitType, StepType, PTL DEF Spec, Feed!Spec
=============================================================================
