--------------------------- MODULE PublishProofs ---------------------------
(***************************************************************************)
(* Proofs about what is published: Measure, for any inputs, factors and    *)
(* sizes, and MqttMsg, for any strings and any buffer that a header of     *)
(* three bytes can describe.                                               *)
(***************************************************************************)
EXTENDS Measure, MqttMsg, SequenceTheorems, TLAPS

(***************************************************************************)
(* Measure                                                                 *)
(***************************************************************************)
\* A scaled value fits its uint16.
LEMMA ValueFits ==
    ASSUME NEW c \in Channels, NEW sum \in Nat
    PROVE  adcValue(c, sum) \in 0 .. Uint16 - 1
<1>1. \A a \in Nat, b \in Nat \ {0} : a \div b \in Nat /\ a % b \in 0 .. b - 1
  OBVIOUS
<1>2. Multiplier[c] \in Nat /\ 10 * Samples \in Nat \ {0} /\ Uint16 \in Nat \ {0}
  BY MeasureAssumption
<1>3. sum * Multiplier[c] \in Nat
  BY <1>2
<1> QED
  BY <1>1, <1>2, <1>3 DEF adcValue

\* The outputs select the input whose number setADC was given.
LEMMA SetSelects ==
    ASSUME NEW n \in Channels, setADC(n)
    PROVE  select' \in [0 .. 2 -> 0 .. 1] /\ Selected(select') = n
BY DEF setADC, Selected, Channels, gpio16_output_set, Bit

\* The input whose value the message with topic t shows.
Shown(t) == IF t = 5 THEN 4 ELSE t

Published == [topic : 0 .. 8, text : Nat]

\* In a measurement the messages so far are those of the channels before adc, in
\* their order.  Inputs that were sampled are not sampled again.
InOrder ==
    /\ sent \in Seq(Published)
    /\ adc # Idle => Len(sent) = adc
    /\ \A i \in 1 .. Len(sent) : sent[i].topic = i - 1
    /\ \A i \in 1 .. Len(sent) : i - 1 \in Channels =>
          sent[i].text = adcValue(Shown(i - 1), sums[Shown(i - 1)])

\* The text buffer still holds what channel 4 put there when channel 5 comes, and
\* a measurement under way has taken its buffers before it is counted.
MeasureInv ==
    /\ adc \in 0 .. Idle
    /\ select \in [0 .. 2 -> 0 .. 1]
    /\ sums \in [Channels -> Nat]
    /\ mqttValue \in {Garbage} \cup Nat
    /\ free \in 0 .. Heap /\ counter \in Nat
    /\ counter + free <= Heap
    /\ adc # Idle => counter + free < Heap
    /\ adc = 5 => mqttValue = adcValue(4, sums[4])
    /\ InOrder

\* Before the first measurement nothing has been sent.
LEMMA MeasureInvInit == Init => MeasureInv
BY EmptySeq, MeasureAssumption DEF Init, MeasureInv, InOrder, Idle, Garbage, Channels

\* What MQTT_Publish does to the list.
LEMMA AppendsOne ==
    ASSUME NEW S, NEW q \in Seq(S), NEW e \in S, NEW r, r = Append(q, e)
    PROVE  /\ r \in Seq(S) /\ Len(r) = Len(q) + 1 /\ Len(q) \in Nat
           /\ r[Len(q) + 1] = e /\ \A i \in 1 .. Len(q) : r[i] = q[i]
BY AppendProperties, LenProperties

\* A turn of the loop appends the text of the channel it has sampled.
LEMMA MeasureInvSample ==
    ASSUME MeasureInv, Sample
    PROVE  MeasureInv'
<1>0. adc \in 0 .. 7 /\ adc \in Channels /\ adc' = adc + 1 /\ adc # Idle
  BY DEF Sample, Channels, Idle
<1>1. PICK s \in Sums : sums' = [sums EXCEPT ![Selected(select')] = s]
  BY DEF Sample
<1>2. select' \in [0 .. 2 -> 0 .. 1] /\ Selected(select') = adc
  BY <1>0, SetSelects DEF Sample
<1>3. sums' \in [Channels -> Nat] /\ \A c \in Channels : c # adc => sums'[c] = sums[c]
  <2>1. s \in Nat /\ sums \in [Channels -> Nat]
    BY MeasureAssumption DEF MeasureInv
  <2>2. sums' = [sums EXCEPT ![adc] = s]
    BY <1>1, <1>2
  <2> QED
    BY <2>1, <2>2, <1>0
<1>4. mqttValue' = IF adc = 5 THEN mqttValue ELSE adcValue(adc, sums'[adc])
  BY <1>2 DEF Sample
<1>5. mqttValue' = adcValue(Shown(adc), sums'[Shown(adc)])
  BY <1>3, <1>4, <1>0 DEF Shown, Channels, MeasureInv
<1>6. Shown(adc) \in Channels
  BY <1>0 DEF Shown, Channels
<1>7. mqttValue' \in Nat
  <2>1. sums'[Shown(adc)] \in Nat /\ Uint16 \in Nat
    BY <1>3, <1>6, MeasureAssumption
  <2> QED
    BY <2>1, <1>5, <1>6, ValueFits
<1>8. [topic |-> adc, text |-> mqttValue'] \in Published
  BY <1>0, <1>7 DEF Published
<1>9. /\ sent' \in Seq(Published) /\ Len(sent') = adc + 1
      /\ sent'[adc + 1] = [topic |-> adc, text |-> mqttValue']
      /\ \A i \in 1 .. adc : sent'[i] = sent[i]
  <2>1. sent' = Append(sent, [topic |-> adc, text |-> mqttValue'])
    BY DEF Sample, MQTT_Publish
  <2>2. sent \in Seq(Published) /\ Len(sent) = adc
    BY <1>0 DEF MeasureInv, InOrder
  <2> QED
    BY <1>8, <2>1, <2>2, AppendsOne
<1>10. ASSUME NEW i \in 1 .. adc + 1
       PROVE  /\ sent'[i].topic = i - 1
              /\ i - 1 \in Channels =>
                    sent'[i].text = adcValue(Shown(i - 1), sums'[Shown(i - 1)])
  <2>1. CASE i = adc + 1
    <3>1. i - 1 = adc /\ sent'[i].topic = adc /\ sent'[i].text = mqttValue'
      BY <2>1, <1>9, <1>0
    <3> QED
      BY <3>1, <1>5
  <2>2. CASE i # adc + 1
    <3>1. i \in 1 .. adc /\ i - 1 < adc /\ i - 1 \in 0 .. 7
      BY <2>2, <1>0, <1>10
    <3>2. Shown(i - 1) \in Channels /\ Shown(i - 1) # adc
      BY <3>1, <1>0 DEF Shown, Channels
    <3>3. sent'[i] = sent[i] /\ sums'[Shown(i - 1)] = sums[Shown(i - 1)]
      BY <3>1, <3>2, <1>9, <1>3
    <3>4. /\ sent[i].topic = i - 1
          /\ i - 1 \in Channels => sent[i].text = adcValue(Shown(i - 1), sums[Shown(i - 1)])
      BY <3>1, <1>0 DEF MeasureInv, InOrder
    <3> QED
      BY <3>3, <3>4
  <2> QED
    BY <2>1, <2>2
<1>11. InOrder'
  BY <1>0, <1>9, <1>10 DEF InOrder
<1>12. adc' = 5 => mqttValue' = adcValue(4, sums'[4])
  BY <1>0, <1>4
<1>13. /\ counter' \in Nat /\ free' \in 0 .. Heap
       /\ counter' + free' <= Heap /\ counter' + free' < Heap
  BY <1>0, MeasureAssumption DEF Sample, MeasureInv
<1>14. adc' \in 0 .. Idle
  BY <1>0 DEF Idle
<1> QED
  BY <1>14, <1>2, <1>3, <1>7, <1>11, <1>12, <1>13 DEF MeasureInv

\* The last message of a measurement shows its number.
LEMMA MeasureInvCount ==
    ASSUME MeasureInv, Count
    PROVE  MeasureInv'
<1>1. adc = 8 /\ adc' = Idle /\ Len(sent) = 8 /\ sent \in Seq(Published)
  BY DEF Count, MeasureInv, InOrder, Idle
<1>2. counter' = counter + 1 /\ counter' \in Nat /\ mqttValue' = counter' /\ sums' = sums
  BY DEF Count, MeasureInv
<1>3. /\ sent' \in Seq(Published) /\ Len(sent') = 9
      /\ sent'[9] = [topic |-> 8, text |-> counter']
      /\ \A i \in 1 .. 8 : sent'[i] = sent[i]
  <2> DEFINE e == [topic |-> 8, text |-> counter']
  <2>1. e \in Published
    BY <1>2 DEF Published
  <2>2. sent' = Append(sent, e)
    BY DEF Count, MQTT_Publish
  <2> HIDE DEF e
  <2>3. /\ sent' \in Seq(Published) /\ Len(sent') = Len(sent) + 1
        /\ sent'[Len(sent) + 1] = e
        /\ \A i \in 1 .. Len(sent) : sent'[i] = sent[i]
    <3>1. sent \in Seq(Published)
      BY <1>1
    <3> QED
      BY <3>1, <2>1, <2>2, AppendsOne
  <2>4. Len(sent) + 1 = 9
    BY <1>1
  <2> QED
    BY <1>1, <2>3, <2>4 DEF e
<1>4. ASSUME NEW i \in 1 .. 9
      PROVE  /\ sent'[i].topic = i - 1
             /\ i - 1 \in Channels =>
                   sent'[i].text = adcValue(Shown(i - 1), sums[Shown(i - 1)])
  <2>1. CASE i = 9
    BY <2>1, <1>3 DEF Channels
  <2>2. CASE i # 9
    <3>1. i \in 1 .. 8 /\ sent'[i] = sent[i]
      BY <2>2, <1>4, <1>3
    <3> QED
      BY <3>1, <1>1 DEF MeasureInv, InOrder
  <2> QED
    BY <2>1, <2>2
<1>5. InOrder'
  BY <1>1, <1>2, <1>3, <1>4 DEF InOrder
<1>6. counter' + free' <= Heap /\ free' \in 0 .. Heap
  BY <1>1, MeasureAssumption DEF Count, MeasureInv, Idle
<1>7. select' = select
  BY DEF Count
<1> QED
  BY <1>1, <1>2, <1>5, <1>6, <1>7 DEF MeasureInv, Idle

\* Every step of sendADCData keeps the invariant.
LEMMA MeasureInvNext ==
    ASSUME MeasureInv, [Next]_measureVars
    PROVE  MeasureInv'
<1>0. ASSUME sent' = <<>>, adc' = 0 \/ adc' = Idle
      PROVE  InOrder'
  <2>1. <<>> \in Seq(Published) /\ Len(<<>>) = 0
    BY EmptySeq
  <2> QED
    BY <1>0, <2>1 DEF InOrder
<1>1. CASE Begin
  <2>1. InOrder'
    BY <1>0, <1>1 DEF Begin
  <2>2. /\ free' \in 0 .. Heap /\ counter' \in Nat
        /\ counter' + free' < Heap /\ counter' + free' <= Heap
    BY <1>1, MeasureAssumption DEF Begin, MeasureInv
  <2> QED
    BY <1>1, <2>1, <2>2 DEF Begin, MeasureInv, Idle
<1>2. CASE Sample
  BY <1>2, MeasureInvSample
<1>3. CASE Count
  BY <1>3, MeasureInvCount
<1>4. CASE OutOfMemory
  <2>1. InOrder'
    BY <1>0, <1>4 DEF OutOfMemory
  <2> QED
    BY <1>4, <2>1, MeasureAssumption DEF OutOfMemory, MeasureInv, Idle
<1>5. CASE UNCHANGED measureVars
  BY <1>5 DEF measureVars, MeasureInv, InOrder
<1> QED
  BY <1>1, <1>2, <1>3, <1>4, <1>5 DEF Next

\* sendADCData and the counter stay within their types: a published value within
\* 16 bits, the counter within what the heap has room for.
THEOREM MeasureTypeCorrect == Spec => []TypeOK
<1>1. MeasureInv => TypeOK
  <2> SUFFICES ASSUME MeasureInv PROVE TypeOK
    OBVIOUS
  <2>1. ASSUME NEW i \in DOMAIN sent, sent[i].topic \in Channels
        PROVE  sent[i].text \in 0 .. Uint16 - 1
    <3>0. i \in 1 .. Len(sent) /\ sent[i].topic = i - 1
      BY <2>1, LenProperties DEF MeasureInv, InOrder
    <3>1. i - 1 \in Channels /\ Shown(i - 1) \in Channels
      BY <2>1, <3>0 DEF Shown, Channels
    <3>2. sums[Shown(i - 1)] \in Nat
      BY <3>1 DEF MeasureInv
    <3>3. sent[i].text = adcValue(Shown(i - 1), sums[Shown(i - 1)])
      BY <3>0, <3>1 DEF MeasureInv, InOrder
    <3> QED
      BY <3>1, <3>2, <3>3, ValueFits
  <2>2. counter \in 0 .. Heap
    BY MeasureAssumption DEF MeasureInv
  <2> QED
    BY <2>1, <2>2 DEF MeasureInv, TypeOK
<1> QED
  BY <1>1, MeasureInvInit, MeasureInvNext, PTL DEF Spec

\* Whatever the inputs give, each message of sendADCData shows the input of its
\* topic, except that channel 5 repeats channel 4.
THEOREM ShowsOwnInputHolds == Spec => []ShowsOwnInput
<1>1. MeasureInv => ShowsOwnInput
  <2>1. MeasureInv => DOMAIN sent = 1 .. Len(sent)
    BY LenProperties DEF MeasureInv, InOrder
  <2> QED
    BY <2>1 DEF MeasureInv, InOrder, ShowsOwnInput, Shown
<1> QED
  BY <1>1, MeasureInvInit, MeasureInvNext, PTL DEF Spec

(***************************************************************************)
(* MqttMsg                                                                 *)
(***************************************************************************)
\* What Min gives of a set that has a least element.
LEMMA MinIs ==
    ASSUME NEW S \in SUBSET Int, NEW m \in S, \A y \in S : m <= y
    PROVE  Min(S) = m
<1>1. Min(S) \in S /\ \A y \in S : Min(S) <= y
  BY DEF Min
<1>2. m \in Int /\ Min(S) \in Int /\ m <= Min(S) /\ Min(S) <= m
  BY <1>1
<1> QED
  BY <1>2

(***************************************************************************)
(* Identifiers                                                             *)
(***************************************************************************)
\* Counting back from message_id, which steps over 0, gives the ids in lastIds.
IdAt(i) == IF i <= message_id THEN message_id - i + 1 ELSE message_id - i + IdMod
IdInv ==
    /\ message_id \in 0 .. IdMod - 1
    /\ lastIds \in Seq(Nat) /\ Len(lastIds) <= IdMod - 1
    /\ \A i \in 1 .. Len(lastIds) : lastIds[i] = IdAt(i)

\* What is known of the number of ids.
LEMMA IdModRange == IdMod \in Nat /\ IdMod > 1 /\ IdMod <= 65536
BY MsgAssumption

\* The next id is the one after message_id, and after the last one 1: never 0.
LEMMA NextIdRange ==
    ASSUME IdInv
    PROVE  /\ NextId \in 1 .. IdMod - 1 /\ NextId \in Nat
           /\ message_id = IdMod - 1 => NextId = 1
           /\ message_id # IdMod - 1 => NextId = message_id + 1
<1>1. message_id \in 0 .. IdMod - 1
  BY DEF IdInv
<1>2. \A a, b \in Nat : a < b => a % b = a
  OBVIOUS
<1>3. \A b \in Nat \ {0} : b % b = 0
  OBVIOUS
<1>4. CASE message_id = IdMod - 1
  <2>1. message_id + 1 = IdMod /\ IdMod \in Nat \ {0}
    BY <1>4, IdModRange
  <2> QED
    BY <2>1, <1>3, <1>4, IdModRange DEF NextId
<1>5. CASE message_id # IdMod - 1
  <2>1. message_id + 1 \in Nat /\ message_id + 1 < IdMod
    BY <1>1, <1>5, IdModRange
  <2> QED
    <3>0. IdMod \in Nat /\ message_id + 1 # 0
      BY <1>1, IdModRange
    <3>1. (message_id + 1) % IdMod = message_id + 1 /\ message_id + 1 # 0
      BY <2>1, <1>2, <3>0, Zenon
    <3>2. NextId = message_id + 1
      BY <3>1 DEF NextId
    <3> QED
      BY <3>2, <1>1, <1>5, IdModRange
<1> QED
  BY <1>4, <1>5

\* An id that is used becomes the latest, the others move back by one.
LEMMA IdInvUsed ==
    ASSUME IdInv, Used(NextId)
    PROVE  IdInv'
<1> DEFINE id == NextId
           q == <<id>> \o lastIds
           n == IF Len(lastIds) + 1 <= IdMod - 1 THEN Len(lastIds) + 1 ELSE IdMod - 1
<1>1. /\ id \in 1 .. IdMod - 1 /\ id \in Nat /\ IdMod \in Nat /\ IdMod > 1
      /\ message_id = IdMod - 1 => id = 1
      /\ message_id # IdMod - 1 => id = message_id + 1
  BY NextIdRange, IdModRange
<1>2. Len(lastIds) \in 0 .. IdMod - 1 /\ lastIds \in Seq(Nat) /\ message_id \in 0 .. IdMod - 1
  BY <1>1, LenProperties DEF IdInv
<1>3. Min({Len(lastIds) + 1, IdMod - 1}) = n
  <2>1. n \in {Len(lastIds) + 1, IdMod - 1} /\ \A y \in {Len(lastIds) + 1, IdMod - 1} : n <= y
    BY <1>1, <1>2
  <2>2. {Len(lastIds) + 1, IdMod - 1} \in SUBSET Int
    BY <1>1, <1>2
  <2> HIDE DEF n
  <2> QED
    BY <2>1, <2>2, MinIs
<1>4. message_id' = id /\ lastIds' = SubSeq(q, 1, n)
  BY <1>3 DEF Used
<1> HIDE DEF id
<1>5. <<id>> \in Seq(Nat) /\ Len(<<id>>) = 1 /\ <<id>>[1] = id
  BY <1>1
<1>6. /\ q \in Seq(Nat) /\ Len(q) = Len(lastIds) + 1
      /\ q[1] = id /\ \A i \in 2 .. Len(lastIds) + 1 : q[i] = lastIds[i - 1]
  <2>1. /\ q \in Seq(Nat) /\ Len(q) = Len(<<id>>) + Len(lastIds)
        /\ \A i \in 1 .. Len(<<id>>) + Len(lastIds) :
              q[i] = IF i <= Len(<<id>>) THEN <<id>>[i] ELSE lastIds[i - Len(<<id>>)]
    BY <1>2, <1>5, ConcatProperties
  <2> HIDE DEF q
  <2> QED
    BY <2>1, <1>2, <1>5, SMTT(40)
<1> HIDE DEF q
<1>7. n \in 1 .. IdMod - 1 /\ n <= Len(lastIds) + 1
  BY <1>1, <1>2
<1> HIDE DEF n
<1>8. \A i \in 1 .. n : q[i] \in Nat
  BY <1>6, <1>7, <1>2, ElementOfSeq
<1>9. /\ lastIds' \in Seq(Nat) /\ Len(lastIds') = n
      /\ \A i \in 1 .. n : lastIds'[i] = q[i]
  <2>1. /\ SubSeq(q, 1, n) \in Seq(Nat)
        /\ Len(SubSeq(q, 1, n)) = IF 1 <= n THEN n - 1 + 1 ELSE 0
        /\ \A i \in 1 .. n - 1 + 1 : SubSeq(q, 1, n)[i] = q[1 + i - 1]
    BY <1>8, <1>7, SubSeqProperties
  <2> QED
    BY <2>1, <1>4, <1>7
<1>10. ASSUME NEW i \in 1 .. n
       PROVE  lastIds'[i] = IdAt(i)'
  <2>1. IdAt(i)' = IF i <= id THEN id - i + 1 ELSE id - i + IdMod
    BY <1>4 DEF IdAt
  <2>2. CASE i = 1
    <3>1. lastIds'[i] = id
      BY <2>2, <1>6, <1>9
    <3> QED
      BY <3>1, <2>1, <2>2, <1>1
  <2>3. CASE i # 1
    <3>1. i - 1 \in 1 .. Len(lastIds) /\ i \in 2 .. Len(lastIds) + 1 /\ i \in 1 .. n
      BY <2>3, <1>7, <1>2
    <3>2. lastIds'[i] = IdAt(i - 1)
      BY <3>1, <1>6, <1>9 DEF IdInv
    <3> QED
      BY <3>1, <3>2, <2>1, <1>1, <1>2, <1>7, SMTT(40) DEF IdAt
  <2> QED
    BY <2>2, <2>3
<1>11. message_id' \in 0 .. IdMod - 1 /\ Len(lastIds') <= IdMod - 1
  <2>1. n <= IdMod - 1 /\ id \in 0 .. IdMod - 1
    BY <1>1, <1>7
  <2> QED
    BY <2>1, <1>4, <1>9
<1> QED
  BY <1>9, <1>10, <1>11 DEF IdInv

\* Before the first message no id is in use.
LEMMA IdInvInit == MsgInit => IdInv
BY IdModRange, EmptySeq DEF MsgInit, IdInv

\* Every request uses the next id or none.
LEMMA IdInvNext ==
    ASSUME IdInv, [MsgNext]_msgVars
    PROVE  IdInv'
<1>1. ASSUME Used(NextId) \/ KeepId
      PROVE  IdInv'
  <2>1. CASE Used(NextId)
    BY <2>1, IdInvUsed
  <2>2. CASE KeepId
    BY <2>2 DEF KeepId, IdInv, IdAt
  <2> QED
    BY <1>1, <2>1, <2>2
<1>2. CASE mqtt_msg_init
  BY <1>2, IdModRange, EmptySeq DEF mqtt_msg_init, IdInv
<1>3. CASE UNCHANGED msgVars
  BY <1>3, <1>1 DEF msgVars, KeepId
<1>4. ASSUME NEW packet, NEW next, NEW stale, NEW id, Answer(packet, next, stale, id)
      PROVE  Used(NextId) \/ KeepId
  BY <1>4 DEF Answer
<1>5. CASE MsgNext /\ ~mqtt_msg_init
  BY <1>5, <1>1, <1>4
     DEF MsgNext, mqtt_msg_publish, mqtt_msg_subscribe, mqtt_msg_unsubscribe,
         mqtt_msg_connect, mqtt_msg_empty
<1> QED
  BY <1>2, <1>3, <1>5

\* append_message_id never hands out 0, and an id again only after all others,
\* also when the 16-bit counter wraps: MsgSpec => []IdsFresh.
THEOREM IdsFreshHolds == MsgSpec => []IdsFresh
<1>1. IdInv => IdsFresh
  <2> SUFFICES ASSUME IdInv PROVE IdsFresh
    OBVIOUS
  <2>1. /\ DOMAIN lastIds = 1 .. Len(lastIds) /\ Len(lastIds) \in 0 .. IdMod - 1
        /\ message_id \in 0 .. IdMod - 1 /\ IdMod \in Nat /\ IdMod > 1
    BY LenProperties, IdModRange DEF IdInv
  <2>2. \A i \in 1 .. Len(lastIds) : lastIds[i] = IdAt(i)
    BY DEF IdInv
  <2>3. \A i \in 1 .. Len(lastIds) : IdAt(i) # 0
    BY <2>1 DEF IdAt
  <2>4. \A i, j \in 1 .. Len(lastIds) : IdAt(i) = IdAt(j) => i = j
    <3>1. ASSUME NEW i \in 1 .. Len(lastIds), NEW j \in 1 .. Len(lastIds), IdAt(i) = IdAt(j)
          PROVE  i = j
      BY <2>1, <3>1 DEF IdAt
    <3> QED
      BY <3>1
  <2> QED
    BY <2>1, <2>2, <2>3, <2>4 DEF IdsFresh
<1> QED
  BY <1>1, IdInvInit, IdInvNext, PTL DEF MsgSpec

(***************************************************************************)
(* Headers                                                                 *)
(***************************************************************************)
Short(body) == Len(body) <= 16383

\* buf begins with a header of h bytes and the body behind it.
Framed(buf, body, type, qos, h) ==
    /\ buf[1] \in Nat /\ buf[1] \div 16 = type /\ (buf[1] \div 2) % 4 = qos
    /\ \/ h = 2 /\ Len(body) < 128 /\ buf[2] = Len(body)
       \/ /\ h = 3 /\ Len(body) >= 128 /\ Short(body)
          /\ buf[2] = 128 + (Len(body) % 128) /\ buf[3] = Len(body) \div 128
    /\ \A i \in 1 .. Len(body) : buf[h + i] = body[i]

\* buf begins with m.
Starts(buf, m) == \A i \in 1 .. Len(m) : buf[i] = m[i]

\* A byte, by its bounds.
LEMMA ByteIs == \A x : x \in Byte <=> x \in Nat /\ x < 256
BY DEF Byte

\* What concatenation gives, position by position.
LEMMA Concat ==
    ASSUME NEW S, NEW s \in Seq(S), NEW t \in Seq(S), NEW u, u = s \o t
    PROVE  /\ u \in Seq(S) /\ Len(u) = Len(s) + Len(t) /\ Len(s) \in Nat /\ Len(t) \in Nat
           /\ \A i \in 1 .. Len(s) : u[i] = s[i]
           /\ \A i \in 1 .. Len(t) : u[Len(s) + i] = t[i]
<1>1. Len(s) \in Nat /\ Len(t) \in Nat
  BY LenProperties
<1>2. /\ s \o t \in Seq(S) /\ Len(s \o t) = Len(s) + Len(t)
      /\ \A i \in 1 .. Len(s) + Len(t) :
            (s \o t)[i] = IF i <= Len(s) THEN s[i] ELSE t[i - Len(s)]
  BY ConcatProperties
<1> QED
  BY <1>1, <1>2

\* A frame at the front of a longer buffer is a frame of that buffer.
LEMMA FramedStarts ==
    ASSUME NEW buf, NEW m, NEW body \in Seq(Byte), NEW type, NEW qos, NEW h,
           Framed(m, body, type, qos, h), Len(m) = h + Len(body), Starts(buf, m)
    PROVE  Framed(buf, body, type, qos, h)
<1>1. Len(body) \in Nat /\ h \in {2, 3} /\ (h = 3 => Len(body) >= 128)
  BY LenProperties DEF Framed
<1>2. buf[1] = m[1] /\ buf[2] = m[2] /\ (h = 3 => buf[3] = m[3])
  BY <1>1 DEF Starts
<1>3. \A i \in 1 .. Len(body) : h + i \in 1 .. Len(m)
  BY <1>1
<1>4. \A i \in 1 .. Len(body) : buf[h + i] = body[i]
  <2>1. \A i \in 1 .. Len(body) : buf[h + i] = m[h + i]
    BY <1>3 DEF Starts
  <2>2. \A i \in 1 .. Len(body) : m[h + i] = body[i]
    BY DEF Framed
  <2> QED
    BY <2>1, <2>2
<1> QED
  BY <1>2, <1>4 DEF Framed

HeaderLen(body) == IF Len(body) > 127 THEN 3 ELSE 2

HeaderOK(type, qos, retain) == type \in 1 .. 14 /\ qos \in 0 .. 2 /\ retain \in 0 .. 1

\* A whole message.
IsFrame(m, body, type, qos) ==
    /\ m \in Seq(Byte) /\ Len(m) = HeaderLen(body) + Len(body)
    /\ Framed(m, body, type, qos, HeaderLen(body))

\* What fini_message makes is a frame, and no byte of it overflows.
LEMMA FiniFrames ==
    ASSUME NEW body \in Seq(Byte), Short(body),
           NEW type, NEW qos, NEW retain, HeaderOK(type, qos, retain),
           NEW m, m = fini_message(body, type, qos, retain)
    PROVE  IsFrame(m, body, type, qos)
<1> DEFINE first == 16 * type + 2 * qos + retain
           rest == Len(body)
<1>1. first \in Nat /\ first < 256 /\ first \div 16 = type /\ (first \div 2) % 4 = qos
  <2>1. ASSUME NEW t \in Nat, NEW x \in Nat, x < 16
        PROVE  (16 * t + x) \div 16 = t
    BY <2>1
  <2>2. ASSUME NEW t \in Nat, NEW q \in Nat, NEW x \in Nat, x < 2, q < 4
        PROVE  ((16 * t + 2 * q + x) \div 2) % 4 = q
    <3>1. (16 * t + 2 * q + x) \div 2 = 8 * t + q
      BY <2>2
    <3>2. (8 * t + q) % 4 = q
      BY <2>2
    <3> QED
      BY <3>1, <3>2
  <2>3. type \in Nat /\ type < 15 /\ qos \in Nat /\ qos < 3 /\ retain \in Nat /\ retain < 2
    BY DEF HeaderOK
  <2>4. first = 16 * type + (2 * qos + retain) /\ 2 * qos + retain \in Nat /\ 2 * qos + retain < 16
    BY <2>3
  <2>5. first \div 16 = type
    BY <2>1, <2>3, <2>4
  <2>6. (first \div 2) % 4 = qos
    BY <2>2, <2>3
  <2>7. first \in Nat /\ first < 256
    BY <2>3
  <2> QED
    BY <2>5, <2>6, <2>7
<1>2. first \in Byte /\ rest \in Nat
  <2>1. rest \in Nat
    BY LenProperties
  <2> HIDE DEF first
  <2> QED
    BY <1>1, <2>1, ByteIs
<1>3. CASE rest > 127
  <2> DEFINE b2 == 128 + (rest % 128)
             b3 == rest \div 128
             head == <<first, b2, b3>>
  <2>1. b2 \in Nat /\ b2 < 256 /\ b3 \in Nat /\ b3 < 128
    BY <1>2 DEF Short
  <2>2. b2 \in Byte /\ b3 \in Byte
    BY <2>1, ByteIs
  <2>3. m = head \o body /\ HeaderLen(body) = 3
    BY <1>3 DEF fini_message, HeaderLen
  <2>4. first \in Nat /\ first \div 16 = type /\ (first \div 2) % 4 = qos /\ first \in Byte
    BY <1>1, <1>2
  <2>5. rest \in Nat /\ rest >= 128 /\ Short(body) /\ b2 = 128 + (rest % 128) /\ b3 = rest \div 128
    BY <1>2, <1>3
  <2> HIDE DEF first, b2, b3
  <2>6. head \in Seq(Byte) /\ Len(head) = 3 /\ head[1] = first /\ head[2] = b2 /\ head[3] = b3
    BY <2>2, <2>4
  <2> HIDE DEF head
  <2>7. /\ m \in Seq(Byte) /\ Len(m) = 3 + rest
        /\ \A i \in 1 .. 3 : m[i] = head[i]
        /\ \A i \in 1 .. rest : m[3 + i] = body[i]
    <3>1. head \in Seq(Byte) /\ m = head \o body
      BY <2>3, <2>6
    <3>2. /\ m \in Seq(Byte) /\ Len(m) = Len(head) + Len(body)
          /\ \A i \in 1 .. Len(head) : m[i] = head[i]
          /\ \A i \in 1 .. Len(body) : m[Len(head) + i] = body[i]
      BY <3>1, Concat
    <3> QED
      BY <3>2, <2>6
  <2>8. m[1] = first /\ m[2] = b2 /\ m[3] = b3
    BY <2>6, <2>7, <1>2
  <2>9. \A i \in 1 .. rest : m[3 + i] = body[i]
    BY <2>7, <1>2
  <2> QED
    <3>1. Framed(m, body, type, qos, 3)
      BY <2>4, <2>5, <2>8, <2>9 DEF Framed
    <3> QED
      BY <3>1, <2>3, <2>7 DEF IsFrame
<1>4. CASE ~(rest > 127)
  <2> DEFINE head == <<first, rest>>
  <2>1. rest \in Byte /\ rest < 128
    BY <1>2, <1>4, ByteIs
  <2>3. m = head \o body /\ HeaderLen(body) = 2
    BY <1>4 DEF fini_message, HeaderLen
  <2>4. first \in Nat /\ first \div 16 = type /\ (first \div 2) % 4 = qos /\ first \in Byte
    BY <1>1, <1>2
  <2> HIDE DEF first
  <2>6. head \in Seq(Byte) /\ Len(head) = 2 /\ head[1] = first /\ head[2] = rest
    BY <2>1, <2>4
  <2> HIDE DEF head
  <2>7. /\ m \in Seq(Byte) /\ Len(m) = 2 + rest
        /\ \A i \in 1 .. 2 : m[i] = head[i]
        /\ \A i \in 1 .. rest : m[2 + i] = body[i]
    <3>1. head \in Seq(Byte) /\ m = head \o body
      BY <2>3, <2>6
    <3>2. /\ m \in Seq(Byte) /\ Len(m) = Len(head) + Len(body)
          /\ \A i \in 1 .. Len(head) : m[i] = head[i]
          /\ \A i \in 1 .. Len(body) : m[Len(head) + i] = body[i]
      BY <3>1, Concat
    <3> QED
      BY <3>2, <2>6
  <2>8. m[1] = first /\ m[2] = rest
    BY <2>6, <2>7, <1>2
  <2>9. \A i \in 1 .. rest : m[2 + i] = body[i]
    BY <2>7, <1>2
  <2> QED
    <3>1. Framed(m, body, type, qos, 2)
      BY <2>4, <2>1, <2>8, <2>9 DEF Framed
    <3> QED
      BY <3>1, <2>3, <2>7 DEF IsFrame
<1> QED
  BY <1>3, <1>4

\* The loop over the length bytes stops behind the header, whatever follows.
LEMMA FramedBody ==
    ASSUME NEW buf, NEW body \in Seq(Byte), NEW type, NEW qos, NEW h,
           Framed(buf, body, type, qos, h), NEW n \in Nat, n >= h + Len(body)
    PROVE  Body(buf, n) = h
<1> DEFINE ends == {j \in 1 .. n - 1 : At(buf, j) < 128}
<1>1. Len(body) \in Nat
  BY LenProperties
<1>2. h \in {2, 3} /\ (h = 3 => Len(body) >= 128)
  BY DEF Framed
<1>3. h - 1 \in ends /\ \A j \in ends : h - 1 <= j
  <2>1. CASE h = 2
    BY <2>1, <1>1, <1>2 DEF Framed, At
  <2>2. CASE h = 3
    <3>0. Short(body) /\ buf[2] = 128 + (Len(body) % 128) /\ buf[3] = Len(body) \div 128
      BY <2>2 DEF Framed
    <3>1. buf[3] < 128 /\ ~(buf[2] < 128)
      BY <3>0, <1>1, SMT DEF Short
    <3> QED
      BY <2>2, <3>1, <1>1, <1>2 DEF At
  <2> QED
    BY <2>1, <2>2, <1>2
<1>4. ends \in SUBSET Int /\ h - 1 \in Int /\ h \in Int
  BY <1>2
<1>5. Min(ends) = h - 1 /\ ends # {}
  <2> HIDE DEF ends
  <2> QED
    BY <1>3, <1>4, MinIs
<1>6. Body(buf, n) = Min(ends) + 1
  BY <1>5 DEF Body
<1> HIDE DEF ends
<1> QED
  BY <1>5, <1>6, <1>4

\* f holds what the length bytes from the j-th on stand for.
LengthFrom(buf, b, f) ==
    f = [j \in 1 .. b |-> IF j = b THEN 0 ELSE (At(buf, j) % 128) + 128 * f[j + 1]]

\* mqtt_get_total_length, when the loop has only one possible result.
LEMMA TotalIs ==
    ASSUME NEW buf, NEW n, NEW b, b = Body(buf, n), NEW f, LengthFrom(buf, b, f),
           \A g : LengthFrom(buf, b, g) => g[1] = f[1]
    PROVE  mqtt_get_total_length(buf, n) = f[1] + b
<1> DEFINE from == CHOOSE g : LengthFrom(buf, b, g)
<1>1. LengthFrom(buf, b, from)
  OBVIOUS
<1>2. mqtt_get_total_length(buf, n) = from[1] + b
  BY DEF mqtt_get_total_length, LengthFrom
<1> QED
  BY <1>1, <1>2

\* The length bytes give back the length of the body.
LEMMA FramedTotal ==
    ASSUME NEW buf, NEW body \in Seq(Byte), NEW type, NEW qos, NEW h,
           Framed(buf, body, type, qos, h), NEW n \in Nat, n >= h + Len(body)
    PROVE  mqtt_get_total_length(buf, n) = h + Len(body)
<1>1. Len(body) \in Nat /\ Body(buf, n) = h
  BY LenProperties, FramedBody
<1>2. CASE h = 2
  <2>1. buf[2] = Len(body) /\ Len(body) % 128 = Len(body)
    <3>1. buf[2] = Len(body) /\ Len(body) < 128
      BY <1>2 DEF Framed
    <3> QED
      BY <3>1, <1>1
  <2> DEFINE f == [j \in 1 .. 2 |-> IF j = 2 THEN 0 ELSE Len(body)]
  <2>2. LengthFrom(buf, 2, f)
    BY <2>1, <1>1 DEF LengthFrom, At
  <2>3. ASSUME NEW g, LengthFrom(buf, 2, g)
        PROVE  g[1] = f[1]
    <3>1. g[2] = 0
      BY <2>3 DEF LengthFrom
    <3>2. g[1] = (buf[2] % 128) + 128 * g[2]
      BY <2>3 DEF LengthFrom, At
    <3> QED
      BY <3>1, <3>2, <2>1, <1>1
  <2>4. f[1] = Len(body)
    OBVIOUS
  <2> HIDE DEF f
  <2>5. mqtt_get_total_length(buf, n) = f[1] + 2
    BY <2>2, <2>3, <1>1, <1>2, TotalIs
  <2> QED
    BY <2>4, <2>5, <1>1, <1>2
<1>3. CASE h = 3
  <2>1. /\ buf[2] = 128 + (Len(body) % 128) /\ buf[3] = Len(body) \div 128
        /\ Short(body)
    BY <1>1, <1>3 DEF Framed
  <2>2. buf[2] % 128 = Len(body) % 128 /\ buf[3] % 128 = buf[3] /\ buf[3] \in Nat
    BY <2>1, <1>1 DEF Short
  <2> DEFINE f == [j \in 1 .. 3 |-> IF j = 3 THEN 0 ELSE IF j = 2 THEN buf[3] ELSE Len(body)]
  <2>3. Len(body) = (buf[2] % 128) + 128 * buf[3]
    BY <2>1, <2>2, <1>1
  <2>4. LengthFrom(buf, 3, f)
    <3> DEFINE rhs == [j \in 1 .. 3 |-> IF j = 3 THEN 0 ELSE (At(buf, j) % 128) + 128 * f[j + 1]]
    <3>1. f[2] = buf[3] /\ f[3] = 0 /\ f[1] = Len(body)
      OBVIOUS
    <3>2. (buf[3] % 128) + 128 * 0 = buf[3]
      BY <2>2
    <3>3. \A j \in 1 .. 3 : f[j] = rhs[j]
      BY <3>1, <3>2, <2>3 DEF At
    <3>4. f = rhs
      BY <3>3
    <3> QED
      BY <3>4 DEF LengthFrom
  <2>5. ASSUME NEW g, LengthFrom(buf, 3, g)
        PROVE  g[1] = f[1]
    <3>1. g[3] = 0
      BY <2>5 DEF LengthFrom
    <3>2. g[2] = (buf[3] % 128) + 128 * g[3]
      BY <2>5 DEF LengthFrom, At
    <3>3. g[1] = (buf[2] % 128) + 128 * g[2]
      BY <2>5 DEF LengthFrom, At
    <3>4. g[2] = buf[3]
      BY <3>1, <3>2, <2>2
    <3> QED
      BY <3>3, <3>4, <2>3
  <2>6. f[1] = Len(body)
    OBVIOUS
  <2> HIDE DEF f
  <2>7. mqtt_get_total_length(buf, n) = f[1] + 3
    BY <2>4, <2>5, <1>1, <1>3, TotalIs
  <2> QED
    BY <2>6, <2>7, <1>1, <1>3
<1> QED
  BY <1>2, <1>3 DEF Framed

(***************************************************************************)
(* Fields                                                                  *)
(***************************************************************************)
IsWord(n) == n \in Nat /\ n < 65536
Low16(n) == n % 65536

\* Two bytes carry a number up to 65535, and of a larger one the lower 16 bits.
LEMMA WordParts ==
    ASSUME NEW n \in Nat
    PROVE  /\ Word(n) \in Seq(Byte) /\ Len(Word(n)) = 2
           /\ 256 * Word(n)[1] + Word(n)[2] = Low16(n)
           /\ IsWord(n) => 256 * Word(n)[1] + Word(n)[2] = n
<1> DEFINE a == (n \div 256) % 256
           b == n % 256
<1>1. a \in Nat /\ a < 256 /\ b \in Nat /\ b < 256
  OBVIOUS
<1>2. 256 * a + b = Low16(n)
  BY SMT DEF Low16
<1>5. IsWord(n) => Low16(n) = n
  BY SMT DEF IsWord, Low16
<1>3. Word(n) = <<a, b>>
  BY DEF Word
<1> HIDE DEF a, b
<1>4. a \in Byte /\ b \in Byte
  BY <1>1, ByteIs
<1> QED
  BY <1>2, <1>3, <1>4, <1>5

\* append_string: two bytes of length, then the string.
LEMMA StringParts ==
    ASSUME NEW s \in Seq(Byte), IsWord(Len(s))
    PROVE  /\ String(s) \in Seq(Byte) /\ Len(String(s)) = 2 + Len(s) /\ Len(s) \in Nat
           /\ 256 * String(s)[1] + String(s)[2] = Len(s)
           /\ \A i \in 1 .. Len(s) : String(s)[2 + i] = s[i]
<1> DEFINE w == Word(Len(s))
           u == String(s)
<1>1. Len(s) \in Nat
  BY LenProperties
<1>2. w \in Seq(Byte) /\ Len(w) = 2 /\ 256 * w[1] + w[2] = Len(s)
  BY <1>1, WordParts
<1>3. u = w \o s
  BY DEF String
<1> HIDE DEF w, u
<1>4. /\ u \in Seq(Byte) /\ Len(u) = Len(w) + Len(s)
      /\ \A i \in 1 .. Len(w) : u[i] = w[i]
      /\ \A i \in 1 .. Len(s) : u[Len(w) + i] = s[i]
  <2>1. w \in Seq(Byte)
    BY <1>2
  <2> QED
    BY <2>1, <1>3, Concat
<1>5. u[1] = w[1] /\ u[2] = w[2] /\ Len(u) = 2 + Len(s)
  BY <1>2, <1>4
<1>6. \A i \in 1 .. Len(s) : u[2 + i] = s[i]
  BY <1>2, <1>4
<1>7. 256 * u[1] + u[2] = Len(s)
  BY <1>2, <1>5
<1> QED
  BY <1>1, <1>4, <1>5, <1>6, <1>7 DEF u

\* Where the data of a PUBLISH starts in its body.
DataAt(topic, qos) == 2 + Len(topic) + (IF qos > 0 THEN 2 ELSE 0)

PublishLayout(p, topic, data, qos, id) ==
    /\ p \in Seq(Byte) /\ Len(p) = DataAt(topic, qos) + Len(data)
    /\ Len(topic) \in Nat /\ Len(data) \in Nat
    /\ 256 * p[1] + p[2] = Len(topic)
    /\ \A i \in 1 .. Len(topic) : p[2 + i] = topic[i]
    /\ qos > 0 => 256 * p[3 + Len(topic)] + p[4 + Len(topic)] = id
    /\ \A i \in 1 .. Len(data) : p[DataAt(topic, qos) + i] = data[i]

\* Where mqtt_msg_publish puts topic, id and payload.
LEMMA PublishParts ==
    ASSUME NEW topic \in Seq(Byte), IsWord(Len(topic)), NEW data \in Seq(Byte),
           NEW qos \in 0 .. 2, NEW id \in Nat, IsWord(id),
           NEW p, p = PublishBody(topic, data, qos, id)
    PROVE  PublishLayout(p, topic, data, qos, id)
<1> DEFINE u == String(topic)
           w == IF qos > 0 THEN Word(id) ELSE <<>>
           x == u \o w
           k == DataAt(topic, qos)
<1>1. /\ u \in Seq(Byte) /\ Len(u) = 2 + Len(topic) /\ Len(topic) \in Nat
      /\ 256 * u[1] + u[2] = Len(topic)
      /\ \A i \in 1 .. Len(topic) : u[2 + i] = topic[i]
  BY StringParts
<1>2. /\ w \in Seq(Byte) /\ Len(w) = IF qos > 0 THEN 2 ELSE 0
      /\ qos > 0 => 256 * w[1] + w[2] = id
  BY WordParts, EmptySeq
<1>3. p = x \o data
  BY DEF PublishBody
<1>4. k = Len(u) + Len(w) /\ k \in Nat /\ k >= 2 + Len(topic)
  <2> HIDE DEF u, w
  <2> QED
    BY <1>1, <1>2 DEF DataAt
<1> HIDE DEF u, w, k
<1>5. /\ x \in Seq(Byte) /\ Len(x) = Len(u) + Len(w)
      /\ \A i \in 1 .. Len(u) : x[i] = u[i]
      /\ \A i \in 1 .. Len(w) : x[Len(u) + i] = w[i]
  <2>1. u \in Seq(Byte)
    BY <1>1
  <2>2. w \in Seq(Byte)
    BY <1>2
  <2>3. x = u \o w
    OBVIOUS
  <2> HIDE DEF x
  <2> QED
    BY <2>1, <2>2, <2>3, Concat
<1> HIDE DEF x
<1>6. /\ p \in Seq(Byte) /\ Len(p) = Len(x) + Len(data) /\ Len(data) \in Nat
      /\ \A i \in 1 .. Len(x) : p[i] = x[i]
      /\ \A i \in 1 .. Len(data) : p[Len(x) + i] = data[i]
  <2>1. x \in Seq(Byte)
    BY <1>5
  <2> QED
    BY <2>1, <1>3, Concat
<1>7. \A i \in 1 .. 2 + Len(topic) : p[i] = u[i]
  <2>1. ASSUME NEW i \in 1 .. 2 + Len(topic)
        PROVE  i \in 1 .. Len(u) /\ i \in 1 .. Len(x)
    BY <1>1, <1>4, <1>5
  <2> QED
    BY <2>1, <1>5, <1>6
<1>8. 256 * p[1] + p[2] = Len(topic)
  <2>1. p[1] = u[1] /\ p[2] = u[2]
    BY <1>7, <1>1
  <2> QED
    BY <2>1, <1>1
<1>9. \A i \in 1 .. Len(topic) : p[2 + i] = topic[i]
  <2>1. ASSUME NEW i \in 1 .. Len(topic)
        PROVE  2 + i \in 1 .. 2 + Len(topic)
    BY <1>1
  <2> QED
    BY <2>1, <1>1, <1>7
<1>10. ASSUME qos > 0
       PROVE  256 * p[3 + Len(topic)] + p[4 + Len(topic)] = id
  <2>1. Len(w) = 2 /\ 256 * w[1] + w[2] = id
    BY <1>2, <1>10
  <2>2. Len(u) + 1 = 3 + Len(topic) /\ Len(u) + 2 = 4 + Len(topic)
    BY <1>1
  <2>3. x[Len(u) + 1] = w[1] /\ x[Len(u) + 2] = w[2]
    BY <2>1, <1>5
  <2>4. Len(u) + 1 \in 1 .. Len(x) /\ Len(u) + 2 \in 1 .. Len(x)
    BY <2>1, <1>1, <1>5
  <2>5. p[Len(u) + 1] = w[1] /\ p[Len(u) + 2] = w[2]
    BY <2>3, <2>4, <1>6
  <2> QED
    BY <2>1, <2>2, <2>5
<1>11. \A i \in 1 .. Len(data) : p[k + i] = data[i]
  BY <1>4, <1>5, <1>6
<1>12. Len(p) = k + Len(data)
  BY <1>4, <1>5, <1>6
<1> QED
  BY <1>1, <1>6, <1>8, <1>9, <1>10, <1>11, <1>12 DEF k, PublishLayout

\* s is in buf, behind the first k bytes.
Holds(buf, k, s) == \A i \in 1 .. Len(s) : buf[k + i] = s[i]

\* A run of bytes in buf is the sequence it was written from.
LEMMA SubSeqIs ==
    ASSUME NEW s \in Seq(Byte), NEW buf, NEW k \in Nat, NEW m, m = k + Len(s),
           Holds(buf, k, s)
    PROVE  SubSeq(buf, k + 1, m) = s
<1>1. Len(s) \in Nat /\ m \in Int /\ k + 1 \in Int
  BY LenProperties
<1>2. ASSUME NEW i \in k + 1 .. m
      PROVE  buf[i] \in Byte
  <2>1. i - k \in 1 .. Len(s) /\ i = k + (i - k)
    BY <1>1, <1>2
  <2>2. buf[k + (i - k)] = s[i - k] /\ s[i - k] \in Byte
    BY <2>1, ElementOfSeq DEF Holds
  <2> QED
    BY <2>1, <2>2
<1> DEFINE t == SubSeq(buf, k + 1, m)
<1>3. /\ t \in Seq(Byte)
      /\ Len(t) = IF k + 1 <= m THEN m - (k + 1) + 1 ELSE 0
      /\ \A i \in 1 .. m - (k + 1) + 1 : t[i] = buf[(k + 1) + i - 1]
  BY <1>1, <1>2, SubSeqProperties
<1> HIDE DEF t
<1>4. Len(t) = Len(s)
  BY <1>1, <1>3
<1>5. ASSUME NEW i \in 1 .. Len(t)
      PROVE  t[i] = s[i]
  <2>1. i \in 1 .. m - (k + 1) + 1 /\ (k + 1) + i - 1 = k + i /\ i \in 1 .. Len(s)
    BY <1>1, <1>4, <1>5
  <2>2. t[i] = buf[k + i]
    BY <2>1, <1>3
  <2> QED
    BY <2>1, <2>2 DEF Holds
<1>6. t = s
  BY <1>3, <1>4, <1>5, SeqEqual
<1> QED
  BY <1>6 DEF t

\* What At(buf, 0) says, and where the body is.
LEMMA FramedHead ==
    ASSUME NEW buf, NEW body \in Seq(Byte), NEW type, NEW qos, NEW h,
           Framed(buf, body, type, qos, h)
    PROVE  /\ mqtt_get_type(buf) = type /\ mqtt_get_qos(buf) = qos
           /\ h \in {2, 3} /\ h \in Nat /\ Len(body) \in Nat
           /\ Holds(buf, h, body)
BY LenProperties DEF Framed, Holds, mqtt_get_type, mqtt_get_qos, At

\* The decoders find topic, data and id of a PUBLISH behind its header, whatever
\* follows it.  The id needs one more byte in the buffer.
LEMMA ReadsPublish ==
    ASSUME NEW topic \in Seq(Byte), topic # <<>>, IsWord(Len(topic)), NEW data \in Seq(Byte),
           NEW qos \in 0 .. 2, NEW id \in Nat, IsWord(id),
           NEW p, p = PublishBody(topic, data, qos, id),
           NEW buf, NEW h, Framed(buf, p, PUBLISH, qos, h),
           NEW n \in Nat, n >= h + Len(p)
    PROVE  /\ mqtt_get_publish_topic(buf, n) = topic
           /\ mqtt_get_publish_data(buf, n) = data
           /\ n > h + Len(p) => mqtt_get_id(buf, n) = IF qos > 0 THEN id ELSE 0
<1> DEFINE k == DataAt(topic, qos)
           a == h + 2 + Len(topic)
<1>0. PublishLayout(p, topic, data, qos, id)
  BY PublishParts
<1>1. p \in Seq(Byte) /\ Len(p) = k + Len(data) /\ Len(topic) \in Nat /\ Len(data) \in Nat
  BY <1>0 DEF PublishLayout
<1>2. /\ 256 * p[1] + p[2] = Len(topic)
      /\ \A i \in 1 .. Len(topic) : p[2 + i] = topic[i]
  BY <1>0 DEF PublishLayout
<1>3. qos > 0 => 256 * p[3 + Len(topic)] + p[4 + Len(topic)] = id
  BY <1>0 DEF PublishLayout
<1>4. \A i \in 1 .. Len(data) : p[k + i] = data[i]
  BY <1>0 DEF PublishLayout
<1>5. /\ mqtt_get_type(buf) = PUBLISH /\ mqtt_get_qos(buf) = qos
      /\ h \in {2, 3} /\ h \in Nat /\ Len(p) \in Nat
      /\ \A i \in 1 .. Len(p) : buf[h + i] = p[i]
  <2>1. p \in Seq(Byte)
    BY <1>1
  <2>2. mqtt_get_type(buf) = PUBLISH /\ mqtt_get_qos(buf) = qos /\ h \in {2, 3} /\ Holds(buf, h, p)
    BY <2>1, FramedHead
  <2> QED
    BY <2>1, <2>2, LenProperties DEF Holds
<1>6. Body(buf, n) = h /\ mqtt_get_total_length(buf, n) = h + Len(p)
  BY <1>1, FramedBody, FramedTotal
<1>7. Len(topic) > 0 /\ k = 2 + Len(topic) + (IF qos > 0 THEN 2 ELSE 0) /\ k \in Nat
  <2>1. Len(topic) # 0
    BY EmptySeq
  <2> QED
    BY <2>1, <1>1 DEF DataAt
<1> HIDE DEF k
<1>8. AfterTopic(buf, h) = a
  <2>1. buf[h + 1] = p[1] /\ buf[h + 2] = p[2]
    BY <1>1, <1>5, <1>7, SMTT(40)
  <2>2. (h + 1) + 1 = h + 2
    BY <1>5
  <2>3. WordAt(buf, h) = Len(topic)
    BY <2>1, <2>2, <1>2 DEF WordAt, At
  <2> QED
    BY <2>3 DEF AfterTopic
<1>9. mqtt_get_publish_topic(buf, n) = topic
  <2>1. ~(h + 2 >= n) /\ ~(a > n)
    BY <1>1, <1>5, <1>7
  <2>2. ASSUME NEW i \in 1 .. Len(topic)
        PROVE  buf[(h + 2) + i] = topic[i]
    <3>1. 2 + i \in 1 .. Len(p) /\ (h + 2) + i = h + (2 + i)
      BY <1>1, <1>5, <1>7, SMTT(40)
    <3> QED
      BY <3>1, <1>2, <1>5
  <2>3. (h + 2) + 1 = h + 3 /\ h + 2 \in Nat /\ a = (h + 2) + Len(topic)
    BY <1>5
  <2>4. SubSeq(buf, (h + 2) + 1, a) = topic
    <3>1. Holds(buf, h + 2, topic)
      BY <2>2 DEF Holds
    <3>2. h + 2 \in Nat
      BY <2>3
    <3>3. a = (h + 2) + Len(topic)
      BY <2>3
    <3> HIDE DEF a
    <3> QED
      BY <3>1, <3>2, <3>3, SubSeqIs, SMTT(40)
  <2> QED
    BY <2>1, <2>3, <2>4, <1>6, <1>8 DEF mqtt_get_publish_topic
<1>10. a + (IF qos > 0 THEN 2 ELSE 0) = h + k
  BY <1>1, <1>5, <1>7
<1>11. mqtt_get_publish_data(buf, n) = data
  <2> DEFINE end == IF h + Len(p) <= n THEN h + Len(p) ELSE n
  <2>1. ~(h + 2 >= n) /\ ~(h + Len(p) < h + k) /\ end = (h + k) + Len(data) /\ h + k \in Nat
    BY <1>1, <1>5, <1>7
  <2>2. a >= n \/ (qos > 0 /\ h + k >= n) => data = NULL
    <3>1. a >= n \/ (qos > 0 /\ h + k >= n) => Len(data) = 0
      BY <1>1, <1>5, <1>7
    <3> QED
      BY <3>1, EmptySeq DEF NULL
  <2>3. ASSUME NEW i \in 1 .. Len(data)
        PROVE  buf[(h + k) + i] = data[i]
    <3>1. k + i \in 1 .. Len(p) /\ (h + k) + i = h + (k + i)
      BY <1>1, <1>5, <1>7
    <3> QED
      BY <3>1, <1>4, <1>5, SMTT(40)
  <2>4. SubSeq(buf, (h + k) + 1, end) = data
    <3>1. Holds(buf, h + k, data)
      BY <2>3 DEF Holds
    <3>2. h + k \in Nat
      BY <2>1
    <3>3. end = (h + k) + Len(data)
      BY <2>1
    <3> HIDE DEF end
    <3> QED
      BY <3>1, <3>2, <3>3, SubSeqIs, SMTT(40)
  <2>5. mqtt_get_publish_data(buf, n) =
          IF h + 2 >= n \/ a >= n \/ (qos > 0 /\ h + k >= n) \/ h + Len(p) < h + k
          THEN NULL ELSE SubSeq(buf, (h + k) + 1, end)
    BY <1>5, <1>6, <1>8, <1>10 DEF mqtt_get_publish_data
  <2> HIDE DEF end
  <2> QED
    BY <2>1, <2>2, <2>4, <2>5
<1>12. ASSUME n > h + Len(p)
       PROVE  mqtt_get_id(buf, n) = IF qos > 0 THEN id ELSE 0
  <2>1. ~(h + 2 >= n) /\ ~(a >= n) /\ (qos > 0 => ~(a + 2 >= n))
    BY <1>1, <1>5, <1>7, <1>12
  <2>2. qos > 0 => WordAt(buf, a) = id
    <3> SUFFICES ASSUME qos > 0 PROVE WordAt(buf, a) = id
      OBVIOUS
    <3>1. 3 + Len(topic) \in 1 .. Len(p) /\ 4 + Len(topic) \in 1 .. Len(p)
      BY <1>1, <1>7
    <3>2. /\ buf[h + (3 + Len(topic))] = p[3 + Len(topic)]
          /\ buf[h + (4 + Len(topic))] = p[4 + Len(topic)]
      BY <3>1, <1>5
    <3>3. a + 1 = h + (3 + Len(topic)) /\ (a + 1) + 1 = h + (4 + Len(topic))
      BY <1>1, <1>5
    <3> QED
      BY <3>2, <3>3, <1>3 DEF WordAt, At
  <2>3. mqtt_get_id(buf, n) = IF h + 2 >= n \/ a >= n \/ qos = 0 \/ a + 2 >= n
                                THEN 0 ELSE WordAt(buf, a)
    BY <1>5, <1>6, <1>8 DEF mqtt_get_id
  <2> QED
    BY <2>1, <2>2, <2>3
<1> QED
  BY <1>9, <1>11, <1>12

\* The id of an acknowledgement is found behind its header.
LEMMA ReadsAck ==
    ASSUME NEW id \in Nat, IsWord(id), NEW type \in {PUBACK, PUBREC, PUBREL, PUBCOMP},
           NEW qos, NEW buf, NEW h, Framed(buf, Word(id), type, qos, h),
           NEW n \in Nat, n >= 4
    PROVE  mqtt_get_id(buf, n) = id
<1>1. Word(id) \in Seq(Byte) /\ Len(Word(id)) = 2 /\ 256 * Word(id)[1] + Word(id)[2] = id
  BY WordParts
<1>2. /\ mqtt_get_type(buf) = type
      /\ \A i \in 1 .. Len(Word(id)) : buf[h + i] = Word(id)[i]
  <2>1. Word(id) \in Seq(Byte)
    BY <1>1
  <2>2. mqtt_get_type(buf) = type /\ Holds(buf, h, Word(id))
    BY <2>1, FramedHead
  <2> QED
    BY <2>2 DEF Holds
<1>3. h = 2 /\ buf[2] = 2
  BY <1>1 DEF Framed
<1>4. buf[3] = Word(id)[1] /\ buf[4] = Word(id)[2]
  BY <1>1, <1>2, <1>3
<1>5. WordAt(buf, 2) = id /\ At(buf, 1) < 128
  BY <1>1, <1>3, <1>4 DEF WordAt, At
<1>6. type # PUBLISH /\ type \in {PUBACK, PUBREC, PUBREL, PUBCOMP, SUBACK, UNSUBACK, SUBSCRIBE}
  BY DEF PUBLISH, PUBACK, PUBREC, PUBREL, PUBCOMP
<1> QED
  BY <1>2, <1>5, <1>6 DEF mqtt_get_id

\* append_string takes two bytes more than the string, whatever its length.
LEMMA StringLen ==
    ASSUME NEW s \in Seq(Byte)
    PROVE  String(s) \in Seq(Byte) /\ Len(String(s)) = 2 + Len(s) /\ Len(s) \in Nat
<1> DEFINE w == Word(Len(s))
           u == String(s)
<1>1. Len(s) \in Nat
  BY LenProperties
<1>2. w \in Seq(Byte) /\ Len(w) = 2
  BY <1>1, WordParts
<1>3. u = w \o s
  BY DEF String
<1> HIDE DEF w, u
<1>4. u \in Seq(Byte) /\ Len(u) = Len(w) + Len(s)
  <2>1. w \in Seq(Byte)
    BY <1>2
  <2> QED
    BY <2>1, <1>3, Concat
<1> QED
  BY <1>1, <1>2, <1>4 DEF u

\* The body of a PUBLISH has room for its topic.
LEMMA PublishLen ==
    ASSUME NEW topic \in Seq(Byte), NEW data \in Seq(Byte), NEW qos \in 0 .. 2, NEW id \in Nat,
           NEW p, p = PublishBody(topic, data, qos, id)
    PROVE  p \in Seq(Byte) /\ Len(topic) \in Nat /\ Len(p) \in Nat /\ Len(p) >= 2 + Len(topic)
<1> DEFINE u == String(topic)
           w == IF qos > 0 THEN Word(id) ELSE <<>>
           x == u \o w
<1>1. u \in Seq(Byte) /\ Len(u) = 2 + Len(topic) /\ Len(topic) \in Nat
  BY StringLen
<1>2. w \in Seq(Byte)
  BY WordParts, EmptySeq
<1>3. p = x \o data
  BY DEF PublishBody
<1>4. u \in Seq(Byte)
  BY <1>1
<1> HIDE DEF u, w
<1>5. x \in Seq(Byte) /\ Len(x) = Len(u) + Len(w) /\ Len(w) \in Nat
  <2>1. x = u \o w
    OBVIOUS
  <2> HIDE DEF x
  <2> QED
    BY <2>1, <1>2, <1>4, Concat
<1> HIDE DEF x
<1>6. p \in Seq(Byte) /\ Len(p) = Len(x) + Len(data) /\ Len(data) \in Nat
  <2>1. x \in Seq(Byte)
    BY <1>5
  <2> QED
    BY <2>1, <1>3, Concat
<1> QED
  BY <1>1, <1>5, <1>6

(***************************************************************************)
(* Messages                                                                *)
(***************************************************************************)
LEMMA BufLenRange == BufLen \in Nat /\ BufLen <= 3 + 16383
BY MsgAssumption

\* What an encoder returns, unless it failed.
LEMMA MessageFrames ==
    ASSUME NEW body \in Seq(Byte), NEW type, NEW qos, NEW retain, HeaderOK(type, qos, retain),
           NEW m, m = Message(body, type, qos, retain), m # Failed
    PROVE  IsFrame(m, body, type, qos) /\ Len(body) \in Nat /\ Short(body)
<1>1. Fits(body) /\ m = fini_message(body, type, qos, retain)
  BY DEF Message
<1>2. Len(body) \in Nat
  BY LenProperties
<1>3. Short(body)
  BY <1>1, <1>2, BufLenRange DEF Fits, Short
<1>4. IsFrame(m, body, type, qos)
  BY <1>1, <1>3, FiniFrames
<1> QED
  BY <1>2, <1>3, <1>4

\* What the broker sends behind a packet consists of bytes.
LEMMA NextPacketsAreBytes == NextPackets \subseteq Seq(Byte)
<1>1. <<>> \in Seq(Byte)
  BY EmptySeq
<1>2. 16 * PINGRESP \in Byte /\ 0 \in Byte
  BY ByteIs DEF PINGRESP
<1>3. <<16 * PINGRESP, 0>> \in Seq(Byte)
  BY <1>2
<1> QED
  BY <1>1, <1>3 DEF NextPackets

\* A message keeps its place at the front of a segment, and of in_buffer.
LEMMA SegmentStarts ==
    ASSUME NEW m \in Seq(Byte), NEW next \in NextPackets, NEW seg, seg = m \o next
    PROVE  Starts(seg, m) /\ Len(seg) \in Nat /\ Len(seg) >= Len(m) /\ Len(m) \in Nat
<1>1. next \in Seq(Byte)
  BY NextPacketsAreBytes
<1>2. /\ Len(seg) = Len(m) + Len(next) /\ Len(m) \in Nat /\ Len(next) \in Nat
      /\ \A i \in 1 .. Len(m) : seg[i] = m[i]
  BY <1>1, Concat
<1> QED
  BY <1>2 DEF Starts

\* in_buffer begins with the packet that has come in.
LEMMA InBufferStarts ==
    ASSUME NEW m \in Seq(Byte), NEW next \in NextPackets, NEW stale,
           Len(m \o next) < BufLen
    PROVE  Starts(InBuffer(m, next, stale), m) /\ Len(m) \in Nat /\ BufLen > Len(m)
<1> DEFINE seg == m \o next
<1>1. Starts(seg, m) /\ Len(seg) \in Nat /\ Len(seg) >= Len(m) /\ Len(m) \in Nat
  BY SegmentStarts
<1>2. ASSUME NEW i \in 1 .. Len(m)
      PROVE  InBuffer(m, next, stale)[i] = m[i]
  <2>1. i \in 1 .. BufLen /\ i <= Len(seg)
    BY <1>1, BufLenRange
  <2>2. InBuffer(m, next, stale)[i] = seg[i]
    BY <2>1 DEF InBuffer
  <2> QED
    BY <2>2, <1>1 DEF Starts
<1> QED
  BY <1>1, <1>2, BufLenRange DEF Starts

(***************************************************************************)
(* The properties, of a request and the message made of it.                *)
(***************************************************************************)
Reads(req, o) ==
    o # Failed => o \in Seq(Byte) /\ \A next \in NextPackets :
        LET seg == o \o next
            n == Len(seg)
        IN  /\ mqtt_get_type(seg) = req.type
            /\ mqtt_get_total_length(seg, n) = Len(o)
            /\ req.type = PUBLISH =>
                  /\ mqtt_get_publish_topic(seg, n) = req.topic
                  /\ mqtt_get_publish_data(seg, n) = req.data
                  /\ n < BufLen => mqtt_get_id(InBuffer(o, next, 0), BufLen) = req.id

Acks == {PUBACK, PUBREC, PUBREL, PUBCOMP}
Answers(req, o) == o # Failed /\ req.type \in Acks => mqtt_get_id(o, Len(o)) = req.id

\* Decodes and AnswersItsId, as statements about the last request.
LEMMA ReadsIs == (Decodes <=> Reads(request, out)) /\ (AnswersItsId <=> Answers(request, out))
BY DEF Decodes, Sent, Reads, AnswersItsId, Answers, Acks

\* A segment that begins with the message m.
Front(seg, m, body, type, qos) ==
    /\ mqtt_get_type(seg) = type
    /\ mqtt_get_total_length(seg, Len(seg)) = Len(m)
    /\ Framed(seg, body, type, qos, HeaderLen(body))
    /\ Len(seg) \in Nat /\ Len(seg) >= HeaderLen(body) + Len(body)

\* Any message: its type and its length are read back.
LEMMA MessageReads ==
    ASSUME NEW body \in Seq(Byte), NEW type, NEW qos, NEW m, IsFrame(m, body, type, qos),
           NEW next \in NextPackets, NEW seg, seg = m \o next
    PROVE  Front(seg, m, body, type, qos)
<1> DEFINE h == HeaderLen(body)
<1>1. m \in Seq(Byte) /\ Len(m) = h + Len(body) /\ Framed(m, body, type, qos, h)
  BY DEF IsFrame
<1>2. Starts(seg, m) /\ Len(seg) \in Nat /\ Len(seg) >= Len(m)
  BY <1>1, SegmentStarts
<1> HIDE DEF h
<1>3. Framed(seg, body, type, qos, h)
  BY <1>1, <1>2, FramedStarts
<1>4. mqtt_get_type(seg) = type
  BY <1>3, FramedHead
<1>5. Len(seg) >= h + Len(body)
  BY <1>1, <1>2
<1>6. mqtt_get_total_length(seg, Len(seg)) = h + Len(body)
  BY <1>2, <1>3, <1>5, FramedTotal
<1> QED
  BY <1>1, <1>2, <1>3, <1>4, <1>5, <1>6 DEF h, Front

\* What is read of a message that is no PUBLISH.
LEMMA OtherReads ==
    ASSUME NEW body \in Seq(Byte), NEW type, NEW qos, NEW retain, HeaderOK(type, qos, retain),
           type # PUBLISH, NEW m, m = Message(body, type, qos, retain) \/ m = Failed,
           NEW req, req.type = type
    PROVE  Reads(req, m)
<1> SUFFICES ASSUME m # Failed PROVE Reads(req, m)
  BY DEF Reads
<1>1. m = Message(body, type, qos, retain)
  OBVIOUS
<1>2. IsFrame(m, body, type, qos)
  BY <1>1, MessageFrames
<1>3. ASSUME NEW next \in NextPackets
      PROVE  /\ mqtt_get_type(m \o next) = type
             /\ mqtt_get_total_length(m \o next, Len(m \o next)) = Len(m)
  <2> DEFINE seg == m \o next
  <2>1. seg = m \o next
    OBVIOUS
  <2> HIDE DEF seg
  <2>2. Front(seg, m, body, type, qos)
    BY <1>2, <2>1, MessageReads
  <2> QED
    BY <2>2 DEF Front, seg
<1>4. m \in Seq(Byte)
  BY <1>2 DEF IsFrame
<1> QED
  BY <1>3, <1>4 DEF Reads

\* Topic, payload and id of a PUBLISH are read back.
LEMMA PublishReads ==
    ASSUME NEW topic \in Seq(Byte), topic # <<>>, NEW data \in Seq(Byte), NEW qos \in 0 .. 2,
           NEW retain \in 0 .. 1, NEW id \in Nat, IsWord(id),
           NEW m, m = Message(PublishBody(topic, data, qos, id), PUBLISH, qos, retain),
           NEW req, req.type = PUBLISH, req.topic = topic, req.data = data,
           req.id = IF qos > 0 THEN id ELSE 0
    PROVE  Reads(req, m)
<1> DEFINE p == PublishBody(topic, data, qos, id)
           h == HeaderLen(p)
<1> SUFFICES ASSUME m # Failed PROVE Reads(req, m)
  BY DEF Reads
<1>1. p \in Seq(Byte) /\ Len(topic) \in Nat /\ Len(p) \in Nat /\ Len(p) >= 2 + Len(topic)
  BY PublishLen
<1>2. p \in Seq(Byte)
  BY <1>1
<1>3. m = Message(p, PUBLISH, qos, retain)
  OBVIOUS
<1>4. p = PublishBody(topic, data, qos, id)
  OBVIOUS
<1> HIDE DEF p
<1>5. HeaderOK(PUBLISH, qos, retain)
  BY DEF HeaderOK, PUBLISH
<1>6. IsFrame(m, p, PUBLISH, qos) /\ Short(p)
  BY <1>2, <1>3, <1>5, MessageFrames
<1>7. IsWord(Len(topic))
  BY <1>1, <1>6 DEF IsWord, Short
<1>8. ASSUME NEW next \in NextPackets
      PROVE  /\ mqtt_get_type(m \o next) = PUBLISH
             /\ mqtt_get_total_length(m \o next, Len(m \o next)) = Len(m)
             /\ mqtt_get_publish_topic(m \o next, Len(m \o next)) = topic
             /\ mqtt_get_publish_data(m \o next, Len(m \o next)) = data
             /\ Len(m \o next) < BufLen => mqtt_get_id(InBuffer(m, next, 0), BufLen) = req.id
  <2> DEFINE seg == m \o next
             buf == InBuffer(m, next, 0)
  <2>1. Front(seg, m, p, PUBLISH, qos)
    <3>1. seg = m \o next
      OBVIOUS
    <3> HIDE DEF seg
    <3> QED
      BY <3>1, <1>2, <1>6, MessageReads
  <2>2. mqtt_get_publish_topic(seg, Len(seg)) = topic /\ mqtt_get_publish_data(seg, Len(seg)) = data
    <3>1. Framed(seg, p, PUBLISH, qos, h) /\ Len(seg) \in Nat /\ Len(seg) >= h + Len(p)
      BY <2>1 DEF Front
    <3> HIDE DEF seg, h
    <3> QED
      BY <3>1, <1>4, <1>7, ReadsPublish
  <2>3. ASSUME Len(seg) < BufLen
        PROVE  mqtt_get_id(buf, BufLen) = req.id
    <3>0. Len(m) = h + Len(p) /\ Framed(m, p, PUBLISH, qos, h) /\ m \in Seq(Byte)
      BY <1>6 DEF IsFrame
    <3>1. Starts(buf, m) /\ BufLen > Len(m)
      <4>1. m \in Seq(Byte)
        BY <3>0
      <4> QED
        BY <2>3, <4>1, InBufferStarts
    <3> HIDE DEF buf, h
    <3>2. Framed(buf, p, PUBLISH, qos, h)
      BY <3>0, <3>1, <1>2, FramedStarts
    <3>3. BufLen \in Nat /\ BufLen > h + Len(p) /\ BufLen >= h + Len(p)
      <4>1. Len(m) \in Nat /\ h + Len(p) = Len(m)
        BY <3>0, LenProperties
      <4> QED
        BY <3>1, <4>1, BufLenRange
    <3>4. mqtt_get_id(buf, BufLen) = IF qos > 0 THEN id ELSE 0
      BY <3>2, <3>3, <1>4, <1>7, ReadsPublish
    <3> QED
      BY <3>4
  <2> QED
    BY <2>1, <2>2, <2>3 DEF Front
<1>9. m \in Seq(Byte)
  BY <1>6 DEF IsFrame
<1> QED
  BY <1>8, <1>9 DEF Reads

\* fini_message puts two or three bytes in front, also of what is too long.
LEMMA FiniLen ==
    ASSUME NEW body \in Seq(Byte), NEW type \in Nat, NEW qos \in Nat, NEW retain \in Nat,
           NEW m, m = fini_message(body, type, qos, retain)
    PROVE  m \in Seq(Nat) /\ Len(m) = HeaderLen(body) + Len(body) /\ Len(body) \in Nat
<1> DEFINE first == 16 * type + 2 * qos + retain
           rest == Len(body)
           head == IF rest > 127 THEN <<first, 128 + (rest % 128), rest \div 128>>
                                 ELSE <<first, rest>>
<1>1. rest \in Nat /\ body \in Seq(Nat)
  <2>1. Byte \subseteq Nat
    BY ByteIs
  <2> QED
    BY <2>1, LenProperties, SeqMonotonic
<1>2. first \in Nat /\ rest % 128 \in Nat /\ rest \div 128 \in Nat
  BY <1>1
<1>3. head \in Seq(Nat) /\ Len(head) = HeaderLen(body)
  <2> HIDE DEF first
  <2>1. 128 + (rest % 128) \in Nat
    BY <1>2
  <2> QED
    BY <1>1, <1>2, <2>1 DEF HeaderLen
<1>4. m = head \o body
  BY DEF fini_message
<1> HIDE DEF head
<1>5. head \in Seq(Nat) /\ body \in Seq(Nat)
  BY <1>1, <1>3
<1>6. m \in Seq(Nat) /\ Len(m) = Len(head) + Len(body)
  BY <1>4, <1>5, Concat
<1> QED
  BY <1>1, <1>3, <1>6

\* A packet that leaves room in in_buffer is short enough for its header.
LEMMA PacketFrames ==
    ASSUME NEW body \in Seq(Byte), NEW type, NEW qos, NEW retain, HeaderOK(type, qos, retain),
           NEW m, m = fini_message(body, type, qos, retain), NEW next \in NextPackets,
           Len(m \o next) < BufLen
    PROVE  IsFrame(m, body, type, qos)
<1>1. type \in Nat /\ qos \in Nat /\ retain \in Nat
  BY DEF HeaderOK
<1>2. m \in Seq(Nat) /\ Len(m) = HeaderLen(body) + Len(body) /\ Len(body) \in Nat
  BY <1>1, FiniLen
<1>3. Len(m \o next) >= Len(m) /\ Len(m \o next) \in Nat
  <2>1. Byte \subseteq Nat
    BY ByteIs
  <2>2. next \in Seq(Nat)
    BY <2>1, NextPacketsAreBytes, SeqMonotonic
  <2> DEFINE seg == m \o next
  <2>3. seg = m \o next /\ m \in Seq(Nat)
    BY <1>2
  <2> HIDE DEF seg
  <2>4. Len(seg) = Len(m) + Len(next) /\ Len(m) \in Nat /\ Len(next) \in Nat
    BY <2>2, <2>3, Concat
  <2> QED
    BY <2>3, <2>4
<1>4. Short(body)
  <2>1. Len(body) + (IF Len(body) > 127 THEN 3 ELSE 2) < BufLen
    BY <1>2, <1>3, BufLenRange DEF HeaderLen
  <2> QED
    BY <2>1, <1>2, BufLenRange DEF Short
<1> QED
  BY <1>4, FiniFrames

\* What in_buffer holds of a packet.
LEMMA InBufferFrames ==
    ASSUME NEW body \in Seq(Byte), NEW type, NEW qos, NEW m, IsFrame(m, body, type, qos),
           NEW next \in NextPackets, Len(m \o next) < BufLen, NEW stale
    PROVE  /\ Framed(InBuffer(m, next, stale), body, type, qos, HeaderLen(body))
           /\ BufLen \in Nat /\ BufLen > HeaderLen(body) + Len(body)
           /\ HeaderLen(body) + Len(body) \in Nat
<1> DEFINE buf == InBuffer(m, next, stale)
           h == HeaderLen(body)
<1>1. m \in Seq(Byte) /\ Len(m) = h + Len(body) /\ Framed(m, body, type, qos, h)
  BY DEF IsFrame
<1>2. Starts(buf, m) /\ Len(m) \in Nat /\ BufLen > Len(m)
  <2>1. m \in Seq(Byte)
    BY <1>1
  <2> QED
    BY <2>1, InBufferStarts
<1> HIDE DEF buf, h
<1>3. Framed(buf, body, type, qos, h)
  BY <1>1, <1>2, FramedStarts
<1> QED
  BY <1>1, <1>2, <1>3, BufLenRange DEF buf, h

\* The id of a PUBLISH from the broker is found in in_buffer, wherever the
\* segment ends.
LEMMA FoundPublish ==
    ASSUME NEW t \in Seq(Byte), t # <<>>, NEW d \in Seq(Byte), NEW qos \in 1 .. 2,
           NEW id \in Nat, IsWord(id), NEW next \in NextPackets, NEW stale,
           Len(BrokerPublish(t, d, qos, id) \o next) < BufLen
    PROVE  AnsweredId(BrokerPublish(t, d, qos, id), next, stale) = id
<1> DEFINE p == PublishBody(t, d, qos, id)
           m == BrokerPublish(t, d, qos, id)
           h == HeaderLen(p)
           buf == InBuffer(m, next, stale)
<1>0. qos \in 0 .. 2 /\ qos > 0
  OBVIOUS
<1>1. p \in Seq(Byte) /\ Len(t) \in Nat /\ Len(p) \in Nat /\ Len(p) >= 2 + Len(t)
  BY <1>0, PublishLen
<1>2. /\ p = PublishBody(t, d, qos, id) /\ m = fini_message(p, PUBLISH, qos, 0)
      /\ Len(m \o next) < BufLen
  BY DEF BrokerPublish
<1>3. HeaderOK(PUBLISH, qos, 0)
  BY <1>0 DEF HeaderOK, PUBLISH
<1> HIDE DEF p, m
<1>4. IsFrame(m, p, PUBLISH, qos)
  BY <1>1, <1>2, <1>3, PacketFrames
<1>5. /\ Framed(buf, p, PUBLISH, qos, h) /\ BufLen \in Nat /\ BufLen > h + Len(p)
      /\ h + Len(p) \in Nat
  <2>1. p \in Seq(Byte) /\ Len(m \o next) < BufLen
    BY <1>1, <1>2
  <2> QED
    BY <2>1, <1>4, InBufferFrames
<1>6. IsWord(Len(t))
  <2>1. Len(p) < BufLen
    BY <1>5, <1>1 DEF HeaderLen
  <2> QED
    BY <2>1, <1>1, BufLenRange DEF IsWord
<1> HIDE DEF h, buf
<1>7. BufLen >= h + Len(p)
  BY <1>5
<1>8. mqtt_get_id(buf, BufLen) = IF qos > 0 THEN id ELSE 0
  BY <1>0, <1>2, <1>5, <1>6, <1>7, ReadsPublish
<1> QED
  BY <1>0, <1>8 DEF AnsweredId, buf, m

\* mqtt_get_id finds the id of PUBREC and PUBREL in in_buffer.
LEMMA FoundAck ==
    ASSUME NEW type \in {PUBREC, PUBREL}, NEW id \in Nat, IsWord(id), NEW stale,
           Len(BrokerAck(type, id) \o <<>>) < BufLen
    PROVE  AnsweredId(BrokerAck(type, id), <<>>, stale) = id
<1> DEFINE w == Word(id)
           m == BrokerAck(type, id)
           qos == IF type = PUBREL THEN 1 ELSE 0
           buf == InBuffer(m, <<>>, stale)
<1>1. w \in Seq(Byte) /\ Len(w) = 2
  BY WordParts
<1>2. m = fini_message(w, type, qos, 0) /\ Len(m \o <<>>) < BufLen
  BY DEF BrokerAck
<1>3. HeaderOK(type, qos, 0)
  BY DEF HeaderOK, PUBREC, PUBREL
<1>4. <<>> \in NextPackets
  BY DEF NextPackets
<1>5. w \in Seq(Byte)
  BY <1>1
<1> HIDE DEF w, m, qos
<1>6. IsFrame(m, w, type, qos)
  BY <1>2, <1>3, <1>4, <1>5, PacketFrames
<1>7. /\ Framed(buf, w, type, qos, HeaderLen(w)) /\ BufLen \in Nat /\ BufLen > HeaderLen(w) + Len(w)
      /\ HeaderLen(w) + Len(w) \in Nat
  <2>1. Len(m \o <<>>) < BufLen
    BY <1>2
  <2> QED
    BY <2>1, <1>4, <1>5, <1>6, InBufferFrames
<1> HIDE DEF buf
<1>8. BufLen \in Nat /\ BufLen >= 4
  BY <1>1, <1>7 DEF HeaderLen
<1>9. type \in {PUBACK, PUBREC, PUBREL, PUBCOMP}
  OBVIOUS
<1>10. mqtt_get_id(buf, BufLen) = id
  BY <1>7, <1>8, <1>9, ReadsAck DEF w
<1> QED
  BY <1>10 DEF AnsweredId, buf, m

\* An acknowledgement that is sent carries its id.
LEMMA AckReads ==
    ASSUME NEW type \in Acks, NEW id \in Nat, id # 0, IsWord(id), NEW req,
           req.type = type, req.id = id, NEW m, m = Ack(type, id)
    PROVE  Reads(req, m) /\ Answers(req, m)
<1> DEFINE w == Word(id)
           qos == IF type = PUBREL THEN 1 ELSE 0
<1>1. w \in Seq(Byte) /\ Len(w) = 2
  BY WordParts
<1>2. m = Message(w, type, qos, 0)
  BY DEF Ack, IdFor
<1>3. HeaderOK(type, qos, 0) /\ type # PUBLISH
  BY DEF HeaderOK, PUBREC, PUBREL, PUBACK, PUBCOMP, PUBLISH, Acks
<1> HIDE DEF w, qos
<1>4. Reads(req, m)
  BY <1>1, <1>2, <1>3, OtherReads
<1>5. ASSUME m # Failed
      PROVE  mqtt_get_id(m, Len(m)) = id
  <2>1. IsFrame(m, w, type, qos)
    BY <1>1, <1>2, <1>3, <1>5, MessageFrames
  <2>2. Framed(m, w, type, qos, HeaderLen(w))
    BY <2>1 DEF IsFrame
  <2>3. Len(m) \in Nat /\ Len(m) >= 4
    BY <2>1, <1>1 DEF IsFrame, HeaderLen
  <2>4. type \in {PUBACK, PUBREC, PUBREL, PUBCOMP}
    BY DEF Acks
  <2> QED
    BY <2>2, <2>3, <2>4, ReadsAck DEF w
<1> QED
  BY <1>4, <1>5 DEF Answers

(***************************************************************************)
(* CONNECT                                                                 *)
(***************************************************************************)
LEMMA HoldsConcat ==
    ASSUME NEW b, NEW k \in Nat, NEW x \in Seq(Byte), NEW y \in Seq(Byte),
           NEW z, z = x \o y, Holds(b, k, z)
    PROVE  Holds(b, k, x) /\ Holds(b, k + Len(x), y) /\ Len(x) \in Nat
<1>1. /\ Len(z) = Len(x) + Len(y) /\ Len(x) \in Nat /\ Len(y) \in Nat
      /\ \A i \in 1 .. Len(x) : z[i] = x[i]
      /\ \A i \in 1 .. Len(y) : z[Len(x) + i] = y[i]
  BY Concat
<1>2. \A i \in 1 .. Len(z) : b[k + i] = z[i]
  BY DEF Holds
<1>3. ASSUME NEW i \in 1 .. Len(x)
      PROVE  b[k + i] = x[i]
  <2>1. i \in 1 .. Len(z)
    BY <1>1
  <2> QED
    BY <2>1, <1>1, <1>2
<1>4. ASSUME NEW i \in 1 .. Len(y)
      PROVE  b[(k + Len(x)) + i] = y[i]
  <2>1. Len(x) + i \in 1 .. Len(z) /\ (k + Len(x)) + i = k + (Len(x) + i)
    BY <1>1
  <2> QED
    BY <2>1, <1>1, <1>2
<1> QED
  BY <1>1, <1>3, <1>4 DEF Holds

\* A string with its length in front is read back.
LEMMA HoldsString ==
    ASSUME NEW b, NEW k \in Nat, NEW s \in Seq(Byte), IsWord(Len(s)), Holds(b, k, String(s))
    PROVE  AfterTopic(b, k) = k + Len(String(s)) /\ StringAt(b, k) = s /\ Len(String(s)) \in Nat
<1> DEFINE u == String(s)
<1>1. /\ u \in Seq(Byte) /\ Len(u) = 2 + Len(s) /\ Len(s) \in Nat
      /\ 256 * u[1] + u[2] = Len(s)
      /\ \A i \in 1 .. Len(s) : u[2 + i] = s[i]
  BY StringParts
<1>2. \A i \in 1 .. Len(u) : b[k + i] = u[i]
  BY DEF Holds
<1> HIDE DEF u
<1>3. b[k + 1] = u[1] /\ b[k + 2] = u[2]
  BY <1>1, <1>2
<1>4. (k + 1) + 1 = k + 2
  OBVIOUS
<1>5. WordAt(b, k) = Len(s)
  BY <1>1, <1>3, <1>4 DEF WordAt, At
<1>6. AfterTopic(b, k) = (k + 2) + Len(s) /\ k + 2 \in Nat
  BY <1>1, <1>5 DEF AfterTopic
<1>7. Holds(b, k + 2, s)
  <2>1. ASSUME NEW i \in 1 .. Len(s)
        PROVE  b[(k + 2) + i] = s[i]
    <3>1. 2 + i \in 1 .. Len(u) /\ (k + 2) + i = k + (2 + i)
      BY <1>1
    <3> QED
      BY <3>1, <1>1, <1>2
  <2> QED
    BY <2>1 DEF Holds
<1>8. SubSeq(b, (k + 2) + 1, AfterTopic(b, k)) = s
  BY <1>6, <1>7, SubSeqIs
<1>9. (k + 2) + 1 = k + 3
  OBVIOUS
<1> QED
  BY <1>1, <1>6, <1>8, <1>9 DEF StringAt, u

Optional(s) == IF s = <<>> THEN <<>> ELSE String(s)
WillPart(w, m) == IF w = <<>> THEN <<>> ELSE String(w) \o String(m)

\* A string that is left out when it is empty is read back by its flag.
LEMMA HoldsOptional ==
    ASSUME NEW b, NEW k \in Nat, NEW s \in Seq(Byte), IsWord(Len(s)), Holds(b, k, Optional(s)),
           NEW here \in BOOLEAN, here <=> s # <<>>
    PROVE  /\ Read(b, k, here) = s /\ Skip(b, k, here) = k + Len(Optional(s))
           /\ Len(Optional(s)) \in Nat
<1>1. CASE s = <<>>
  BY <1>1, EmptySeq DEF Optional, Read, Skip
<1>2. CASE s # <<>>
  <2>1. Optional(s) = String(s) /\ here
    BY <1>2 DEF Optional
  <2>2. AfterTopic(b, k) = k + Len(String(s)) /\ StringAt(b, k) = s /\ Len(String(s)) \in Nat
    BY <2>1, HoldsString
  <2> QED
    BY <2>1, <2>2 DEF Read, Skip
<1> QED
  BY <1>1, <1>2

WillReads(b, k, w, m, here) ==
    /\ Read(b, k, here) = w
    /\ here => Read(b, Skip(b, k, here), TRUE) = m
    /\ Skip(b, Skip(b, k, here), here) = k + Len(WillPart(w, m))

\* Topic and message of the will are read back by their flag.
LEMMA HoldsWill ==
    ASSUME NEW b, NEW k \in Nat, NEW w \in Seq(Byte), IsWord(Len(w)),
           NEW m \in Seq(Byte), IsWord(Len(m)), Holds(b, k, WillPart(w, m)),
           NEW here \in BOOLEAN, here <=> w # <<>>
    PROVE  WillReads(b, k, w, m, here)
<1>1. CASE w = <<>>
  BY <1>1, EmptySeq DEF WillPart, Read, Skip, WillReads
<1>2. CASE w # <<>>
  <2> DEFINE u == String(w)
             v == String(m)
             z == u \o v
  <2>1. WillPart(w, m) = z /\ here
    BY <1>2 DEF WillPart
  <2>2. u \in Seq(Byte) /\ v \in Seq(Byte)
    BY StringLen
  <2>3. Holds(b, k, z) /\ z = u \o v
    BY <2>1
  <2> HIDE DEF z
  <2>4. Holds(b, k, u) /\ Holds(b, k + Len(u), v) /\ Len(u) \in Nat
    <3> HIDE DEF u, v
    <3> QED
      BY <2>2, <2>3, HoldsConcat
  <2>5. AfterTopic(b, k) = k + Len(u) /\ StringAt(b, k) = w
    BY <2>4, HoldsString
  <2>6. k + Len(u) \in Nat
    BY <2>4
  <2>7. /\ AfterTopic(b, k + Len(u)) = (k + Len(u)) + Len(v) /\ StringAt(b, k + Len(u)) = m
        /\ Len(v) \in Nat
    <3> HIDE DEF u
    <3> QED
      BY <2>4, <2>6, HoldsString
  <2>8. Len(z) = Len(u) + Len(v)
    <3> HIDE DEF u, v
    <3> QED
      BY <2>2, <2>3, Concat
  <2> HIDE DEF u, v
  <2>9. Len(z) \in Nat /\ (k + Len(u)) + Len(v) = k + Len(z)
    BY <2>4, <2>7, <2>8
  <2>10. Skip(b, k, here) = k + Len(u) /\ Read(b, k, here) = w
    BY <2>1, <2>5 DEF Skip, Read
  <2>11. /\ Read(b, k + Len(u), TRUE) = m
         /\ Skip(b, k + Len(u), here) = k + Len(z)
    BY <2>1, <2>7, <2>9 DEF Skip, Read
  <2> QED
    BY <2>1, <2>9, <2>10, <2>11 DEF WillReads
<1> QED
  BY <1>1, <1>2

ConnectFlags(c) ==
    2 * c.clean + Flag(c.user, 128) + Flag(c.password, 64)
      + Flag(c.will, 4 + 32 * c.willRetain + 8 * c.willQos)

\* Each flag has a bit of its own.
LEMMA FlagsApart ==
    ASSUME NEW c \in ConnectInfos
    PROVE  /\ ConnectFlags(c) \in Byte
           /\ (ConnectFlags(c) \div 4) % 2 = 1 <=> c.will # <<>>
           /\ (ConnectFlags(c) \div 128) % 2 = 1 <=> c.user # <<>>
           /\ (ConnectFlags(c) \div 64) % 2 = 1 <=> c.password # <<>>
<1> DEFINE u == Flag(c.user, 128)
           p == Flag(c.password, 64)
           w == Flag(c.will, 4 + 32 * c.willRetain + 8 * c.willQos)
           f == ConnectFlags(c)
<1>1. c.clean = 1 /\ c.willRetain \in {0, 1} /\ c.willQos \in {0, 1}
  BY DEF ConnectInfos
<1>2. u \in {0, 128} /\ (u = 128 <=> c.user # <<>>)
  BY DEF Flag
<1>3. p \in {0, 64} /\ (p = 64 <=> c.password # <<>>)
  BY DEF Flag
<1>4. w \in {0, 4, 12, 36, 44} /\ (w # 0 <=> c.will # <<>>)
  BY <1>1 DEF Flag
<1>5. f = 2 + u + p + w
  BY <1>1, <1>2, <1>3, <1>4 DEF ConnectFlags
<1> HIDE DEF u, p, w, f
<1>6. f \in Nat /\ f < 256
  BY <1>2, <1>3, <1>4, <1>5
<1>7. (f \div 4) % 2 = 1 <=> w # 0
  BY <1>2, <1>3, <1>4, <1>5
<1>8. (f \div 128) % 2 = 1 <=> u = 128
  BY <1>2, <1>3, <1>4, <1>5
<1>9. (f \div 64) % 2 = 1 <=> p = 64
  BY <1>2, <1>3, <1>4, <1>5
<1> QED
  BY <1>2, <1>3, <1>4, <1>6, <1>7, <1>8, <1>9, ByteIs DEF f

MQIsdp == <<77, 81, 73, 115, 100, 112>>
ConnectHead(c) == (String(MQIsdp) \o <<3, ConnectFlags(c)>>) \o Word(c.keepalive)

\* The fixed part of CONNECT: the flags and the keep-alive time.
LEMMA ConnectHeadReads ==
    ASSUME NEW c \in ConnectInfos
    PROVE  /\ ConnectHead(c) \in Seq(Byte) /\ Len(ConnectHead(c)) = 12
           /\ \A b : Holds(b, 0, ConnectHead(c)) =>
                 b[10] = ConnectFlags(c) /\ WordAt(b, 10) = Low16(c.keepalive)
<1> DEFINE u == String(MQIsdp)
           v == <<3, ConnectFlags(c)>>
           w == Word(c.keepalive)
           x == u \o v
           z == ConnectHead(c)
<1>1. u \in Seq(Byte) /\ Len(u) = 8
  <2>1. \A y \in {77, 81, 73, 115, 100, 112} : y \in Byte
    BY ByteIs
  <2>2. MQIsdp \in Seq(Byte) /\ Len(MQIsdp) = 6
    BY <2>1 DEF MQIsdp
  <2>3. Len(u) = 2 + Len(MQIsdp) /\ u \in Seq(Byte)
    BY <2>2, StringLen
  <2> QED
    BY <2>2, <2>3
<1>2. v \in Seq(Byte) /\ Len(v) = 2 /\ v[2] = ConnectFlags(c)
  <2>1. ConnectFlags(c) \in Byte /\ 3 \in Byte
    BY FlagsApart, ByteIs
  <2> QED
    BY <2>1
<1>3. w \in Seq(Byte) /\ Len(w) = 2 /\ 256 * w[1] + w[2] = Low16(c.keepalive)
  <2>1. c.keepalive \in KeepAlives /\ KeepAlives \subseteq Nat
    BY MsgAssumption, SMT DEF ConnectInfos
  <2>2. c.keepalive \in Nat
    BY <2>1
  <2> QED
    BY <2>2, WordParts
<1>4. x = u \o v /\ z = x \o w
  BY DEF ConnectHead
<1> HIDE DEF u, v, w, x, z
<1>5. u \in Seq(Byte) /\ v \in Seq(Byte) /\ w \in Seq(Byte)
  BY <1>1, <1>2, <1>3
<1>6. x \in Seq(Byte) /\ Len(x) = Len(u) + Len(v)
  BY <1>4, <1>5, Concat
<1>7. z \in Seq(Byte) /\ Len(z) = Len(x) + Len(w)
  BY <1>4, <1>5, <1>6, Concat
<1>8. Len(x) = 10 /\ Len(z) = 12
  BY <1>1, <1>2, <1>3, <1>6, <1>7
<1>9. ASSUME NEW b, Holds(b, 0, z)
      PROVE  b[10] = ConnectFlags(c) /\ WordAt(b, 10) = Low16(c.keepalive)
  <2>1. Holds(b, 0, x) /\ Holds(b, 0 + Len(x), w)
    BY <1>4, <1>5, <1>6, <1>9, HoldsConcat
  <2>2. Holds(b, 0 + Len(u), v)
    BY <1>4, <1>5, <2>1, HoldsConcat
  <2>3. 0 + Len(x) = 10 /\ 0 + Len(u) = 8
    BY <1>1, <1>8
  <2>4. Holds(b, 10, w) /\ Holds(b, 8, v)
    BY <2>1, <2>2, <2>3
  <2>5. b[10 + 1] = w[1] /\ b[10 + 2] = w[2]
    BY <2>4, <1>3 DEF Holds
  <2>6. b[8 + 2] = v[2]
    BY <2>4, <1>2 DEF Holds
  <2> QED
    BY <2>5, <2>6, <1>2, <1>3 DEF WordAt, At
<1> QED
  BY <1>7, <1>8, <1>9 DEF z

\* A CONNECT and where its parts lie.
ConnectLayout(b, c) ==
    LET id == 12
        will == id + Len(String(c.id))
        user == will + Len(WillPart(c.will, c.willMessage))
        password == user + Len(Optional(c.user))
    IN  /\ b \in Seq(Byte)
        /\ Holds(b, 0, ConnectHead(c)) /\ Holds(b, id, String(c.id))
        /\ Holds(b, will, WillPart(c.will, c.willMessage))
        /\ Holds(b, user, Optional(c.user))
        /\ Holds(b, password, Optional(c.password))
        /\ Len(b) = password + Len(Optional(c.password))
        /\ will \in Nat /\ user \in Nat /\ password \in Nat /\ Len(b) \in Nat
        /\ Len(b) >= user /\ Len(b) >= will

\* The strings of CONNECT consist of bytes.
LEMMA NamesAreBytes ==
    ASSUME NEW c \in ConnectInfos
    PROVE  /\ c.id \in Seq(Byte) /\ c.will \in Seq(Byte) /\ c.willMessage \in Seq(Byte)
           /\ c.user \in Seq(Byte) /\ c.password \in Seq(Byte)
BY MsgAssumption DEF ConnectInfos

\* The length of an optional string.
LEMMA OptionalLen ==
    ASSUME NEW s \in Seq(Byte)
    PROVE  /\ Optional(s) \in Seq(Byte) /\ Len(Optional(s)) \in Nat /\ Len(s) \in Nat
           /\ Len(s) <= Len(Optional(s))
<1>1. CASE s = <<>>
  BY <1>1, EmptySeq DEF Optional
<1>2. CASE s # <<>>
  <2>1. String(s) \in Seq(Byte) /\ Len(String(s)) = 2 + Len(s) /\ Len(s) \in Nat
    BY StringLen
  <2> QED
    BY <1>2, <2>1 DEF Optional
<1> QED
  BY <1>1, <1>2

\* The length of the will.
LEMMA WillLen ==
    ASSUME NEW w \in Seq(Byte), NEW m \in Seq(Byte)
    PROVE  /\ WillPart(w, m) \in Seq(Byte) /\ Len(WillPart(w, m)) \in Nat
           /\ Len(w) \in Nat /\ Len(w) <= Len(WillPart(w, m))
           /\ w # <<>> => Len(m) \in Nat /\ Len(m) <= Len(WillPart(w, m))
<1>1. CASE w = <<>>
  BY <1>1, EmptySeq DEF WillPart
<1>2. CASE w # <<>>
  <2> DEFINE u == String(w)
             v == String(m)
             z == WillPart(w, m)
  <2>1. u \in Seq(Byte) /\ Len(u) = 2 + Len(w) /\ Len(w) \in Nat
    BY StringLen
  <2>2. v \in Seq(Byte) /\ Len(v) = 2 + Len(m) /\ Len(m) \in Nat
    BY StringLen
  <2>3. z = u \o v
    BY <1>2 DEF WillPart
  <2>4. u \in Seq(Byte) /\ v \in Seq(Byte)
    BY <2>1, <2>2
  <2> HIDE DEF u, v, z
  <2>5. z \in Seq(Byte) /\ Len(z) = Len(u) + Len(v)
    BY <2>3, <2>4, Concat
  <2>6. Len(z) \in Nat /\ Len(w) <= Len(z) /\ Len(m) <= Len(z)
    BY <2>1, <2>2, <2>5
  <2> QED
    BY <2>1, <2>2, <2>5, <2>6 DEF z
<1> QED
  BY <1>1, <1>2

\* mqtt_msg_connect: head, id, will, user and password, one behind the other.
LEMMA ConnectLaysOut ==
    ASSUME NEW c \in ConnectInfos
    PROVE  ConnectLayout(ConnectBody(c), c)
<1> DEFINE h == ConnectHead(c)
           i == String(c.id)
           w == WillPart(c.will, c.willMessage)
           u == Optional(c.user)
           p == Optional(c.password)
           x1 == h \o i
           x2 == x1 \o w
           x3 == x2 \o u
           b == ConnectBody(c)
<1>1. /\ c.id \in Seq(Byte) /\ c.will \in Seq(Byte) /\ c.willMessage \in Seq(Byte)
      /\ c.user \in Seq(Byte) /\ c.password \in Seq(Byte)
  BY NamesAreBytes
<1>2. h \in Seq(Byte) /\ Len(h) = 12
  BY ConnectHeadReads
<1>3. i \in Seq(Byte) /\ Len(i) \in Nat
  BY <1>1, StringLen, LenProperties
<1>4. w \in Seq(Byte) /\ Len(w) \in Nat
  BY <1>1, WillLen
<1>5. u \in Seq(Byte) /\ Len(u) \in Nat /\ p \in Seq(Byte) /\ Len(p) \in Nat
  BY <1>1, OptionalLen
<1>6. b = x3 \o p
  BY DEF ConnectBody, ConnectHead, ConnectFlags, WillPart, Optional, MQIsdp
<1>7. x1 = h \o i /\ x2 = x1 \o w /\ x3 = x2 \o u
  OBVIOUS
<1> HIDE DEF h, i, w, u, p, x1, x2, x3, b
<1>8. x1 \in Seq(Byte) /\ Len(x1) = Len(h) + Len(i)
  <2>1. h \in Seq(Byte)
    BY <1>2
  <2>2. i \in Seq(Byte)
    BY <1>3
  <2>3. x1 = h \o i
    BY <1>7
  <2> QED
    BY <2>1, <2>2, <2>3, Concat
<1>9. x2 \in Seq(Byte) /\ Len(x2) = Len(x1) + Len(w)
  BY <1>4, <1>7, <1>8, Concat
<1>10. x3 \in Seq(Byte) /\ Len(x3) = Len(x2) + Len(u)
  BY <1>5, <1>7, <1>9, Concat
<1>11. b \in Seq(Byte) /\ Len(b) = Len(x3) + Len(p)
  <2>1. x3 \in Seq(Byte)
    BY <1>10
  <2>2. p \in Seq(Byte)
    BY <1>5
  <2> QED
    BY <2>1, <2>2, <1>6, Concat
<1>12. /\ Len(x1) = 12 + Len(i) /\ Len(x2) = (12 + Len(i)) + Len(w)
       /\ Len(x3) = ((12 + Len(i)) + Len(w)) + Len(u)
       /\ Len(b) = (((12 + Len(i)) + Len(w)) + Len(u)) + Len(p)
  <2>1. Len(x1) = 12 + Len(i)
    BY <1>2, <1>8
  <2>2. Len(x2) = (12 + Len(i)) + Len(w)
    BY <2>1, <1>9
  <2>3. Len(x3) = ((12 + Len(i)) + Len(w)) + Len(u)
    BY <2>2, <1>10
  <2> QED
    BY <2>1, <2>2, <2>3, <1>11
<1>13. Holds(b, 0, b) /\ 0 \in Nat /\ (\A k \in Nat : 0 + k = k)
  <2>1. \A k \in 1 .. Len(b) : b[0 + k] = b[k]
    BY <1>11, LenProperties
  <2> QED
    BY <2>1 DEF Holds
<1>14. Holds(b, 0, x3) /\ Holds(b, 0 + Len(x3), p)
  BY <1>5, <1>6, <1>10, <1>13, HoldsConcat
<1>15. Holds(b, 0, x2) /\ Holds(b, 0 + Len(x2), u)
  BY <1>5, <1>7, <1>9, <1>13, <1>14, HoldsConcat
<1>16. Holds(b, 0, x1) /\ Holds(b, 0 + Len(x1), w)
  BY <1>4, <1>7, <1>8, <1>13, <1>15, HoldsConcat
<1>17. Holds(b, 0, h) /\ Holds(b, 0 + Len(h), i)
  BY <1>2, <1>3, <1>7, <1>13, <1>16, HoldsConcat
<1>18. /\ 0 + Len(h) = 12 /\ 0 + Len(x1) = 12 + Len(i) /\ 0 + Len(x2) = (12 + Len(i)) + Len(w)
       /\ 0 + Len(x3) = ((12 + Len(i)) + Len(w)) + Len(u)
  BY <1>2, <1>3, <1>4, <1>5, <1>12
<1>19. /\ 12 + Len(i) \in Nat /\ (12 + Len(i)) + Len(w) \in Nat
       /\ ((12 + Len(i)) + Len(w)) + Len(u) \in Nat /\ Len(b) \in Nat
       /\ Len(b) >= (12 + Len(i)) + Len(w) /\ Len(b) >= 12 + Len(i)
  BY <1>3, <1>4, <1>5, <1>12
<1>20. /\ Holds(b, 12, i) /\ Holds(b, 12 + Len(i), w)
       /\ Holds(b, (12 + Len(i)) + Len(w), u)
       /\ Holds(b, ((12 + Len(i)) + Len(w)) + Len(u), p)
  BY <1>14, <1>15, <1>16, <1>17, <1>18
<1> QED
  BY <1>11, <1>12, <1>17, <1>19, <1>20 DEF ConnectLayout, h, i, w, u, p, b

\* ConnectParses, of a body and the information it was made from.
ParsesBody(b, c) ==
    LET has(weight) == (b[10] \div weight) % 2 = 1
        will == Skip(b, 12, TRUE)
        willMessage == Skip(b, will, has(4))
        user == Skip(b, willMessage, has(4))
        password == Skip(b, user, has(128))
    IN  /\ Read(b, 12, TRUE) = c.id
        /\ Read(b, will, has(4)) = c.will
        /\ has(4) => Read(b, willMessage, TRUE) = c.willMessage
        /\ Read(b, user, has(128)) = c.user
        /\ Read(b, password, has(64)) = c.password
        /\ Skip(b, password, has(64)) = Len(b)
        /\ WordAt(b, 10) = Low16(c.keepalive)

Parses(req, o) ==
    o # Failed /\ req.type = CONNECT =>
        ParsesBody(SubSeq(o, Body(o, Len(o)) + 1, Len(o)), req.info)

\* ConnectParses, as a statement about the last request.
LEMMA ParsesIs == ConnectParses <=> Parses(request, out)
BY DEF ConnectParses, Sent, Parses, ParsesBody, Low16

\* A reader that follows the flags finds all strings of CONNECT and its end.
LEMMA ConnectBodyParses ==
    ASSUME NEW c \in ConnectInfos, Short(ConnectBody(c))
    PROVE  ParsesBody(ConnectBody(c), c)
<1> DEFINE b == ConnectBody(c)
           h4 == (b[10] \div 4) % 2 = 1
           h128 == (b[10] \div 128) % 2 = 1
           h64 == (b[10] \div 64) % 2 = 1
           W == WillPart(c.will, c.willMessage)
           will == 12 + Len(String(c.id))
           user == will + Len(W)
           password == user + Len(Optional(c.user))
<1>1. ConnectLayout(b, c)
  BY ConnectLaysOut
<1>2. /\ c.id \in Seq(Byte) /\ c.will \in Seq(Byte) /\ c.willMessage \in Seq(Byte)
      /\ c.user \in Seq(Byte) /\ c.password \in Seq(Byte)
  BY NamesAreBytes
<1>3. Short(b)
  OBVIOUS
<1> HIDE DEF b
<1>4. /\ Holds(b, 0, ConnectHead(c)) /\ Holds(b, 12, String(c.id))
      /\ Holds(b, will, W) /\ Holds(b, user, Optional(c.user))
      /\ Holds(b, password, Optional(c.password))
  BY <1>1 DEF ConnectLayout
<1>5. /\ Len(b) = password + Len(Optional(c.password))
      /\ will \in Nat /\ user \in Nat /\ password \in Nat /\ Len(b) \in Nat
      /\ Len(b) >= user /\ Len(b) >= will
  BY <1>1 DEF ConnectLayout
<1>6. b[10] = ConnectFlags(c) /\ WordAt(b, 10) = Low16(c.keepalive)
  BY <1>4, ConnectHeadReads
<1>7. h4 \in BOOLEAN /\ h128 \in BOOLEAN /\ h64 \in BOOLEAN
  OBVIOUS
<1>8. (h4 <=> c.will # <<>>) /\ (h128 <=> c.user # <<>>) /\ (h64 <=> c.password # <<>>)
  BY <1>6, FlagsApart
<1>9. /\ Len(String(c.id)) = 2 + Len(c.id) /\ Len(c.id) \in Nat
      /\ Len(W) \in Nat /\ Len(c.will) \in Nat /\ Len(c.will) <= Len(W)
      /\ c.will # <<>> => Len(c.willMessage) \in Nat /\ Len(c.willMessage) <= Len(W)
  BY <1>2, StringLen, WillLen
<1>10. /\ Len(Optional(c.user)) \in Nat /\ Len(c.user) \in Nat
       /\ Len(c.user) <= Len(Optional(c.user))
       /\ Len(Optional(c.password)) \in Nat /\ Len(c.password) \in Nat
       /\ Len(c.password) <= Len(Optional(c.password))
  BY <1>2, OptionalLen
<1>11. /\ IsWord(Len(c.id)) /\ IsWord(Len(c.will)) /\ IsWord(Len(c.user)) /\ IsWord(Len(c.password))
       /\ c.will # <<>> => IsWord(Len(c.willMessage))
  <2>0. \A i, w, u, p \in Nat : \A n \in Nat :
           n = (((12 + (2 + i)) + w) + u) + p => i <= n /\ w <= n /\ u <= n /\ p <= n
    OBVIOUS
  <2>1. /\ Len(c.id) <= Len(b) /\ Len(W) <= Len(b) /\ Len(Optional(c.user)) <= Len(b)
        /\ Len(Optional(c.password)) <= Len(b)
    <3>1. Len(b) = (((12 + (2 + Len(c.id))) + Len(W)) + Len(Optional(c.user)))
                     + Len(Optional(c.password))
      BY <1>5, <1>9
    <3>2. Len(b) \in Nat
      BY <1>5
    <3>3. Len(c.id) \in Nat /\ Len(W) \in Nat
      BY <1>9
    <3>4. Len(Optional(c.user)) \in Nat /\ Len(Optional(c.password)) \in Nat
      BY <1>10
    <3> HIDE DEF W
    <3> QED
      BY <2>0, <3>1, <3>2, <3>3, <3>4
  <2>2. Len(b) < 65536
    BY <1>3, <1>5, SMT DEF Short
  <2>3. ASSUME NEW n \in Nat, n <= Len(b)
        PROVE  IsWord(n)
    BY <2>2, <2>3, <1>5, SMT DEF IsWord
  <2> HIDE DEF W
  <2>4. \A i, j \in Nat : i <= j /\ j <= Len(b) => i <= Len(b)
    BY <1>5
  <2>5. Len(c.will) <= Len(b) /\ Len(c.user) <= Len(b) /\ Len(c.password) <= Len(b)
    BY <2>1, <2>4, <1>9, <1>10
  <2>6. c.will # <<>> => Len(c.willMessage) <= Len(b) /\ Len(c.willMessage) \in Nat
    BY <2>1, <2>4, <1>9
  <2> QED
    BY <2>1, <2>3, <2>5, <2>6, <1>9, <1>10
<1> HIDE DEF h4, h128, h64, W, will, user, password
<1>12. Read(b, 12, TRUE) = c.id /\ Skip(b, 12, TRUE) = will
  <2>1. 12 \in Nat
    OBVIOUS
  <2>2. AfterTopic(b, 12) = 12 + Len(String(c.id)) /\ StringAt(b, 12) = c.id
    BY <2>1, <1>2, <1>4, <1>11, HoldsString
  <2> QED
    BY <2>2 DEF Read, Skip, will
<1>13. /\ Read(b, will, h4) = c.will
       /\ h4 => Read(b, Skip(b, will, h4), TRUE) = c.willMessage
       /\ Skip(b, Skip(b, will, h4), h4) = user
  <2>1. CASE c.will # <<>>
    <3>1. /\ Read(b, will, h4) = c.will
          /\ h4 => Read(b, Skip(b, will, h4), TRUE) = c.willMessage
          /\ Skip(b, Skip(b, will, h4), h4) = will + Len(W)
      <4>1. c.will \in Seq(Byte) /\ c.willMessage \in Seq(Byte) /\ will \in Nat /\ h4 \in BOOLEAN
        BY <1>2, <1>5, <1>7
      <4>2. IsWord(Len(c.will)) /\ IsWord(Len(c.willMessage)) /\ (h4 <=> c.will # <<>>)
        BY <2>1, <1>8, <1>11
      <4>3. Holds(b, will, WillPart(c.will, c.willMessage))
        BY <1>4 DEF W
      <4>4. WillReads(b, will, c.will, c.willMessage, h4)
        BY <4>1, <4>2, <4>3, HoldsWill
      <4> QED
        BY <4>4 DEF W, WillReads
    <3> QED
      BY <3>1 DEF user
  <2>2. CASE c.will = <<>>
    <3>1. ~h4 /\ W = <<>> /\ Len(W) = 0
      BY <2>2, <1>8, EmptySeq DEF W, WillPart
    <3> QED
      BY <3>1, <2>2, <1>5 DEF Read, Skip, user
  <2> QED
    BY <2>1, <2>2
<1>14. Read(b, user, h128) = c.user /\ Skip(b, user, h128) = password
  <2>1. Read(b, user, h128) = c.user /\ Skip(b, user, h128) = user + Len(Optional(c.user))
    <3>1. c.user \in Seq(Byte) /\ user \in Nat /\ h128 \in BOOLEAN
      BY <1>2, <1>5, <1>7
    <3>2. /\ IsWord(Len(c.user)) /\ Holds(b, user, Optional(c.user))
          /\ h128 <=> c.user # <<>>
      BY <1>4, <1>8, <1>11
    <3> QED
      BY <3>1, <3>2, HoldsOptional
  <2> QED
    BY <2>1 DEF password
<1>15. Read(b, password, h64) = c.password /\ Skip(b, password, h64) = Len(b)
  <2>1. /\ Read(b, password, h64) = c.password
        /\ Skip(b, password, h64) = password + Len(Optional(c.password))
    <3>1. c.password \in Seq(Byte) /\ password \in Nat /\ h64 \in BOOLEAN
      BY <1>2, <1>5, <1>7
    <3>2. /\ IsWord(Len(c.password)) /\ Holds(b, password, Optional(c.password))
          /\ h64 <=> c.password # <<>>
      BY <1>4, <1>8, <1>11
    <3> QED
      BY <3>1, <3>2, HoldsOptional
  <2> QED
    BY <2>1, <1>5
<1>16. ParsesBody(b, c)
  BY <1>6, <1>12, <1>13, <1>14, <1>15 DEF ParsesBody, h4, h128, h64
<1> QED
  BY <1>16 DEF b

\* The same of the message that is sent.
LEMMA ConnectReads ==
    ASSUME NEW c \in ConnectInfos, NEW req, req.type = CONNECT, req.info = c,
           NEW m, m = Message(ConnectBody(c), CONNECT, 0, 0) \/ m = Failed
    PROVE  Reads(req, m) /\ Answers(req, m) /\ Parses(req, m)
<1> DEFINE b == ConnectBody(c)
           h == HeaderLen(b)
<1>1. b \in Seq(Byte)
  BY ConnectLaysOut DEF ConnectLayout
<1>2. HeaderOK(CONNECT, 0, 0) /\ CONNECT # PUBLISH /\ CONNECT \notin Acks
  BY DEF HeaderOK, CONNECT, PUBLISH, Acks, PUBACK, PUBREC, PUBREL, PUBCOMP
<1>3. Reads(req, m)
  <2>1. m = Message(b, CONNECT, 0, 0) \/ m = Failed
    OBVIOUS
  <2> HIDE DEF b
  <2> QED
    BY <2>1, <1>1, <1>2, OtherReads
<1>4. ASSUME m # Failed
      PROVE  ParsesBody(SubSeq(m, Body(m, Len(m)) + 1, Len(m)), c)
  <2>1. m = Message(b, CONNECT, 0, 0)
    BY <1>4
  <2>2. IsFrame(m, b, CONNECT, 0) /\ Short(b)
    <3> HIDE DEF b
    <3> QED
      BY <2>1, <1>1, <1>2, <1>4, MessageFrames
  <2>3. Len(m) = h + Len(b) /\ Framed(m, b, CONNECT, 0, h) /\ m \in Seq(Byte)
    BY <2>2 DEF IsFrame
  <2>4. ParsesBody(b, c)
    BY <2>2, ConnectBodyParses
  <2> HIDE DEF b, h
  <2>5. Len(m) \in Nat /\ Len(m) >= h + Len(b)
    BY <2>3, LenProperties
  <2>6. Body(m, Len(m)) = h
    BY <2>3, <2>5, <1>1, FramedBody
  <2>7. Holds(m, h, b) /\ h \in Nat
    BY <2>3, <1>1, FramedHead
  <2>8. SubSeq(m, h + 1, Len(m)) = b
    BY <2>3, <2>7, <1>1, SubSeqIs
  <2> QED
    BY <2>4, <2>6, <2>8
<1> QED
  BY <1>2, <1>3, <1>4 DEF Answers, Parses

(***************************************************************************)
(* The calls                                                               *)
(***************************************************************************)
Good(req, o) == Reads(req, o) /\ Answers(req, o) /\ Parses(req, o)

\* Nothing is claimed of a message that did not fit.
LEMMA FailedGood == \A req : Good(req, Failed)
BY DEF Good, Reads, Answers, Parses

\* Topics and payloads consist of bytes.
LEMMA StringsAreBytes ==
    /\ \A t \in Topics : t \in Seq(Byte)
    /\ \A d \in Payloads : d \in Seq(Byte)
BY MsgAssumption

\* The next id fits into two bytes.
LEMMA NextIdIsWord ==
    ASSUME IdInv
    PROVE  NextId \in Nat /\ IsWord(NextId)
<1>1. NextId \in Nat /\ NextId \in 1 .. IdMod - 1
  BY NextIdRange
<1> QED
  BY <1>1, IdModRange, SMT DEF IsWord

\* So does every id of the broker.
LEMMA IdsAreWords ==
    ASSUME NEW id \in 1 .. IdMod - 1
    PROVE  id \in Nat /\ id # 0 /\ IsWord(id)
BY IdModRange, SMT DEF IsWord

\* The message mqtt_msg_publish makes.
LEMMA PublishGood ==
    ASSUME IdInv, NEW t \in Topics, NEW d \in Payloads, NEW qos \in 0 .. 2, NEW retain \in 0 .. 1,
           mqtt_msg_publish(t, d, qos, retain)
    PROVE  Good(request', out')
<1> DEFINE id == NextId
<1>1. request' = [type |-> PUBLISH, topic |-> t, data |-> d, qos |-> qos,
                  id |-> IF qos > 0 THEN id ELSE 0]
  BY DEF mqtt_msg_publish, Encoded
<1>2. out' = IF t = <<>> THEN Failed
             ELSE Message(PublishBody(t, d, qos, id), PUBLISH, qos, retain)
  BY DEF mqtt_msg_publish, Encoded
<1>3. id \in Nat /\ IsWord(id)
  BY NextIdIsWord
<1>4. t \in Seq(Byte) /\ d \in Seq(Byte)
  BY StringsAreBytes
<1> HIDE DEF id
<1>5. /\ request'.type = PUBLISH /\ request'.topic = t /\ request'.data = d
      /\ request'.id = IF qos > 0 THEN id ELSE 0
  BY <1>1
<1>6. Reads(request', out')
  <2>1. CASE t = <<>>
    BY <2>1, <1>2 DEF Reads
  <2>2. CASE t # <<>>
    <3>1. out' = Message(PublishBody(t, d, qos, id), PUBLISH, qos, retain)
      BY <2>2, <1>2
    <3> QED
      BY <3>1, <2>2, <1>3, <1>4, <1>5, PublishReads
  <2> QED
    BY <2>1, <2>2
<1>7. PUBLISH \notin Acks /\ PUBLISH # CONNECT
  BY DEF PUBLISH, Acks, PUBACK, PUBREC, PUBREL, PUBCOMP, CONNECT
<1> QED
  BY <1>5, <1>6, <1>7 DEF Good, Answers, Parses

\* Messages that carry neither a topic to read back nor an id to answer.
LEMMA OtherGood ==
    ASSUME NEW body \in Seq(Byte),
           NEW type \in {SUBSCRIBE, UNSUBSCRIBE, PINGREQ, PINGRESP, DISCONNECT},
           NEW qos \in 0 .. 2, NEW m, m = Message(body, type, qos, 0) \/ m = Failed,
           NEW req, req.type = type
    PROVE  Good(req, m)
<1>1. HeaderOK(type, qos, 0) /\ type # PUBLISH /\ type \notin Acks /\ type # CONNECT
  BY DEF HeaderOK, Acks, CONNECT, PUBLISH, PUBACK, PUBREC, PUBREL, PUBCOMP,
         SUBSCRIBE, UNSUBSCRIBE, PINGREQ, PINGRESP, DISCONNECT
<1>2. Reads(req, m)
  BY <1>1, OtherReads
<1> QED
  BY <1>1, <1>2 DEF Good, Answers, Parses

\* The messages mqtt_msg_subscribe and mqtt_msg_unsubscribe make.
LEMMA SubscribeGood ==
    ASSUME IdInv, NEW t \in Topics, mqtt_msg_subscribe(t, 1) \/ mqtt_msg_unsubscribe(t)
    PROVE  Good(request', out')
<1> DEFINE w == Word(NextId)
           s == String(t)
           x == w \o s
           y == x \o <<1>>
<1>1. w \in Seq(Byte) /\ s \in Seq(Byte)
  BY NextIdIsWord, WordParts, StringsAreBytes, StringLen
<1>2. x = w \o s /\ y = x \o <<1>>
  OBVIOUS
<1>3. <<1>> \in Seq(Byte)
  <2>1. 1 \in Byte
    BY ByteIs
  <2> QED
    BY <2>1
<1>4. CASE mqtt_msg_subscribe(t, 1)
  <2>1. out' = Message(y, SUBSCRIBE, 1, 0) \/ out' = Failed
    BY <1>4 DEF mqtt_msg_subscribe, Encoded
  <2>2. request'.type = SUBSCRIBE
    BY <1>4 DEF mqtt_msg_subscribe, Encoded
  <2> HIDE DEF w, s, x, y
  <2>3. x \in Seq(Byte)
    BY <1>1, <1>2, Concat
  <2>4. y \in Seq(Byte)
    BY <1>2, <1>3, <2>3, Concat
  <2> QED
    BY <2>1, <2>2, <2>4, OtherGood
<1>5. CASE mqtt_msg_unsubscribe(t)
  <2>1. out' = Message(x, UNSUBSCRIBE, 1, 0) \/ out' = Failed
    BY <1>5 DEF mqtt_msg_unsubscribe, Encoded
  <2>2. request'.type = UNSUBSCRIBE
    BY <1>5 DEF mqtt_msg_unsubscribe, Encoded
  <2> HIDE DEF w, s, x, y
  <2>3. x \in Seq(Byte)
    BY <1>1, <1>2, Concat
  <2> QED
    BY <2>1, <2>2, <2>3, OtherGood
<1> QED
  BY <1>4, <1>5

\* The messages without a body.
LEMMA EmptyGood ==
    ASSUME NEW type \in {PINGREQ, PINGRESP, DISCONNECT}, mqtt_msg_empty(type)
    PROVE  Good(request', out')
<1>1. out' = Message(<<>>, type, 0, 0) /\ request'.type = type
  BY DEF mqtt_msg_empty, Encoded
<1>2. <<>> \in Seq(Byte)
  BY EmptySeq
<1>3. type \in {SUBSCRIBE, UNSUBSCRIBE, PINGREQ, PINGRESP, DISCONNECT} /\ 0 \in 0 .. 2
  OBVIOUS
<1>4. out' = Message(<<>>, type, 0, 0) \/ out' = Failed
  BY <1>1
<1> QED
  BY <1>1, <1>2, <1>3, <1>4, OtherGood

\* The message mqtt_msg_connect makes.
LEMMA ConnectGood ==
    ASSUME NEW c \in ConnectInfos, mqtt_msg_connect(c)
    PROVE  Good(request', out')
<1>1. request'.type = CONNECT /\ request'.info = c
  BY DEF mqtt_msg_connect, Encoded
<1>2. out' = Message(ConnectBody(c), CONNECT, 0, 0) \/ out' = Failed
  BY DEF mqtt_msg_connect, Encoded
<1> QED
  BY <1>1, <1>2, ConnectReads DEF Good

\* Whatever is answered, the id was found.
LEMMA AnswerGood ==
    ASSUME NEW packet, NEW next, NEW stale, NEW id \in Nat, id # 0, IsWord(id),
           AnsweredId(packet, next, stale) = id, Answer(packet, next, stale, id)
    PROVE  Good(request', out')
<1> DEFINE type == mqtt_get_type(packet)
           reply == CASE type = PUBREC -> PUBREL
                      [] type = PUBREL -> PUBCOMP
                      [] mqtt_get_qos(packet) = 1 -> PUBACK
                      [] OTHER -> PUBREC
<1>1. request' = [type |-> reply, id |-> id] /\ out' = Ack(reply, id)
  BY DEF Answer, Encoded
<1>2. reply \in Acks
  <2>1. PUBREC # PUBREL
    BY DEF PUBREC, PUBREL
  <2> QED
    BY <2>1 DEF Acks
<1> HIDE DEF reply
<1>3. request'.type = reply /\ request'.id = id
  BY <1>1
<1>4. Reads(request', out') /\ Answers(request', out')
  BY <1>1, <1>2, <1>3, AckReads
<1>5. CONNECT \notin Acks
  BY DEF Acks, PUBACK, PUBREC, PUBREL, PUBCOMP, CONNECT
<1> QED
  BY <1>2, <1>3, <1>4, <1>5 DEF Good, Parses

CodecInv == IdInv /\ Good(request, out)

\* Before the first request nothing has been sent.
LEMMA CodecInvInit == MsgInit => CodecInv
<1>1. MsgInit => Good(request, out)
  BY FailedGood DEF MsgInit
<1> QED
  BY <1>1, IdInvInit DEF CodecInv

\* Every request makes a good message.
LEMMA CodecInvNext ==
    ASSUME CodecInv, [MsgNext]_msgVars
    PROVE  CodecInv'
<1>0. IdInv /\ IdInv'
  BY IdInvNext DEF CodecInv
<1>1. ASSUME NEW t \in Topics, NEW d \in Payloads, NEW qos \in 0 .. 2, NEW retain \in 0 .. 1,
             mqtt_msg_publish(t, d, qos, retain)
      PROVE  Good(request', out')
  BY <1>0, <1>1, PublishGood
<1>2. ASSUME NEW t \in Topics, mqtt_msg_subscribe(t, 1) \/ mqtt_msg_unsubscribe(t)
      PROVE  Good(request', out')
  BY <1>0, <1>2, SubscribeGood
<1>3. ASSUME NEW c \in ConnectInfos, mqtt_msg_connect(c)
      PROVE  Good(request', out')
  BY <1>3, ConnectGood
<1>4. ASSUME NEW type \in {PINGREQ, PINGRESP, DISCONNECT}, mqtt_msg_empty(type)
      PROVE  Good(request', out')
  BY <1>4, EmptyGood
<1>5. ASSUME NEW t \in Topics \ {<<>>}, NEW d \in Payloads, NEW qos \in 1 .. 2,
             NEW id \in 1 .. IdMod - 1, NEW next \in NextPackets, NEW stale \in {0, 255},
             Answer(BrokerPublish(t, d, qos, id), next, stale, id)
      PROVE  Good(request', out')
  <2>1. id \in Nat /\ id # 0 /\ IsWord(id)
    BY IdsAreWords
  <2>2. t \in Seq(Byte) /\ t # <<>> /\ d \in Seq(Byte)
    BY StringsAreBytes
  <2>3. Len(BrokerPublish(t, d, qos, id) \o next) < BufLen
    BY <1>5 DEF Answer
  <2>4. AnsweredId(BrokerPublish(t, d, qos, id), next, stale) = id
    BY <2>1, <2>2, <2>3, FoundPublish
  <2> QED
    BY <2>1, <2>4, <1>5, AnswerGood
<1>6. ASSUME NEW type \in {PUBREC, PUBREL}, NEW id \in 1 .. IdMod - 1, NEW stale \in {0, 255},
             Answer(BrokerAck(type, id), <<>>, stale, id)
      PROVE  Good(request', out')
  <2>1. id \in Nat /\ id # 0 /\ IsWord(id)
    BY IdsAreWords
  <2>2. Len(BrokerAck(type, id) \o <<>>) < BufLen
    BY <1>6 DEF Answer
  <2>3. AnsweredId(BrokerAck(type, id), <<>>, stale) = id
    BY <2>1, <2>2, FoundAck
  <2> QED
    BY <2>1, <2>3, <1>6, AnswerGood
<1>7. ASSUME mqtt_msg_init
      PROVE  Good(request', out')
  <2>1. out' = Failed
    BY <1>7 DEF mqtt_msg_init
  <2> QED
    BY <2>1, FailedGood
<1>8. ASSUME UNCHANGED msgVars
      PROVE  Good(request', out')
  <2>1. request' = request /\ out' = out /\ Good(request, out)
    BY <1>8 DEF msgVars, CodecInv
  <2> QED
    BY <2>1
<1>9. ASSUME MsgNext
      PROVE  Good(request', out')
  <2>1. CASE \E t \in Topics, d \in Payloads, qos \in 0 .. 2, retain \in 0 .. 1 :
                mqtt_msg_publish(t, d, qos, retain)
    BY <2>1, <1>1
  <2>2. CASE \E t \in Topics : mqtt_msg_subscribe(t, 1) \/ mqtt_msg_unsubscribe(t)
    BY <2>2, <1>2
  <2>3. CASE \E c \in ConnectInfos : mqtt_msg_connect(c)
    BY <2>3, <1>3
  <2>4. CASE \E type \in {PINGREQ, PINGRESP, DISCONNECT} : mqtt_msg_empty(type)
    BY <2>4, <1>4
  <2>5. CASE \E t \in Topics \ {<<>>}, d \in Payloads, qos \in 1 .. 2, id \in 1 .. IdMod - 1,
                next \in NextPackets, stale \in {0, 255} :
                Answer(BrokerPublish(t, d, qos, id), next, stale, id)
    BY <2>5, <1>5
  <2>6. CASE \E type \in {PUBREC, PUBREL}, id \in 1 .. IdMod - 1, stale \in {0, 255} :
                Answer(BrokerAck(type, id), <<>>, stale, id)
    BY <2>6, <1>6
  <2> QED
    BY <2>1, <2>2, <2>3, <2>4, <2>5, <2>6, <1>7, <1>9 DEF MsgNext
<1>10. Good(request', out')
  BY <1>8, <1>9
<1> QED
  BY <1>0, <1>10 DEF CodecInv

\* Whatever mqtt_msg.c encodes, its decoders read back: type, total length, topic,
\* payload and id, for all strings and with any of the packets behind it.
THEOREM DecodesHolds == MsgSpec => []Decodes
<1>1. CodecInv => Decodes
  BY ReadsIs DEF CodecInv, Good
<1> QED
  BY <1>1, CodecInvInit, CodecInvNext, PTL DEF MsgSpec

\* Every acknowledgement carries the id of the packet it answers.
THEOREM AnswersItsIdHolds == MsgSpec => []AnswersItsId
<1>1. CodecInv => AnswersItsId
  BY ReadsIs DEF CodecInv, Good
<1> QED
  BY <1>1, CodecInvInit, CodecInvNext, PTL DEF MsgSpec

\* A broker reads back the strings of every CONNECT that mqtt_msg_connect made.
THEOREM ConnectParsesHolds == MsgSpec => []ConnectParses
<1>1. CodecInv => ConnectParses
  BY ParsesIs DEF CodecInv, Good
<1> QED
  BY <1>1, CodecInvInit, CodecInvNext, PTL DEF MsgSpec
=============================================================================
