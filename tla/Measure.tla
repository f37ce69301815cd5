------------------------------ MODULE Measure ------------------------------
(***************************************************************************)
(* A measurement, sendADCData of sleep.c: eight analogue inputs behind a   *)
(* multiplexer are sampled one after the other, scaled and published, then *)
(* the counter.  One text buffer serves all nine messages.  Both buffers   *)
(* come from the heap and are never given back; without them the copy      *)
(* through NULL restarts the device.                                       *)
(***************************************************************************)
EXTENDS Integers, Sequences

CONSTANTS
    Samples,        \* adcValueBuffferLength, 1024
    Sums,           \* sums of that many samples
    Multiplier,     \* tenths: mqtt_muladc0 .. 3, then 10, 10, 4.3, 4.3
    Uint16,           \* values of uint16, 2^16
    Heap            \* measurements the heap has room for

Channels == 0 .. 7

ASSUME MeasureAssumption ==
    /\ Samples \in Nat \ {0} /\ Uint16 \in Nat \ {0}
    /\ Sums \subseteq Nat
    /\ Multiplier \in [Channels -> Nat]
    /\ Heap \in Nat

VARIABLES
    adc,            \* the channel that is next, 8 for the counter, or Idle
    select,         \* outputs to the multiplexer: GPIO16, GPIO12, GPIO13
    sums,           \* history: what each input gave in this measurement
    mqttValue,      \* the text buffer: the number it shows, or Garbage
    counter,
    sent,           \* history: what this measurement handed to MQTT_Publish,
                    \* topic (8: the counter) and text
    free            \* measurements the heap still has room for

measureVars == <<adc, select, sums, mqttValue, counter, sent, free>>

Garbage == -1
Idle == 9
Bit(n, weight) == (n \div weight) % 2

gpio16_output_set(value) == value % 2

\* setADC
setADC(n) ==
    select' = [i \in 0 .. 2 |-> CASE i = 0 -> gpio16_output_set(Bit(n, 1))
                                  [] i = 1 -> Bit(n, 2)
                                  [] OTHER -> Bit(n, 4)]

\* The input that select connects, as the board wires it.
Selected(s) == s[0] + 2 * s[1] + 4 * s[2]

\* Mutant: the value is not cut.
adcValueWide(c, sum) == (sum * Multiplier[c]) \div (10 * Samples)

\* (unsigned int) (adcValueSum * multiplier / length), cut to uint16
adcValue(c, sum) == ((sum * Multiplier[c]) \div (10 * Samples)) % Uint16

\* sleepInit
Init ==
    /\ adc = Idle
    /\ select = [i \in 0 .. 2 |-> 1]
    /\ sums = [c \in Channels |-> 0]
    /\ mqttValue = Garbage
    /\ counter = 0
    /\ sent = <<>>
    /\ free = Heap

-----------------------------------------------------------------------------
\* MQTT_Publish copies the text into the queue; see Queue.
MQTT_Publish(topic, text) == sent' = Append(sent, [topic |-> topic, text |-> text])

\* readADC_timer fires: the buffers are allocated.
Begin ==
    /\ adc = Idle /\ free > 0
    /\ free' = free - 1
    /\ adc' = 0
    /\ sent' = <<>>
    /\ mqttValue' = Garbage
    /\ UNCHANGED <<select, sums, counter>>

\* Mutant: the outputs are set after the sampling.
SampleBeforeSelect ==
    /\ adc \in Channels
    /\ setADC(adc)
    /\ \E s \in Sums : sums' = [sums EXCEPT ![Selected(select)] = s]
    /\ mqttValue' = IF adc = 5 THEN mqttValue
                    ELSE adcValue(adc, sums'[Selected(select)])
    /\ MQTT_Publish(adc, mqttValue')
    /\ adc' = adc + 1
    /\ UNCHANGED <<counter, free>>

\* One turn of the loop.  Channel 5 computes its value and does not print it.
Sample ==
    /\ adc \in Channels
    /\ setADC(adc)
    /\ \E s \in Sums : sums' = [sums EXCEPT ![Selected(select')] = s]
    /\ mqttValue' = IF adc = 5 THEN mqttValue
                    ELSE adcValue(adc, sums'[Selected(select')])
    /\ MQTT_Publish(adc, mqttValue')
    /\ adc' = adc + 1
    /\ UNCHANGED <<counter, free>>

Count ==
    /\ adc = 8
    /\ counter' = counter + 1
    /\ mqttValue' = counter'
    /\ MQTT_Publish(8, counter')
    /\ adc' = Idle
    /\ UNCHANGED <<select, sums, free>>

\* os_malloc gives NULL: strcpy writes through it, and user_init runs again.
OutOfMemory ==
    /\ adc = Idle /\ free = 0
    /\ select' = [i \in 0 .. 2 |-> 1]
    /\ counter' = 0 /\ sent' = <<>> /\ free' = Heap
    /\ mqttValue' = Garbage
    /\ UNCHANGED <<adc, sums>>

Next == Begin \/ Sample \/ Count \/ OutOfMemory
Spec == Init /\ [][Next]_measureVars

-----------------------------------------------------------------------------
\* Values that are published stay in a uint16, and the counter counts no more
\* measurements than the heap has room for.
TypeOK ==
    /\ adc \in 0 .. Idle
    /\ select \in [0 .. 2 -> 0 .. 1]
    /\ sums \in [Channels -> Nat]
    /\ mqttValue \in {Garbage} \cup Nat
    /\ counter \in 0 .. Heap
    /\ \A i \in DOMAIN sent : sent[i].topic \in Channels => sent[i].text \in 0 .. Uint16 - 1
    /\ free \in 0 .. Heap

\* Whatever the order in which outputs, buffers and messages are reused, a
\* message shows the input its topic is named for, scaled by its own factor,
\* with the one exception that channel 5 repeats channel 4's text.
ShowsOwnInput ==
    \A i \in DOMAIN sent :
        sent[i].topic \in Channels =>
            LET c == IF sent[i].topic = 5 THEN 4 ELSE sent[i].topic
            IN  sent[i].text = adcValue(c, sums[c])
=============================================================================
