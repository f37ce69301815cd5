------------------------------ MODULE MqttMsg ------------------------------
(***************************************************************************)
(* The message codec, mqtt_msg.c.  Encoders build a message behind room    *)
(* for three header bytes and then put the header in front, two bytes or   *)
(* three; each returns a length of 0 (Failed) when the buffer is too       *)
(* short.  Decoders read packets of the broker out of in_buffer, where     *)
(* another packet of the same segment and older bytes may follow.          *)
(*                                                                         *)
(* A string is a sequence of bytes; what counts of it is its length.       *)
(* A request and the message made of it are kept until the next one.       *)
(***************************************************************************)
EXTENDS Integers, Sequences, FiniteSetsExt

CONSTANTS
    BufLen,         \* buffer_length, MQTT_BUF_SIZE
    IdMod,          \* values of message_id, 2^16
    Topics, Payloads, Names,    \* strings
    KeepAlives      \* keepalive of the connect information

Byte == 0 .. 255

ASSUME MsgAssumption ==
    /\ BufLen \in Nat /\ BufLen <= 3 + 16383    \* two bytes of length are enough
    /\ IdMod \in Nat /\ IdMod > 1 /\ IdMod <= 65536
    /\ Topics \cup Payloads \cup Names \subseteq Seq(Byte)
    /\ KeepAlives \subseteq Nat

VARIABLES
    message_id,     \* connection.message_id
    request,        \* history: what the last call was asked to encode
    out,            \* the message it made
    lastIds         \* history: ids given to the latest messages, newest first

msgVars == <<message_id, request, out, lastIds>>

Failed == <<>>
NULL == <<>>

CONNECT == 1
PUBLISH == 3
PUBACK == 4
PUBREC == 5
PUBREL == 6
PUBCOMP == 7
SUBSCRIBE == 8
SUBACK == 9
UNSUBSCRIBE == 10
UNSUBACK == 11
PINGREQ == 12
PINGRESP == 13
DISCONNECT == 14

-----------------------------------------------------------------------------
(***************************************************************************)
(* Encoding.                                                               *)
(***************************************************************************)
Word(n) == <<(n \div 256) % 256, n % 256>>

\* append_string
String(s) == Word(Len(s)) \o s

\* append_string and append_message_id: is there room behind the header?
Fits(body) == 3 + Len(body) <= BufLen

\* Mutant: the counter runs through 0.
NextIdZero == (message_id + 1) % IdMod

\* append_message_id: a given id is kept, 0 asks for the next one, never 0.
NextId == IF (message_id + 1) % IdMod = 0 THEN 1 ELSE message_id + 1

IdFor(id) == IF id = 0 THEN NextId ELSE id

\* Mutant: a length of 128 is put into one byte.
fini_messageShort(body, type, qos, retain) ==
    LET first == 16 * type + 2 * qos + retain
        rest == Len(body)
    IN  IF rest > 128
        THEN <<first, 128 + (rest % 128), rest \div 128>> \o body
        ELSE <<first, rest>> \o body

\* fini_message: one length byte up to 127, otherwise two.
fini_message(body, type, qos, retain) ==
    LET first == 16 * type + 2 * qos + retain
        rest == Len(body)
    IN  IF rest > 127
        THEN <<first, 128 + (rest % 128), rest \div 128>> \o body
        ELSE <<first, rest>> \o body

\* Every append fits exactly if the whole does.
Message(body, type, qos, retain) ==
    IF Fits(body) THEN fini_message(body, type, qos, retain) ELSE Failed

PublishBody(topic, data, qos, id) ==
    String(topic) \o (IF qos > 0 THEN Word(id) ELSE <<>>) \o data

\* Mutant: a string is appended and its flag forgotten.
FlagDropped(s, f) == 0

\* mqtt_msg_connect: an empty string stands for NULL, too.
Flag(s, f) == IF s = <<>> THEN 0 ELSE f

ConnectBody(c) ==
    LET will == IF c.will = <<>> THEN <<>> ELSE String(c.will) \o String(c.willMessage)
        optional(s) == IF s = <<>> THEN <<>> ELSE String(s)
        flags == 2 * c.clean + Flag(c.user, 128) + Flag(c.password, 64)
                   + Flag(c.will, 4 + 32 * c.willRetain + 8 * c.willQos)
    IN  String(<<77, 81, 73, 115, 100, 112>>)       \* MQIsdp
          \o <<3, flags>> \o Word(c.keepalive)
          \o String(c.id) \o will \o optional(c.user) \o optional(c.password)

-----------------------------------------------------------------------------
(***************************************************************************)
(* Decoding; positions count from 0.                                       *)
(***************************************************************************)
At(buf, i) == buf[i + 1]
mqtt_get_type(buf) == At(buf, 0) \div 16
mqtt_get_qos(buf) == (At(buf, 0) \div 2) % 4

\* Where the loop over the length bytes stops.
Body(buf, length) ==
    LET ends == {j \in 1 .. length - 1 : At(buf, j) < 128}
    IN  IF ends = {} THEN length ELSE Min(ends) + 1

\* The value of the length bytes, the lowest seven bits first.
mqtt_get_total_length(buf, length) ==
    LET body == Body(buf, length)
        from[j \in 1 .. body] ==
            IF j = body THEN 0 ELSE (At(buf, j) % 128) + 128 * from[j + 1]
    IN  from[1] + body

WordAt(buf, i) == 256 * At(buf, i) + At(buf, i + 1)
AfterTopic(buf, i) == i + 2 + WordAt(buf, i)

mqtt_get_publish_topic(buf, length) ==
    LET i == Body(buf, length) IN
    IF i + 2 >= length \/ AfterTopic(buf, i) > length
    THEN NULL
    ELSE SubSeq(buf, i + 3, AfterTopic(buf, i))

\* NULL is also what an empty payload gives at the end of a segment.
mqtt_get_publish_data(buf, length) ==
    LET i == Body(buf, length)
        total == mqtt_get_total_length(buf, length)
        k == AfterTopic(buf, i) + (IF mqtt_get_qos(buf) > 0 THEN 2 ELSE 0)
    IN  IF \/ i + 2 >= length
           \/ AfterTopic(buf, i) >= length
           \/ mqtt_get_qos(buf) > 0 /\ k >= length
           \/ total < k
        THEN NULL
        ELSE SubSeq(buf, k + 1, IF total <= length THEN total ELSE length)

mqtt_get_id(buf, length) ==
    IF mqtt_get_type(buf) = PUBLISH
    THEN LET i == Body(buf, length)
             k == AfterTopic(buf, i)
         IN  IF \/ i + 2 >= length
                \/ k >= length
                \/ mqtt_get_qos(buf) = 0
                \/ k + 2 >= length
             THEN 0 ELSE WordAt(buf, k)
    ELSE IF mqtt_get_type(buf) \in {PUBACK, PUBREC, PUBREL, PUBCOMP, SUBACK, UNSUBACK,
                                   SUBSCRIBE}
               /\ length >= 4 /\ At(buf, 1) < 128
         THEN WordAt(buf, 2) ELSE 0

-----------------------------------------------------------------------------
(***************************************************************************)
(* The calls.                                                              *)
(***************************************************************************)
Nothing == [type |-> 0]

\* mqtt_msg_init, on every connection
mqtt_msg_init ==
    /\ message_id' = 0
    /\ request' = Nothing /\ out' = Failed /\ lastIds' = <<>>

MsgInit == message_id = 0 /\ request = Nothing /\ out = Failed /\ lastIds = <<>>

Encoded(req, message) == request' = req /\ out' = message
Used(id) ==
    /\ message_id' = id
    /\ lastIds' = SubSeq(<<id>> \o lastIds, 1, Min({Len(lastIds) + 1, IdMod - 1}))
KeepId == UNCHANGED <<message_id, lastIds>>

\* The id is taken once the topic is in the buffer, fit or not fit.
mqtt_msg_publish(topic, data, qos, retain) ==
    /\ Encoded([type |-> PUBLISH, topic |-> topic, data |-> data, qos |-> qos,
                id |-> IF qos > 0 THEN NextId ELSE 0],
               IF topic = <<>> THEN Failed
               ELSE Message(PublishBody(topic, data, qos, NextId), PUBLISH, qos, retain))
    /\ IF qos > 0 /\ topic # <<>> /\ Fits(String(topic)) THEN Used(NextId) ELSE KeepId

mqtt_msg_subscribe(topic, qos) ==
    /\ Encoded([type |-> SUBSCRIBE, id |-> NextId],
               IF topic = <<>> THEN Failed
               ELSE Message(Word(NextId) \o String(topic) \o <<qos>>, SUBSCRIBE, 1, 0))
    /\ IF topic = <<>> THEN KeepId ELSE Used(NextId)

mqtt_msg_unsubscribe(topic) ==
    /\ Encoded([type |-> UNSUBSCRIBE, id |-> NextId],
               IF topic = <<>> THEN Failed
               ELSE Message(Word(NextId) \o String(topic), UNSUBSCRIBE, 1, 0))
    /\ IF topic = <<>> THEN KeepId ELSE Used(NextId)

\* mqtt_tcpclient_connect_cb calls it right after mqtt_msg_init.
mqtt_msg_connect(c) ==
    /\ request = Nothing
    /\ Encoded([type |-> CONNECT, info |-> c],
               IF c.id = <<>> THEN Failed ELSE Message(ConnectBody(c), CONNECT, 0, 0))
    /\ KeepId

\* mqtt_msg_pingreq, mqtt_msg_pingresp, mqtt_msg_disconnect
mqtt_msg_empty(type) == Encoded([type |-> type], Message(<<>>, type, 0, 0)) /\ KeepId

\* mqtt_msg_puback, _pubrec, _pubrel, _pubcomp
Ack(type, id) == Message(Word(IdFor(id)), type, IF type = PUBREL THEN 1 ELSE 0, 0)

\* in_buffer when mqtt_tcpclient_recv has copied a segment: the packet, maybe
\* another one, and what an earlier segment left there.
InBuffer(packet, next, stale) ==
    [i \in 1 .. BufLen |->
        IF i <= Len(packet \o next) THEN (packet \o next)[i] ELSE stale]

\* Mutant: the id is looked for in the bytes received only.
AnsweredIdShort(packet, next, stale) ==
    mqtt_get_id(InBuffer(packet, next, stale), Len(packet \o next))

\* mqtt_tcpclient_recv looks for the id in the whole of in_buffer.
AnsweredId(packet, next, stale) ==
    mqtt_get_id(InBuffer(packet, next, stale), BufLen)

\* The broker's PUBLISH with QoS 1 or 2, PUBREC or PUBREL is answered.
Answer(packet, next, stale, id) ==
    /\ Len(packet \o next) < BufLen        \* else "Message too long"
    /\ LET type == mqtt_get_type(packet)
           reply == CASE type = PUBREC -> PUBREL
                      [] type = PUBREL -> PUBCOMP
                      [] mqtt_get_qos(packet) = 1 -> PUBACK
                      [] OTHER -> PUBREC
           found == AnsweredId(packet, next, stale)
       IN  /\ Encoded([type |-> reply, id |-> id], Ack(reply, found))
           /\ IF found = 0 THEN Used(NextId) ELSE KeepId

BrokerPublish(topic, data, qos, id) ==
    fini_message(PublishBody(topic, data, qos, id), PUBLISH, qos, 0)
BrokerAck(type, id) == fini_message(Word(id), type, IF type = PUBREL THEN 1 ELSE 0, 0)
NextPackets == {<<>>, <<16 * PINGRESP, 0>>}

ConnectInfos ==
    [id : Names, will : Names, willMessage : Names, user : Names, password : Names,
     keepalive : KeepAlives, clean : {1}, willRetain : {0, 1}, willQos : {0, 1}]

MsgNext ==
    \/ \E t \in Topics, d \in Payloads, qos \in 0 .. 2, retain \in 0 .. 1 :
          mqtt_msg_publish(t, d, qos, retain)
    \/ \E t \in Topics : mqtt_msg_subscribe(t, 1) \/ mqtt_msg_unsubscribe(t)
    \/ \E c \in ConnectInfos : mqtt_msg_connect(c)
    \/ \E type \in {PINGREQ, PINGRESP, DISCONNECT} : mqtt_msg_empty(type)
    \/ \E t \in Topics \ {<<>>}, d \in Payloads, qos \in 1 .. 2, id \in 1 .. IdMod - 1,
          next \in NextPackets, stale \in {0, 255} :
          Answer(BrokerPublish(t, d, qos, id), next, stale, id)
    \/ \E type \in {PUBREC, PUBREL}, id \in 1 .. IdMod - 1, stale \in {0, 255} :
          Answer(BrokerAck(type, id), <<>>, stale, id)
    \/ mqtt_msg_init

MsgSpec == MsgInit /\ [][MsgNext]_msgVars

-----------------------------------------------------------------------------
Sent == out # Failed

\* What the encoders wrote, the decoders read, also at the lengths where the
\* header grows and the buffer ends, and with another packet behind it: topic,
\* payload, id and where the next packet starts.  No length, id or flag runs
\* over its byte.
Decodes ==
    Sent => out \in Seq(Byte) /\ \A next \in NextPackets :
        LET seg == out \o next
            n == Len(seg)
        IN  /\ mqtt_get_type(seg) = request.type
            /\ mqtt_get_total_length(seg, n) = Len(out)
            /\ request.type = PUBLISH =>
                  /\ mqtt_get_publish_topic(seg, n) = request.topic
                  /\ mqtt_get_publish_data(seg, n) = request.data
                  /\ n < BufLen =>
                        mqtt_get_id(InBuffer(out, next, 0), BufLen) = request.id

\* An acknowledgement carries the id of what it answers, also of an empty
\* message at the end of a segment: a missed id would be 0, and
\* append_message_id would make up another one.
AnswersItsId ==
    Sent /\ request.type \in {PUBACK, PUBREC, PUBREL, PUBCOMP} =>
        mqtt_get_id(out, Len(out)) = request.id

\* No id is 0, and none comes back before all others have been used, over the
\* wrap of the counter and over messages that did not fit.
IdsFresh ==
    /\ \A i \in DOMAIN lastIds : lastIds[i] # 0
    /\ \A i, j \in DOMAIN lastIds : lastIds[i] = lastIds[j] => i = j

\* A broker that reads a CONNECT by its flags finds the strings that were
\* configured, each with its length in front, and the end of the message behind
\* the last.
StringAt(b, i) == SubSeq(b, i + 3, AfterTopic(b, i))
Read(b, i, here) == IF here THEN StringAt(b, i) ELSE <<>>
Skip(b, i, here) == IF here THEN AfterTopic(b, i) ELSE i
ConnectParses ==
    Sent /\ request.type = CONNECT =>
        LET b == SubSeq(out, Body(out, Len(out)) + 1, Len(out))
            has(weight) == (b[10] \div weight) % 2 = 1
            will == Skip(b, 12, TRUE)
            willMessage == Skip(b, will, has(4))
            user == Skip(b, willMessage, has(4))
            password == Skip(b, user, has(128))
            c == request.info
        IN  /\ Read(b, 12, TRUE) = c.id
            /\ Read(b, will, has(4)) = c.will
            /\ has(4) => Read(b, willMessage, TRUE) = c.willMessage
            /\ Read(b, user, has(128)) = c.user
            /\ Read(b, password, has(64)) = c.password
            /\ Skip(b, password, has(64)) = Len(b)
            /\ WordAt(b, 10) = c.keepalive % 65536
=============================================================================
