----------------------------- MODULE MCPublish -----------------------------
(***************************************************************************)
(* What is published: a measurement (Measure), or calls of the codec       *)
(* (MqttMsg).  Neither reads what the other writes and each call runs to   *)
(* its end, so a behaviour takes the steps of one of them.                 *)
(*                                                                         *)
(* The strings put the remaining length at 126 .. 129, where the header    *)
(* grows from two bytes to three, and the message at both sides of the     *)
(* buffer's end.                                                           *)
(***************************************************************************)
EXTENDS Measure, MqttMsg

Text(n, byte) == [i \in 1 .. n |-> byte]
MCTopics == {Text(n, 1) : n \in {0, 1, 131}}
MCPayloads == {Text(n, 2) : n \in {0, 1} \cup 121 .. 126}
MCNames == {Text(n, 3) : n \in {0, 1, 113}}

\* mqtt_muladc0 .. 3 as configured, one too large for 16 bits, then
\* the factors of sendADCData, in tenths
MCMultiplier == [c \in Channels |-> <<10, 80000, 5, 10, 100, 100, 43, 43>>[c + 1]]

PublishInit == Init /\ MsgInit
PublishNext ==
    \/ MsgInit /\ Next /\ UNCHANGED msgVars
    \/ Init /\ MsgNext /\ UNCHANGED measureVars
PublishSpec == PublishInit /\ [][PublishNext]_<<measureVars, msgVars>>
=============================================================================
