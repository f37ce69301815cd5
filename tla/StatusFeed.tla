----------------------------- MODULE StatusFeed -----------------------------
(***************************************************************************)
(* What wifi.c promises the application: the station's status is looked at *)
(* again and again, and the callback hears each status that differs from   *)
(* the one it heard last, once.                                            *)
(***************************************************************************)
CONSTANT Status

VARIABLES
    station,    \* the SDK's status
    sampled,    \* the status seen last
    told        \* the status the callback was called with last

feedVars == <<station, sampled, told>>

Init ==
    /\ station \in Status
    /\ sampled \in Status
    /\ told = sampled

Change == station' \in Status /\ UNCHANGED <<sampled, told>>

Sample == sampled' = station /\ UNCHANGED <<station, told>>

Tell ==
    /\ sampled # told
    /\ told' = sampled
    /\ UNCHANGED <<station, sampled>>

\* Seen and told in one go, by the interrupt.
SampleAndTell ==
    /\ station # told
    /\ sampled' = station
    /\ told' = station
    /\ UNCHANGED station

Next == Change \/ Sample \/ Tell \/ SampleAndTell

Spec == Init /\ [][Next]_feedVars

\* Looking and telling go on as long as there is something to see or to tell.
FairSpec ==
    /\ Spec
    /\ WF_feedVars(Sample \/ SampleAndTell)
    /\ WF_feedVars(Tell \/ SampleAndTell)
=============================================================================
