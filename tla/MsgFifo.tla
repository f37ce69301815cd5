------------------------------- MODULE MsgFifo ------------------------------
(***************************************************************************)
(* What queue.c promises its callers: messages are handed out whole, in    *)
(* the order they were accepted, each at most once; a Gets fails only when *)
(* no accepted message is left.  Messages are numbered in the order they   *)
(* are offered.                                                            *)
(***************************************************************************)
EXTENDS Integers, Sequences

CONSTANT Packets

VARIABLES
    sent,     \* every message offered so far
    pending,  \* numbers of the messages accepted and not yet handed out
    open,     \* the last offered message is still being queued
    puts,     \* return code of the last QUEUE_Puts
    gets      \* return code of the last QUEUE_Gets and the message it returned

mfVars == <<sent, pending, open, puts, gets>>

Init ==
    /\ sent = <<>> /\ pending = {} /\ open = FALSE
    /\ puts = 0 /\ gets = <<-1, <<>>>>

Offer ==
    /\ ~open
    /\ \E m \in Packets : sent' = Append(sent, m)
    /\ open' = TRUE
    /\ UNCHANGED <<pending, puts, gets>>

Accept ==
    /\ open
    /\ pending' = pending \cup {Len(sent)}
    /\ open' = FALSE /\ puts' = 0
    /\ UNCHANGED <<sent, gets>>

\* A refused message may be offered again after a Gets, or given up.
Refuse ==
    /\ open
    /\ puts' = -1
    /\ open' \in BOOLEAN
    /\ UNCHANGED <<sent, pending, gets>>

Oldest(n) == n \in pending /\ \A m \in pending : n <= m

Deliver ==
    /\ \E n \in pending :
          /\ Oldest(n)
          /\ pending' = pending \ {n}
          /\ gets' = <<0, sent[n]>>
    /\ UNCHANGED <<sent, open, puts>>

\* A Gets that finds no message; a publisher gives up when this happens to it.
Empty ==
    /\ pending = {}
    /\ gets' = <<-1, <<>>>>
    /\ open' \in {open, FALSE}
    /\ UNCHANGED <<sent, pending, puts>>

Next == Offer \/ Accept \/ Refuse \/ Deliver \/ Empty

Spec == Init /\ [][Next]_mfVars
=============================================================================
