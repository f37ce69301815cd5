------------------------------ MODULE ByteFifo ------------------------------
(***************************************************************************)
(* What ringbuf.c promises: a first-in first-out store of at most Size     *)
(* characters.  A call that cannot be served returns -1 and changes        *)
(* nothing.                                                                *)
(***************************************************************************)
EXTENDS Integers, Sequences

CONSTANTS Size, Char

VARIABLES
    fifo,  \* the characters stored, oldest first
    ret    \* return code of the last call and the character it handed out

Init == fifo = <<>> /\ ret = <<0, 0>>

Put(c) ==
    \/ /\ Len(fifo) < Size
       /\ fifo' = Append(fifo, c)
       /\ ret' = <<0, 0>>
    \/ /\ Len(fifo) = Size
       /\ ret' = <<-1, 0>>
       /\ UNCHANGED fifo

Get ==
    \/ /\ fifo # <<>>
       /\ ret' = <<0, Head(fifo)>>
       /\ fifo' = Tail(fifo)
    \/ /\ fifo = <<>>
       /\ ret' = <<-1, 0>>
       /\ UNCHANGED fifo

Next == Get \/ \E c \in Char : Put(c)

Spec == Init /\ [][Next]_<<fifo, ret>>
=============================================================================
