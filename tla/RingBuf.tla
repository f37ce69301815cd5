------------------------------ MODULE RingBuf -------------------------------
(***************************************************************************)
(* ringbuf.c: a ring of Size characters with a read pointer, a write       *)
(* pointer and a fill count.  The pointers are kept as offsets from p_o.   *)
(* A call is one action: every caller runs in task context, to completion. *)
(***************************************************************************)
EXTENDS Integers, Sequences

CONSTANTS
    Size,  \* r->size
    Char   \* the characters callers put

\* RINGBUF_Init refuses a size below 2.
ASSUME RingBufAssumption ==
    /\ Size \in Nat /\ Size >= 2
    /\ 0 \in Char

VARIABLES
    buf,       \* the memory at p_o
    p_r, p_w,  \* read and write pointer
    fill_cnt,  \* number of characters stored
    ret        \* return code of the last call and *c of a RINGBUF_Get

ringVars == <<buf, p_r, p_w, fill_cnt, ret>>

RINGBUF_Init ==
    /\ buf = [s \in 0 .. Size - 1 |-> 0]   \* os_zalloc in QUEUE_Init
    /\ p_r = 0 /\ p_w = 0
    /\ fill_cnt = 0
    /\ ret = <<0, 0>>

\* Mutant: the pointer rolls over one slot too late.
RollbackLate(p) == IF p > Size THEN 0 ELSE p

\* Mutant: the pointer rolls over one slot too early.
RollbackEarly(p) == IF p >= Size - 1 THEN 0 ELSE p

\* A pointer that passed the physical boundary goes back to p_o.
Rollback(p) == IF p >= Size THEN 0 ELSE p

RINGBUF_Put(c) ==
    \/ /\ fill_cnt >= Size
       /\ ret' = <<-1, 0>>
       /\ UNCHANGED <<buf, p_r, p_w, fill_cnt>>
    \/ /\ fill_cnt < Size
       /\ fill_cnt' = fill_cnt + 1
       /\ buf' = [buf EXCEPT ![p_w] = c]
       /\ p_w' = Rollback(p_w + 1)
       /\ ret' = <<0, 0>>
       /\ UNCHANGED p_r

RINGBUF_Get ==
    \/ /\ fill_cnt <= 0
       /\ ret' = <<-1, 0>>
       /\ UNCHANGED <<buf, p_r, p_w, fill_cnt>>
    \/ /\ fill_cnt > 0
       /\ fill_cnt' = fill_cnt - 1
       /\ ret' = <<0, buf[p_r]>>
       /\ p_r' = Rollback(p_r + 1)
       /\ UNCHANGED <<buf, p_w>>

Next == RINGBUF_Get \/ \E c \in Char : RINGBUF_Put(c)

Spec == RINGBUF_Init /\ [][Next]_ringVars

-----------------------------------------------------------------------------
\* Both pointers stay inside the buffer and the count inside its capacity.
TypeOK ==
    /\ buf \in [0 .. Size - 1 -> Char]
    /\ p_r \in 0 .. Size - 1
    /\ p_w \in 0 .. Size - 1
    /\ fill_cnt \in 0 .. Size
    /\ ret \in {-1, 0} \X Char

\* The slot j characters after position p.
Slot(p, j) == IF p + j >= Size THEN p + j - Size ELSE p + j

\* The n characters from position p on; the ring holds fill_cnt from p_r on.
Window(b, p, n) == [j \in 1 .. n |-> b[Slot(p, j - 1)]]
Contents == Window(buf, p_r, fill_cnt)

\* The ring is a bounded first-in first-out queue, across every rollover of
\* the two pointers: no character is lost, duplicated, reordered or invented,
\* and -1 is returned exactly when the queue is full (Put) or empty (Get).
Fifo == INSTANCE ByteFifo WITH fifo <- Contents
IsFifo == Fifo!Spec
=============================================================================
