--------------------------- MODULE RingBufProofs ----------------------------
(***************************************************************************)
(* For every size: the pointers stay in the buffer, and the ring is a      *)
(* bounded first-in first-out queue.                                       *)
(***************************************************************************)
EXTENDS RingBuf, SequenceTheorems, TLAPS

\* The write pointer is fill_cnt slots after the read pointer.
PointersAgree == p_w = Slot(p_r, fill_cnt)

\* The inductive invariant: types alone do not tell where the oldest
\* character is, the distance between the pointers does.
RingInv == TypeOK /\ PointersAgree

LEMMA InitInv == RINGBUF_Init => RingInv
  BY RingBufAssumption DEF RINGBUF_Init, RingInv, TypeOK, PointersAgree, Slot

LEMMA StepInv == RingInv /\ [Next]_ringVars => RingInv'
<1> SUFFICES ASSUME RingInv, [Next]_ringVars PROVE RingInv'
  OBVIOUS
<1> USE RingBufAssumption DEF RingInv, TypeOK, PointersAgree, Slot, Rollback
<1>1. ASSUME NEW c \in Char, RINGBUF_Put(c) PROVE RingInv'
  <2>1. CASE fill_cnt >= Size
    BY <1>1, <2>1 DEF RINGBUF_Put
  <2>2. CASE fill_cnt < Size
    <3>1. /\ fill_cnt' = fill_cnt + 1 /\ p_w' = Rollback(p_w + 1)
          /\ ret' = <<0, 0>> /\ buf' = [buf EXCEPT ![p_w] = c] /\ p_r' = p_r
      BY <1>1, <2>2 DEF RINGBUF_Put
    <3>2. TypeOK'
      BY <2>2, <3>1
    <3>3. PointersAgree'
      BY <2>2, <3>1
    <3> QED
      BY <3>2, <3>3
  <2> QED
    BY <2>1, <2>2
<1>2. CASE RINGBUF_Get
  <2>1. CASE fill_cnt <= 0
    BY <1>2, <2>1 DEF RINGBUF_Get
  <2>2. CASE fill_cnt > 0
    <3>1. buf[p_r] \in Char /\ ret' = <<0, buf[p_r]>>
      BY <1>2, <2>2 DEF RINGBUF_Get
    <3>2. ret' \in {-1, 0} \X Char
      BY <3>1
    <3>3. /\ fill_cnt' = fill_cnt - 1 /\ p_r' = Rollback(p_r + 1)
          /\ UNCHANGED <<buf, p_w>>
      BY <1>2, <2>2 DEF RINGBUF_Get
    <3>4. TypeOK'
      BY <2>2, <3>2, <3>3
    <3>5. PointersAgree'
      BY <2>2, <3>3
    <3> QED
      BY <3>4, <3>5
  <2> QED
    BY <2>1, <2>2
<1>3. CASE UNCHANGED ringVars
  BY <1>3 DEF ringVars
<1> QED
  BY <1>1, <1>2, <1>3 DEF Next

\* The pointers never leave the buffer and the count never exceeds its size.
THEOREM TypeCorrect == Spec => []TypeOK
<1>1. RingInv => TypeOK
  BY DEF RingInv
<1> QED
  BY <1>1, InitInv, StepInv, PTL DEF Spec

\* The contents are a sequence of characters, fill_cnt long.
LEMMA ContentsSeq ==
  ASSUME NEW b \in [0 .. Size - 1 -> Char], NEW p \in 0 .. Size - 1,
         NEW n \in 0 .. Size
  PROVE  /\ Window(b, p, n) \in Seq(Char)
         /\ Len(Window(b, p, n)) = n
<1>1. \A j \in 1 .. n : b[Slot(p, j - 1)] \in Char
  BY RingBufAssumption DEF Slot
<1>2. n \in Nat
  BY RingBufAssumption
<1> QED
  BY <1>1, <1>2 DEF Window

\* RINGBUF_Put appends the character it stores.
LEMMA PutAppends ==
  ASSUME RingInv, RingInv', NEW c \in Char, RINGBUF_Put(c), fill_cnt < Size
  PROVE  Contents' = Append(Contents, c)
<1> USE RingBufAssumption DEF RingInv, TypeOK
<1>1. /\ fill_cnt' = fill_cnt + 1
      /\ buf' = [buf EXCEPT ![p_w] = c]
      /\ p_r' = p_r
  BY DEF RINGBUF_Put
<1>2. Slot(p_r, fill_cnt) = p_w
  BY DEF PointersAgree
<1>3. \A j \in 1 .. fill_cnt : Slot(p_r, j - 1) \in 0 .. Size - 1 /\ Slot(p_r, j - 1) # p_w
  BY <1>2 DEF Slot
<1>4. \A j \in 1 .. fill_cnt : Contents'[j] = Contents[j]
  BY <1>1, <1>3 DEF Contents, Window
<1>5. Contents'[fill_cnt + 1] = c
  BY <1>1, <1>2 DEF Contents, Window
<1>6. Contents \in Seq(Char) /\ Len(Contents) = fill_cnt
  BY ContentsSeq DEF Contents
<1>7. Contents' \in Seq(Char) /\ Len(Contents') = fill_cnt + 1
  BY ContentsSeq, <1>1 DEF Contents
<1>8. \A j \in 1 .. fill_cnt + 1 : Contents'[j] = Append(Contents, c)[j]
  BY <1>4, <1>5, <1>6
<1>9. Append(Contents, c) \in Seq(Char) /\ Len(Append(Contents, c)) = fill_cnt + 1
  BY <1>6
<1> QED
  BY <1>7, <1>8, <1>9, SeqEqual

\* RINGBUF_Get hands out the oldest character and removes it.
LEMMA GetTakesHead ==
  ASSUME RingInv, RingInv', RINGBUF_Get, fill_cnt > 0
  PROVE  /\ Contents # <<>>
         /\ buf[p_r] = Head(Contents)
         /\ Contents' = Tail(Contents)
<1> USE RingBufAssumption DEF RingInv, TypeOK
<1>1. /\ fill_cnt' = fill_cnt - 1
      /\ buf' = buf
      /\ p_r' = Rollback(p_r + 1)
  BY DEF RINGBUF_Get
<1>2. Contents \in Seq(Char) /\ Len(Contents) = fill_cnt
  BY ContentsSeq DEF Contents
<1>3. Contents' \in Seq(Char) /\ Len(Contents') = fill_cnt - 1
  BY ContentsSeq, <1>1 DEF Contents
<1>4. Contents # <<>> /\ Contents[1] = buf[p_r]
  <2>1. 1 \in 1 .. fill_cnt /\ Slot(p_r, 1 - 1) = p_r
    BY DEF Slot
  <2>2. Contents[1] = buf[p_r]
    BY <2>1 DEF Contents, Window
  <2> QED
    BY <1>2, <2>2
<1>5. \A j \in 1 .. fill_cnt - 1 : Slot(p_r', j - 1) = Slot(p_r, j)
  BY <1>1 DEF Slot, Rollback
<1>6. \A j \in 1 .. fill_cnt - 1 : Contents'[j] = Contents[j + 1]
  <2> TAKE j \in 1 .. fill_cnt - 1
  <2>1. j \in 1 .. fill_cnt' /\ j + 1 \in 1 .. fill_cnt /\ (j + 1) - 1 = j
    BY <1>1
  <2>2. Contents'[j] = buf[Slot(p_r', j - 1)]
    BY <1>1, <2>1 DEF Contents, Window
  <2>3. Contents[j + 1] = buf[Slot(p_r, j)]
    BY <2>1 DEF Contents, Window
  <2> QED
    BY <1>5, <2>2, <2>3
<1>7. Tail(Contents) \in Seq(Char) /\ Len(Tail(Contents)) = fill_cnt - 1
  BY <1>2, <1>4
<1>8. \A j \in 1 .. fill_cnt - 1 : Tail(Contents)[j] = Contents[j + 1]
  BY <1>2, <1>4
<1>9. Contents' = Tail(Contents)
  BY <1>3, <1>6, <1>7, <1>8, SeqEqual
<1> QED
  BY <1>2, <1>4, <1>9

LEMMA StepRefines ==
  RingInv /\ RingInv' /\ [Next]_ringVars => [Fifo!Next]_<<Contents, ret>>
<1> SUFFICES ASSUME RingInv, RingInv', [Next]_ringVars
             PROVE  [Fifo!Next]_<<Contents, ret>>
  OBVIOUS
<1>0. Contents \in Seq(Char) /\ Len(Contents) = fill_cnt /\ fill_cnt \in 0 .. Size
  BY ContentsSeq DEF RingInv, TypeOK, Contents
<1>1. ASSUME NEW c \in Char, RINGBUF_Put(c) PROVE Fifo!Next
  <2>1. CASE fill_cnt < Size
    BY <1>0, <1>1, <2>1, PutAppends, RingBufAssumption
       DEF RINGBUF_Put, Fifo!Next, Fifo!Put
  <2>2. CASE fill_cnt >= Size
    <3>1. fill_cnt = Size /\ ret' = <<-1, 0>> /\ UNCHANGED Contents
      BY <1>0, <1>1, <2>2, RingBufAssumption DEF RINGBUF_Put, Contents
    <3> QED
      BY <1>0, <3>1 DEF Fifo!Next, Fifo!Put
  <2> QED
    BY <1>0, <2>1, <2>2, RingBufAssumption
<1>2. CASE RINGBUF_Get
  <2>1. CASE fill_cnt > 0
    BY <1>0, <1>2, <2>1, GetTakesHead DEF RINGBUF_Get, Fifo!Next, Fifo!Get
  <2>2. CASE fill_cnt <= 0
    <3>1. Contents = <<>> /\ ret' = <<-1, 0>> /\ UNCHANGED Contents
      BY <1>0, <1>2, <2>2, RingBufAssumption DEF RINGBUF_Get, Contents, Window
    <3> QED
      BY <3>1 DEF Fifo!Next, Fifo!Get
  <2> QED
    BY <1>0, <2>1, <2>2, RingBufAssumption
<1>3. CASE UNCHANGED ringVars
  BY <1>3 DEF ringVars, Contents
<1> QED
  BY <1>1, <1>2, <1>3 DEF Next

LEMMA InitRefines == RINGBUF_Init => Fifo!Init
  BY DEF RINGBUF_Init, Fifo!Init, Contents, Window

\* The ring implements the bounded first-in first-out queue, for every size.
THEOREM IsFifoHolds == Spec => IsFifo
  BY InitInv, StepInv, InitRefines, StepRefines, PTL DEF Spec, IsFifo, Fifo!Spec
=============================================================================
