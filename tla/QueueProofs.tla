---------------------------- MODULE QueueProofs -----------------------------
(***************************************************************************)
(* For every ring size, every set of messages and every number of calls:   *)
(* the parser never reads an uninitialised flag, and QUEUE_Puts and        *)
(* QUEUE_Gets implement MsgFifo.                                           *)
(*                                                                         *)
(* Each byte in the ring carries a tag saying which byte of which message  *)
(* it is.  The argument is local: what may stand next to what in the ring  *)
(* (Follows).  A failed QUEUE_Puts ends a message early, and then the next *)
(* byte stored is a 7E; so the parser always knows whose bytes it collects.*)
(***************************************************************************)
EXTENDS Queue, SequenceTheorems, TLAPS

\* The tag of what PROTO_AddRb stores after k bytes of message n.
NextTag(n, k) ==
    [n |-> n,
     kind |-> IF k = Len(sent[n]) THEN "end"
              ELSE IF Special(sent[n][k + 1]) THEN "esc" ELSE "data",
     k |-> IF k = Len(sent[n]) THEN k ELSE k + 1]

\* u may stand right after t in the ring.
Follows(t, u) ==
    \/ u.kind = "begin"
    \/ t.kind \in {"begin", "data"} /\ u = NextTag(t.n, t.k)
    \/ t.kind = "esc" /\ u = [n |-> t.n, kind |-> "data", k |-> t.k]

ValidTag(t) ==
    /\ t \in TagSet
    /\ t.n \in 1 .. Len(sent)
    /\ \/ t.kind = "begin" /\ t.k = 0
       \/ t.kind = "esc" /\ t.k \in 1 .. Len(sent[t.n]) /\ Special(sent[t.n][t.k])
       \/ t.kind = "data" /\ t.k \in 1 .. Len(sent[t.n])
       \/ t.kind = "end" /\ t.k = Len(sent[t.n])

\* How a byte of a message is stored.
Stored(b) == IF Special(b) THEN Flip(b) ELSE b
ByteOf(t) ==
    IF t.kind = "begin" THEN 126
    ELSE IF t.kind = "esc" THEN 125
    ELSE IF t.kind = "end" THEN 127
    ELSE Stored(sent[t.n][t.k])

Tagged ==
    \A j \in 1 .. Len(tags) : ValidTag(tags[j]) /\ rb[j] = ByteOf(tags[j])
Linked ==
    \A j \in 1 .. Len(tags) : j < Len(tags) => Follows(tags[j], tags[j + 1])
\* Messages stand in the ring in the order they were offered.
Ordered ==
    \A j, l \in 1 .. Len(tags) :
        j < l => /\ tags[j].n <= tags[l].n
                 /\ tags[j].kind = "end" => tags[j].n < tags[l].n
PendingEnds ==
    /\ \A j \in 1 .. Len(tags) : tags[j].kind = "end" => tags[j].n \in pending
    /\ \A n \in pending :
           \E j \in 1 .. Len(tags) : tags[j].kind = "end" /\ tags[j].n = n

\* Where PROTO_AddRb is in the message it stores.
LastTag == tags[Len(tags)]
Writer ==
    /\ pc \in Adding \/ (pc = "parse" /\ caller = "publish")
          => sent # <<>> /\ caller # "task" /\ Len(sent) \notin pending
    /\ pc = "parse" => caller # "reply"
    /\ pc = "addByte" =>
          /\ tags # <<>> /\ LastTag.n = Len(sent)
          /\ LastTag.kind \in {"begin", "data"} /\ LastTag.k = i
    /\ pc = "addFlipped" =>
          /\ tags # <<>> /\ LastTag = Tag("esc", i + 1)

\* The parser has collected what stands before the byte it reads next.
HeadIsBegin == tags = <<>> \/ tags[1].kind = "begin"
Collected(n, k) ==
    /\ Len(buf) = k
    /\ \A x \in 1 .. k : buf[x] = sent[n][x]
Parser ==
    /\ pc # "parse" => HeadIsBegin
    /\ pc = "parse" =>
          \/ last.kind = "none" /\ isBegin = Garbage /\ HeadIsBegin
          \/ /\ ValidTag(last) /\ last.kind # "end" /\ isBegin = 1
             /\ tags = <<>> \/ Follows(last, tags[1])
             /\ \/ last.kind = "esc" /\ isEsc = 1 /\ Collected(last.n, last.k - 1)
                \/ last.kind # "esc" /\ isEsc = 0 /\ Collected(last.n, last.k)

\* The inductive invariant.
QueueInv ==
    /\ TypeOK
    /\ Tagged /\ Linked /\ Ordered /\ PendingEnds
    /\ Writer /\ Parser

-----------------------------------------------------------------------------
\* Flipping a special byte gives one that is not, and flipping again undoes it.
LEMMA FlipSpecial ==
  \A b \in Byte :
      /\ Stored(b) \in Byte /\ ~Special(Stored(b))
      /\ Special(b) => Flip(Stored(b)) = b
      /\ ~Special(b) => Stored(b) = b
  BY DEF Byte, Stored, Special, Flip

\* A packet is a sequence of at most BufSize bytes.
LEMMA PacketType ==
  ASSUME TypeOK, NEW n \in 1 .. Len(sent)
  PROVE  /\ sent[n] \in Packets /\ sent[n] \in Seq(Byte)
         /\ Len(sent[n]) \in 0 .. BufSize
         /\ \A x \in 1 .. Len(sent[n]) : sent[n][x] \in Byte
<1>1. sent[n] \in Packets
  BY DEF TypeOK
<1>2. sent[n] \in Seq(Byte) /\ Len(sent[n]) <= BufSize
  BY <1>1, QueueAssumption
<1>3. Len(sent[n]) \in Nat
  BY <1>2
<1> QED
  BY <1>1, <1>2, <1>3, QueueAssumption, ElementOfSeq

\* Storing one more byte of the current message keeps the ring well formed.
LEMMA StoreKeeps ==
  ASSUME QueueInv, NEW b \in Byte, NEW u, Store(b, u), UNCHANGED sent,
         sent # <<>>, Len(sent) \notin pending,
         ValidTag(u), u.n = Len(sent), b = ByteOf(u),
         tags = <<>> \/ Follows(LastTag, u),
         tags = <<>> => u.kind = "begin", HeadIsBegin
  PROVE  /\ rb' \in Seq(Byte) /\ Len(rb') <= Size
         /\ tags' \in Seq(TagSet) /\ Len(tags') = Len(rb')
         /\ tags' # <<>> /\ LastTag' = u
         /\ Tagged' /\ Linked' /\ Ordered' /\ HeadIsBegin'
         /\ \A j \in 1 .. Len(tags) : tags'[j] = tags[j]
         /\ Len(tags') = Len(tags) + 1 /\ tags'[Len(tags) + 1] = u
<1>1. /\ rb \in Seq(Byte) /\ tags \in Seq(TagSet) /\ Len(rb) = Len(tags)
      /\ Len(rb) \in Nat /\ Len(rb) < Size /\ Size \in Nat
      /\ u \in TagSet
  BY QueueAssumption DEF QueueInv, TypeOK, Store, ValidTag
<1>2. /\ rb' \in Seq(Byte) /\ Len(rb') = Len(rb) + 1 /\ Len(rb') <= Size
      /\ tags' \in Seq(TagSet) /\ Len(tags') = Len(tags) + 1
  BY <1>1 DEF Store
<1>3. /\ \A j \in 1 .. Len(tags) : tags'[j] = tags[j] /\ rb'[j] = rb[j]
      /\ tags'[Len(tags) + 1] = u /\ rb'[Len(tags) + 1] = b
  BY <1>1 DEF Store
<1>4. tags' # <<>> /\ LastTag' = u
  BY <1>1, <1>2, <1>3 DEF LastTag
<1>5. Tagged'
  <2> SUFFICES ASSUME NEW j \in 1 .. Len(tags')
               PROVE  (ValidTag(tags[j]) /\ rb[j] = ByteOf(tags[j]))'
    BY DEF Tagged
  <2>1. CASE j \in 1 .. Len(tags)
    <3>1. tags'[j] = tags[j] /\ rb'[j] = rb[j]
      BY <2>1, <1>3
    <3>2. ValidTag(tags[j]) /\ rb[j] = ByteOf(tags[j])
      BY <2>1 DEF QueueInv, Tagged
    <3>3. ValidTag(tags[j])'
      BY <3>1, <3>2 DEF ValidTag
    <3>4. (rb[j] = ByteOf(tags[j]))'
      BY <3>1, <3>2 DEF ByteOf
    <3> QED
      BY <3>3, <3>4
  <2>2. CASE j = Len(tags) + 1
    BY <2>2, <1>3 DEF ValidTag, ByteOf, TagSet
  <2> QED
    BY <1>1, <1>2, <2>1, <2>2
<1>6. Linked'
  <2> SUFFICES ASSUME NEW j \in 1 .. Len(tags'), j < Len(tags')
               PROVE  Follows(tags[j], tags[j + 1])'
    BY DEF Linked
  <2>1. CASE j < Len(tags)
    <3>0. j \in 1 .. Len(tags) /\ j + 1 \in 1 .. Len(tags)
      BY <1>1, <1>2, <2>1
    <3>1. /\ j \in 1 .. Len(tags) /\ j + 1 \in 1 .. Len(tags)
          /\ tags'[j] = tags[j] /\ tags'[j + 1] = tags[j + 1]
      BY <1>3, <3>0
    <3>2. Follows(tags[j], tags[j + 1])
      BY <2>1, <3>1 DEF QueueInv, Linked
    <3> QED
      BY <3>1, <3>2 DEF Follows, NextTag
  <2>2. CASE j = Len(tags)
    <3>1. tags'[j] = LastTag /\ tags'[j + 1] = u /\ tags # <<>>
      BY <1>1, <1>2, <1>3, <2>2 DEF LastTag
    <3> QED
      BY <3>1 DEF Follows, NextTag
  <2> QED
    BY <1>1, <1>2, <2>1, <2>2
<1>7. Ordered'
  <2> SUFFICES ASSUME NEW j \in 1 .. Len(tags'), NEW l \in 1 .. Len(tags'), j < l
               PROVE  /\ tags'[j].n <= tags'[l].n
                      /\ tags'[j].kind = "end" => tags'[j].n < tags'[l].n
    BY DEF Ordered
  <2>1. CASE l \in 1 .. Len(tags)
    BY <1>1, <1>2, <1>3, <2>1 DEF QueueInv, Ordered
  <2>2. CASE l = Len(tags) + 1
    <3>1. j \in 1 .. Len(tags) /\ tags'[j] = tags[j] /\ tags'[l] = u
      BY <1>1, <1>2, <1>3, <2>2
    <3>2. tags[j].n \in 1 .. Len(sent) /\ (tags[j].kind = "end" => tags[j].n \in pending)
      BY <3>1 DEF QueueInv, Tagged, ValidTag, PendingEnds
    <3>3. Len(sent) \in Nat
      BY DEF QueueInv, TypeOK
    <3> QED
      BY <3>1, <3>2, <3>3
  <2> QED
    BY <1>1, <1>2, <2>1, <2>2
<1>8. HeadIsBegin'
  BY <1>1, <1>2, <1>3 DEF HeadIsBegin
<1> QED
  BY <1>1, <1>2, <1>3, <1>4, <1>5, <1>6, <1>7, <1>8

\* Taking the oldest byte out keeps the ring well formed.
LEMMA FetchKeeps ==
  ASSUME QueueInv, NEW S, Fetch(S), UNCHANGED sent
  PROVE  /\ rb' \in Seq(Byte) /\ Len(rb') <= Size
         /\ tags' \in Seq(TagSet) /\ Len(tags') = Len(rb')
         /\ last' = tags[1] /\ ValidTag(tags[1])
         /\ Head(rb) = ByteOf(tags[1])
         /\ tags' = <<>> \/ Follows(tags[1], tags'[1])
         /\ Tagged' /\ Linked' /\ Ordered'
         /\ tags # <<>> /\ Len(tags) \in Nat /\ Len(tags') = Len(tags) - 1
         /\ \A j \in 1 .. Len(tags) - 1 : tags'[j] = tags[j + 1]
<1>1. /\ rb \in Seq(Byte) /\ tags \in Seq(TagSet) /\ Len(rb) = Len(tags)
      /\ Len(tags) \in Nat /\ rb # <<>> /\ Len(rb) <= Size /\ Size \in Nat
  BY QueueAssumption DEF QueueInv, TypeOK, Fetch
<1>2. tags # <<>> /\ Len(tags) >= 1
  BY <1>1
<1>3. /\ rb' \in Seq(Byte) /\ Len(rb') = Len(rb) - 1
      /\ tags' \in Seq(TagSet) /\ Len(tags') = Len(tags) - 1
      /\ \A j \in 1 .. Len(tags) - 1 : tags'[j] = tags[j + 1] /\ rb'[j] = rb[j + 1]
  BY <1>1, <1>2 DEF Fetch
<1>4. /\ last' = tags[1] /\ Head(rb) = rb[1] /\ ValidTag(tags[1])
      /\ rb[1] = ByteOf(tags[1])
  BY <1>1, <1>2 DEF Fetch, QueueInv, Tagged
<1>5. Tagged'
  <2> SUFFICES ASSUME NEW j \in 1 .. Len(tags')
               PROVE  (ValidTag(tags[j]) /\ rb[j] = ByteOf(tags[j]))'
    BY DEF Tagged
  <2>1. j + 1 \in 1 .. Len(tags) /\ tags'[j] = tags[j + 1] /\ rb'[j] = rb[j + 1]
    BY <1>1, <1>3
  <2> QED
    BY <2>1 DEF QueueInv, Tagged, ValidTag, ByteOf, TagSet
<1>6. Linked'
  <2> SUFFICES ASSUME NEW j \in 1 .. Len(tags'), j < Len(tags')
               PROVE  Follows(tags[j], tags[j + 1])'
    BY DEF Linked
  <2>1. /\ j + 1 \in 1 .. Len(tags) /\ j + 1 < Len(tags)
        /\ tags'[j] = tags[j + 1] /\ tags'[j + 1] = tags[(j + 1) + 1]
    BY <1>1, <1>3
  <2> QED
    BY <2>1 DEF QueueInv, Linked, Follows, NextTag
<1>7. Ordered'
  <2> SUFFICES ASSUME NEW j \in 1 .. Len(tags'), NEW l \in 1 .. Len(tags'), j < l
               PROVE  /\ tags'[j].n <= tags'[l].n
                      /\ tags'[j].kind = "end" => tags'[j].n < tags'[l].n
    BY DEF Ordered
  <2>1. /\ j + 1 \in 1 .. Len(tags) /\ l + 1 \in 1 .. Len(tags) /\ j + 1 < l + 1
        /\ tags'[j] = tags[j + 1] /\ tags'[l] = tags[l + 1]
    BY <1>1, <1>3
  <2> QED
    BY <2>1 DEF QueueInv, Ordered
<1>8. tags' = <<>> \/ Follows(tags[1], tags'[1])
  <2> SUFFICES ASSUME tags' # <<>> PROVE Follows(tags[1], tags'[1])
    OBVIOUS
  <2>1. Len(tags) >= 2 /\ tags'[1] = tags[2]
    BY <1>1, <1>2, <1>3
  <2> QED
    BY <1>1, <2>1 DEF QueueInv, Linked
<1>9. Len(rb') <= Size
  BY <1>1, <1>3
<1> QED
  BY <1>1, <1>2, <1>3, <1>4, <1>5, <1>6, <1>7, <1>8, <1>9

-----------------------------------------------------------------------------
LEMMA EmptyGets == <<-1, <<>>>> \in {0, -1} \X Seq(Byte)
<1>1. <<>> \in Seq(Byte)
  OBVIOUS
<1> QED
  BY <1>1

LEMMA InitInv == Init => QueueInv
<1> SUFFICES ASSUME Init PROVE QueueInv
  OBVIOUS
<1> USE DEF Init
<1>1. TypeOK
  BY QueueAssumption, EmptyGets DEF TypeOK, Adding, NoTag, TagSet, Kind, Garbage
<1>2. Tagged /\ Linked /\ Ordered /\ PendingEnds
  BY DEF Tagged, Linked, Ordered, PendingEnds
<1>3. Writer /\ Parser
  BY DEF Writer, Parser, HeadIsBegin, Adding
<1> QED
  BY <1>1, <1>2, <1>3 DEF QueueInv

\* A new message leaves the tags of the older ones valid.
LEMMA CallInv ==
  ASSUME QueueInv, NEW c \in {"publish", "reply"}, NEW m \in Packets, Call(c, m)
  PROVE  QueueInv'
<1>1. /\ sent \in Seq(Packets) /\ Len(sent) \in Nat /\ Len(sent) < MaxPuts
      /\ pending \subseteq 1 .. Len(sent) /\ MaxPuts \in Nat
  BY QueueAssumption DEF QueueInv, TypeOK, Call
<1>2. /\ sent' \in Seq(Packets) /\ Len(sent') = Len(sent) + 1 /\ Len(sent') <= MaxPuts
      /\ \A n \in 1 .. Len(sent) : sent'[n] = sent[n]
  BY <1>1 DEF Call
<1>3. UNCHANGED <<rb, tags, pending, buf, isEsc, isBegin, last, puts, gets, ok>>
  BY DEF Call
<1>4. pc' = "addBegin" /\ i' = 0 /\ caller' = c /\ pc = "idle"
  BY DEF Call
<1>5. TypeOK'
  BY <1>1, <1>2, <1>3, <1>4, QueueAssumption DEF QueueInv, TypeOK, Adding
<1>6. Tagged'
  <2> SUFFICES ASSUME NEW j \in 1 .. Len(tags)
               PROVE  (ValidTag(tags[j]) /\ rb[j] = ByteOf(tags[j]))'
    BY <1>3 DEF Tagged
  <2>1. ValidTag(tags[j]) /\ rb[j] = ByteOf(tags[j])
    BY DEF QueueInv, Tagged
  <2>2. sent'[tags[j].n] = sent[tags[j].n] /\ tags[j].n \in 1 .. Len(sent')
    BY <1>1, <1>2, <2>1 DEF ValidTag
  <2> QED
    BY <1>3, <2>1, <2>2 DEF ValidTag, ByteOf, TagSet
<1>7. Linked'
  <2> SUFFICES ASSUME NEW j \in 1 .. Len(tags), j < Len(tags)
               PROVE  Follows(tags[j], tags[j + 1])'
    BY <1>3 DEF Linked
  <2>1. ValidTag(tags[j]) /\ Follows(tags[j], tags[j + 1])
    BY DEF QueueInv, Tagged, Linked
  <2>2. sent'[tags[j].n] = sent[tags[j].n]
    BY <1>2, <2>1 DEF ValidTag
  <2> QED
    BY <1>3, <2>1, <2>2 DEF Follows, NextTag
<1>8. Ordered' /\ PendingEnds'
  BY <1>3 DEF QueueInv, Ordered, PendingEnds
<1>9. Writer'
  BY <1>1, <1>2, <1>3, <1>4 DEF Writer, Adding
<1>10. Parser'
  BY <1>3, <1>4 DEF QueueInv, Parser, HeadIsBegin
<1> QED
  BY <1>5, <1>6, <1>7, <1>8, <1>9, <1>10 DEF QueueInv

\* Nothing in the ring changes when the ring, sent and pending do not.
LEMMA SameRing ==
  ASSUME QueueInv, UNCHANGED <<rb, tags, sent, pending>>
  PROVE  Tagged' /\ Linked' /\ Ordered' /\ PendingEnds'
         /\ (HeadIsBegin => HeadIsBegin')
  BY DEF QueueInv, Tagged, Linked, Ordered, PendingEnds, ValidTag, ByteOf, Follows,
     NextTag, HeadIsBegin, TagSet

LEMMA TaskGetsInv == ASSUME QueueInv, TaskGets PROVE QueueInv'
<1> USE DEF TaskGets, PROTO_Init
<1>1. Tagged' /\ Linked' /\ Ordered' /\ PendingEnds'
  BY SameRing
<1>2. TypeOK'
  BY QueueAssumption DEF QueueInv, TypeOK, NoTag, TagSet, Kind, Garbage, Adding
<1>3. Writer'
  BY DEF Writer, Adding
<1>4. Parser'
  BY DEF QueueInv, Parser, HeadIsBegin, NoTag
<1> QED
  BY <1>1, <1>2, <1>3, <1>4 DEF QueueInv

LEMMA AddFullInv == ASSUME QueueInv, AddFull PROVE QueueInv'
<1> USE DEF AddFull, PROTO_Init, parserVars
<1>1. Tagged' /\ Linked' /\ Ordered' /\ PendingEnds'
  BY SameRing
<1>2. TypeOK'
  <2>1. pc' \in {"idle", "parse"} /\ puts' = -1
    OBVIOUS
  <2>2. last' \in TagSet /\ isEsc' \in {0, 1} /\ isBegin' \in {0, 1, Garbage}
    BY DEF QueueInv, TypeOK, NoTag, TagSet, Kind
  <2>3. buf' \in Seq(Byte) /\ Len(buf') <= BufSize
    <3>1. buf' = <<>> \/ buf' = buf
      OBVIOUS
    <3>2. <<>> \in Seq(Byte) /\ Len(<<>>) <= BufSize
      BY QueueAssumption
    <3>3. buf \in Seq(Byte) /\ Len(buf) <= BufSize
      BY DEF QueueInv, TypeOK
    <3> HIDE DEF AddFull
    <3> QED
      BY <3>1, <3>2, <3>3
  <2> QED
    BY <2>1, <2>2, <2>3 DEF QueueInv, TypeOK, Adding
<1>3. Writer'
  BY DEF QueueInv, Writer, Adding
<1>4. Parser'
  BY DEF QueueInv, Parser, HeadIsBegin, NoTag, Adding
<1> QED
  BY <1>1, <1>2, <1>3, <1>4 DEF QueueInv

LEMMA ParseEmptyInv == ASSUME QueueInv, ParseEmpty PROVE QueueInv'
<1> USE DEF ParseEmpty
<1>1. Tagged' /\ Linked' /\ Ordered' /\ PendingEnds'
  BY SameRing
<1>2. TypeOK'
  <2>1. ok' \in BOOLEAN
    BY DEF QueueInv, TypeOK
  <2>2. gets' \in {0, -1} \X Seq(Byte)
    BY EmptyGets
  <2> QED
    BY <2>1, <2>2 DEF QueueInv, TypeOK
<1>3. Writer'
  BY DEF QueueInv, Writer, Adding
<1>4. tags = <<>>
  BY DEF QueueInv, TypeOK
<1>5. Parser'
  BY <1>4 DEF Parser, HeadIsBegin
<1> QED
  BY <1>1, <1>2, <1>3, <1>5 DEF QueueInv

-----------------------------------------------------------------------------
\* The actions of PROTO_AddRb that store a byte inside a message.
LEMMA AddInv ==
  ASSUME QueueInv, NEW b \in Byte, NEW u, Store(b, u), ValidTag(u),
         u.n = Len(sent), b = ByteOf(u), u.kind # "end",
         pc \in Adding,
         tags = <<>> \/ Follows(LastTag, u), tags = <<>> => u.kind = "begin",
         UNCHANGED <<caller, buf, isEsc, isBegin, last, puts, gets, ok, sent, pending>>,
         i' \in 0 .. BufSize,
         \/ pc' = "addByte" /\ u.kind \in {"begin", "data"} /\ u.k = i'
         \/ pc' = "addFlipped" /\ u = Tag("esc", i' + 1)
  PROVE  QueueInv'
<1>1. sent # <<>> /\ Len(sent) \notin pending /\ HeadIsBegin /\ caller # "task"
  BY DEF QueueInv, Writer, Parser, Adding
<1>2. /\ rb' \in Seq(Byte) /\ Len(rb') <= Size
      /\ tags' \in Seq(TagSet) /\ Len(tags') = Len(rb')
      /\ tags' # <<>> /\ LastTag' = u
      /\ Tagged' /\ Linked' /\ Ordered' /\ HeadIsBegin'
      /\ \A j \in 1 .. Len(tags) : tags'[j] = tags[j]
      /\ Len(tags') = Len(tags) + 1 /\ tags'[Len(tags) + 1] = u
  BY <1>1, StoreKeeps
<1>3. Len(tags) \in Nat
  BY DEF QueueInv, TypeOK
<1>4. PendingEnds'
  <2>1. \A j \in 1 .. Len(tags) + 1 : j \in 1 .. Len(tags) \/ j = Len(tags) + 1
    BY <1>3
  <2>2. \A j \in 1 .. Len(tags) : j \in 1 .. Len(tags) + 1
    BY <1>3
  <2> QED
    BY <1>2, <2>1, <2>2 DEF QueueInv, PendingEnds
<1>5. TypeOK'
  BY <1>2 DEF QueueInv, TypeOK, Adding
<1>6. Writer'
  BY <1>1, <1>2 DEF Writer, Adding, Tag
<1>7. Parser'
  BY <1>2 DEF Parser
<1> QED
  BY <1>2, <1>4, <1>5, <1>6, <1>7 DEF QueueInv

\* The message being stored, and how much of it is.
LEMMA WriterPacket ==
  ASSUME QueueInv, pc \in Adding
  PROVE  /\ Len(sent) \in 1 .. Len(sent) /\ Len(sent) \in Nat
         /\ Packet = sent[Len(sent)] /\ Len(Packet) \in 0 .. BufSize
         /\ \A x \in 1 .. Len(Packet) : Packet[x] \in Byte
         /\ i \in Nat /\ BufSize \in Nat
<1>1. sent # <<>> /\ sent \in Seq(Packets)
  BY DEF QueueInv, Writer, TypeOK
<1>2. Len(sent) \in Nat /\ Len(sent) \in 1 .. Len(sent)
  BY <1>1
<1>3. i \in Nat /\ BufSize \in Nat
  BY QueueAssumption DEF QueueInv, TypeOK
<1> QED
  BY <1>2, <1>3, PacketType DEF Packet, QueueInv

LEMMA AddBeginInv == ASSUME QueueInv, AddBegin PROVE QueueInv'
<1>1. /\ Len(sent) \in 1 .. Len(sent) /\ Len(sent) \in Nat /\ BufSize \in Nat
      /\ pc \in Adding
  BY WriterPacket DEF AddBegin, Adding
<1>2. /\ ValidTag(Tag("begin", 0)) /\ Tag("begin", 0).n = Len(sent)
      /\ 126 = ByteOf(Tag("begin", 0)) /\ Tag("begin", 0).kind = "begin"
      /\ Tag("begin", 0).k = 0 /\ 126 \in Byte
  BY <1>1 DEF Tag, ValidTag, TagSet, Kind, ByteOf, Byte
<1>3. tags = <<>> \/ Follows(LastTag, Tag("begin", 0))
  BY <1>2 DEF Follows
<1>4. Store(126, Tag("begin", 0)) /\ pc' = "addByte" /\ i' = 0 /\ 0 \in 0 .. BufSize
  BY <1>1 DEF AddBegin
<1>5. UNCHANGED <<caller, buf, isEsc, isBegin, last, puts, gets, ok, sent, pending>>
  BY DEF AddBegin
<1> QED
  BY <1>1, <1>2, <1>3, <1>4, <1>5, AddInv

LEMMA AddRawInv == ASSUME QueueInv, AddRaw PROVE QueueInv'
<1> DEFINE u == Tag("data", i + 1)
<1>1. /\ Len(sent) \in 1 .. Len(sent) /\ Len(sent) \in Nat /\ BufSize \in Nat
      /\ Packet = sent[Len(sent)] /\ Len(Packet) \in 0 .. BufSize
      /\ \A x \in 1 .. Len(Packet) : Packet[x] \in Byte
      /\ i \in Nat /\ pc \in Adding
  BY WriterPacket DEF AddRaw, Adding
<1>2. /\ i + 1 \in 1 .. Len(Packet) /\ Packet[i + 1] \in Byte
      /\ i + 1 \in 0 .. BufSize /\ i # Len(Packet) /\ ~Special(Packet[i + 1])
  BY <1>1 DEF AddRaw
<1>3. /\ ValidTag(u) /\ u.n = Len(sent) /\ u.kind = "data" /\ u.k = i + 1
      /\ Packet[i + 1] = ByteOf(u)
  BY <1>1, <1>2 DEF Tag, ValidTag, TagSet, Kind, ByteOf, Stored
<1>4. /\ tags # <<>> /\ LastTag.n = Len(sent)
      /\ LastTag.kind \in {"begin", "data"} /\ LastTag.k = i
  BY DEF AddRaw, QueueInv, Writer
<1>5. u = NextTag(LastTag.n, LastTag.k)
  BY <1>1, <1>2, <1>4 DEF NextTag, Tag
<1>6. Follows(LastTag, u)
  BY <1>4, <1>5 DEF Follows
<1>7. Store(Packet[i + 1], u) /\ pc' = "addByte" /\ i' = i + 1
  BY DEF AddRaw
<1>8. UNCHANGED <<caller, buf, isEsc, isBegin, last, puts, gets, ok, sent, pending>>
  BY DEF AddRaw
<1> HIDE DEF u
<1> QED
  BY <1>1, <1>2, <1>3, <1>4, <1>6, <1>7, <1>8, AddInv

LEMMA AddEscInv == ASSUME QueueInv, AddEsc PROVE QueueInv'
<1> DEFINE u == Tag("esc", i + 1)
<1>1. /\ Len(sent) \in 1 .. Len(sent) /\ Len(sent) \in Nat /\ BufSize \in Nat
      /\ Packet = sent[Len(sent)] /\ Len(Packet) \in 0 .. BufSize
      /\ i \in 0 .. BufSize /\ i \in Nat /\ pc \in Adding
  BY WriterPacket DEF AddEsc, Adding, QueueInv, TypeOK
<1>2. i + 1 \in 1 .. Len(Packet) /\ i # Len(Packet) /\ Special(Packet[i + 1])
  BY <1>1 DEF AddEsc
<1>3. /\ ValidTag(u) /\ u.n = Len(sent) /\ u.kind = "esc" /\ 125 = ByteOf(u)
      /\ 125 \in Byte
  BY <1>1, <1>2 DEF Tag, ValidTag, TagSet, Kind, ByteOf, Byte
<1>4. /\ tags # <<>> /\ LastTag.n = Len(sent)
      /\ LastTag.kind \in {"begin", "data"} /\ LastTag.k = i
  BY DEF AddEsc, QueueInv, Writer
<1>5. u = NextTag(LastTag.n, LastTag.k)
  BY <1>1, <1>2, <1>4 DEF NextTag, Tag
<1>6. Follows(LastTag, u)
  BY <1>4, <1>5 DEF Follows
<1>7. Store(125, u) /\ pc' = "addFlipped" /\ i' = i /\ u = Tag("esc", i' + 1)
  BY DEF AddEsc
<1>8. UNCHANGED <<caller, buf, isEsc, isBegin, last, puts, gets, ok, sent, pending>>
  BY DEF AddEsc
<1> HIDE DEF u
<1> QED
  BY <1>1, <1>3, <1>4, <1>6, <1>7, <1>8, AddInv

LEMMA AddFlippedInv == ASSUME QueueInv, AddFlipped PROVE QueueInv'
<1> DEFINE u == Tag("data", i + 1)
<1>1. /\ Len(sent) \in 1 .. Len(sent) /\ Len(sent) \in Nat /\ BufSize \in Nat
      /\ Packet = sent[Len(sent)] /\ Len(Packet) \in 0 .. BufSize
      /\ \A x \in 1 .. Len(Packet) : Packet[x] \in Byte
      /\ i \in Nat /\ pc \in Adding
  BY WriterPacket DEF AddFlipped, Adding
<1>2. tags # <<>> /\ LastTag = Tag("esc", i + 1) /\ ValidTag(LastTag)
  <2>1. tags # <<>> /\ LastTag = Tag("esc", i + 1)
    BY DEF AddFlipped, QueueInv, Writer
  <2>2. Len(tags) \in 1 .. Len(tags)
    BY <2>1 DEF QueueInv, TypeOK
  <2> QED
    BY <2>1, <2>2 DEF QueueInv, Tagged, LastTag
<1>3. /\ i + 1 \in 1 .. Len(Packet) /\ Special(Packet[i + 1])
      /\ Packet[i + 1] \in Byte /\ i + 1 \in 0 .. BufSize
  BY <1>1, <1>2 DEF ValidTag, Tag
<1>4. /\ ValidTag(u) /\ u.n = Len(sent) /\ u.kind = "data" /\ u.k = i + 1
      /\ Flip(Packet[i + 1]) = ByteOf(u)
  BY <1>1, <1>3 DEF Tag, ValidTag, TagSet, Kind, ByteOf, Stored
<1>5. Flip(Packet[i + 1]) \in Byte
  BY <1>3, FlipSpecial DEF Stored
<1>6. Follows(LastTag, u)
  BY <1>2 DEF Follows, Tag
<1>7. Store(Flip(Packet[i + 1]), u) /\ pc' = "addByte" /\ i' = i + 1
  BY DEF AddFlipped
<1>8. UNCHANGED <<caller, buf, isEsc, isBegin, last, puts, gets, ok, sent, pending>>
  BY DEF AddFlipped
<1> HIDE DEF u
<1> QED
  BY <1>1, <1>2, <1>3, <1>4, <1>5, <1>6, <1>7, <1>8, AddInv

\* The closing byte makes the message pending.
LEMMA AddEndInv == ASSUME QueueInv, AddEnd PROVE QueueInv'
<1> DEFINE u == Tag("end", i)
<1>1. /\ Len(sent) \in 1 .. Len(sent) /\ Len(sent) \in Nat /\ BufSize \in Nat
      /\ Packet = sent[Len(sent)] /\ Len(Packet) \in 0 .. BufSize
      /\ i \in Nat /\ pc \in Adding /\ i = Len(Packet)
  BY WriterPacket DEF AddEnd, Adding
<1>2. /\ ValidTag(u) /\ u.n = Len(sent) /\ u.kind = "end" /\ 127 = ByteOf(u)
      /\ 127 \in Byte
  BY <1>1 DEF Tag, ValidTag, TagSet, Kind, ByteOf, Byte
<1>3. /\ tags # <<>> /\ LastTag.n = Len(sent)
      /\ LastTag.kind \in {"begin", "data"} /\ LastTag.k = i
  BY DEF AddEnd, QueueInv, Writer
<1>4. u = NextTag(LastTag.n, LastTag.k)
  BY <1>1, <1>3 DEF NextTag, Tag
<1>5. Follows(LastTag, u)
  BY <1>3, <1>4 DEF Follows
<1>6. sent # <<>> /\ Len(sent) \notin pending /\ HeadIsBegin
  BY <1>1 DEF QueueInv, Writer, Parser, Adding
<1>7. Store(127, u) /\ UNCHANGED sent
  BY DEF AddEnd
<1> HIDE DEF u
<1>8. /\ rb' \in Seq(Byte) /\ Len(rb') <= Size
      /\ tags' \in Seq(TagSet) /\ Len(tags') = Len(rb')
      /\ Tagged' /\ Linked' /\ Ordered' /\ HeadIsBegin'
      /\ \A j \in 1 .. Len(tags) : tags'[j] = tags[j]
      /\ Len(tags') = Len(tags) + 1 /\ tags'[Len(tags) + 1] = u
  BY <1>2, <1>3, <1>5, <1>6, <1>7, StoreKeeps
<1>9. Len(tags) \in Nat
  BY DEF QueueInv, TypeOK
<1>10. PendingEnds'
  <2>1. \A j \in 1 .. Len(tags) + 1 : j \in 1 .. Len(tags) \/ j = Len(tags) + 1
    BY <1>9
  <2>2. Len(tags) + 1 \in 1 .. Len(tags) + 1
        /\ \A j \in 1 .. Len(tags) : j \in 1 .. Len(tags) + 1
    BY <1>9
  <2>3. pending' = pending \cup {Len(sent)}
    BY DEF AddEnd
  <2> QED
    BY <1>2, <1>8, <2>1, <2>2, <2>3 DEF QueueInv, PendingEnds
<1>11. TypeOK'
  BY <1>1, <1>8 DEF AddEnd, QueueInv, TypeOK, Adding
<1>12. Writer' /\ Parser'
  BY <1>8 DEF AddEnd, Writer, Parser, Adding
<1> QED
  BY <1>8, <1>10, <1>11, <1>12 DEF QueueInv

-----------------------------------------------------------------------------
\* A byte that is not a 7F leaves the set of complete messages alone.
LEMMA FetchPending ==
  ASSUME QueueInv, NEW S, Fetch(S), UNCHANGED <<sent, pending>>, 127 \notin S
  PROVE  PendingEnds'
<1>1. /\ Head(rb) = ByteOf(tags[1]) /\ ValidTag(tags[1])
      /\ Len(tags) \in Nat /\ Len(tags') = Len(tags) - 1 /\ tags # <<>>
      /\ \A j \in 1 .. Len(tags) - 1 : tags'[j] = tags[j + 1]
  BY FetchKeeps
<1>2. tags[1].kind # "end"
  BY <1>1 DEF Fetch, ByteOf
<1>3. \A j \in 1 .. Len(tags) - 1 : j + 1 \in 1 .. Len(tags)
  BY <1>1
<1>4. ASSUME NEW n \in pending
      PROVE  \E j \in 1 .. Len(tags) - 1 : tags'[j].kind = "end" /\ tags'[j].n = n
  <2>1. PICK j \in 1 .. Len(tags) : tags[j].kind = "end" /\ tags[j].n = n
    BY DEF QueueInv, PendingEnds
  <2>2. j # 1
    BY <1>2, <2>1
  <2>3. j - 1 \in 1 .. Len(tags) - 1 /\ (j - 1) + 1 = j
    BY <1>1, <2>2
  <2>4. tags'[j - 1] = tags[j]
    BY <1>1, <2>3
  <2> QED
    BY <2>1, <2>3, <2>4
<1>5. \A j \in 1 .. Len(tags) - 1 : tags'[j].kind = "end" => tags'[j].n \in pending
  BY <1>1, <1>3 DEF QueueInv, PendingEnds
<1> QED
  BY <1>1, <1>4, <1>5 DEF PendingEnds

\* What the parser knows when it reads a byte of a message.
LEMMA ParserKnows ==
  ASSUME QueueInv, NEW S, Fetch(S), UNCHANGED sent, tags[1].kind # "begin"
  PROVE  /\ ValidTag(last) /\ isBegin = 1 /\ last.kind # "end"
         /\ Follows(last, tags[1]) /\ tags[1].n = last.n
         /\ \/ last.kind = "esc" /\ isEsc = 1 /\ Collected(last.n, last.k - 1)
            \/ last.kind # "esc" /\ isEsc = 0 /\ Collected(last.n, last.k)
<1>1. tags # <<>> /\ pc = "parse" /\ ~HeadIsBegin
  BY FetchKeeps DEF Fetch, HeadIsBegin
<1>2. /\ ValidTag(last) /\ last.kind # "end" /\ isBegin = 1
      /\ tags = <<>> \/ Follows(last, tags[1])
      /\ \/ last.kind = "esc" /\ isEsc = 1 /\ Collected(last.n, last.k - 1)
         \/ last.kind # "esc" /\ isEsc = 0 /\ Collected(last.n, last.k)
  BY <1>1 DEF QueueInv, Parser
<1>3. tags[1].n = last.n
  BY <1>1, <1>2 DEF Follows, NextTag
<1> QED
  BY <1>1, <1>2, <1>3

\* The parts of the invariant every byte read keeps alike.
LEMMA ParseCommon ==
  ASSUME QueueInv, NEW S, Fetch(S), 127 \notin S,
         UNCHANGED <<pc, caller, i, puts, gets, ok, sent, pending>>,
         buf' \in Seq(Byte), Len(buf') <= BufSize,
         isEsc' \in {0, 1}, isBegin' \in {0, 1, Garbage}, Parser'
  PROVE  QueueInv'
<1>1. /\ rb' \in Seq(Byte) /\ Len(rb') <= Size
      /\ tags' \in Seq(TagSet) /\ Len(tags') = Len(rb')
      /\ last' = tags[1] /\ ValidTag(tags[1])
      /\ Tagged' /\ Linked' /\ Ordered'
  BY FetchKeeps
<1>2. PendingEnds'
  BY FetchPending
<1>3. TypeOK'
  BY <1>1 DEF QueueInv, TypeOK, ValidTag
<1>4. Writer'
  BY DEF Fetch, QueueInv, Writer, Adding
<1> QED
  BY <1>1, <1>2, <1>3, <1>4 DEF QueueInv

\* The byte in front tells the kind of its tag.
LEMMA KindOfByte ==
  ASSUME TypeOK, NEW t, ValidTag(t)
  PROVE  /\ ByteOf(t) = 125 => t.kind = "esc"
         /\ ByteOf(t) = 126 => t.kind = "begin"
         /\ ByteOf(t) = 127 => t.kind = "end"
         /\ ByteOf(t) \notin {125, 126, 127} => t.kind = "data"
<1>1. ASSUME t.kind = "data" PROVE ByteOf(t) \notin {125, 126, 127}
  <2>1. sent[t.n][t.k] \in Byte
    BY <1>1, PacketType DEF ValidTag
  <2> QED
    BY <1>1, <2>1, FlipSpecial DEF ByteOf, Special
<1> QED
  BY <1>1 DEF ValidTag, ByteOf

LEMMA ParseEscInv == ASSUME QueueInv, ParseEsc PROVE QueueInv'
<1>1. /\ Fetch({125}) /\ isEsc' = 1
      /\ UNCHANGED <<pc, caller, i, buf, isBegin, puts, gets, ok, sent, pending>>
  BY DEF ParseEsc
<1>2. /\ last' = tags[1] /\ ValidTag(tags[1]) /\ 125 = ByteOf(tags[1])
      /\ tags' = <<>> \/ Follows(tags[1], tags'[1])
  BY <1>1, FetchKeeps DEF Fetch
<1>3. tags[1].kind = "esc"
  BY <1>2, KindOfByte DEF QueueInv
<1>4. /\ ValidTag(last) /\ isBegin = 1 /\ last.kind # "end" /\ Follows(last, tags[1])
      /\ tags[1].n = last.n
      /\ \/ last.kind = "esc" /\ isEsc = 1 /\ Collected(last.n, last.k - 1)
         \/ last.kind # "esc" /\ isEsc = 0 /\ Collected(last.n, last.k)
  BY <1>1, <1>3, ParserKnows
<1>5. last.kind # "esc" /\ tags[1].k = last.k + 1
  BY <1>3, <1>4 DEF Follows, NextTag
<1>6. last.k \in Nat /\ tags[1].k - 1 = last.k
  BY <1>4, <1>5 DEF ValidTag, TagSet
<1>8. Collected(tags[1].n, tags[1].k - 1)
  BY <1>4, <1>5, <1>6
<1>9. Len(buf) = tags[1].k - 1 /\ \A x \in 1 .. tags[1].k - 1 : buf[x] = sent[tags[1].n][x]
  BY <1>8 DEF Collected
<1>10. Parser'
  <2>1. ValidTag(last)' /\ (tags = <<>> \/ Follows(last, tags[1]))'
    BY <1>1, <1>2 DEF ValidTag, Follows, NextTag
  <2>2. Collected(last.n, last.k - 1)'
    BY <1>1, <1>2, <1>9 DEF Collected
  <2>3. pc' = "parse" /\ last'.kind = "esc" /\ isEsc' = 1 /\ isBegin' = 1
    BY <1>1, <1>2, <1>3, <1>4 DEF Fetch
  <2> QED
    BY <2>1, <2>2, <2>3 DEF Parser
<1>11. buf' \in Seq(Byte) /\ Len(buf') <= BufSize
  BY <1>1 DEF QueueInv, TypeOK
<1> QED
  BY <1>1, <1>4, <1>10, <1>11, ParseCommon

LEMMA ParseBeginInv == ASSUME QueueInv, ParseBegin PROVE QueueInv'
<1>1. /\ Fetch({126}) /\ isEsc' = 0 /\ isBegin' = 1 /\ buf' = <<>>
      /\ UNCHANGED <<pc, caller, i, puts, gets, ok, sent, pending>>
  BY DEF ParseBegin
<1>2. /\ last' = tags[1] /\ ValidTag(tags[1]) /\ 126 = ByteOf(tags[1])
      /\ tags' = <<>> \/ Follows(tags[1], tags'[1])
  BY <1>1, FetchKeeps DEF Fetch
<1>3. tags[1].kind = "begin"
  BY <1>2, KindOfByte DEF QueueInv
<1>4. tags[1].k = 0
  BY <1>2, <1>3 DEF ValidTag
<1>5. Parser'
  <2>1. ValidTag(last)' /\ (tags = <<>> \/ Follows(last, tags[1]))'
    BY <1>1, <1>2 DEF ValidTag, Follows, NextTag
  <2>2. Collected(last.n, last.k)'
    BY <1>1, <1>2, <1>4 DEF Collected
  <2>3. pc' = "parse" /\ last'.kind = "begin" /\ isEsc' = 0 /\ isBegin' = 1
    BY <1>1, <1>2, <1>3 DEF Fetch
  <2> QED
    BY <2>1, <2>2, <2>3 DEF Parser
<1>6. buf' \in Seq(Byte) /\ Len(buf') <= BufSize
  BY <1>1, QueueAssumption
<1> QED
  BY <1>1, <1>5, <1>6, ParseCommon

LEMMA ParseDataInv == ASSUME QueueInv, ParseData PROVE QueueInv'
<1> DEFINE t == tags[1]
           S == Byte \ {125, 126, 127}
           value == IF isEsc = 1 THEN Flip(Head(rb)) ELSE Head(rb)
<1>1. Fetch(S) /\ UNCHANGED <<pc, caller, i, isBegin, puts, gets, ok, sent, pending>>
  BY DEF ParseData
<1>2. /\ last' = t /\ ValidTag(t) /\ Head(rb) = ByteOf(t)
      /\ tags' = <<>> \/ Follows(t, tags'[1])
  BY <1>1, FetchKeeps
<1>3. t.kind = "data"
  BY <1>1, <1>2, KindOfByte DEF QueueInv, Fetch
<1>4. /\ ValidTag(last) /\ isBegin = 1 /\ last.kind # "end" /\ Follows(last, t)
      /\ t.n = last.n
      /\ \/ last.kind = "esc" /\ isEsc = 1 /\ Collected(last.n, last.k - 1)
         \/ last.kind # "esc" /\ isEsc = 0 /\ Collected(last.n, last.k)
  BY <1>1, <1>3, ParserKnows
<1> DEFINE b == sent[t.n][t.k]
<1>5. /\ t.k \in 1 .. Len(sent[t.n]) /\ Len(sent[t.n]) <= BufSize /\ b \in Byte
      /\ Len(sent[t.n]) \in Nat /\ t.k \in Nat
  BY <1>2, <1>3, PacketType DEF ValidTag, QueueInv
<1>6. Head(rb) = Stored(b)
  BY <1>2, <1>3 DEF ByteOf
<1>7. value = b /\ Collected(t.n, t.k - 1)
  <2>1. CASE last.kind = "esc"
    <3>1. t.k = last.k /\ Special(b)
      BY <1>3, <1>4, <2>1 DEF Follows, ValidTag
    <3> QED
      BY <1>4, <1>5, <1>6, <2>1, <3>1, FlipSpecial
  <2>2. CASE last.kind # "esc"
    <3>1. t = NextTag(last.n, last.k) /\ last.k \in Nat
      BY <1>3, <1>4, <2>2 DEF Follows, ValidTag, TagSet
    <3>2. t.k = last.k + 1 /\ ~Special(b) /\ t.k - 1 = last.k
      BY <1>3, <3>1 DEF NextTag
    <3> QED
      BY <1>4, <1>5, <1>6, <2>2, <3>2, FlipSpecial
  <2> QED
    BY <2>1, <2>2
<1>8. buf \in Seq(Byte) /\ Len(buf) = t.k - 1 /\ Len(buf) < BufSize
  <2>1. buf \in Seq(Byte) /\ Len(buf) = t.k - 1
    BY <1>7 DEF QueueInv, TypeOK, Collected
  <2> QED
    BY <1>5, <2>1, QueueAssumption
<1>9. buf' = Append(buf, b) /\ isEsc' = 0
  BY <1>4, <1>7, <1>8 DEF ParseData, BeginRead, Garbage
<1>10. /\ buf' \in Seq(Byte) /\ Len(buf') = t.k /\ Len(buf') <= BufSize
       /\ \A x \in 1 .. t.k : buf'[x] = sent[t.n][x]
  <2>1. buf' \in Seq(Byte) /\ Len(buf') = t.k /\ Len(buf') <= BufSize
    BY <1>5, <1>8, <1>9, QueueAssumption
  <2>2. \A x \in 1 .. t.k - 1 : buf'[x] = buf[x] /\ buf[x] = sent[t.n][x]
    BY <1>5, <1>7, <1>8, <1>9 DEF Collected
  <2>3. buf'[t.k] = b
    BY <1>5, <1>8, <1>9
  <2> QED
    BY <1>5, <2>1, <2>2, <2>3
<1>11. Parser'
  <2>1. pc' = "parse" /\ isBegin' = 1 /\ last'.kind = "data"
    BY <1>1, <1>2, <1>3, <1>4 DEF Fetch
  <2>2. ValidTag(last)'
    BY <1>1, <1>2 DEF ValidTag, TagSet
  <2>3. (tags = <<>> \/ Follows(last, tags[1]))'
    BY <1>1, <1>2 DEF Follows, NextTag
  <2>4. Collected(last.n, last.k)'
    BY <1>1, <1>2, <1>10 DEF Collected
  <2> QED
    BY <1>9, <2>1, <2>2, <2>3, <2>4 DEF Parser
<1> QED
  BY <1>1, <1>4, <1>9, <1>10, <1>11, ParseCommon

\* The oldest complete message comes out: its end is the first one in the ring.
LEMMA ParseEndFacts ==
  ASSUME QueueInv, ParseEnd
  PROVE  /\ tags[1].kind = "end" /\ tags[1].n \in pending
         /\ \A m \in pending : tags[1].n <= m
         /\ buf = sent[tags[1].n]
         /\ pending' = pending \ {tags[1].n} /\ UNCHANGED sent
         /\ PendingEnds'
<1> DEFINE t == tags[1]
<1>1. Fetch({127}) /\ UNCHANGED sent
  BY DEF ParseEnd
<1>2. /\ ValidTag(t) /\ 127 = ByteOf(t) /\ tags # <<>>
      /\ Len(tags) \in Nat /\ Len(tags') = Len(tags) - 1
      /\ \A j \in 1 .. Len(tags) - 1 : tags'[j] = tags[j + 1]
  BY <1>1, FetchKeeps DEF Fetch
<1>3. t.kind = "end"
  BY <1>2, KindOfByte DEF QueueInv
<1>4. tags \in Seq(TagSet) /\ 1 \in 1 .. Len(tags)
  BY <1>2 DEF QueueInv, TypeOK
<1>5. t.n \in pending
  BY <1>3, <1>4 DEF QueueInv, PendingEnds
<1>6. \A j \in 1 .. Len(tags) : j # 1 => t.n < tags[j].n
  BY <1>2, <1>3, <1>4 DEF QueueInv, Ordered
<1>7. \A m \in pending : m = t.n \/ t.n < m
  BY <1>6 DEF QueueInv, PendingEnds
<1>8. t.n \in Nat /\ pending \subseteq 1 .. Len(sent) /\ Len(sent) \in Nat
  <2>1. t.n \in Nat
    BY <1>2 DEF ValidTag, TagSet
  <2> QED
    BY <2>1 DEF QueueInv, TypeOK
<1>9. /\ ValidTag(last) /\ last.kind # "end" /\ Follows(last, t) /\ t.n = last.n
      /\ \/ last.kind = "esc" /\ isEsc = 1 /\ Collected(last.n, last.k - 1)
         \/ last.kind # "esc" /\ isEsc = 0 /\ Collected(last.n, last.k)
  BY <1>1, <1>3, ParserKnows
<1>10. last.kind # "esc" /\ t = NextTag(last.n, last.k)
  BY <1>3, <1>9 DEF Follows
<1>11. last.k = Len(sent[t.n])
  BY <1>3, <1>9, <1>10 DEF NextTag
<1>12. Collected(t.n, Len(sent[t.n]))
  BY <1>9, <1>10, <1>11
<1>13. buf \in Seq(Byte) /\ sent[t.n] \in Seq(Byte)
  BY <1>2, PacketType DEF ValidTag, QueueInv, TypeOK
<1>14. buf = sent[t.n]
  BY <1>12, <1>13, SeqEqual DEF Collected
<1>15. pending' = pending \ {t.n}
  BY <1>4 DEF ParseEnd
<1>16. \A j \in 1 .. Len(tags) - 1 : j + 1 \in 1 .. Len(tags) /\ j + 1 # 1
  BY <1>2
<1>17. ASSUME NEW j \in 1 .. Len(tags) - 1, tags'[j].kind = "end"
       PROVE  tags'[j].n \in pending'
  <2>1. tags'[j] = tags[j + 1] /\ t.n < tags[j + 1].n /\ tags[j + 1].n \in pending
    BY <1>2, <1>6, <1>16, <1>17 DEF QueueInv, PendingEnds
  <2> QED
    BY <1>8, <1>15, <2>1
<1>18. ASSUME NEW n \in pending'
       PROVE  \E j \in 1 .. Len(tags) - 1 : tags'[j].kind = "end" /\ tags'[j].n = n
  <2>1. n \in pending /\ n # t.n
    BY <1>15
  <2>2. PICK j \in 1 .. Len(tags) : tags[j].kind = "end" /\ tags[j].n = n
    BY <2>1 DEF QueueInv, PendingEnds
  <2>3. j # 1
    BY <2>1, <2>2
  <2>4. j - 1 \in 1 .. Len(tags) - 1 /\ (j - 1) + 1 = j
    BY <1>2, <2>3
  <2>5. tags'[j - 1] = tags[j]
    BY <1>2, <2>4
  <2> QED
    BY <2>2, <2>4, <2>5
<1>19. PendingEnds'
  BY <1>2, <1>17, <1>18 DEF PendingEnds
<1>20. \A m \in pending : t.n <= m
  BY <1>7, <1>8
<1> QED
  BY <1>1, <1>3, <1>5, <1>14, <1>15, <1>19, <1>20

LEMMA ParseEndInv == ASSUME QueueInv, ParseEnd PROVE QueueInv'
<1>1. Fetch({127}) /\ UNCHANGED sent
  BY DEF ParseEnd
<1>2. /\ rb' \in Seq(Byte) /\ Len(rb') <= Size
      /\ tags' \in Seq(TagSet) /\ Len(tags') = Len(rb')
      /\ last' = tags[1] /\ ValidTag(tags[1])
      /\ tags' = <<>> \/ Follows(tags[1], tags'[1])
      /\ Tagged' /\ Linked' /\ Ordered'
  BY <1>1, FetchKeeps
<1>3. tags[1].kind = "end" /\ pending' = pending \ {tags[1].n} /\ PendingEnds'
  BY ParseEndFacts
<1>4. HeadIsBegin'
  BY <1>2, <1>3 DEF Follows, HeadIsBegin
<1>5. TypeOK'
  <2>1. gets' \in {0, -1} \X Seq(Byte)
    BY DEF ParseEnd, QueueInv, TypeOK
  <2>2. last' \in TagSet /\ pending' \subseteq 1 .. Len(sent')
    BY <1>1, <1>2, <1>3 DEF ValidTag, QueueInv, TypeOK
  <2>3. pc' \in Adding \cup {"idle", "parse"} /\ i' \in 0 .. BufSize
    BY QueueAssumption DEF ParseEnd, Adding
  <2> QED
    BY <1>2, <2>1, <2>2, <2>3 DEF ParseEnd, QueueInv, TypeOK
<1>6. Writer'
  BY <1>1, <1>3 DEF ParseEnd, Fetch, QueueInv, Writer, Adding
<1>7. Parser'
  BY <1>4 DEF Parser, ParseEnd
<1> QED
  BY <1>2, <1>3, <1>5, <1>6, <1>7 DEF QueueInv

LEMMA StepInv == QueueInv /\ [Next]_vars => QueueInv'
<1> SUFFICES ASSUME QueueInv, [Next]_vars PROVE QueueInv'
  OBVIOUS
<1>1. CASE UNCHANGED vars
  <2>1. Tagged' /\ Linked' /\ Ordered' /\ PendingEnds'
    BY <1>1, SameRing DEF vars
  <2>2. TypeOK' /\ Writer'
    BY <1>1 DEF vars, QueueInv, TypeOK, Writer, LastTag, Tag
  <2>3. Parser'
    BY <1>1 DEF vars, QueueInv, Parser, HeadIsBegin, Collected, ValidTag, Follows,
       NextTag, TagSet
  <2> QED
    BY <2>1, <2>2, <2>3 DEF QueueInv
<1>2. CASE \E m \in Packets : Call("publish", m)
  BY <1>2, CallInv
<1>3. CASE \E m \in Replies : Call("reply", m)
  BY <1>3, CallInv, QueueAssumption
<1>4. CASE TaskGets
  BY <1>4, TaskGetsInv
<1>5. CASE PROTO_AddRb
  BY <1>5, AddBeginInv, AddRawInv, AddEscInv, AddFlippedInv, AddEndInv, AddFullInv
     DEF PROTO_AddRb
<1>6. CASE PROTO_ParseRb
  BY <1>6, ParseEscInv, ParseBeginInv, ParseDataInv, ParseEndInv, ParseEmptyInv
     DEF PROTO_ParseRb
<1> QED
  BY <1>1, <1>2, <1>3, <1>4, <1>5, <1>6 DEF Next

\* The first byte in the ring is the one the first tag stands for.
LEMMA InvBegin == QueueInv => BeginIsSet
<1> SUFFICES ASSUME QueueInv PROVE BeginIsSet
  OBVIOUS
<1>1. ASSUME HeadIsBegin, rb # <<>> PROVE Head(rb) = 126
  <2>1. tags # <<>> /\ 1 \in 1 .. Len(tags) /\ Head(rb) = rb[1]
    BY <1>1 DEF QueueInv, TypeOK
  <2>2. rb[1] = ByteOf(tags[1]) /\ tags[1].kind = "begin"
    BY <1>1, <2>1 DEF QueueInv, Tagged, HeadIsBegin
  <2> QED
    BY <2>1, <2>2 DEF ByteOf
<1>2. pc # "parse" => HeadIsBegin
  BY DEF QueueInv, Parser
<1>3. pc = "parse" /\ isBegin = Garbage => HeadIsBegin
  BY DEF QueueInv, Parser, Garbage
<1> QED
  BY <1>1, <1>2, <1>3 DEF BeginIsSet

\* The parser never reads the flag PROTO_Init leaves unset, and the types hold.
THEOREM BeginIsSetHolds == Spec => [](TypeOK /\ BeginIsSet)
<1>1. QueueInv => TypeOK
  BY DEF QueueInv
<1> QED
  BY <1>1, InitInv, StepInv, InvBegin, PTL DEF Spec

\* For every ring size and every set of messages, the ring is never filled beyond
\* its size and a call stays within the message it works on.
THEOREM TypeCorrect == Spec => []TypeOK
  BY BeginIsSetHolds, PTL

-----------------------------------------------------------------------------
\* Every step of the byte-level code is a step of the message queue or none.
LEMMA StepRefines == QueueInv /\ [Next]_vars => [Fifo!Next]_(Fifo!mfVars)
<1> SUFFICES ASSUME QueueInv, [Next]_vars PROVE [Fifo!Next]_(Fifo!mfVars)
  OBVIOUS
<1> USE DEF Fifo!Next, Fifo!mfVars
<1>1. CASE UNCHANGED vars
  BY <1>1 DEF vars
<1>2. CASE \E m \in Packets : Call("publish", m)
  BY <1>2 DEF Call, Fifo!Offer
<1>3. CASE \E m \in Replies : Call("reply", m)
  BY <1>3, QueueAssumption DEF Call, Fifo!Offer
<1>4. CASE TaskGets
  BY <1>4 DEF TaskGets
<1>5. CASE AddBegin \/ AddRaw \/ AddEsc \/ AddFlipped
  BY <1>5 DEF AddBegin, AddRaw, AddEsc, AddFlipped
<1>6. CASE AddEnd
  <2>1. caller # "task" /\ pc # "idle"
    BY <1>6 DEF AddEnd, QueueInv, Writer, Adding
  <2> QED
    BY <1>6, <2>1 DEF AddEnd, Fifo!Accept
<1>7. CASE AddFull
  <2>1. caller # "task" /\ pc # "idle"
    BY <1>7 DEF AddFull, QueueInv, Writer, Adding
  <2> QED
    BY <1>7, <2>1 DEF AddFull, Fifo!Refuse
<1>8. CASE ParseEsc \/ ParseBegin \/ ParseData
  BY <1>8 DEF ParseEsc, ParseBegin, ParseData
<1>9. CASE ParseEnd
  <2>1. /\ tags[1].n \in pending /\ \A m \in pending : tags[1].n <= m
        /\ buf = sent[tags[1].n] /\ pending' = pending \ {tags[1].n}
    BY <1>9, ParseEndFacts
  <2>2. /\ gets' = <<0, buf>> /\ UNCHANGED <<caller, sent, puts>>
        /\ pc = "parse" /\ pc' = IF caller = "publish" THEN "addBegin" ELSE "idle"
    BY <1>9 DEF ParseEnd, Fetch
  <2>3. caller \in {"publish", "task"}
    BY <2>2 DEF QueueInv, TypeOK, Writer
  <2> QED
    BY <2>1, <2>2, <2>3 DEF Fifo!Deliver, Fifo!Oldest
<1>10. CASE ParseEmpty
  <2>1. tags = <<>>
    BY <1>10 DEF ParseEmpty, QueueInv, TypeOK
  <2>2. pending = {}
    BY <2>1 DEF QueueInv, PendingEnds
  <2> QED
    BY <1>10, <2>2 DEF ParseEmpty, Fifo!Empty
<1> QED
  BY <1>1, <1>2, <1>3, <1>4, <1>5, <1>6, <1>7, <1>8, <1>9, <1>10
     DEF Next, PROTO_AddRb, PROTO_ParseRb

LEMMA InitRefines == Init => Fifo!Init
  BY DEF Init, Fifo!Init

\* QUEUE_Puts and QUEUE_Gets implement the message queue, for every ring size,
\* message set and number of calls.
THEOREM IsMsgFifoHolds == Spec => IsMsgFifo
  BY InitInv, StepInv, InitRefines, StepRefines, PTL DEF Spec, IsMsgFifo, Fifo!Spec
=============================================================================
