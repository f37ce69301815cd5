-------------------------------- MODULE Queue -------------------------------
(***************************************************************************)
(* queue.c and proto.c on top of the ring of ringbuf.c, with the loops of  *)
(* their callers in mqtt.c.  A message is stored as the bytes 7E ... 7F,   *)
(* with 7D escaping the three special bytes.  RINGBUF_Put and RINGBUF_Get  *)
(* are the operations of ByteFifo, which RingBuf implements; each call of  *)
(* them is one action, so that what a failed QUEUE_Puts leaves behind is   *)
(* visible.  tags, sent, pending and last are history: no guard reads them *)
(* but for the packet being stored, sent[Len(sent)].                       *)
(***************************************************************************)
EXTENDS Integers, Sequences, FiniteSets

CONSTANTS
    Size,     \* QUEUE_BUFFER_SIZE
    BufSize,  \* MQTT_BUF_SIZE: the longest message, and Gets' maxLen
    Packets,  \* the messages callers store, as sequences of bytes
    Replies,  \* those among them that mqtt_tcpclient_recv stores
    MaxPuts   \* bound: number of messages offered

Byte == 0 .. 255

\* Messages are built in out_buffer, which has MQTT_BUF_SIZE bytes.
ASSUME QueueAssumption ==
    /\ Size \in Nat /\ Size >= 2
    /\ BufSize \in Nat
    /\ MaxPuts \in Nat
    /\ Packets \subseteq Seq(Byte)
    /\ Replies \subseteq Packets
    /\ \A m \in Packets : Len(m) <= BufSize

VARIABLES
    rb,       \* the bytes in the ring
    pc,       \* the call in progress
    caller,   \* who called: publish (retries), reply (does not), task (Gets)
    i,        \* bytes of the packet stored by PROTO_AddRb
    buf,      \* PROTO_PARSER buf and dataLen
    isEsc, isBegin,
    puts,     \* return code of the last QUEUE_Puts
    gets,     \* return code of the last QUEUE_Gets and its message
    ok,       \* what the last MQTT_Publish returned
    tags,     \* history: which byte of which message each byte of rb is
    sent,     \* history: the messages offered
    pending,  \* history: messages stored completely and not handed out
    last      \* history: tag of the byte the parser read last

ringVars == <<rb, tags>>
parserVars == <<buf, isEsc, isBegin, last>>
vars == <<rb, pc, caller, i, buf, isEsc, isBegin, puts, gets, ok,
          tags, sent, pending, last>>

Garbage == 2   \* isBegin is not set by PROTO_Init

Special(b) == b \in {125, 126, 127}              \* 7D, 7E, 7F
\* b ^ 0x20
Flip(b) == IF (b \div 32) % 2 = 1 THEN b - 32 ELSE b + 32

Packet == sent[Len(sent)]
Adding == {"addBegin", "addByte", "addFlipped"}

NoTag == [n |-> 0, kind |-> "none", k |-> 0]
Tag(kind, k) == [n |-> Len(sent), kind |-> kind, k |-> k]

Init ==
    /\ rb = <<>> /\ tags = <<>>
    /\ pc = "idle" /\ caller = "task" /\ i = 0
    /\ buf = <<>> /\ isEsc = 0 /\ isBegin = Garbage /\ last = NoTag
    /\ puts = 0 /\ gets = <<-1, <<>>>> /\ ok = TRUE
    /\ sent = <<>> /\ pending = {}

\* PROTO_Init on a parser in PROTO_ParseRb's stack frame.
PROTO_Init ==
    /\ buf' = <<>>
    /\ isEsc' = 0
    /\ isBegin' = Garbage
    /\ last' = NoTag

\* MQTT_Publish, MQTT_Subscribe, MQTT_UnSubscribe and MQTT_Ping (publish) and
\* mqtt_tcpclient_recv (reply) call QUEUE_Puts.
Call(c, m) ==
    /\ pc = "idle"
    /\ Len(sent) < MaxPuts
    /\ sent' = Append(sent, m)
    /\ caller' = c
    /\ pc' = "addBegin" /\ i' = 0
    /\ UNCHANGED <<rb, tags, pending, buf, isEsc, isBegin, last, puts, gets, ok>>

\* MQTT_Task calls QUEUE_Gets when QUEUE_IsEmpty says there is something.
TaskGets ==
    /\ pc = "idle"
    /\ rb # <<>>
    /\ caller' = "task"
    /\ pc' = "parse"
    /\ PROTO_Init
    /\ UNCHANGED <<rb, tags, i, puts, gets, ok, sent, pending>>

\* Mutant: the ring takes one byte more than it has room for.
StoreOneMore(b, tag) ==
    /\ Len(rb) <= Size
    /\ rb' = Append(rb, b)
    /\ tags' = Append(tags, tag)

\* A successful RINGBUF_Put of byte b.
Store(b, tag) ==
    /\ Len(rb) < Size
    /\ rb' = Append(rb, b)
    /\ tags' = Append(tags, tag)

AddBegin ==
    /\ pc = "addBegin"
    /\ Store(126, Tag("begin", 0))
    /\ pc' = "addByte" /\ i' = 0
    /\ UNCHANGED <<caller, buf, isEsc, isBegin, last, puts, gets, ok, sent, pending>>

AddRaw ==
    /\ pc = "addByte"
    /\ i < Len(Packet)
    /\ ~Special(Packet[i + 1])
    /\ Store(Packet[i + 1], Tag("data", i + 1))
    /\ i' = i + 1
    /\ UNCHANGED <<pc, caller, buf, isEsc, isBegin, last, puts, gets, ok, sent, pending>>

AddEsc ==
    /\ pc = "addByte"
    /\ i < Len(Packet)
    /\ Special(Packet[i + 1])
    /\ Store(125, Tag("esc", i + 1))
    /\ pc' = "addFlipped"
    /\ UNCHANGED <<caller, i, buf, isEsc, isBegin, last, puts, gets, ok, sent, pending>>

\* Mutant: an escaped byte is stored as it is.
AddFlippedRaw ==
    /\ pc = "addFlipped"
    /\ Store(Packet[i + 1], Tag("data", i + 1))
    /\ pc' = "addByte" /\ i' = i + 1
    /\ UNCHANGED <<caller, buf, isEsc, isBegin, last, puts, gets, ok, sent, pending>>

AddFlipped ==
    /\ pc = "addFlipped"
    /\ Store(Flip(Packet[i + 1]), Tag("data", i + 1))
    /\ pc' = "addByte" /\ i' = i + 1
    /\ UNCHANGED <<caller, buf, isEsc, isBegin, last, puts, gets, ok, sent, pending>>

\* The closing 7F is stored: QUEUE_Puts succeeds.
AddEnd ==
    /\ pc = "addByte"
    /\ i = Len(Packet)
    /\ Store(127, Tag("end", i))
    /\ pending' = pending \cup {Len(sent)}
    /\ puts' = 0
    /\ ok' = IF caller = "publish" THEN TRUE ELSE ok
    /\ pc' = "idle"
    /\ UNCHANGED <<caller, i, buf, isEsc, isBegin, last, gets, sent>>

\* RINGBUF_Put returns -1, at any of its calls: so does QUEUE_Puts, and what
\* was stored of the message stays in the ring.  A publisher makes room with
\* QUEUE_Gets; a reply is dropped.
AddFull ==
    /\ pc \in Adding
    /\ Len(rb) >= Size
    /\ puts' = -1
    /\ \/ /\ caller = "publish"
          /\ pc' = "parse"
          /\ PROTO_Init
       \/ /\ caller = "reply"
          /\ pc' = "idle"
          /\ UNCHANGED parserVars
    /\ UNCHANGED <<rb, tags, caller, i, gets, ok, sent, pending>>

-----------------------------------------------------------------------------
\* A successful RINGBUF_Get of a byte in set S.
Fetch(S) ==
    /\ pc = "parse"
    /\ rb # <<>>
    /\ Head(rb) \in S
    /\ rb' = Tail(rb)
    /\ tags' = Tail(tags)
    /\ last' = Head(tags)

ParseEsc ==
    /\ Fetch({125})
    /\ isEsc' = 1
    /\ UNCHANGED <<pc, caller, i, buf, isBegin, puts, gets, ok, sent, pending>>

\* Mutant: an opening 7E does not discard what was collected before it.
ParseBeginKeep ==
    /\ Fetch({126})
    /\ isEsc' = 0
    /\ isBegin' = 1
    /\ UNCHANGED <<pc, caller, i, buf, puts, gets, ok, sent, pending>>

ParseBegin ==
    /\ Fetch({126})
    /\ buf' = <<>>
    /\ isEsc' = 0
    /\ isBegin' = 1
    /\ UNCHANGED <<pc, caller, i, puts, gets, ok, sent, pending>>

\* What reading isBegin can yield: an uninitialised one holds anything.
BeginRead == IF isBegin = Garbage THEN {0, 1} ELSE {isBegin}

ParseData ==
    /\ Fetch(Byte \ {125, 126, 127})
    /\ \E begin \in BeginRead :
          LET value == IF isEsc = 1 THEN Flip(Head(rb)) ELSE Head(rb) IN
          /\ isEsc' = IF begin = 0 THEN isEsc ELSE 0
          /\ buf' = IF begin # 0 /\ Len(buf) < BufSize THEN Append(buf, value)
                    ELSE buf
    /\ UNCHANGED <<pc, caller, i, isBegin, puts, gets, ok, sent, pending>>

\* The closing 7F: QUEUE_Gets returns 0.  The task sends the message; a
\* publisher throws it away and tries QUEUE_Puts again.
ParseEnd ==
    /\ Fetch({127})
    /\ gets' = <<0, buf>>
    /\ pending' = pending \ {Head(tags).n}
    /\ isBegin' = 0
    /\ pc' = IF caller = "publish" THEN "addBegin" ELSE "idle"
    /\ i' = 0
    /\ UNCHANGED <<caller, buf, isEsc, puts, ok, sent>>

\* Mutant: a publisher tries again after a QUEUE_Gets that found nothing.
ParseEmptyRetry ==
    /\ pc = "parse"
    /\ rb = <<>>
    /\ gets' = <<-1, <<>>>>
    /\ pc' = IF caller = "publish" THEN "addBegin" ELSE "idle"
    /\ UNCHANGED <<rb, tags, caller, i, buf, isEsc, isBegin, last, puts, ok, sent, pending>>

\* RINGBUF_Get returns -1, so does QUEUE_Gets: "Serious buffer error" for a
\* publisher, which returns FALSE.
ParseEmpty ==
    /\ pc = "parse"
    /\ rb = <<>>
    /\ gets' = <<-1, <<>>>>
    /\ ok' = IF caller = "publish" THEN FALSE ELSE ok
    /\ pc' = "idle"
    /\ UNCHANGED <<rb, tags, caller, i, buf, isEsc, isBegin, last, puts, sent, pending>>

PROTO_AddRb == AddBegin \/ AddRaw \/ AddEsc \/ AddFlipped \/ AddEnd \/ AddFull
PROTO_ParseRb == ParseEsc \/ ParseBegin \/ ParseData \/ ParseEnd \/ ParseEmpty

Next ==
    \/ \E m \in Packets : Call("publish", m)
    \/ \E m \in Replies : Call("reply", m)
    \/ TaskGets
    \/ PROTO_AddRb
    \/ PROTO_ParseRb

Spec == Init /\ [][Next]_vars

\* A call runs to completion: nothing on the device preempts it for good.
FairSpec == Spec /\ WF_vars(PROTO_AddRb) /\ WF_vars(PROTO_ParseRb)

-----------------------------------------------------------------------------
Kind == {"none", "begin", "esc", "data", "end"}
TagSet == [n : Nat, kind : Kind, k : Nat]

TypeOK ==
    /\ rb \in Seq(Byte) /\ Len(rb) <= Size
    /\ tags \in Seq(TagSet) /\ Len(tags) = Len(rb)
    /\ pc \in Adding \cup {"idle", "parse"}
    /\ caller \in {"publish", "reply", "task"}
    /\ i \in 0 .. BufSize
    /\ buf \in Seq(Byte) /\ Len(buf) <= BufSize
    /\ isEsc \in {0, 1} /\ isBegin \in {0, 1, Garbage}
    /\ puts \in {0, -1} /\ ok \in BOOLEAN
    /\ gets \in {0, -1} \X Seq(Byte)
    /\ sent \in Seq(Packets) /\ Len(sent) <= MaxPuts
    /\ pending \subseteq 1 .. Len(sent)
    /\ last \in TagSet

\* Between calls the ring is empty or starts with the 7E of a message, even
\* after failed QUEUE_Puts left messages without an end in it; so the parser
\* never reads the isBegin flag that PROTO_Init leaves uninitialised.
BeginIsSet ==
    /\ pc # "parse" => rb = <<>> \/ Head(rb) = 126
    /\ pc = "parse" /\ isBegin = Garbage => rb = <<>> \/ Head(rb) = 126

\* QUEUE_Puts and QUEUE_Gets implement MsgFifo: whatever is refused, cut off
\* or thrown away in between, a message that comes out is exactly the oldest
\* one that went in completely, and -1 means that there is none.
Fifo == INSTANCE MsgFifo WITH open <- pc # "idle" /\ caller # "task"
IsMsgFifo == Fifo!Spec

\* The retry loops of MQTT_Publish and the others end: every round hands out
\* one whole message and a failed QUEUE_Puts never adds one.
CallReturns == pc # "idle" ~> pc = "idle"

\* Bytes a message takes in the ring.
FrameLen(m) == 2 + Len(m) + Cardinality({j \in 1 .. Len(m) : Special(m[j])})

\* A message that fits the ring is queued: MQTT_Publish fails only for one that
\* is too long for it ("Serious buffer error").
FittingPublishSucceeds ==
    pc = "idle" /\ caller = "publish" /\ ~ok => FrameLen(Packet) > Size
=============================================================================
