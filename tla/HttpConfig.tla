----------------------------- MODULE HttpConfig -----------------------------
(***************************************************************************)
(* The configuration page, http_config.c: requests arrive in TCP segments, *)
(* are collected in one global buffer and handled once they are complete.  *)
(* A request is a sequence of tokens: its first line, the Content-Length   *)
(* header, the empty line that ends the header, and the characters of the  *)
(* form, with a key as one token.  The browser encodes a value, the        *)
(* firmware decodes it.  The store behind CFG_Load and CFG_Save is Config. *)
(***************************************************************************)
EXTENDS Integers, Sequences, SequencesExt

CONSTANTS
    Forms,          \* forms to post: sequences of a key and a value
    Initial,        \* the configuration at the start, by key
    MaxDrops        \* bound: connections lost in the middle of a request

\* Characters of a value: a letter, a blank, and one the encoding escapes.
Char == {"a", " ", "&"}
Keys == DOMAIN Initial

\* The page has each of its fields once, and the browser encodes their names.
ASSUME HttpAssumption ==
    /\ MaxDrops \in Nat
    /\ Initial \in [Keys -> Seq(Char)]
    /\ Forms \subseteq Seq(STRING \X Seq(Char))
    /\ \A f \in Forms : \A i, j \in DOMAIN f :
          f[i][1] \notin {"&", "="} /\ (f[i][1] = f[j][1] => i = j)

VARIABLES
    recieveBuffer,
    rest,           \* tokens of the request the browser has still to send
    request,        \* the request: a form, or GET, or OTHER
    sysCfg,
    stored,         \* what CFG_Load would load
    before,         \* history: stored, when the request was made
    answers,        \* history: responses sent since
    whole,          \* history: the header came in one segment, and into an
                    \* empty buffer
    drops           \* connections lost so far

httpVars == <<recieveBuffer, rest, request, sysCfg, stored, before, answers, whole, drops>>

\* What a token may hold: a field's name, a word of the header, or a character
\* of the encoding or of a value.
Names == UNION {{f[i][1] : i \in DOMAIN f} : f \in Forms}
Text == Names \cup Char \cup {"GET", "OTHER", "POST", "Content-Length", "END",
                             "=", "+", "%", "2", "6"}
Tok(t) == [t |-> t, n |-> 0]
Toks(s) == [i \in DOMAIN s |-> Tok(s[i])]

\* The browser's application/x-www-form-urlencoded
EncodeChar(c) == CASE c = " " -> <<"+">> [] c = "&" -> <<"%", "2", "6">> [] OTHER -> <<c>>
Encode(v) == FlattenSeq([i \in DOMAIN v |-> EncodeChar(v[i])])
FormBody(form) ==
    FlattenSeq([i \in DOMAIN form |->
        (IF i = 1 THEN <<>> ELSE <<"&">>) \o <<form[i][1], "=">> \o Encode(form[i][2])])

GET == [method |-> "GET", form |-> <<>>]
OTHER_ == [method |-> "OTHER", form |-> <<>>]
POST(form) == [method |-> "POST", form |-> form]
Requests == {GET, OTHER_} \cup {POST(f) : f \in Forms}

HeaderLength(r) == IF r.method = "POST" THEN 3 ELSE 2
Messages == [r \in Requests |->
    IF r.method # "POST" THEN Toks(<<r.method, "END">>)
    ELSE LET body == FormBody(r.form) IN
         <<Tok("POST"), [t |-> "Content-Length", n |-> Len(body)], Tok("END")>> \o Toks(body)]
Message(r) == Messages[r]

Init ==
    /\ recieveBuffer = <<>> /\ rest = <<>>
    /\ request = GET
    /\ stored = Initial /\ sysCfg = Initial /\ before = Initial
    /\ answers = 1 /\ whole = TRUE /\ drops = 0

-----------------------------------------------------------------------------
\* strstr: where a token comes first, or 0.
Find(buf, t) == SelectInSeq(buf, LAMBDA tok : tok.t = t)
After(buf, i) == SubSeq(buf, i + 1, Len(buf))

\* Mutant: data of any length is enough.
AllInBufferHeader(buf) ==
    LET start == Find(buf, "Content-Length") IN
    start # 0 => Find(buf, "END") # 0

HTTPConfig_AllInBuffer(buf) ==
    LET start == Find(buf, "Content-Length")
        data == Find(buf, "END")
    IN  start # 0 => data # 0 /\ Len(After(buf, data)) >= buf[start].n

\* Mutant: an escaped character leaves its digits behind.
DecodeAtLoose(v, i) ==
    CASE v[i].t = "+" -> <<" ">>
      [] v[i].t = "%" -> <<"&">>
      [] OTHER -> <<v[i].t>>

\* HTTPConfig_HTMLEntityDecode: the two characters after % are skipped.
DecodeAt(v, i) ==
    IF \E j \in {i - 1, i - 2} : j \in DOMAIN v /\ v[j].t = "%" THEN <<>>
    ELSE CASE v[i].t = "+" -> <<" ">>
           [] v[i].t = "%" -> <<"&">>
           [] OTHER -> <<v[i].t>>

HTTPConfig_HTMLEntityDecode(v) == FlattenSeq([i \in DOMAIN v |-> DecodeAt(v, i)])

\* The pairs that the loop of HTTPConfig_SetData finds in a body, by the place
\* of their "=": from after a "&" (or the start) to the "=" is the key, up to
\* the next "&" the value.  A longer key than one token is none of ours.
Ends(body) == {i \in DOMAIN body : body[i].t = "&"} \cup {Len(body) + 1}
PlacesOf(k, body) ==
    {e \in DOMAIN body : /\ body[e].t = "=" /\ e > 1 /\ body[e - 1].t = k
                         /\ e > 2 => body[e - 2].t = "&"}
ValueAt(e, body) == SubSeq(body, e + 1, Min({x \in Ends(body) : x > e}) - 1)

\* The last pair with a key counts.
SetData(cfg, body) ==
    [k \in Keys |->
        IF PlacesOf(k, body) = {} THEN cfg[k]
        ELSE HTTPConfig_HTMLEntityDecode(ValueAt(Max(PlacesOf(k, body)), body))]

\* CFG_Load, then the fields of the form, then CFG_Save.  Without the end of
\* the header the search returns NULL, and the device restarts (Fault).
HTTPConfig_SetData(buf) ==
    /\ Find(buf, "END") # 0
    /\ \E body \in {After(buf, Find(buf, "END"))} : stored' = SetData(stored, body)

\* Mutant: the request stays in the buffer after it was handled.
RecieveCallbackKeeps(n) ==
    \E buf \in {recieveBuffer \o SubSeq(rest, 1, n)} :
    /\ rest' = After(rest, n)
    /\ recieveBuffer' = buf
    /\ IF ~HTTPConfig_AllInBuffer(buf)
       THEN UNCHANGED <<sysCfg, stored, answers>>
       ELSE /\ answers' = answers + 1
            /\ CASE buf[1].t = "POST" -> HTTPConfig_SetData(buf) /\ sysCfg' = stored'
                 [] buf[1].t = "GET" -> sysCfg' = stored /\ UNCHANGED stored
                 [] OTHER -> UNCHANGED <<sysCfg, stored>>
    /\ UNCHANGED <<request, before, drops>>

\* Mutant: what does not complete a request is not appended to it either.
RecieveCallbackForgets(n) ==
    \E buf \in {recieveBuffer \o SubSeq(rest, 1, n)} :
    /\ rest' = After(rest, n)
    /\ IF ~HTTPConfig_AllInBuffer(buf)
       THEN /\ recieveBuffer' = IF recieveBuffer = <<>> THEN buf ELSE recieveBuffer
            /\ UNCHANGED <<sysCfg, stored, answers>>
       ELSE /\ recieveBuffer' = <<>>
            /\ answers' = answers + 1
            /\ CASE buf[1].t = "POST" -> HTTPConfig_SetData(buf) /\ sysCfg' = stored'
                 [] buf[1].t = "GET" -> sysCfg' = stored /\ UNCHANGED stored
                 [] OTHER -> UNCHANGED <<sysCfg, stored>>
    /\ UNCHANGED <<request, before, drops>>

\* HTTPConfig_TCPServerRecieveCallback, for n more tokens
RecieveCallback(n) ==
    \E buf \in {recieveBuffer \o SubSeq(rest, 1, n)} :
    /\ rest' = After(rest, n)
    /\ IF ~HTTPConfig_AllInBuffer(buf)
       THEN recieveBuffer' = buf /\ UNCHANGED <<sysCfg, stored, answers>>
       ELSE /\ recieveBuffer' = <<>>
            /\ answers' = answers + 1
            /\ CASE buf[1].t = "POST" -> HTTPConfig_SetData(buf) /\ sysCfg' = stored'
                 [] buf[1].t = "GET" -> sysCfg' = stored /\ UNCHANGED stored
                 [] OTHER -> UNCHANGED <<sysCfg, stored>>      \* 404
    /\ UNCHANGED <<request, before, drops>>

\* The next segment brings n tokens, cut anywhere.
HeaderIn(n) == Len(Message(request)) - Len(rest) + n >= HeaderLength(request)

Recieve ==
    \E n \in 1 .. Len(rest) :
        RecieveCallback(n) /\ whole' = (whole /\ HeaderIn(n))

\* HTTPConfig_SetData through NULL: user_init again, the connection is lost.
Fault ==
    /\ \E buf \in {recieveBuffer \o SubSeq(rest, 1, n) : n \in 1 .. Len(rest)} :
          /\ HTTPConfig_AllInBuffer(buf)
          /\ buf[1].t = "POST" /\ Find(buf, "END") = 0
    /\ recieveBuffer' = <<>> /\ rest' = <<>> /\ sysCfg' = stored /\ whole' = FALSE
    /\ UNCHANGED <<request, stored, before, answers, drops>>

\* HTTPConfig_TCPServerConnectionError and HTTPConfig_TCPServerDisconnected in
\* the middle of a request: neither of them touches the buffer.
ConnectionError ==
    /\ rest # <<>> /\ rest # Message(request) /\ drops < MaxDrops
    /\ rest' = <<>> /\ whole' = FALSE /\ drops' = drops + 1
    /\ UNCHANGED <<recieveBuffer, request, sysCfg, stored, before, answers>>

\* The browser asks again once the last request was answered, or when it gave
\* up waiting for the answer.
Ask ==
    /\ rest = <<>>
    /\ request' \in Requests
    /\ rest' = Message(request')
    /\ before' = stored /\ answers' = 0 /\ whole' = (recieveBuffer = <<>>)
    /\ UNCHANGED <<recieveBuffer, sysCfg, stored, drops>>

Next == Ask \/ Recieve \/ Fault \/ ConnectionError
Spec == Init /\ [][Next]_httpVars

\* The browser sends what it began to send, and the user tries again.
FairSpec == Spec /\ WF_httpVars(Ask) /\ WF_httpVars(Recieve \/ Fault)

-----------------------------------------------------------------------------
\* A configuration has all its keys, and values of decoded characters only;
\* what half a request in the buffer puts before the next one may be read as a
\* value, too.
TypeOK ==
    /\ request \in Requests
    /\ sysCfg \in [Keys -> Seq(Text)] /\ stored \in [Keys -> Seq(Text)]
    /\ drops = 0 => {sysCfg, stored} \subseteq [Keys -> Seq(Char)]
    /\ answers \in 0 .. Len(Message(request)) /\ whole \in BOOLEAN
    /\ drops \in 0 .. MaxDrops

\* What the form says.
Applied(cfg, form) ==
    [k \in Keys |-> IF \E i \in DOMAIN form : form[i][1] = k
                    THEN form[CHOOSE i \in DOMAIN form : form[i][1] = k][2] ELSE cfg[k]]

\* However the data is cut into segments, the configuration that is stored when
\* the answer goes out is the old one with exactly the posted values, decoded;
\* other requests leave it alone, and so does half a form.  This needs the
\* header in one segment and nothing left over in the buffer.
StoresTheForm ==
    whole => stored = IF answers > 0 THEN Applied(before, request.form) ELSE before

\* Such a request, once it arrived completely, was answered, once.
AnsweredOnce == whole /\ rest = <<>> => answers = 1 /\ recieveBuffer = <<>>

\* Half a request that a lost connection left in the buffer does not stop the
\* page for ever: whatever comes next, the buffer is emptied again.
Reopens == []<>(recieveBuffer = <<>>)
=============================================================================
