------------------------------- MODULE Utils -------------------------------
(***************************************************************************)
(* The string functions of utils.c, against what an address and a          *)
(* hexadecimal number are.  MQTT_Connect asks UTILS_StrToIP whether the    *)
(* host is an address or a name to resolve.  A loop over a string is a     *)
(* recursive function: its variables, by the number of characters read.    *)
(* Characters are ASCII codes.  The strings are all those made of          *)
(* MaxTokens tokens.                                                       *)
(***************************************************************************)
EXTENDS Integers, Sequences, FiniteSets

CONSTANTS
    Tokens,         \* strings that the inputs are put together from
    MaxTokens,
    IntBound,       \* an int is at least -IntBound and less than IntBound
    HexDigits       \* hexadecimal digits in a uint32_t

ASSUME UtilsAssumption ==
    /\ Tokens \subseteq Seq(1 .. 127)
    /\ MaxTokens \in Nat /\ HexDigits \in Nat
    /\ IntBound \in Nat /\ IntBound >= 256

VARIABLES str, tokens

utilsVars == <<str, tokens>>

Dot == 46
IsDigit(c) == c \in 48 .. 57
Digit(c) == c - 48

\* Mutant: an empty segment passes.
DotSegmentEmpty(s) ==
    IF s.segs = 3 THEN [s EXCEPT !.ok = FALSE]
    ELSE [s EXCEPT !.segs = @ + 1, !.chcnt = 0, !.accum = 0]

DotSegment(s) ==
    IF s.chcnt = 0 \/ s.segs = 3 THEN [s EXCEPT !.ok = FALSE]
    ELSE [s EXCEPT !.segs = @ + 1, !.chcnt = 0, !.accum = 0]

\* One turn of the loop of UTILS_IsIPV4; accum and chcnt are 8 bits wide, so
\* that accum is never above 255.
IPV4Step(s, c) ==
    IF ~s.ok THEN s
    ELSE IF c = Dot THEN DotSegment(s)
    ELSE IF ~IsDigit(c) THEN [s EXCEPT !.ok = FALSE]
    ELSE LET accum == (s.accum * 10 + Digit(c)) % 256
         IN  [s EXCEPT !.accum = accum, !.chcnt = (@ + 1) % 256, !.ok = ~(accum > 255)]

IPV4Loop(string) ==
    LET read[i \in 0 .. Len(string)] ==
            IF i = 0 THEN [segs |-> 0, chcnt |-> 0, accum |-> 0, ok |-> TRUE]
            ELSE IPV4Step(read[i - 1], string[i])
    IN  read

UTILS_IsIPV4(string) ==
    LET end == IPV4Loop(string)[Len(string)]
    IN  end.ok /\ end.segs = 3 /\ end.chcnt # 0

\* What an int makes of a number that it may not hold.
Wrap(x) == ((x + IntBound) % (2 * IntBound)) - IntBound

\* A number of UTILS_StrToIP ends, and is cut to a uint8_t.
EndByte(s) ==
    IF s.n >= 256 THEN [s EXCEPT !.ok = FALSE]
    ELSE [s EXCEPT !.ip = Append(@, s.n % 256), !.n = 0]

\* Mutant: the first numbers may end at any character, too.
StrToIPStepAny(s, c) ==
    IF ~s.ok \/ Len(s.ip) = 4 THEN s
    ELSE IF IsDigit(c) THEN [s EXCEPT !.n = Wrap(@ * 10 + Digit(c))]
    ELSE EndByte(s)

\* One turn of its loops: the first three numbers end at a dot, the fourth at
\* any character.
StrToIPStep(s, c) ==
    IF ~s.ok \/ Len(s.ip) = 4 THEN s
    ELSE IF IsDigit(c) THEN [s EXCEPT !.n = Wrap(@ * 10 + Digit(c))]
    ELSE IF (Len(s.ip) < 3 /\ c = Dot) \/ Len(s.ip) = 3 THEN EndByte(s)
    ELSE [s EXCEPT !.ok = FALSE]

\* The terminating 0 is read as well.
StrToIPLoop(string) ==
    LET read[i \in 0 .. Len(string) + 1] ==
            IF i = 0 THEN [ip |-> <<>>, n |-> 0, ok |-> TRUE]
            ELSE StrToIPStep(read[i - 1], Append(string, 0)[i])
    IN  read

UTILS_StrToIP(string) == StrToIPLoop(string)[Len(string) + 1]

HexValue(c) ==
    CASE c \in 48 .. 57 -> c - 48
      [] c \in 65 .. 70 -> c - 55
      [] c \in 97 .. 102 -> c - 87
      [] OTHER -> -1

\* Values of a number of hexadecimal digits.
Power[n \in 0 .. HexDigits] == IF n = 0 THEN 1 ELSE 16 * Power[n - 1]

\* Mutant: digits beyond the first eight are not shifted out.
AtohStepSticky(s, c) ==
    IF s.done \/ HexValue(c) = -1 \/ 16 * s.value >= Power[HexDigits]
    THEN [s EXCEPT !.done = TRUE]
    ELSE [s EXCEPT !.value = @ * 16 + HexValue(c)]

\* (value << 4) | digit, until another character comes
AtohStep(s, c) ==
    IF s.done \/ HexValue(c) = -1 THEN [s EXCEPT !.done = TRUE]
    ELSE [s EXCEPT !.value = (@ * 16 + HexValue(c)) % Power[HexDigits]]

AtohLoop(string) ==
    LET read[i \in 0 .. Len(string)] ==
            IF i = 0 THEN [value |-> 0, done |-> FALSE]
            ELSE AtohStep(read[i - 1], string[i])
    IN  read

UTILS_Atoh(string) == AtohLoop(string)[Len(string)].value

-----------------------------------------------------------------------------
UtilsInit == str = <<>> /\ tokens = 0

Extend ==
    /\ tokens < MaxTokens
    /\ \E t \in Tokens : str' = str \o t
    /\ tokens' = tokens + 1

Restart == tokens = MaxTokens /\ str' = <<>> /\ tokens' = 0

UtilsNext == Extend \/ Restart
UtilsSpec == UtilsInit /\ [][UtilsNext]_utilsVars

-----------------------------------------------------------------------------
(***************************************************************************)
(* What the functions are for.                                             *)
(***************************************************************************)
\* The number that the digits after place p stand for, by the place of the last.
Values(base, p) ==
    LET n[i \in p .. Len(str)] ==
            IF i = p THEN 0 ELSE base * n[i - 1] + HexValue(str[i])
    IN  n

\* What is between the places p and q.
IsNumber(p, q) == q > p + 1 /\ \A i \in p + 1 .. q - 1 : IsDigit(str[i])
Number(p, q) == Values(10, p)[q - 1]

\* Three dots, with four numbers around them.
Dots == {i \in DOMAIN str : str[i] = Dot}
Cuts == {<<0, a, b, c, Len(str) + 1>> : a, b, c \in Dots}
Quads == {cut \in Cuts : \A k \in 1 .. 4 : IsNumber(cut[k], cut[k + 1])}
IsAddress(cut) == \A k \in 1 .. 4 : Number(cut[k], cut[k + 1]) <= 255

\* Every address passes, and UTILS_StrToIP gives its four numbers, leading zeros
\* and all: a broker known by address needs no DNS.  What passes UTILS_IsIPV4 has
\* four numbers and nothing else.  Its count of the digits of a number starts
\* again at 256, which no host of the configuration is long enough for.
ParsesAddresses ==
    /\ UTILS_IsIPV4(str) => Quads # {}
    /\ \A cut \in Quads : IsAddress(cut) =>
          /\ Len(str) < 256 => UTILS_IsIPV4(str)
          /\ UTILS_StrToIP(str).ok
          /\ \A k \in 1 .. 4 : UTILS_StrToIP(str).ip[k] = Number(cut[k], cut[k + 1])

\* A host with fewer dots than three, with a letter before the third, or with a
\* number among four that is above 255 and that an int holds, goes to DNS.  (A
\* number that no int holds may look like a byte to UTILS_StrToIP.)
ResolvesNames ==
    \/ Cardinality(Dots) < 3
    \/ \E i \in DOMAIN str \ Dots :
          ~IsDigit(str[i]) /\ Cardinality({j \in Dots : j < i}) < 3
    \/ \E cut \in Quads, k \in 1 .. 4 : Number(cut[k], cut[k + 1]) \in 256 .. IntBound - 1
    => ~UTILS_StrToIP(str).ok

\* UTILS_Atoh gives the last digits that fit of the number at the start.
Hex == {i \in DOMAIN str : \A j \in 1 .. i : HexValue(str[j]) # -1}
AtohReads ==
    LET end == Cardinality(Hex)
        start == IF end > HexDigits THEN end - HexDigits ELSE 0
    IN  UTILS_Atoh(str) = Values(16, start)[end]
=============================================================================
