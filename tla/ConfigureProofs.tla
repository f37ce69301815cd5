--------------------------- MODULE ConfigureProofs ---------------------------
(***************************************************************************)
(* Proofs about the configuration page (HttpConfig) and about the string   *)
(* functions that read what was configured (Utils).                        *)
(*                                                                         *)
(* However a posted form is cut into segments, the device stores exactly   *)
(* what the browser sent and answers it once.  The argument has four       *)
(* parts:                                                                  *)
(*   - sequences put one after the other (FlattenSeq) and where each of    *)
(*     them lies in the result;                                            *)
(*   - decoding what the browser encoded gives the value back;             *)
(*   - the loop of HTTPConfig_SetData finds every field of the form;       *)
(*   - the page's inductive invariant PageInv.                             *)
(*                                                                         *)
(* Of every string, the three loops of Utils give what its dots and digits *)
(* stand for, as far as the code's integers hold it (Tracks).  Forward,    *)
(* what a loop has counted is laid out in the string (Laid); back, along   *)
(* four numbers with dots in between (IsQuad) a loop                       *)
(* never fails (Within).  UTILS_Atoh keeps the remainder of the number     *)
(* read so far (Fits), which its last digits are (LastDigits).             *)
(*                                                                         *)
(* What a recursive function computes is shown by the least element for    *)
(* which it would go wrong (Least), set by set.                            *)
(***************************************************************************)
EXTENDS HttpConfig, Utils, SequenceTheorems, FiniteSetTheorems,
        WellFoundedInduction, TLAPS

-----------------------------------------------------------------------------
(***************************************************************************)
(* Least elements, and sequences of sequences put one after the other.     *)
(***************************************************************************)
\* A set of numbers that is not empty has a least element.
LEMMA Least ==
    ASSUME NEW T \in SUBSET Nat, T # {}
    PROVE  \E n \in T : \A m \in T : n <= m
<1>1. PICK n \in T : \A m \in T : ~(<<m, n>> \in OpToRel(<, Nat))
    BY NatLessThanWellFounded, WFMin
<1>2. \A m \in T : ~(m < n)
    BY <1>1 DEF OpToRel
<1> QED
    BY <1>2

\* Min is the least element ...
LEMMA MinIs ==
    ASSUME NEW T \in SUBSET Nat, NEW n \in T, \A m \in T : n <= m
    PROVE  Min(T) = n
<1> DEFINE P(x) == x \in T /\ \A y \in T : x <= y
<1>1. Min(T) = CHOOSE x : P(x)
    BY Zenon DEF Min
<1>2. P(n)
    OBVIOUS
<1>3. P(CHOOSE x : P(x))
    BY <1>2, Zenon
<1>4. \A x : P(x) => x = n
    OBVIOUS
<1> HIDE DEF P
<1> QED
    BY <1>1, <1>3, <1>4

\* ... which a set of numbers has.
LEMMA MinIn ==
    ASSUME NEW T \in SUBSET Nat, T # {}
    PROVE  Min(T) \in T
BY Least DEF Min

\* A bounded set of numbers has a greatest element.
LEMMA MaxIn ==
    ASSUME NEW N \in Nat, NEW T \in SUBSET (1 .. N), T # {}
    PROVE  Max(T) \in T
<1> DEFINE U == {i \in Nat : i <= N /\ N - i \in T}
<1>1. U \in SUBSET Nat /\ U # {}
  <2>1. PICK x \in T : TRUE
      OBVIOUS
  <2>2. N - x \in U
      BY <2>1
  <2> QED
      BY <2>2
<1>2. PICK i \in U : \A j \in U : i <= j
    BY <1>1, Least
<1>3. N - i \in T /\ \A y \in T : N - i >= y
  <2>1. ASSUME NEW y \in T PROVE N - i >= y
    <3>1. N - y \in U
        OBVIOUS
    <3> QED
        BY <3>1, <1>2
  <2> QED
      BY <2>1
<1> QED
    BY <1>3 DEF Max

\* E[i]: the first i sequences of seqs, one after the other.
Stages(S, seqs, E) ==
    /\ E \in [0 .. Len(seqs) -> Seq(S)]
    /\ E[0] = <<>>
    /\ \A i \in 1 .. Len(seqs) : E[i] = E[i - 1] \o seqs[i]

\* The function that FlattenSeq is defined by exists.
LEMMA StagesExist ==
    ASSUME NEW S, NEW seqs \in Seq(Seq(S))
    PROVE  \E E : Stages(S, seqs, E)
<1> DEFINE Upto(n, E) == /\ E \in [0 .. n -> Seq(S)]
                         /\ E[0] = <<>>
                         /\ \A i \in 1 .. n : E[i] = E[i - 1] \o seqs[i]
           T == {n \in 0 .. Len(seqs) : ~ \E E : Upto(n, E)}
<1>0. Len(seqs) \in Nat /\ T \in SUBSET Nat
  <2>1. Len(seqs) \in Nat
      BY LenProperties
  <2> HIDE DEF Upto
  <2> QED
      BY <2>1
<1>1. SUFFICES ASSUME T # {} PROVE FALSE
  <2>1. T = {}
      BY <1>1
  <2>2. \E E : Upto(Len(seqs), E)
    <3>1. Len(seqs) \in 0 .. Len(seqs)
        BY <1>0
    <3> QED
        BY <2>1, <3>1
  <2> QED
      BY <2>2 DEF Stages
<1> HIDE DEF T
<1>3. PICK n \in T : \A m \in T : n <= m
    BY <1>1, <1>0, Least
<1> USE DEF T
<1>4. n \in 0 .. Len(seqs) /\ Len(seqs) \in Nat
    BY <1>0
<1>5. CASE n = 0
  <2>1. Upto(0, [i \in 0 .. 0 |-> <<>>])
      OBVIOUS
  <2> QED
      BY <2>1, <1>5
<1>6. CASE n > 0
  <2>0. n - 1 \in 0 .. Len(seqs)
      BY <1>4, <1>6
  <2>1. n - 1 \in 0 .. Len(seqs) /\ n - 1 \notin T
    <3> HIDE DEF T
    <3> QED
        BY <2>0, <1>3, <1>4
  <2>2. PICK E : Upto(n - 1, E)
      BY <2>1
  <2> DEFINE G == [i \in 0 .. n |-> IF i = n THEN E[n - 1] \o seqs[n] ELSE E[i]]
  <2>3. E[n - 1] \in Seq(S) /\ seqs[n] \in Seq(S)
      BY <2>2, <1>4, <1>6, ElementOfSeq
  <2>4. E[n - 1] \o seqs[n] \in Seq(S)
      BY <2>3, ConcatProperties
  <2>5. G \in [0 .. n -> Seq(S)]
      BY <2>4, <2>2, <1>4
  <2>6. G[0] = <<>>
      BY <2>2, <1>6, <1>4, SMTT(40)
  <2>7. ASSUME NEW i \in 1 .. n PROVE G[i] = G[i - 1] \o seqs[i]
    <3>1. i - 1 \in 0 .. n - 1 /\ G[i - 1] = E[i - 1]
        BY <1>4
    <3>2. CASE i = n
      <4>0. n \in 0 .. n
          BY <1>4
      <4>1. G[i] = E[n - 1] \o seqs[n]
          BY <4>0, <3>2, Zenon
      <4>2. G[i - 1] = E[n - 1]
          BY <3>1, <3>2, Zenon
      <4> HIDE DEF G
      <4> QED
          BY <4>1, <4>2, <3>2
    <3>3. CASE i # n
      <4>1. i \in 1 .. n - 1 /\ G[i] = E[i]
          BY <3>3, <1>4
      <4> QED
          BY <4>1, <3>1, <2>2
    <3> QED
        BY <3>2, <3>3
  <2>8. Upto(n, G)
      BY <2>5, <2>6, <2>7
  <2> QED
      BY <2>8
<1> QED
    BY <1>4, <1>5, <1>6

\* FlattenSeq is its last value.
LEMMA FlattenStages ==
    ASSUME NEW S, NEW seqs \in Seq(Seq(S))
    PROVE  \E E : Stages(S, seqs, E) /\ FlattenSeq(seqs) = E[Len(seqs)]
<1>1. PICK E : Stages(S, seqs, E)
    BY StagesExist
<1>2. Len(seqs) \in Nat
    BY LenProperties
<1>3. CASE Len(seqs) = 0
  <2>1. seqs = <<>>
      BY <1>3, EmptySeq
  <2>2. FlattenSeq(seqs) = <<>>
      BY <2>1, <1>3 DEF FlattenSeq
  <2> QED
      BY <2>2, <1>1, <1>3 DEF Stages
<1>4. CASE Len(seqs) # 0
  <2> DEFINE Eqn(g) == g = [i \in 1 .. Len(seqs) |->
                               IF i = 1 THEN seqs[i] ELSE g[i - 1] \o seqs[i]]
             H == [i \in 1 .. Len(seqs) |-> E[i]]
             flat == CHOOSE g : Eqn(g)
  <2>1. FlattenSeq(seqs) = flat[Len(seqs)]
      BY <1>4 DEF FlattenSeq
  <2>2. Eqn(H)
    <3>1. ASSUME NEW i \in 1 .. Len(seqs)
          PROVE  H[i] = IF i = 1 THEN seqs[i] ELSE H[i - 1] \o seqs[i]
      <4>1. E[i] = E[i - 1] \o seqs[i] /\ seqs[i] \in Seq(S)
          BY <1>1, ElementOfSeq DEF Stages
      <4>2. CASE i = 1
        <5>1. E[i - 1] = <<>>
            BY <4>2, <1>1 DEF Stages
        <5> QED
            BY <4>1, <5>1, <4>2, ConcatEmptySeq
      <4>3. CASE i # 1
        <5>1. H[i - 1] = E[i - 1]
            BY <4>3, <1>2
        <5> QED
            BY <4>1, <5>1, <4>3
      <4> QED
          BY <4>2, <4>3
    <3> QED
        BY <3>1
  <2>3. Eqn(flat)
      BY <2>2, Zenon
  <2> HIDE DEF flat
  <2> DEFINE T == {i \in 1 .. Len(seqs) : flat[i] # E[i]}
  <2>4. T = {}
    <3>1. SUFFICES ASSUME T # {} PROVE FALSE
        OBVIOUS
    <3>0. T \in SUBSET Nat
        BY <1>2
    <3> HIDE DEF T
    <3>2. PICK i \in T : \A m \in T : i <= m
        BY <3>1, <3>0, Least
    <3> USE DEF T
    <3>3. CASE i = 1
      <4>1. flat[i] = seqs[i]
          BY <2>3, <3>3, <1>2
      <4>2. H[i] = seqs[i]
          BY <2>2, <3>3, <1>2
      <4> QED
          BY <4>1, <4>2
    <3>4. CASE i # 1
      <4>1. i - 1 \in 1 .. Len(seqs) /\ i - 1 \notin T
          BY <3>2, <3>4, <1>2
      <4>2. flat[i] = flat[i - 1] \o seqs[i]
          BY <2>3, <3>4
      <4>3. E[i] = E[i - 1] \o seqs[i]
          BY <1>1 DEF Stages
      <4> QED
          BY <4>1, <4>2, <4>3
    <3> QED
        BY <3>3, <3>4
  <2> QED
      BY <1>1, <2>1, <2>4, <1>2, <1>4
<1> QED
    BY <1>3, <1>4

\* off[i]: where the i-th sequence ends in flat, which holds one after the other.
Lays(seqs, flat, off) ==
    /\ off \in [0 .. Len(seqs) -> Nat]
    /\ off[0] = 0 /\ off[Len(seqs)] = Len(flat)
    /\ \A i \in 1 .. Len(seqs) : off[i] = off[i - 1] + Len(seqs[i])
    /\ \A i, j \in 0 .. Len(seqs) : i <= j => off[i] <= off[j]
    /\ \A i \in 1 .. Len(seqs) : \A p \in 1 .. Len(seqs[i]) : flat[off[i - 1] + p] = seqs[i][p]
    /\ \A q \in 1 .. Len(flat) : \E i \in 1 .. Len(seqs) : off[i - 1] < q /\ q <= off[i]

\* Every sequence lies between the ends of two stages, in order.
LEMMA StagesLay ==
    ASSUME NEW S, NEW seqs \in Seq(Seq(S)), NEW E, Stages(S, seqs, E)
    PROVE  Lays(seqs, E[Len(seqs)], [i \in 0 .. Len(seqs) |-> Len(E[i])])
<1> DEFINE N == Len(seqs)
           off == [i \in 0 .. N |-> Len(E[i])]
<1>1. N \in Nat /\ E \in [0 .. N -> Seq(S)] /\ \A i \in 1 .. N : seqs[i] \in Seq(S)
    BY LenProperties, ElementOfSeq DEF Stages
<1>2. \A i \in 0 .. N : E[i] \in Seq(S) /\ Len(E[i]) \in Nat
    BY <1>1, LenProperties
<1>3. ASSUME NEW i \in 1 .. N
      PROVE  /\ E[i] = E[i - 1] \o seqs[i]
             /\ E[i - 1] \in Seq(S) /\ seqs[i] \in Seq(S)
             /\ Len(E[i]) = Len(E[i - 1]) + Len(seqs[i])
             /\ Len(seqs[i]) \in Nat
  <2>1. E[i] = E[i - 1] \o seqs[i]
      BY DEF Stages
  <2>2. E[i - 1] \in Seq(S) /\ seqs[i] \in Seq(S)
      BY <1>1
  <2>3. Len(E[i - 1] \o seqs[i]) = Len(E[i - 1]) + Len(seqs[i])
      BY <2>2, ConcatProperties
  <2> QED
      BY <2>1, <2>2, <2>3, LenProperties
<1>4. ASSUME NEW i \in 1 .. N
      PROVE  /\ \A p \in 1 .. Len(E[i - 1]) : E[i][p] = E[i - 1][p]
             /\ \A p \in 1 .. Len(seqs[i]) : E[i][Len(E[i - 1]) + p] = seqs[i][p]
  <2> DEFINE a == E[i - 1]
             b == seqs[i]
  <2>1. E[i] = a \o b /\ a \in Seq(S) /\ b \in Seq(S)
      BY <1>3
  <2> HIDE DEF a, b
  <2>2. \A p \in 1 .. Len(a) + Len(b) :
           (a \o b)[p] = IF p <= Len(a) THEN a[p] ELSE b[p - Len(a)]
      BY <2>1, ConcatProperties
  <2>3. Len(a) \in Nat /\ Len(b) \in Nat
      BY <2>1, LenProperties
  <2>4. /\ \A p \in 1 .. Len(a) : (a \o b)[p] = a[p]
        /\ \A p \in 1 .. Len(b) : (a \o b)[Len(a) + p] = b[p]
      BY <2>2, <2>3
  <2> QED
      BY <2>1, <2>4 DEF a, b
<1>6. \A i, j \in 0 .. N : i <= j =>
         /\ Len(E[i]) <= Len(E[j])
         /\ \A p \in 1 .. Len(E[i]) : E[j][p] = E[i][p]
  <2>1. SUFFICES ASSUME NEW i \in 0 .. N
                 PROVE  \A j \in 0 .. N : i <= j =>
                           /\ Len(E[i]) <= Len(E[j])
                           /\ \A p \in 1 .. Len(E[i]) : E[j][p] = E[i][p]
      OBVIOUS
  <2> DEFINE P(j) == Len(E[i]) <= Len(E[j]) /\ \A p \in 1 .. Len(E[i]) : E[j][p] = E[i][p]
             T == {j \in i .. N : ~P(j)}
  <2>2. SUFFICES ASSUME T # {} PROVE FALSE
      BY <1>1, SMTT(40)
  <2>0. T \in SUBSET Nat
      BY <1>1
  <2> HIDE DEF T
  <2>3. PICK j \in T : \A m \in T : j <= m
      BY <2>2, <2>0, Least
  <2> USE DEF T
  <2>4. CASE j = i
      BY <2>4, <1>2
  <2>5. CASE j # i
    <3>1. j - 1 \in i .. N /\ j - 1 \notin T /\ j \in 1 .. N /\ j - 1 \in 0 .. N
        BY <2>3, <2>5, <1>1
    <3>2. P(j - 1)
        BY <3>1
    <3>3. Len(E[j]) = Len(E[j - 1]) + Len(seqs[j]) /\ Len(seqs[j]) \in Nat
        BY <3>1, <1>3
    <3>4. Len(E[i]) \in Nat /\ Len(E[j - 1]) \in Nat
        BY <1>2, <3>1
    <3>5. \A p \in 1 .. Len(E[j - 1]) : E[j][p] = E[j - 1][p]
        BY <1>4, <3>1
    <3> HIDE DEF N
    <3>6. P(j)
      <4>0. \A a, b, c \in Nat : a <= b => a <= b + c
          OBVIOUS
      <4>1. Len(E[i]) <= Len(E[j]) /\ Len(E[i]) <= Len(E[j - 1])
          BY <4>0, <3>2, <3>3, <3>4, Zenon
      <4>2. ASSUME NEW p \in 1 .. Len(E[i]) PROVE E[j][p] = E[i][p]
        <5>1. p \in 1 .. Len(E[j - 1])
            BY <4>1, <3>4
        <5> QED
            BY <5>1, <3>2, <3>5
      <4> QED
          BY <4>1, <4>2
    <3> QED
        BY <3>6
  <2> QED
      BY <2>4, <2>5
<1>7. ASSUME NEW q \in 1 .. Len(E[N])
      PROVE  \E i \in 1 .. N : off[i - 1] < q /\ q <= off[i]
  <2> DEFINE T == {i \in 0 .. N : q <= Len(E[i])}
  <2>1. N \in T /\ T \in SUBSET Nat
      BY <1>1
  <2> HIDE DEF T
  <2>2. PICK i \in T : \A m \in T : i <= m
      BY <2>1, Least
  <2> USE DEF T
  <2>3. i # 0
      BY <1>1, EmptySeq DEF Stages
  <2>4. i - 1 \in 0 .. N /\ i - 1 \notin T /\ i \in 1 .. N
      BY <2>2, <2>3, <1>1
  <2>5. Len(E[i - 1]) \in Nat /\ ~(q <= Len(E[i - 1])) /\ q <= Len(E[i])
      BY <2>4, <1>2
  <2>6. off[i - 1] = Len(E[i - 1]) /\ off[i] = Len(E[i])
      BY <2>4
  <2> HIDE DEF off, N
  <2>7. off[i - 1] < q /\ q <= off[i]
      BY <2>5, <2>6
  <2> QED
      BY <2>4, <2>7
<1>8. off[0] = 0 /\ off[N] = Len(E[N]) /\ off \in [0 .. N -> Nat]
    BY <1>1, <1>2, EmptySeq DEF Stages
<1>9. ASSUME NEW i \in 1 .. N
      PROVE  /\ off[i] = off[i - 1] + Len(seqs[i])
             /\ \A p \in 1 .. Len(seqs[i]) : E[N][off[i - 1] + p] = seqs[i][p]
  <2>1. i - 1 \in 0 .. N /\ i \in 0 .. N /\ N \in 0 .. N /\ i <= N
      BY <1>1
  <2>2. off[i] = Len(E[i]) /\ off[i - 1] = Len(E[i - 1])
      BY <2>1
  <2>3. ASSUME NEW p \in 1 .. Len(seqs[i])
        PROVE  E[N][Len(E[i - 1]) + p] = seqs[i][p]
    <3>0. Len(E[i - 1]) \in Nat /\ Len(seqs[i]) \in Nat /\ Len(E[i]) = Len(E[i - 1]) + Len(seqs[i])
        BY <1>2, <1>3, <2>1
    <3> DEFINE a == Len(E[i - 1])
               b == Len(seqs[i])
    <3>1. a + p \in 1 .. Len(E[i])
      <4>1. p \in 1 .. b /\ a \in Nat /\ b \in Nat /\ Len(E[i]) = a + b
          BY <3>0
      <4> HIDE DEF a, b
      <4> QED
          BY <4>1
    <3>2. E[N][Len(E[i - 1]) + p] = E[i][Len(E[i - 1]) + p]
        BY <3>1, <2>1, <1>6
    <3> QED
        BY <3>2, <1>4
  <2> QED
      BY <2>2, <2>3, <1>3
<1>10. \A i, j \in 0 .. N : i <= j => off[i] <= off[j]
    BY <1>6
<1> QED
    BY <1>7, <1>8, <1>9, <1>10 DEF Lays

\* FlattenSeq lays its sequences out one after the other.
LEMMA FlattenLays ==
    ASSUME NEW S, NEW seqs \in Seq(Seq(S))
    PROVE  /\ FlattenSeq(seqs) \in Seq(S)
           /\ \E off : Lays(seqs, FlattenSeq(seqs), off)
<1>1. PICK E : Stages(S, seqs, E) /\ FlattenSeq(seqs) = E[Len(seqs)]
    BY FlattenStages
<1>2. E[Len(seqs)] \in Seq(S)
    BY <1>1, LenProperties DEF Stages
<1> QED
    BY <1>1, <1>2, StagesLay

-----------------------------------------------------------------------------
(***************************************************************************)
(* The browser encodes a value, the firmware decodes it.                   *)
(***************************************************************************)
\* A token, and what the encoding of a value is made of.
Token == [t : Text, n : Nat]
Encoded == {"+", "%", "2", "6", "a"}

\* A function on 1 .. n is a sequence.
LEMMA FcnIsSeq ==
    ASSUME NEW S, NEW n \in Nat, NEW f \in [1 .. n -> S]
    PROVE  f \in Seq(S) /\ Len(f) = n /\ DOMAIN f = 1 .. n
<1>1. f \in Seq(S) /\ Len(f) = n
    OBVIOUS
<1>2. DOMAIN f = 1 .. n
    OBVIOUS
<1> QED
    BY <1>1, <1>2

\* A sequence of one element.
LEMMA OneIsSeq ==
    ASSUME NEW S, NEW c \in S
    PROVE  <<c>> \in Seq(S) /\ Len(<<c>>) = 1 /\ <<c>>[1] = c
OBVIOUS

\* The tokens of a text hold the text.
LEMMA ToksTypes ==
    ASSUME NEW s \in Seq(Text)
    PROVE  /\ Toks(s) \in Seq(Token)
           /\ Len(Toks(s)) = Len(s) /\ DOMAIN Toks(s) = 1 .. Len(s)
           /\ \A i \in 1 .. Len(s) : Toks(s)[i].t = s[i]
<1>1. Len(s) \in Nat /\ DOMAIN s = 1 .. Len(s) /\ \A i \in 1 .. Len(s) : s[i] \in Text
    BY LenProperties, ElementOfSeq
<1>2. Toks(s) \in [1 .. Len(s) -> Token]
    BY <1>1 DEF Toks, Tok, Token
<1>3. \A i \in 1 .. Len(s) : Toks(s)[i].t = s[i]
    BY <1>1 DEF Toks, Tok
<1> QED
    BY <1>1, <1>2, <1>3, FcnIsSeq

\* off[i]: where the i-th character of v ends in its encoding.
EncodeLays(v, enc, off) ==
    /\ off \in [0 .. Len(v) -> Nat]
    /\ off[0] = 0 /\ off[Len(v)] = Len(enc)
    /\ \A i, j \in 0 .. Len(v) : i <= j => off[i] <= off[j]
    /\ \A i \in 1 .. Len(v) :
          /\ v[i] = " " => off[i] = off[i - 1] + 1 /\ enc[off[i - 1] + 1] = "+"
          /\ v[i] = "a" => off[i] = off[i - 1] + 1 /\ enc[off[i - 1] + 1] = "a"
          /\ v[i] = "&" => /\ off[i] = off[i - 1] + 3
                           /\ enc[off[i - 1] + 1] = "%" /\ enc[off[i - 1] + 2] = "2"
                           /\ enc[off[i - 1] + 3] = "6"
    /\ \A q \in 1 .. Len(enc) : \E i \in 1 .. Len(v) : off[i - 1] < q /\ q <= off[i]

\* The encoding of the three characters.
LEMMA EncodeCharIs ==
    /\ EncodeChar(" ") = <<"+">>
    /\ EncodeChar("a") = <<"a">>
    /\ EncodeChar("&") = <<"%", "2", "6">>
BY DEF EncodeChar

\* The encoding of a value: one token, or three, for each character.
LEMMA EncodeIs ==
    ASSUME NEW v \in Seq(Char)
    PROVE  /\ Encode(v) \in Seq(Encoded)
           /\ \E off : EncodeLays(v, Encode(v), off)
<1> DEFINE N == Len(v)
           seqs == [i \in DOMAIN v |-> EncodeChar(v[i])]
<1>1. N \in Nat /\ DOMAIN v = 1 .. N /\ \A i \in 1 .. N : v[i] \in Char
    BY LenProperties, ElementOfSeq
<1>2. \A i \in 1 .. N : seqs[i] = EncodeChar(v[i])
    BY <1>1
<1>3. \A c \in Char : EncodeChar(c) \in Seq(Encoded)
  <2>1. /\ <<"+">> \in Seq(Encoded) /\ <<"a">> \in Seq(Encoded)
        /\ <<"%", "2", "6">> \in Seq(Encoded)
      BY DEF Encoded
  <2> QED
      BY <2>1, EncodeCharIs, Zenon DEF Char
<1>4. seqs \in [1 .. N -> Seq(Encoded)]
    BY <1>1, <1>3
<1>5. Encode(v) = FlattenSeq(seqs)
    BY DEF Encode
<1> HIDE DEF seqs, N
<1>6. seqs \in Seq(Seq(Encoded)) /\ Len(seqs) = N
    BY <1>1, <1>4, FcnIsSeq
<1>7. FlattenSeq(seqs) \in Seq(Encoded)
    BY <1>6, FlattenLays
<1>8. PICK off : Lays(seqs, FlattenSeq(seqs), off)
    BY <1>6, FlattenLays
<1> DEFINE enc == FlattenSeq(seqs)
<1> HIDE DEF enc
<1>9. /\ off \in [0 .. N -> Nat]
      /\ off[0] = 0 /\ off[N] = Len(enc)
      /\ \A i \in 1 .. N : off[i] = off[i - 1] + Len(seqs[i])
      /\ \A i, j \in 0 .. N : i <= j => off[i] <= off[j]
      /\ \A i \in 1 .. N : \A p \in 1 .. Len(seqs[i]) : enc[off[i - 1] + p] = seqs[i][p]
      /\ \A q \in 1 .. Len(enc) : \E i \in 1 .. N : off[i - 1] < q /\ q <= off[i]
    BY <1>8, <1>6 DEF Lays, enc
<1>10. ASSUME NEW i \in 1 .. N, v[i] = " "
       PROVE  off[i] = off[i - 1] + 1 /\ enc[off[i - 1] + 1] = "+"
  <2>1. seqs[i] = <<"+">>
      BY <1>2, <1>10, EncodeCharIs DEF seqs
  <2>2. Len(seqs[i]) = 1 /\ 1 \in 1 .. Len(seqs[i]) /\ seqs[i][1] = "+"
      BY <2>1
  <2> QED
      BY <2>2, <1>9
<1>11. ASSUME NEW i \in 1 .. N, v[i] = "a"
       PROVE  off[i] = off[i - 1] + 1 /\ enc[off[i - 1] + 1] = "a"
  <2>1. seqs[i] = <<"a">>
      BY <1>2, <1>11, EncodeCharIs DEF seqs
  <2>2. Len(seqs[i]) = 1 /\ 1 \in 1 .. Len(seqs[i]) /\ seqs[i][1] = "a"
      BY <2>1
  <2> QED
      BY <2>2, <1>9
<1>12. ASSUME NEW i \in 1 .. N, v[i] = "&"
       PROVE  /\ off[i] = off[i - 1] + 3
              /\ enc[off[i - 1] + 1] = "%" /\ enc[off[i - 1] + 2] = "2"
              /\ enc[off[i - 1] + 3] = "6"
  <2>1. seqs[i] = <<"%", "2", "6">>
      BY <1>2, <1>12, EncodeCharIs DEF seqs
  <2>2. /\ Len(seqs[i]) = 3 /\ 1 \in 1 .. Len(seqs[i]) /\ 2 \in 1 .. Len(seqs[i])
        /\ 3 \in 1 .. Len(seqs[i])
        /\ seqs[i][1] = "%" /\ seqs[i][2] = "2" /\ seqs[i][3] = "6"
      BY <2>1
  <2> QED
      BY <2>2, <1>9
<1>13. EncodeLays(v, enc, off)
    BY <1>9, <1>10, <1>11, <1>12 DEF EncodeLays, N
<1> QED
    BY <1>5, <1>7, <1>13 DEF enc

\* HTTPConfig_HTMLEntityDecode gives text, whatever it is given.
LEMMA DecodeTypes ==
    ASSUME NEW t \in Seq(Token)
    PROVE  HTTPConfig_HTMLEntityDecode(t) \in Seq(Text)
<1> DEFINE d == [i \in DOMAIN t |-> DecodeAt(t, i)]
<1>1. Len(t) \in Nat /\ DOMAIN t = 1 .. Len(t)
    BY LenProperties
<1>2. ASSUME NEW i \in 1 .. Len(t)
      PROVE  DecodeAt(t, i) \in Seq(Text)
  <2>1. t[i] \in Token
      BY ElementOfSeq
  <2>2. t[i].t \in Text
      BY <2>1 DEF Token
  <2>3. \A c \in Text : <<c>> \in Seq(Text)
      BY OneIsSeq
  <2>4. <<>> \in Seq(Text) /\ <<" ">> \in Seq(Text) /\ <<"&">> \in Seq(Text)
    <3>1. " " \in Text /\ "&" \in Text
        BY DEF Text, Char
    <3> QED
        BY <3>1, <2>3, EmptySeq, Zenon
  <2> QED
      BY <2>2, <2>3, <2>4, Zenon DEF DecodeAt
<1>3. d \in [1 .. Len(t) -> Seq(Text)]
    BY <1>1, <1>2
<1>4. HTTPConfig_HTMLEntityDecode(t) = FlattenSeq(d)
    BY DEF HTTPConfig_HTMLEntityDecode
<1> HIDE DEF d
<1>5. d \in Seq(Seq(Text))
    BY <1>1, <1>3, FcnIsSeq
<1> QED
    BY <1>4, <1>5, FlattenLays

\* HTTPConfig_HTMLEntityDecode gives back every value that was encoded.
LEMMA DecodeEncode ==
    ASSUME NEW v \in Seq(Char), NEW t \in Seq(Token), Len(t) = Len(Encode(v)),
           \A q \in 1 .. Len(t) : t[q].t = Encode(v)[q]
    PROVE  HTTPConfig_HTMLEntityDecode(t) = v
<1> DEFINE N == Len(v)
           M == Len(t)
           enc == Encode(v)
           d == [q \in DOMAIN t |-> DecodeAt(t, q)]
<1>0. N \in Nat
    BY LenProperties
<1>1. \A i \in 1 .. N : v[i] \in {"a", " ", "&"}
    BY ElementOfSeq DEF Char
<1>2. M \in Nat /\ DOMAIN t = 1 .. M
    BY LenProperties
<1>3. PICK off : EncodeLays(v, enc, off)
    BY EncodeIs
<1>4. HTTPConfig_HTMLEntityDecode(t) = FlattenSeq(d)
    BY DEF HTTPConfig_HTMLEntityDecode
<1>5. M = Len(enc) /\ \A q \in 1 .. M : t[q].t = enc[q]
    OBVIOUS
<1> HIDE DEF N, M, enc
<1>6. /\ off \in [0 .. N -> Nat]
      /\ off[0] = 0 /\ off[N] = M
      /\ \A i, j \in 0 .. N : i <= j => off[i] <= off[j]
      /\ \A q \in 1 .. M : \E i \in 1 .. N : off[i - 1] < q /\ q <= off[i]
    BY <1>3, <1>5 DEF EncodeLays, N
<1>7. \A i \in 1 .. N : off[i - 1] \in Nat /\ off[i] \in Nat /\ off[i] <= M
    BY <1>6, <1>0
<1>8. ASSUME NEW i \in 1 .. N, v[i] = " "
      PROVE  off[i] = off[i - 1] + 1 /\ t[off[i - 1] + 1].t = "+"
  <2>1. off[i] = off[i - 1] + 1 /\ enc[off[i - 1] + 1] = "+"
      BY <1>3, <1>8 DEF EncodeLays, N
  <2>2. off[i - 1] + 1 \in 1 .. M
      BY <2>1, <1>7, <1>2
  <2> QED
      BY <2>1, <2>2, <1>5
<1>9. ASSUME NEW i \in 1 .. N, v[i] = "a"
      PROVE  off[i] = off[i - 1] + 1 /\ t[off[i - 1] + 1].t = "a"
  <2>1. off[i] = off[i - 1] + 1 /\ enc[off[i - 1] + 1] = "a"
      BY <1>3, <1>9 DEF EncodeLays, N
  <2>2. off[i - 1] + 1 \in 1 .. M
      BY <2>1, <1>7, <1>2
  <2> QED
      BY <2>1, <2>2, <1>5
<1>10. ASSUME NEW i \in 1 .. N, v[i] = "&"
       PROVE  /\ off[i] = off[i - 1] + 3
              /\ t[off[i - 1] + 1].t = "%" /\ t[off[i - 1] + 2].t = "2"
              /\ t[off[i - 1] + 3].t = "6"
  <2>1. /\ off[i] = off[i - 1] + 3
        /\ enc[off[i - 1] + 1] = "%" /\ enc[off[i - 1] + 2] = "2"
        /\ enc[off[i - 1] + 3] = "6"
      BY <1>3, <1>10 DEF EncodeLays, N
  <2>2. off[i - 1] + 1 \in 1 .. M /\ off[i - 1] + 2 \in 1 .. M /\ off[i - 1] + 3 \in 1 .. M
      BY <2>1, <1>7, <1>2, SMTT(40)
  <2> QED
      BY <2>1, <2>2, <1>5
<1>20. \A x, y \in Nat : x < y /\ y <= x + 3 => y = x + 1 \/ y = x + 2 \/ y = x + 3
    OBVIOUS
\* Every % begins an escape of three.
<1>11. ASSUME NEW q \in 1 .. M, t[q].t = "%"
       PROVE  \E k \in 1 .. N : q = off[k - 1] + 1 /\ off[k] = q + 2
  <2>1. PICK k \in 1 .. N : off[k - 1] < q /\ q <= off[k]
      BY <1>6
  <2>2. off[k - 1] \in Nat /\ off[k] \in Nat
      BY <1>7
  <2>3. CASE v[k] = " "
    <3>1. off[k] = off[k - 1] + 1 /\ t[off[k - 1] + 1].t = "+"
        BY <2>3, <1>8
    <3>2. q = off[k - 1] + 1
        BY <3>1, <2>1, <2>2, <1>2
    <3> QED
        BY <3>1, <3>2, <1>11
  <2>4. CASE v[k] = "a"
    <3>1. off[k] = off[k - 1] + 1 /\ t[off[k - 1] + 1].t = "a"
        BY <2>4, <1>9
    <3>2. q = off[k - 1] + 1
        BY <3>1, <2>1, <2>2, <1>2
    <3> QED
        BY <3>1, <3>2, <1>11
  <2>5. CASE v[k] = "&"
    <3>1. /\ off[k] = off[k - 1] + 3
          /\ t[off[k - 1] + 2].t = "2"
          /\ t[off[k - 1] + 3].t = "6"
        BY <2>5, <1>10
    <3>2. q = off[k - 1] + 1 \/ q = off[k - 1] + 2 \/ q = off[k - 1] + 3
      <4>1. q \in Nat
          BY <1>2
      <4> QED
          BY <4>1, <1>20, <3>1, <2>1, <2>2, Zenon
    <3>3. q = off[k - 1] + 1
        BY <3>1, <3>2, <1>11
    <3> QED
        BY <3>1, <3>3, <2>2
  <2> QED
      BY <2>3, <2>4, <2>5, <1>1
<1> DEFINE Skipped(q) == \E j \in {q - 1, q - 2} : j \in DOMAIN t /\ t[j].t = "%"
\* The first token of a piece is none of an escape's digits.
<1>12. ASSUME NEW i \in 1 .. N PROVE ~Skipped(off[i - 1] + 1)
  <2> DEFINE r == off[i - 1] + 1
  <2> HIDE DEF r
  <2> SUFFICES ASSUME NEW j \in {r - 1, r - 2},
                      j \in DOMAIN t /\ t[j].t = "%"
               PROVE  FALSE
    <3>1. ~Skipped(r)
        BY Zenon
    <3> QED
        BY <3>1 DEF r
  <2>1. j \in 1 .. M /\ t[j].t = "%" /\ (j = off[i - 1] \/ j = off[i - 1] - 1)
    <3>1. off[i - 1] \in Nat
        BY <1>7
    <3>2. j = off[i - 1] \/ j = off[i - 1] - 1
        BY <3>1 DEF r
    <3> QED
        BY <3>2, <1>2, Zenon
  <2>2. PICK k \in 1 .. N : j = off[k - 1] + 1 /\ off[k] = j + 2
      BY <2>1, <1>11
  <2>3. off[k - 1] \in Nat /\ off[k] \in Nat /\ off[i - 1] \in Nat
      BY <1>7
  <2>4. CASE k <= i - 1
    <3>0. \A x, y \in Nat : y + 2 <= x => ~(y = x \/ y = x - 1)
        OBVIOUS
    <3>1. off[k] <= off[i - 1]
        BY <2>4, <1>6, <1>0
    <3>2. j \in Nat
        BY <2>1, <1>2
    <3> QED
        BY <3>0, <3>1, <3>2, <2>1, <2>2, <2>3, Zenon
  <2>5. CASE i <= k
    <3>0. \A x, y \in Nat : x <= y => ~(y + 1 = x \/ y + 1 = x - 1)
        OBVIOUS
    <3>1. off[i - 1] <= off[k - 1]
        BY <2>5, <1>6, <1>0
    <3> QED
        BY <3>0, <3>1, <2>1, <2>2, <2>3, Zenon
  <2> QED
      BY <2>4, <2>5, <1>0
<1>13. \A q \in 1 .. M : /\ Skipped(q) => DecodeAt(t, q) = <<>>
                         /\ ~Skipped(q) /\ t[q].t = "+" => DecodeAt(t, q) = <<" ">>
                         /\ ~Skipped(q) /\ t[q].t = "%" => DecodeAt(t, q) = <<"&">>
                         /\ ~Skipped(q) /\ t[q].t = "a" => DecodeAt(t, q) = <<"a">>
    BY DEF DecodeAt
<1>14. \A q \in 1 .. M : d[q] = DecodeAt(t, q)
    BY <1>2
\* The pieces decode to the characters one by one.
<1>15. ASSUME NEW i \in 1 .. N
       PROVE  /\ off[i - 1] + 1 \in 1 .. M /\ d[off[i - 1] + 1] = <<v[i]>>
              /\ \/ off[i] = off[i - 1] + 1
                 \/ /\ off[i] = off[i - 1] + 3
                    /\ off[i - 1] + 2 \in 1 .. M /\ off[i - 1] + 3 \in 1 .. M
                    /\ d[off[i - 1] + 2] = <<>> /\ d[off[i - 1] + 3] = <<>>
  <2> DEFINE o == off[i - 1]
  <2>1. o \in Nat /\ off[i] \in Nat /\ off[i] <= M
      BY <1>7
  <2>2. ~Skipped(o + 1)
      BY <1>12
  <2>3. CASE v[i] = " "
    <3>1. off[i] = o + 1 /\ t[o + 1].t = "+"
        BY <2>3, <1>8
    <3>2. o + 1 \in 1 .. M
        BY <3>1, <2>1, <1>2
    <3>3. DecodeAt(t, o + 1) = <<" ">>
        BY <3>1, <3>2, <2>2, <1>13
    <3> QED
        BY <3>1, <3>2, <3>3, <2>3, <1>14
  <2>4. CASE v[i] = "a"
    <3>1. off[i] = o + 1 /\ t[o + 1].t = "a"
        BY <2>4, <1>9
    <3>2. o + 1 \in 1 .. M
        BY <3>1, <2>1, <1>2
    <3>3. DecodeAt(t, o + 1) = <<"a">>
        BY <3>1, <3>2, <2>2, <1>13
    <3> QED
        BY <3>1, <3>2, <3>3, <2>4, <1>14
  <2>5. CASE v[i] = "&"
    <3>1. off[i] = o + 3 /\ t[o + 1].t = "%"
        BY <2>5, <1>10
    <3>2. o + 1 \in 1 .. M /\ o + 2 \in 1 .. M /\ o + 3 \in 1 .. M
        BY <3>1, <2>1, <1>2, SMTT(40)
    <3>3. DecodeAt(t, o + 1) = <<"&">>
        BY <3>1, <3>2, <2>2, <1>13
    <3>4. Skipped(o + 2) /\ Skipped(o + 3)
      <4>1. o + 1 \in Nat /\ o + 2 = o + 1 + 1 /\ o + 3 = o + 1 + 2
          BY <2>1
      <4>2. o + 1 \in DOMAIN t
          BY <3>2, <1>2
      <4>3. \A j \in Nat : \A q : (q = j + 1 \/ q = j + 2) /\ j \in DOMAIN t /\ t[j].t = "%"
                                => Skipped(q)
          OBVIOUS
      <4> HIDE DEF o, Skipped
      <4> QED
          BY <4>1, <4>2, <4>3, <3>1, Zenon
    <3>5. DecodeAt(t, o + 2) = <<>> /\ DecodeAt(t, o + 3) = <<>>
        BY <3>4, <3>2, <1>13
    <3> QED
        BY <3>1, <3>2, <3>3, <3>5, <2>5, <1>14
  <2> QED
      BY <2>3, <2>4, <2>5, <1>1
<1>16. \A q \in 1 .. M : d[q] \in Seq(Char)
  <2>1. SUFFICES ASSUME NEW q \in 1 .. M PROVE d[q] \in Seq(Char)
      OBVIOUS
  <2>2. PICK i \in 1 .. N : off[i - 1] < q /\ q <= off[i]
      BY <1>6
  <2>3. q = off[i - 1] + 1 \/ d[q] = <<>>
    <3>1. off[i - 1] \in Nat /\ off[i] \in Nat
        BY <1>7
    <3>2. CASE off[i] = off[i - 1] + 1
        BY <3>1, <3>2, <2>2, <1>2
    <3>3. CASE off[i] = off[i - 1] + 3
      <4>0. q \in Nat
          BY <1>2
      <4>1. q = off[i - 1] + 1 \/ q = off[i - 1] + 2 \/ q = off[i - 1] + 3
          BY <4>0, <1>20, <3>1, <3>3, <2>2, Zenon
      <4>2. d[off[i - 1] + 2] = <<>> /\ d[off[i - 1] + 3] = <<>>
          BY <1>15, <3>3, <3>1
      <4> HIDE DEF d
      <4> QED
          BY <4>1, <4>2
    <3> QED
        BY <3>2, <3>3, <1>15
  <2>4. d[q] = <<v[i]>> \/ d[q] = <<>>
      BY <2>3, <1>15
  <2>5. v[i] \in Char
      BY <1>1 DEF Char
  <2> HIDE DEF d
  <2>6. <<v[i]>> \in Seq(Char) /\ <<>> \in Seq(Char)
      BY <2>5, OneIsSeq, EmptySeq
  <2> QED
      BY <2>4, <2>6
<1>17. d \in Seq(Seq(Char)) /\ Len(d) = M
  <2>1. d \in [1 .. M -> Seq(Char)]
      BY <1>16, <1>2
  <2> HIDE DEF d
  <2> QED
      BY <2>1, <1>2, FcnIsSeq
<1> HIDE DEF d
<1>18. PICK D : Stages(Char, d, D) /\ FlattenSeq(d) = D[M]
    BY <1>17, FlattenStages
<1>19. /\ D \in [0 .. M -> Seq(Char)] /\ D[0] = <<>>
       /\ \A q \in 1 .. M : D[q] = D[q - 1] \o d[q]
    BY <1>18, <1>17 DEF Stages
<1>24. \A p \in Nat, q \in 1 .. M : q = p + 1 => D[q] = D[p] \o d[q]
  <2>1. SUFFICES ASSUME NEW p \in Nat, NEW q \in 1 .. M, q = p + 1
                 PROVE  D[q] = D[p] \o d[q]
      BY Zenon
  <2>2. p = q - 1
      BY <2>1
  <2> QED
      BY <2>2, <1>19, Zenon
\* What is decoded at the end of a piece is the value so far.
<1> DEFINE T == {k \in 0 .. N : D[off[k]] # SubSeq(v, 1, k)}
<1>23. T = {}
  <2>1. SUFFICES ASSUME T # {} PROVE FALSE
      OBVIOUS
  <2>2. T \in SUBSET Nat
      BY <1>0
  <2> HIDE DEF T
  <2>3. PICK k \in T : \A m \in T : k <= m
      BY <2>1, <2>2, Least
  <2>4. k \in 0 .. N /\ D[off[k]] # SubSeq(v, 1, k)
      BY DEF T
  <2>5. k # 0
    <3>1. SubSeq(v, 1, 0) = <<>>
        BY SubSeqEmpty
    <3> QED
        BY <3>1, <2>4, <1>6, <1>19
  <2>6. k \in 1 .. N /\ k - 1 \in 0 .. N /\ k - 1 < k
      BY <2>4, <2>5, <1>0
  <2>7. D[off[k - 1]] = SubSeq(v, 1, k - 1)
      BY <2>6, <2>3 DEF T
  <2> DEFINE o == off[k - 1]
             s == SubSeq(v, 1, k - 1) \o <<v[k]>>
  <2>8. o \in Nat
      BY <2>6, <1>7
  <2>9. D[o + 1] = s
    <3>1. o + 1 \in 1 .. M /\ d[o + 1] = <<v[k]>>
        BY <1>15, <2>6
    <3>3. D[o + 1] = D[o] \o d[o + 1]
      <4> HIDE DEF o
      <4> QED
          BY <3>1, <2>8, <1>24, Zenon
    <3> QED
        BY <3>1, <3>3, <2>7
  <2>10. s = SubSeq(v, 1, k)
    <3>1. k \in 1 .. Len(v) /\ 1 \in 1 .. Len(v) /\ k \in 1 .. Len(v)
        BY <2>6, <1>0 DEF N
    <3> QED
        BY <3>1, SubSeqRecursiveSecond
  <2>11. s \in Seq(Char)
    <3>0. \A i \in 1 .. k : i \in 1 .. N
        BY <2>6, <1>0
    <3>1. \A i \in 1 .. k : v[i] \in Char
        BY <3>0, <1>1, Zenon DEF Char
    <3>2. SubSeq(v, 1, k) \in Seq(Char)
        BY <3>1, <2>6, SubSeqProperties
    <3> QED
        BY <3>2, <2>10
  <2>12. CASE off[k] = o + 1
      BY <2>12, <2>9, <2>10, <2>4
  <2>13. CASE off[k] = o + 3
    <3>1. /\ o + 2 \in 1 .. M /\ o + 3 \in 1 .. M
          /\ d[o + 2] = <<>> /\ d[o + 3] = <<>>
        BY <1>15, <2>6, <2>13, <2>8
    <3>2. o + 1 \in Nat /\ o + 2 \in Nat /\ o + 2 = o + 1 + 1 /\ o + 3 = o + 2 + 1
        BY <2>8
    <3> HIDE DEF s, o
    <3>3. D[o + 2] = D[o + 1] \o d[o + 2]
        BY <3>1, <3>2, <1>24, Zenon
    <3>4. D[o + 3] = D[o + 2] \o d[o + 3]
        BY <3>1, <3>2, <1>24, Zenon
    <3>5. s \o <<>> = s
        BY <2>11, ConcatEmptySeq
    <3> QED
        BY <3>1, <3>3, <3>4, <3>5, <2>9, <2>10, <2>13, <2>4
  <2> QED
      BY <2>12, <2>13, <1>15, <2>6
<1>21. D[off[N]] = SubSeq(v, 1, N)
  <2>1. N \in 0 .. N
      BY <1>0
  <2> QED
      BY <2>1, <1>23
<1>22. SubSeq(v, 1, N) = v
    BY SubSeqFull DEF N
<1> QED
    BY <1>4, <1>6, <1>18, <1>21, <1>22

-----------------------------------------------------------------------------
(***************************************************************************)
(* The body of a posted form.                                              *)
(***************************************************************************)
\* What the assumption says of a form.
LEMMA FormIs ==
    ASSUME NEW form \in Forms
    PROVE  /\ Len(form) \in Nat /\ DOMAIN form = 1 .. Len(form)
           /\ \A i \in 1 .. Len(form) :
                 /\ form[i][1] \in Text /\ form[i][1] \notin {"&", "="}
                 /\ form[i][2] \in Seq(Char)
                 /\ \A j \in 1 .. Len(form) : form[i][1] = form[j][1] => i = j
<1>1. form \in Seq(STRING \X Seq(Char))
    BY HttpAssumption
<1>2. Len(form) \in Nat /\ DOMAIN form = 1 .. Len(form)
    BY <1>1, LenProperties
<1>3. \A i \in 1 .. Len(form) : form[i] \in STRING \X Seq(Char)
    BY <1>1, ElementOfSeq
<1>4. \A i \in 1 .. Len(form) : form[i][2] \in Seq(Char)
    BY <1>3
<1>5. \A i \in 1 .. Len(form) : form[i][1] \in Text
  <2>1. ASSUME NEW i \in DOMAIN form PROVE form[i][1] \in Names
    <3> DEFINE W == {form[j][1] : j \in DOMAIN form}
    <3>1. form[i][1] \in W
        OBVIOUS
    <3>2. W \in {{f[j][1] : j \in DOMAIN f} : f \in Forms}
        OBVIOUS
    <3> HIDE DEF W
    <3> QED
        BY <3>1, <3>2 DEF Names
  <2> QED
      BY <1>2, <2>1 DEF Text
<1>6. \A i, j \in DOMAIN form :
         form[i][1] \notin {"&", "="} /\ (form[i][1] = form[j][1] => i = j)
    BY HttpAssumption, Zenon
<1> QED
    BY <1>2, <1>4, <1>5, <1>6, Zenon

\* s: the separator sep, a key k, "=" and the encoded value e.
IsPair(s, sep, k, e) ==
    /\ s \in Seq(Text) /\ Len(s) = Len(sep) + 2 + Len(e)
    /\ s[Len(sep) + 1] = k /\ s[Len(sep) + 2] = "="
    /\ \A p \in 1 .. Len(sep) : s[p] = sep[p]
    /\ \A p \in 1 .. Len(e) : s[Len(sep) + 2 + p] = e[p]

\* One field of a body.
LEMMA PairIs ==
    ASSUME NEW sep \in Seq(Text), NEW k \in Text, NEW e \in Seq(Text)
    PROVE  IsPair(sep \o <<k, "=">> \o e, sep, k, e)
<1> DEFINE m == <<k, "=">>
           a == sep \o m
<1>1. m \in Seq(Text) /\ Len(m) = 2 /\ m[1] = k /\ m[2] = "="
  <2>1. "=" \in Text
      BY DEF Text
  <2> QED
      BY <2>1
<1> HIDE DEF m
<1>2. /\ a \in Seq(Text) /\ Len(a) = Len(sep) + Len(m)
      /\ \A i \in 1 .. Len(sep) + Len(m) : a[i] =
             IF i <= Len(sep) THEN sep[i] ELSE m[i - Len(sep)]
    BY <1>1, ConcatProperties
<1> HIDE DEF a
<1>3. /\ a \o e \in Seq(Text) /\ Len(a \o e) = Len(a) + Len(e)
      /\ \A i \in 1 .. Len(a) + Len(e) : (a \o e)[i] = IF i <= Len(a) THEN a[i] ELSE e[i - Len(a)]
  <2>1. a \in Seq(Text)
      BY <1>2
  <2> QED
      BY <2>1, ConcatProperties
<1>4. Len(sep) \in Nat /\ Len(e) \in Nat
    BY LenProperties
<1> DEFINE s == a \o e
           n == Len(sep)
           l == Len(e)
<1>5. n \in Nat /\ l \in Nat /\ Len(a) = n + 2
    BY <1>1, <1>2, <1>4
<1>6. /\ s \in Seq(Text) /\ Len(s) = n + 2 + l
      /\ \A i \in 1 .. n + 2 : s[i] = a[i]
      /\ \A i \in n + 3 .. n + 2 + l : s[i] = e[i - (n + 2)]
    BY <1>3, <1>5
<1>7. /\ \A i \in 1 .. n : a[i] = sep[i]
      /\ a[n + 1] = k /\ a[n + 2] = "="
  <2>1. \A i \in 1 .. n : a[i] = sep[i]
      BY <1>1, <1>2, <1>5
  <2>2. ASSUME NEW q \in {1, 2} PROVE a[n + q] = m[q]
    <3> DEFINE r == n + q
    <3>1. r \in 1 .. Len(sep) + Len(m) /\ ~(r <= Len(sep)) /\ r - Len(sep) = q
        BY <1>1, <1>5
    <3> HIDE DEF n, r
    <3>2. a[r] = m[r - Len(sep)]
        BY <3>1, <1>2
    <3> QED
        BY <3>1, <3>2 DEF r
  <2> QED
      BY <2>1, <2>2, <1>1
<1> HIDE DEF s, n, l
<1>8. \A p \in 1 .. l : s[n + 2 + p] = e[p]
  <2>1. SUFFICES ASSUME NEW p \in 1 .. l PROVE s[n + 2 + p] = e[p]
      OBVIOUS
  <2> DEFINE r == n + 2 + p
  <2>2. r \in n + 3 .. n + 2 + l /\ r - (n + 2) = p
      BY <1>5
  <2> HIDE DEF r
  <2>3. s[r] = e[r - (n + 2)]
      BY <2>2, <1>6
  <2> QED
      BY <2>2, <2>3 DEF r
<1>9. s[n + 1] = k /\ s[n + 2] = "=" /\ \A p \in 1 .. n : s[p] = sep[p]
  <2>1. n + 1 \in 1 .. n + 2 /\ n + 2 \in 1 .. n + 2 /\ \A p \in 1 .. n : p \in 1 .. n + 2
      BY <1>5
  <2> QED
      BY <2>1, <1>6, <1>7
<1>10. IsPair(s, sep, k, e)
    BY <1>6, <1>8, <1>9 DEF IsPair, n, l
<1> QED
    BY <1>10 DEF s, a, m

\* off[i]: where the i-th field ends in the body; eq[i]: where its "=" is.
FormLays(form, body, off, eq) ==
    /\ body \in Seq(Text)
    /\ off \in [0 .. Len(form) -> Nat] /\ eq \in [1 .. Len(form) -> Nat]
    /\ off[0] = 0 /\ off[Len(form)] = Len(body)
    /\ \A i, j \in 0 .. Len(form) : i <= j => off[i] <= off[j]
    /\ \A i \in 1 .. Len(form) :
          /\ i = 1 => eq[i] = 2
          /\ i # 1 => eq[i] = off[i - 1] + 3 /\ body[off[i - 1] + 1] = "&"
          /\ body[eq[i] - 1] = form[i][1] /\ body[eq[i]] = "="
          /\ off[i] = eq[i] + Len(Encode(form[i][2]))
          /\ \A p \in 1 .. Len(Encode(form[i][2])) : body[eq[i] + p] = Encode(form[i][2])[p]
    /\ \A q \in 1 .. Len(body) : \E i \in 1 .. Len(form) : off[i - 1] < q /\ q <= off[i]

\* The body of a form is its fields, one after the other.
LEMMA FormBodyIs ==
    ASSUME NEW form \in Forms
    PROVE  \E off, eq : FormLays(form, FormBody(form), off, eq)
<1> DEFINE N == Len(form)
           sep(i) == IF i = 1 THEN <<>> ELSE <<"&">>
           key(i) == form[i][1]
           enc(i) == Encode(form[i][2])
           seqs == [i \in DOMAIN form |->
                       (IF i = 1 THEN <<>> ELSE <<"&">>) \o <<form[i][1], "=">>
                          \o Encode(form[i][2])]
<1>1. N \in Nat /\ DOMAIN form = 1 .. N
    BY FormIs
<1>2. FormBody(form) = FlattenSeq(seqs)
    BY DEF FormBody
<1>3. ASSUME NEW i \in 1 .. N
      PROVE  /\ sep(i) \in Seq(Text) /\ (i = 1 => Len(sep(i)) = 0)
             /\ (i # 1 => Len(sep(i)) = 1 /\ sep(i)[1] = "&")
             /\ key(i) \in Text /\ enc(i) \in Seq(Text) /\ Len(enc(i)) \in Nat
  <2>1. "&" \in Text
      BY DEF Text, Char
  <2>2. <<>> \in Seq(Text) /\ <<"&">> \in Seq(Text)
      BY <2>1, OneIsSeq, EmptySeq
  <2>3. key(i) \in Text /\ form[i][2] \in Seq(Char)
      BY FormIs
  <2>4. enc(i) \in Seq(Encoded)
      BY <2>3, EncodeIs
  <2>5. Encoded \subseteq Text
      BY DEF Encoded, Text, Char
  <2>6. enc(i) \in Seq(Text)
      BY <2>4, <2>5, SeqMonotonic
  <2>7. Len(enc(i)) \in Nat
      BY <2>6, LenProperties
  <2>8. Len(<<>>) = 0 /\ Len(<<"&">>) = 1 /\ <<"&">>[1] = "&"
      OBVIOUS
  <2> QED
      BY <2>2, <2>3, <2>6, <2>7, <2>8
<1>4. \A i \in 1 .. N : seqs[i] = sep(i) \o <<key(i), "=">> \o enc(i)
    BY <1>1
<1>5. DOMAIN seqs = 1 .. N /\ seqs = [i \in 1 .. N |-> seqs[i]]
    BY <1>1
<1> HIDE DEF seqs, sep, key, enc
<1>6. \A i \in 1 .. N : IsPair(seqs[i], sep(i), key(i), enc(i))
  <2>1. SUFFICES ASSUME NEW i \in 1 .. N PROVE IsPair(seqs[i], sep(i), key(i), enc(i))
      OBVIOUS
  <2>2. sep(i) \in Seq(Text) /\ key(i) \in Text /\ enc(i) \in Seq(Text)
      BY <1>3
  <2>3. IsPair(sep(i) \o <<key(i), "=">> \o enc(i), sep(i), key(i), enc(i))
      BY <2>2, PairIs
  <2> QED
      BY <2>3, <1>4
<1>7. \A i \in 1 .. N : seqs[i] \in Seq(Text)
    BY <1>6 DEF IsPair
<1> HIDE DEF N
<1>8. seqs \in [1 .. N -> Seq(Text)]
    BY <1>5, <1>7
<1>9. seqs \in Seq(Seq(Text)) /\ Len(seqs) = N
    BY <1>1, <1>8, FcnIsSeq
<1> DEFINE body == FlattenSeq(seqs)
<1>10. body \in Seq(Text) /\ \E off : Lays(seqs, body, off)
    BY <1>9, FlattenLays
<1> HIDE DEF body
<1>11. PICK off : Lays(seqs, body, off)
    BY <1>10
<1>12. /\ off \in [0 .. N -> Nat]
       /\ off[0] = 0 /\ off[N] = Len(body)
       /\ \A i, j \in 0 .. N : i <= j => off[i] <= off[j]
       /\ \A q \in 1 .. Len(body) : \E i \in 1 .. N : off[i - 1] < q /\ q <= off[i]
    BY <1>11, <1>9 DEF Lays
<1>13. /\ \A i \in 1 .. N : off[i] = off[i - 1] + Len(seqs[i])
       /\ \A i \in 1 .. N : \A p \in 1 .. Len(seqs[i]) : body[off[i - 1] + p] = seqs[i][p]
    BY <1>11, <1>9 DEF Lays
<1> DEFINE eq == [i \in 1 .. N |-> off[i - 1] + Len(sep(i)) + 2]
<1>14. ASSUME NEW i \in 1 .. N
       PROVE  /\ eq[i] \in Nat
              /\ i = 1 => eq[i] = 2
              /\ i # 1 => eq[i] = off[i - 1] + 3 /\ body[off[i - 1] + 1] = "&"
              /\ body[eq[i] - 1] = key(i) /\ body[eq[i]] = "="
              /\ off[i] = eq[i] + Len(enc(i))
              /\ \A p \in 1 .. Len(enc(i)) : body[eq[i] + p] = enc(i)[p]
  <2> DEFINE o == off[i - 1]
             s == seqs[i]
             n == Len(sep(i))
             l == Len(enc(i))
  <2>1. o \in Nat /\ (i = 1 => o = 0)
      BY <1>12, <1>1
  <2>2. /\ n \in Nat /\ l \in Nat /\ (i = 1 => n = 0)
        /\ (i # 1 => n = 1 /\ sep(i)[1] = "&")
      BY <1>3
  <2>3. /\ Len(s) = n + 2 + l /\ s[n + 1] = key(i) /\ s[n + 2] = "="
        /\ \A p \in 1 .. n : s[p] = sep(i)[p]
        /\ \A p \in 1 .. l : s[n + 2 + p] = enc(i)[p]
      BY <1>6 DEF IsPair
  <2>4. off[i] = o + Len(s) /\ \A p \in 1 .. Len(s) : body[o + p] = s[p]
      BY <1>13
  <2>5. eq[i] = o + n + 2
      OBVIOUS
  <2> HIDE DEF o, s, n, l, eq
  <2>6. eq[i] \in Nat /\ off[i] = eq[i] + l /\ (i = 1 => eq[i] = 2) /\ (i # 1 => eq[i] = o + 3)
      BY <2>1, <2>2, <2>3, <2>4, <2>5
  <2>7. body[o + (n + 1)] = key(i) /\ body[o + (n + 2)] = "="
    <3>1. n + 1 \in 1 .. Len(s) /\ n + 2 \in 1 .. Len(s)
        BY <2>2, <2>3
    <3> QED
        BY <3>1, <2>3, <2>4, Zenon
  <2>8. eq[i] - 1 = o + (n + 1) /\ eq[i] = o + (n + 2)
      BY <2>1, <2>2, <2>5
  <2>9. ASSUME i # 1 PROVE body[o + 1] = "&"
    <3>1. 1 \in 1 .. Len(s) /\ 1 \in 1 .. n
        BY <2>2, <2>3, <2>9
    <3> QED
        BY <3>1, <2>2, <2>3, <2>4, <2>9, Zenon
  <2>10. ASSUME NEW p \in 1 .. l PROVE body[eq[i] + p] = enc(i)[p]
    <3>1. n + 2 + p \in 1 .. Len(s) /\ eq[i] + p = o + (n + 2 + p)
        BY <2>1, <2>2, <2>3, <2>5
    <3>2. body[o + (n + 2 + p)] = enc(i)[p]
        BY <3>1, <2>3, <2>4, Zenon
    <3> QED
        BY <3>1, <3>2
  <2> QED
      BY <2>6, <2>7, <2>8, <2>9, <2>10 DEF o, l
<1>15. eq \in [1 .. N -> Nat]
    BY <1>14
<1> HIDE DEF eq
<1>16. FormLays(form, body, off, eq)
    BY <1>10, <1>12, <1>14, <1>15 DEF FormLays, N, key, enc
<1> QED
    BY <1>16, <1>2 DEF body

-----------------------------------------------------------------------------
(***************************************************************************)
(* What HTTPConfig_SetData makes of it.                                    *)
(***************************************************************************)
\* There is an end after every place in a body.
LEMMA EndsAfter ==
    ASSUME NEW b \in Seq(Token), NEW e \in 1 .. Len(b)
    PROVE  /\ {x \in Ends(b) : x > e} \in SUBSET Nat
           /\ Min({x \in Ends(b) : x > e}) \in 1 .. Len(b) + 1
<1> DEFINE T == {x \in Ends(b) : x > e}
<1>1. Len(b) \in Nat /\ DOMAIN b = 1 .. Len(b)
    BY LenProperties
<1>2. Ends(b) \subseteq 1 .. Len(b) + 1 /\ Len(b) + 1 \in Ends(b)
  <2>1. {i \in DOMAIN b : b[i].t = "&"} \subseteq 1 .. Len(b)
      BY <1>1
  <2> QED
      BY <2>1, <1>1 DEF Ends
<1>3. T \in SUBSET Nat /\ T \subseteq 1 .. Len(b) + 1 /\ Len(b) + 1 \in T
    BY <1>1, <1>2
<1> HIDE DEF T
<1>4. Min(T) \in T
    BY <1>3, MinIn
<1> QED
    BY <1>3, <1>4 DEF T

\* HTTPConfig_SetData stores text, whatever the body is.
LEMMA SetDataTypes ==
    ASSUME NEW b \in Seq(Token), NEW cfg \in [Keys -> Seq(Text)]
    PROVE  SetData(cfg, b) \in [Keys -> Seq(Text)]
<1>1. SUFFICES ASSUME NEW k \in Keys, PlacesOf(k, b) # {}
               PROVE  HTTPConfig_HTMLEntityDecode(ValueAt(Max(PlacesOf(k, b)), b)) \in Seq(Text)
    BY DEF SetData
<1>2. Len(b) \in Nat /\ DOMAIN b = 1 .. Len(b)
    BY LenProperties
<1>3. PlacesOf(k, b) \in SUBSET (1 .. Len(b))
    BY <1>2 DEF PlacesOf
<1>4. Max(PlacesOf(k, b)) \in 1 .. Len(b)
    BY <1>1, <1>2, <1>3, MaxIn
<1> DEFINE e == Max(PlacesOf(k, b))
           x == Min({y \in Ends(b) : y > e})
<1>5. x \in 1 .. Len(b) + 1
    BY <1>4, EndsAfter
<1>6. ValueAt(e, b) = SubSeq(b, e + 1, x - 1)
    BY DEF ValueAt
<1> HIDE DEF e, x
<1>7. \A i \in e + 1 .. x - 1 : b[i] \in Token
  <2>1. \A i \in e + 1 .. x - 1 : i \in 1 .. Len(b)
      BY <1>2, <1>4, <1>5 DEF e
  <2> QED
      BY <2>1, ElementOfSeq
<1>8. e + 1 \in Int /\ x - 1 \in Int
    BY <1>2, <1>4, <1>5 DEF e
<1>9. SubSeq(b, e + 1, x - 1) \in Seq(Token)
    BY <1>7, <1>8, SubSeqProperties
<1> QED
    BY <1>6, <1>9, DecodeTypes DEF e

\* A form leaves a configuration of characters one.
LEMMA AppliedTypes ==
    ASSUME NEW form \in Forms, NEW cfg \in [Keys -> Seq(Char)]
    PROVE  Applied(cfg, form) \in [Keys -> Seq(Char)]
<1>1. SUFFICES ASSUME NEW k \in Keys, \E i \in DOMAIN form : form[i][1] = k
               PROVE  form[CHOOSE i \in DOMAIN form : form[i][1] = k][2] \in Seq(Char)
    BY DEF Applied
<1>2. (CHOOSE i \in DOMAIN form : form[i][1] = k) \in DOMAIN form
    BY <1>1
<1> QED
    BY <1>2, FormIs

\* HTTPConfig_SetData does to the configuration what the form says.
LEMMA SetDataIs ==
    ASSUME NEW form \in Forms, NEW cfg \in [Keys -> Seq(Text)]
    PROVE  SetData(cfg, Toks(FormBody(form))) = Applied(cfg, form)
<1> DEFINE N == Len(form)
           body == FormBody(form)
           b == Toks(body)
           L == Len(body)
           key(i) == form[i][1]
           enc(i) == Encode(form[i][2])
<1>1. N \in Nat /\ DOMAIN form = 1 .. N
    BY FormIs
<1>2. \A i \in 1 .. N : key(i) \notin {"&", "="}
    BY FormIs
<1>3. \A i, j \in 1 .. N : key(i) = key(j) => i = j
    BY FormIs
<1>4. \A i \in 1 .. N : form[i][2] \in Seq(Char)
    BY FormIs
<1>5. PICK off, eq : FormLays(form, body, off, eq)
    BY FormBodyIs
<1>6. body \in Seq(Text)
    BY <1>5 DEF FormLays
<1>7. /\ b \in Seq(Token)
      /\ Len(b) = L /\ DOMAIN b = 1 .. L
      /\ \A q \in 1 .. L : b[q].t = body[q]
    BY <1>6, ToksTypes
<1>8. L \in Nat
    BY <1>6, LenProperties
<1> HIDE DEF b, body, L, N, key, enc
<1>9. /\ off \in [0 .. N -> Nat] /\ eq \in [1 .. N -> Nat]
      /\ off[0] = 0 /\ off[N] = L
      /\ \A i, j \in 0 .. N : i <= j => off[i] <= off[j]
      /\ \A q \in 1 .. L : \E i \in 1 .. N : off[i - 1] < q /\ q <= off[i]
    BY <1>5 DEF FormLays, N, L
<1>10. \A i \in 1 .. N :
          /\ i = 1 => eq[i] = 2
          /\ i # 1 => eq[i] = off[i - 1] + 3 /\ body[off[i - 1] + 1] = "&"
          /\ body[eq[i] - 1] = key(i) /\ body[eq[i]] = "="
          /\ off[i] = eq[i] + Len(enc(i))
          /\ \A p \in 1 .. Len(enc(i)) : body[eq[i] + p] = enc(i)[p]
    BY <1>5 DEF FormLays, N, key, enc
<1>11. ASSUME NEW i \in 1 .. N
       PROVE  /\ enc(i) \in Seq(Encoded) /\ Len(enc(i)) \in Nat
              /\ \A p \in 1 .. Len(enc(i)) : enc(i)[p] \notin {"&", "="}
  <2>1. enc(i) \in Seq(Encoded)
      BY <1>4, EncodeIs DEF enc
  <2>2. Len(enc(i)) \in Nat
      BY <2>1, LenProperties
  <2>3. \A p \in 1 .. Len(enc(i)) : enc(i)[p] \in Encoded
      BY <2>1, ElementOfSeq
  <2> QED
      BY <2>1, <2>2, <2>3 DEF Encoded
<1>12. ASSUME NEW i \in 1 .. N
       PROVE  /\ off[i - 1] \in Nat /\ off[i] \in Nat /\ eq[i] \in Nat
              /\ off[i - 1] + 2 <= eq[i] /\ eq[i] <= off[i] /\ off[i] <= L
              /\ i = 1 => off[i - 1] = 0 /\ eq[i] = 2
              /\ i # 1 => eq[i] = off[i - 1] + 3
  <2>1. i - 1 \in 0 .. N /\ i \in 0 .. N /\ N \in 0 .. N /\ i <= N
      BY <1>1
  <2>2. off[i - 1] \in Nat /\ off[i] \in Nat /\ eq[i] \in Nat /\ off[i] <= L
      BY <2>1, <1>9
  <2>3. i = 1 => off[i - 1] = 0 /\ eq[i] = 2
      BY <1>9, <1>10
  <2>4. i # 1 => eq[i] = off[i - 1] + 3
      BY <1>10
  <2>5. off[i] = eq[i] + Len(enc(i)) /\ Len(enc(i)) \in Nat
      BY <1>10, <1>11
  <2> QED
      BY <2>2, <2>3, <2>4, <2>5
\* A "=" of the body comes after a key, a "&" is before one.
<1>13. ASSUME NEW q \in 1 .. L, NEW i \in 1 .. N, off[i - 1] < q, q <= off[i]
       PROVE  /\ body[q] = "=" => q = eq[i]
              /\ body[q] = "&" => i # 1 /\ q = off[i - 1] + 1
  <2>1. CASE q > eq[i]
    <3>1. q - eq[i] \in 1 .. Len(enc(i)) /\ q = eq[i] + (q - eq[i])
        BY <2>1, <1>8, <1>10, <1>11, <1>12, <1>13, SMTT(40)
    <3> DEFINE p == q - eq[i]
    <3>2. body[eq[i] + p] = enc(i)[p] /\ enc(i)[p] \notin {"&", "="}
        BY <3>1, <1>10, <1>11
    <3> HIDE DEF p
    <3>3. body[q] \notin {"&", "="}
        BY <3>1, <3>2 DEF p
    <3> QED
        BY <3>3
  <2>2. CASE q = eq[i]
      BY <2>2, <1>10
  <2>3. CASE q = eq[i] - 1
    <3>1. body[q] \notin {"&", "="}
        BY <2>3, <1>2, <1>10
    <3> QED
        BY <3>1
  <2>4. CASE q < eq[i] - 1
    <3>1. i # 1 /\ q = off[i - 1] + 1
      <4> DEFINE o == off[i - 1]
                 e == eq[i]
      <4>1. /\ o \in Nat /\ e \in Nat /\ q \in Nat /\ o < q /\ q < e - 1
            /\ i = 1 => o = 0 /\ e = 2
            /\ i # 1 => e = o + 3
          BY <2>4, <1>8, <1>12, <1>13
      <4> HIDE DEF o, e
      <4>2. i # 1 /\ q = o + 1
          BY <4>1
      <4> QED
          BY <4>2 DEF o
    <3>2. body[q] = "&"
        BY <3>1, <1>10
    <3> QED
        BY <3>1, <3>2
  <2> QED
      BY <2>1, <2>2, <2>3, <2>4, <1>8, <1>12, SMTT(40)
<1>14. ASSUME NEW k
       PROVE  PlacesOf(k, b) = {eq[i] : i \in {j \in 1 .. N : key(j) = k}}
  <2>1. ASSUME NEW e \in PlacesOf(k, b)
        PROVE  \E i \in 1 .. N : key(i) = k /\ e = eq[i]
    <3>1. e \in 1 .. L /\ b[e].t = "=" /\ b[e - 1].t = k /\ e > 1
        BY <1>7 DEF PlacesOf
    <3>2. e - 1 \in 1 .. L
        BY <3>1, <1>8
    <3>3. body[e] = "=" /\ body[e - 1] = k
        BY <3>1, <3>2, <1>7
    <3>4. PICK i \in 1 .. N : off[i - 1] < e /\ e <= off[i]
        BY <3>1, <1>9
    <3>5. e = eq[i]
        BY <3>1, <3>3, <3>4, <1>13
    <3>6. key(i) = k
        BY <3>3, <3>5, <1>10
    <3> QED
        BY <3>5, <3>6
  <2>2. ASSUME NEW i \in 1 .. N, key(i) = k PROVE eq[i] \in PlacesOf(k, b)
    <3> DEFINE e == eq[i]
    <3>1. e \in 1 .. L /\ e - 1 \in 1 .. L /\ e > 1
        BY <1>8, <1>12
    <3>2. b[e].t = "=" /\ b[e - 1].t = k
        BY <3>1, <1>7, <1>10, <2>2
    <3>3. ASSUME e > 2 PROVE b[e - 2].t = "&"
      <4>1. i # 1
          BY <3>3, <1>12
      <4>2. e - 2 = off[i - 1] + 1 /\ e - 2 \in 1 .. L
          BY <4>1, <3>1, <1>8, <1>12, SMTT(40)
      <4>3. body[off[i - 1] + 1] = "&"
          BY <4>1, <1>10
      <4> QED
          BY <4>2, <4>3, <1>7
    <3> HIDE DEF e
    <3>4. e \in PlacesOf(k, b)
        BY <3>1, <3>2, <3>3, <1>7 DEF PlacesOf
    <3> QED
        BY <3>4 DEF e
  <2> QED
      BY <2>1, <2>2
\* The value of a field goes up to where the next one begins.
<1>15. ASSUME NEW i \in 1 .. N
       PROVE  Min({x \in Ends(b) : x > eq[i]}) = off[i] + 1
  <2> DEFINE T == {x \in Ends(b) : x > eq[i]}
  <2>1. eq[i] \in 1 .. Len(b)
      BY <1>7, <1>8, <1>12
  <2>2. T \in SUBSET Nat
      BY <2>1, <1>7, EndsAfter
  <2>3. off[i] + 1 \in Ends(b)
    <3>1. CASE i = N
        BY <3>1, <1>7, <1>9 DEF Ends
    <3>2. CASE i # N
      <4>1. i + 1 \in 1 .. N /\ i + 1 # 1 /\ i + 1 - 1 = i
          BY <3>2, <1>1
      <4>2. body[off[i] + 1] = "&"
          BY <4>1, <1>10
      <4>3. off[i + 1 - 1] + 2 <= eq[i + 1] /\ eq[i + 1] <= off[i + 1] /\ off[i + 1] <= L
            /\ eq[i + 1] \in Nat /\ off[i + 1] \in Nat
          BY <4>1, <1>12
      <4>4. off[i] + 1 \in 1 .. L
          BY <4>1, <4>3, <1>12, <1>8, SMTT(40)
      <4> QED
          BY <4>2, <4>4, <1>7 DEF Ends
    <3> QED
        BY <3>1, <3>2
  <2>4. off[i] + 1 \in T
      BY <2>3, <1>12
  <2>5. ASSUME NEW x \in T PROVE off[i] + 1 <= x
    <3>1. CASE x = Len(b) + 1
        BY <3>1, <1>7, <1>8, <1>12
    <3>2. CASE x \in DOMAIN b /\ b[x].t = "&"
      <4>1. x \in 1 .. L /\ body[x] = "&" /\ x > eq[i]
          BY <3>2, <1>7
      <4>2. PICK j \in 1 .. N : off[j - 1] < x /\ x <= off[j]
          BY <4>1, <1>9
      <4>3. x = off[j - 1] + 1
          BY <4>1, <4>2, <1>13
      <4>4. CASE j <= i
        <5>1. off[j - 1] <= off[i - 1]
            BY <4>4, <1>1, <1>9
        <5> QED
            BY <5>1, <4>1, <4>3, <1>12
      <4>5. CASE j > i
        <5>1. off[i] <= off[j - 1]
            BY <4>5, <1>1, <1>9
        <5> QED
            BY <5>1, <4>3, <1>12
      <4> QED
          BY <4>4, <4>5
    <3> QED
        BY <3>1, <3>2 DEF Ends
  <2> HIDE DEF T
  <2>6. Min(T) = off[i] + 1
      BY <2>2, <2>4, <2>5, MinIs
  <2> QED
      BY <2>6 DEF T
<1>16. ASSUME NEW i \in 1 .. N
       PROVE  HTTPConfig_HTMLEntityDecode(ValueAt(eq[i], b)) = form[i][2]
  <2> DEFINE t == ValueAt(eq[i], b)
             m == eq[i] + 1
             n == off[i]
  <2>1. t = SubSeq(b, m, n)
    <3> DEFINE x == Min({y \in Ends(b) : y > eq[i]})
    <3>1. t = SubSeq(b, m, x - 1)
        BY DEF ValueAt
    <3>2. x = off[i] + 1
        BY <1>15
    <3> HIDE DEF x
    <3>3. x - 1 = off[i]
        BY <3>2, <1>12
    <3> QED
        BY <3>1, <3>3
  <2>2. /\ m \in 1 .. L + 1 /\ n \in 0 .. L /\ m <= n + 1
        /\ n - m + 1 = Len(enc(i)) /\ n - m + 1 \in Nat
    <3> DEFINE e == eq[i]
               l == Len(enc(i))
    <3>1. e \in Nat /\ l \in Nat /\ n = e + l /\ n <= L /\ m = e + 1
        BY <1>10, <1>11, <1>12
    <3> HIDE DEF e, l, m, n
    <3>2. m \in 1 .. L + 1 /\ n \in 0 .. L /\ m <= n + 1 /\ n - m + 1 = l /\ n - m + 1 \in Nat
        BY <3>1, <1>8
    <3> QED
        BY <3>2 DEF l
  <2>3. \A q \in m .. n : b[q] \in Token
    <3>1. \A q \in m .. n : q \in 1 .. Len(b)
        BY <2>2, <1>7, <1>8
    <3> HIDE DEF m, n
    <3> QED
        BY <3>1, <1>7, ElementOfSeq
  <2>4. m \in Int /\ n \in Int
      BY <2>2, <1>8
  <2> HIDE DEF t, m, n
  <2>5. /\ SubSeq(b, m, n) \in Seq(Token)
        /\ Len(SubSeq(b, m, n)) = IF m <= n THEN n - m + 1 ELSE 0
        /\ \A p \in 1 .. n - m + 1 : SubSeq(b, m, n)[p] = b[m + p - 1]
      BY <2>3, <2>4, SubSeqProperties
  <2>6. t \in Seq(Token) /\ Len(t) = Len(enc(i)) /\ \A p \in 1 .. Len(enc(i)) : t[p] = b[m + p - 1]
      BY <2>1, <2>2, <2>4, <2>5
  <2>7. ASSUME NEW p \in 1 .. Len(enc(i)) PROVE t[p].t = enc(i)[p]
    <3>1. m + p - 1 = eq[i] + p /\ eq[i] + p \in 1 .. L
      <4>1. eq[i] + Len(enc(i)) <= L /\ eq[i] \in Nat /\ Len(enc(i)) \in Nat
          BY <1>10, <1>11, <1>12
      <4> QED
          BY <4>1, <1>8 DEF m
    <3>2. t[p] = b[eq[i] + p]
        BY <3>1, <2>6
    <3>3. b[eq[i] + p].t = body[eq[i] + p]
        BY <3>1, <1>7
    <3>4. body[eq[i] + p] = enc(i)[p]
        BY <1>10
    <3> QED
        BY <3>2, <3>3, <3>4
  <2>8. Len(t) = Len(Encode(form[i][2])) /\ \A p \in 1 .. Len(t) : t[p].t = Encode(form[i][2])[p]
      BY <2>6, <2>7 DEF enc
  <2> QED
      BY <2>6, <2>8, <1>4, DecodeEncode DEF t
<1>17. ASSUME NEW k \in Keys
       PROVE  SetData(cfg, b)[k] = Applied(cfg, form)[k]
  <2>1. CASE \E i \in 1 .. N : key(i) = k
    <3>1. PICK i \in 1 .. N : key(i) = k
        BY <2>1
    <3>2. \A j \in 1 .. N : key(j) = k => j = i
        BY <3>1, <1>3
    <3>3. PlacesOf(k, b) = {eq[i]}
        BY <3>1, <3>2, <1>14
    <3>4. Max({eq[i]}) = eq[i]
        BY <1>12 DEF Max
    <3>5. SetData(cfg, b)[k] = form[i][2]
        BY <3>3, <3>4, <1>16 DEF SetData
    <3>6. (CHOOSE j \in DOMAIN form : form[j][1] = k) = i
        BY <3>1, <3>2, <1>1 DEF key
    <3>7. Applied(cfg, form)[k] = form[i][2]
        BY <3>1, <3>6, <1>1 DEF Applied, key
    <3> QED
        BY <3>5, <3>7
  <2>2. CASE ~ \E i \in 1 .. N : key(i) = k
    <3>1. PlacesOf(k, b) = {}
        BY <2>2, <1>14
    <3>2. SetData(cfg, b)[k] = cfg[k]
        BY <3>1 DEF SetData
    <3>3. Applied(cfg, form)[k] = cfg[k]
        BY <2>2, <1>1 DEF Applied, key
    <3> QED
        BY <3>2, <3>3
  <2> QED
      BY <2>1, <2>2
<1>18. /\ SetData(cfg, b) = [k \in Keys |-> SetData(cfg, b)[k]]
       /\ Applied(cfg, form) = [k \in Keys |-> Applied(cfg, form)[k]]
    BY DEF SetData, Applied
<1>19. SetData(cfg, b) = Applied(cfg, form)
    BY <1>17, <1>18, Zenon
<1> QED
    BY <1>19 DEF b, body

-----------------------------------------------------------------------------
(***************************************************************************)
(* The requests, and when the buffer holds all of one.                     *)
(***************************************************************************)
\* strstr finds the first place of a token ...
LEMMA FindIs ==
    ASSUME NEW buf \in Seq(Token), NEW t, NEW i \in 1 .. Len(buf), buf[i].t = t,
           \A j \in 1 .. Len(buf) : j < i => buf[j].t # t
    PROVE  Find(buf, t) = i
<1> DEFINE I == {j \in 1 .. Len(buf) : buf[j].t = t}
<1>1. Find(buf, t) = IF I # {} THEN Min(I) ELSE 0
    BY DEF Find, SelectInSeq
<1>2. Len(buf) \in Nat
    BY LenProperties
<1>3. I \in SUBSET Nat /\ i \in I /\ \A j \in I : i <= j
    BY <1>2
<1> HIDE DEF I
<1>4. Min(I) = i
    BY <1>3, MinIs
<1> QED
    BY <1>1, <1>3, <1>4

\* ... or none ...
LEMMA FindNone ==
    ASSUME NEW buf \in Seq(Token), NEW t, \A j \in 1 .. Len(buf) : buf[j].t # t
    PROVE  Find(buf, t) = 0
<1> DEFINE I == {j \in 1 .. Len(buf) : buf[j].t = t}
<1>1. Find(buf, t) = IF I # {} THEN Min(I) ELSE 0
    BY DEF Find, SelectInSeq
<1>2. I = {}
    OBVIOUS
<1> QED
    BY <1>1, <1>2

\* ... and nothing outside of the buffer.
LEMMA FindTypes ==
    ASSUME NEW buf \in Seq(Token), NEW t
    PROVE  Find(buf, t) \in 0 .. Len(buf)
<1> DEFINE I == {j \in 1 .. Len(buf) : buf[j].t = t}
<1>1. Find(buf, t) = IF I # {} THEN Min(I) ELSE 0
    BY DEF Find, SelectInSeq
<1>2. Len(buf) \in Nat
    BY LenProperties
<1>3. I \in SUBSET Nat /\ I \subseteq 1 .. Len(buf)
    BY <1>2
<1> HIDE DEF I
<1>4. CASE I # {}
  <2>1. Min(I) \in I
      BY <1>3, <1>4, MinIn
  <2>2. Find(buf, t) \in 1 .. Len(buf)
      BY <2>1, <1>1, <1>3, <1>4
  <2> QED
      BY <2>2, <1>2
<1>5. CASE I = {}
  <2>1. Find(buf, t) = 0
      BY <1>1, <1>5
  <2> QED
      BY <2>1, <1>2
<1> QED
    BY <1>4, <1>5

\* What is left of a buffer after a place in it.
LEMMA AfterIs ==
    ASSUME NEW buf \in Seq(Token), NEW i \in 0 .. Len(buf)
    PROVE  /\ After(buf, i) \in Seq(Token) /\ Len(After(buf, i)) = Len(buf) - i
           /\ \A p \in 1 .. Len(buf) - i : After(buf, i)[p] = buf[i + p]
<1>1. Len(buf) \in Nat /\ \A j \in 1 .. Len(buf) : buf[j] \in Token
    BY LenProperties, ElementOfSeq
<1> DEFINE m == i + 1
           n == Len(buf)
<1>2. m \in Int /\ n \in Int /\ \A j \in m .. n : buf[j] \in Token
    BY <1>1
<1>3. n - m + 1 = n - i /\ (m <= n \/ n - i = 0) /\ \A p \in 1 .. n - i : m + p - 1 = i + p
    BY <1>1
<1>4. After(buf, i) = SubSeq(buf, m, n)
    BY DEF After
<1> HIDE DEF m, n
<1>5. /\ SubSeq(buf, m, n) \in Seq(Token)
      /\ Len(SubSeq(buf, m, n)) = IF m <= n THEN n - m + 1 ELSE 0
      /\ \A p \in 1 .. n - m + 1 : SubSeq(buf, m, n)[p] = buf[m + p - 1]
    BY <1>2, SubSeqProperties
<1>6. Len(SubSeq(buf, m, n)) = n - i
  <2>1. n - i = 0 => ~(m <= n)
      BY <1>1 DEF m, n
  <2> QED
      BY <2>1, <1>3, <1>5
<1>7. \A p \in 1 .. n - i : SubSeq(buf, m, n)[p] = buf[i + p]
    BY <1>3, <1>5, Zenon
<1> QED
    BY <1>4, <1>5, <1>6, <1>7 DEF n

\* What a segment does to the two halves of a message.
IsCut(a, b, c, n) ==
    /\ a \o SubSeq(b, 1, n) \in Seq(Token) /\ After(b, n) \in Seq(Token)
    /\ Len(a \o SubSeq(b, 1, n)) = Len(a) + n /\ Len(After(b, n)) = Len(b) - n
    /\ (a \o b = c => (a \o SubSeq(b, 1, n)) \o After(b, n) = c)

\* A segment moves tokens from what is to come to what is buffered.
LEMMA Cut ==
    ASSUME NEW a \in Seq(Token), NEW b \in Seq(Token), NEW n \in 1 .. Len(b), NEW c
    PROVE  IsCut(a, b, c, n)
<1> DEFINE s == SubSeq(b, 1, n)
           u == After(b, n)
<1>1. Len(b) \in Nat /\ \A i \in 1 .. n : b[i] \in Token
    BY LenProperties, ElementOfSeq
<1>2. s \in Seq(Token) /\ Len(s) = n
  <2>1. /\ SubSeq(b, 1, n) \in Seq(Token)
        /\ Len(SubSeq(b, 1, n)) = IF 1 <= n THEN n - 1 + 1 ELSE 0
      BY <1>1, SubSeqProperties
  <2> QED
      BY <2>1
<1>3. n \in 0 .. Len(b)
    BY <1>1
<1>4. u \in Seq(Token) /\ Len(u) = Len(b) - n
    BY <1>3, AfterIs
<1>5. s \o u = b
  <2>1. 1 \in 1 .. Len(b) + 1 /\ n \in 1 - 1 .. Len(b) /\ Len(b) \in n .. Len(b)
      BY <1>1
  <2>2. SubSeq(b, 1, n) \o SubSeq(b, n + 1, Len(b)) = SubSeq(b, 1, Len(b))
      BY <2>1, ConcatAdjacentSubSeq
  <2>3. SubSeq(b, 1, Len(b)) = b
      BY SubSeqFull
  <2> QED
      BY <2>2, <2>3, Zenon DEF After
<1> HIDE DEF s, u
<1>6. (a \o s) \o u = a \o b
  <2>1. s \in Seq(Token) /\ u \in Seq(Token)
      BY <1>2, <1>4
  <2>2. (a \o s) \o u = a \o (s \o u)
      BY <2>1, ConcatAssociative, SMTT(40)
  <2> QED
      BY <2>2, <1>5
<1>7. a \o s \in Seq(Token) /\ Len(a \o s) = Len(a) + n
    BY <1>2, ConcatProperties
<1> QED
    BY <1>4, <1>6, <1>7, Zenon DEF IsCut, s, u

\* What the tokens of a request are.
IsMessage(r, m) ==
    /\ m \in Seq(Token)
    /\ r.method # "POST" =>
          /\ r.method \in {"GET", "OTHER"} /\ r.form = <<>>
          /\ Len(m) = 2 /\ m[1].t = r.method /\ m[2] = Tok("END")
    /\ r.method = "POST" =>
          /\ r.form \in Forms /\ Len(FormBody(r.form)) \in Nat
          /\ Len(m) = 3 + Len(FormBody(r.form))
          /\ m[1].t = "POST" /\ m[2].t = "Content-Length" /\ m[3].t = "END"
          /\ m[2].n = Len(FormBody(r.form))
          /\ \A p \in 1 .. Len(FormBody(r.form)) : m[3 + p] = Toks(FormBody(r.form))[p]

\* The requests.
LEMMA MessageIs ==
    ASSUME NEW r \in Requests
    PROVE  IsMessage(r, Message(r))
<1>1. CASE r.method # "POST"
  <2>1. r = GET \/ r = OTHER_
      BY <1>1 DEF Requests, POST
  <2>2. r.method \in {"GET", "OTHER"} /\ r.form = <<>>
      BY <2>1 DEF GET, OTHER_
  <2>3. Message(r) = Toks(<<r.method, "END">>)
      BY <1>1 DEF Message, Messages
  <2>4. <<r.method, "END">> \in Seq(Text)
    <3>1. r.method \in Text /\ "END" \in Text
        BY <2>2 DEF Text
    <3> QED
        BY <3>1
  <2> DEFINE s == <<r.method, "END">>
  <2>5. Len(s) = 2 /\ s[1] = r.method /\ s[2] = "END" /\ DOMAIN s = 1 .. 2
      OBVIOUS
  <2> HIDE DEF s
  <2>6. Toks(s) \in Seq(Token) /\ Len(Toks(s)) = 2 /\ Toks(s)[1].t = r.method
    <3>1. s \in Seq(Text)
        BY <2>4 DEF s
    <3>2. /\ Toks(s) \in Seq(Token) /\ Len(Toks(s)) = Len(s)
          /\ \A i \in 1 .. Len(s) : Toks(s)[i].t = s[i]
        BY <3>1, ToksTypes
    <3> QED
        BY <3>2, <2>5
  <2>7. Toks(s)[2] = Tok("END")
      BY <2>5 DEF Toks
  <2> QED
      BY <2>2, <2>3, <2>6, <2>7, <1>1 DEF IsMessage, s
<1>2. CASE r.method = "POST"
  <2>1. PICK f \in Forms : r = POST(f)
      BY <1>2 DEF Requests, GET, OTHER_
  <2>2. r.form = f
      BY <2>1 DEF POST
  <2> DEFINE body == FormBody(f)
             h == <<Tok("POST"), [t |-> "Content-Length", n |-> Len(body)], Tok("END")>>
             u == Toks(body)
  <2>3. Message(r) = h \o u
      BY <1>2, <2>2 DEF Message, Messages
  <2>4. body \in Seq(Text)
      BY FormBodyIs DEF FormLays
  <2>5. Len(body) \in Nat
      BY <2>4, LenProperties
  <2>6. u \in Seq(Token) /\ Len(u) = Len(body)
      BY <2>4, ToksTypes
  <2> HIDE DEF body
  <2>7. /\ h \in Seq(Token) /\ Len(h) = 3 /\ h[1].t = "POST" /\ h[2].t = "Content-Length"
        /\ h[3].t = "END" /\ h[2].n = Len(body)
    <3>1. "POST" \in Text /\ "Content-Length" \in Text /\ "END" \in Text
        BY DEF Text
    <3>2. Tok("POST") \in Token /\ Tok("END") \in Token
        BY <3>1 DEF Tok, Token
    <3>3. [t |-> "Content-Length", n |-> Len(body)] \in Token
        BY <3>1, <2>5 DEF Token
    <3>4. h \in Seq(Token) /\ Len(h) = 3
        BY <3>2, <3>3
    <3>5. /\ h[1] = Tok("POST") /\ h[3] = Tok("END")
          /\ h[2] = [t |-> "Content-Length", n |-> Len(body)]
        OBVIOUS
    <3> HIDE DEF h
    <3> QED
        BY <3>4, <3>5 DEF Tok
  <2> HIDE DEF h, u
  <2>8. /\ h \o u \in Seq(Token) /\ Len(h \o u) = Len(h) + Len(u)
        /\ \A i \in 1 .. Len(h) + Len(u) : (h \o u)[i] = IF i <= Len(h) THEN h[i] ELSE u[i - Len(h)]
    <3>1. h \in Seq(Token) /\ u \in Seq(Token)
        BY <2>6, <2>7
    <3> QED
        BY <3>1, ConcatProperties
  <2> DEFINE m == h \o u
             l == Len(body)
  <2>9. l \in Nat /\ Len(m) = 3 + l /\ m[1] = h[1] /\ m[2] = h[2] /\ m[3] = h[3]
      BY <2>5, <2>6, <2>7, <2>8
  <2>10. ASSUME NEW p \in 1 .. l PROVE m[3 + p] = u[p]
    <3> DEFINE i == 3 + p
    <3>1. i \in 1 .. Len(h) + Len(u) /\ ~(i <= Len(h)) /\ i - Len(h) = p
        BY <2>5, <2>6, <2>7
    <3> HIDE DEF i, m
    <3>2. m[i] = u[i - Len(h)]
        BY <3>1, <2>8 DEF m
    <3> QED
        BY <3>1, <3>2 DEF i
  <2> HIDE DEF m
  <2>11. IsMessage(r, m)
    <3>1. m \in Seq(Token)
        BY <2>8 DEF m
    <3>2. m[1].t = "POST" /\ m[2].t = "Content-Length" /\ m[3].t = "END" /\ m[2].n = l
        BY <2>9, <2>7
    <3> HIDE DEF l
    <3>3. l = Len(FormBody(r.form)) /\ u = Toks(FormBody(r.form))
        BY <2>2 DEF l, u, body
    <3> QED
        BY <3>1, <3>2, <3>3, <2>2, <2>9, <2>10, <1>2 DEF IsMessage
  <2> QED
      BY <2>3, <2>11 DEF m
<1> QED
    BY <1>1, <1>2

\* When the device takes the beginning buf of a request for all of it, and what
\* it then sees in it.
IsComplete(r, buf, more) ==
    /\ buf[1].t = Message(r)[1].t
    /\ r.method # "POST" => HTTPConfig_AllInBuffer(buf)
    /\ r.method = "POST" =>
          /\ Len(buf) = 1 => Find(buf, "END") = 0
          /\ Len(buf) = 2 => ~HTTPConfig_AllInBuffer(buf)
          /\ Len(buf) >= 3 => (HTTPConfig_AllInBuffer(buf) <=> more = <<>>)
          /\ Len(buf) >= 3 => Find(buf, "END") = 3
          /\ more = <<>> => After(buf, 3) = Toks(FormBody(r.form)) /\ Len(buf) >= 3

\* HTTPConfig_AllInBuffer takes the beginning of a posted form for a request
\* when it is all of it, and too early only when no header line has come.
LEMMA Complete ==
    ASSUME NEW r \in Requests, NEW buf \in Seq(Token), NEW more \in Seq(Token),
           Len(buf) >= 1, buf \o more = Message(r)
    PROVE  IsComplete(r, buf, more)
<1> DEFINE m == Message(r)
           l == Len(FormBody(r.form))
<1>1. Len(buf) \in Nat /\ Len(more) \in Nat
    BY LenProperties
<1>2. /\ Len(m) = Len(buf) + Len(more)
      /\ \A i \in 1 .. Len(buf) + Len(more) :
            (buf \o more)[i] = IF i <= Len(buf) THEN buf[i] ELSE more[i - Len(buf)]
    BY ConcatProperties
<1>3. \A i \in 1 .. Len(buf) : buf[i] = m[i]
    BY <1>1, <1>2
<1>4. IsMessage(r, m)
    BY MessageIs
<1>5. more = <<>> <=> Len(buf) = Len(m)
    BY <1>1, <1>2, EmptySeq
<1> HIDE DEF m, l
<1>6. buf[1] = m[1]
    BY <1>1, <1>3
<1>7. CASE r.method # "POST"
  <2>1. Len(m) = 2 /\ m[1].t \in {"GET", "OTHER"} /\ m[2].t = "END"
      BY <1>4, <1>7 DEF IsMessage, Tok
  <2>2. \A j \in 1 .. Len(buf) : buf[j].t # "Content-Length"
    <3>1. ASSUME NEW j \in 1 .. Len(buf) PROVE j = 1 \/ j = 2
        BY <1>1, <1>2, <2>1, SMTT(40)
    <3> QED
        BY <3>1, <2>1, <1>3
  <2>3. Find(buf, "Content-Length") = 0
      BY <2>2, FindNone
  <2>4. HTTPConfig_AllInBuffer(buf)
      BY <2>3 DEF HTTPConfig_AllInBuffer
  <2> QED
      BY <2>4, <1>6, <1>7 DEF IsComplete, m
<1>8. CASE r.method = "POST"
  <2>1. /\ l \in Nat /\ Len(m) = 3 + l
        /\ m[1].t = "POST" /\ m[2].t = "Content-Length" /\ m[3].t = "END"
        /\ m[2].n = l
      BY <1>4, <1>8 DEF IsMessage, l
  <2>2. ASSUME Len(buf) = 1 PROVE Find(buf, "END") = 0
    <3>1. \A j \in 1 .. Len(buf) : buf[j].t # "END"
      <4>1. \A j \in 1 .. Len(buf) : j = 1
          BY <2>2
      <4> QED
          BY <4>1, <2>1, <1>6
    <3> QED
        BY <3>1, FindNone
  <2>3. ASSUME Len(buf) >= 2 PROVE Find(buf, "Content-Length") = 2 /\ buf[2].n = l
    <3>0. 2 \in 1 .. Len(buf)
        BY <2>3, <1>1
    <3>1. 2 \in 1 .. Len(buf) /\ buf[2] = m[2]
        BY <3>0, <1>3, Zenon
    <3>2. \A j \in 1 .. Len(buf) : j < 2 => buf[j].t # "Content-Length"
      <4>1. \A j \in 1 .. Len(buf) : j < 2 => j = 1
          BY <1>1
      <4> QED
          BY <4>1, <2>1, <1>6
    <3>3. buf[2].t = "Content-Length"
        BY <3>1, <2>1
    <3>4. Find(buf, "Content-Length") = 2
        BY <3>1, <3>2, <3>3, FindIs
    <3> QED
        BY <3>1, <3>4, <2>1
  <2>4. ASSUME Len(buf) = 2 PROVE ~HTTPConfig_AllInBuffer(buf)
    <3>1. \A j \in 1 .. Len(buf) : buf[j].t # "END"
      <4>1. \A j \in 1 .. Len(buf) : j = 1 \/ j = 2
          BY <2>4
      <4> QED
          BY <4>1, <2>1, <1>3
    <3>2. Find(buf, "END") = 0
        BY <3>1, FindNone
    <3>3. Find(buf, "Content-Length") = 2
        BY <2>3, <2>4
    <3> QED
        BY <3>2, <3>3 DEF HTTPConfig_AllInBuffer
  <2>5. ASSUME Len(buf) >= 3 PROVE Find(buf, "END") = 3
    <3>1. 3 \in 1 .. Len(buf) /\ buf[3].t = "END"
        BY <2>5, <1>1, <1>3, <2>1
    <3>2. \A j \in 1 .. Len(buf) : j < 3 => buf[j].t # "END"
      <4>1. \A j \in 1 .. Len(buf) : j < 3 => j = 1 \/ j = 2
          BY <1>1
      <4> QED
          BY <4>1, <2>1, <1>3
    <3> QED
        BY <3>1, <3>2, FindIs
  <2>6. ASSUME Len(buf) >= 3 PROVE HTTPConfig_AllInBuffer(buf) <=> more = <<>>
    <3>1. Find(buf, "END") = 3 /\ Find(buf, "Content-Length") = 2 /\ buf[2].n = l
        BY <2>3, <2>5, <2>6, <1>1
    <3>2. 3 \in 0 .. Len(buf)
        BY <2>6, <1>1
    <3>3. Len(After(buf, 3)) = Len(buf) - 3
        BY <3>2, AfterIs
    <3>4. HTTPConfig_AllInBuffer(buf) <=> Len(buf) - 3 >= l
        BY <3>1, <3>3 DEF HTTPConfig_AllInBuffer
    <3>5. Len(buf) - 3 >= l <=> Len(buf) = Len(m)
        BY <1>1, <1>2, <2>1
    <3> QED
        BY <3>4, <3>5, <1>5
  <2>7. ASSUME more = <<>> PROVE After(buf, 3) = Toks(FormBody(r.form)) /\ Len(buf) >= 3
    <3> DEFINE u == Toks(FormBody(r.form))
    <3>1. Len(buf) = 3 + l
        BY <2>7, <1>5, <2>1
    <3>2. 3 \in 0 .. Len(buf) /\ Len(buf) - 3 = l
        BY <3>1, <2>1
    <3>3. /\ After(buf, 3) \in Seq(Token) /\ Len(After(buf, 3)) = l
          /\ \A p \in 1 .. l : After(buf, 3)[p] = buf[3 + p]
        BY <3>2, AfterIs
    <3>4. r.form \in Forms /\ \A p \in 1 .. l : m[3 + p] = u[p]
        BY <1>4, <1>8 DEF IsMessage, l
    <3>5. \A p \in 1 .. l : buf[3 + p] = m[3 + p]
        BY <3>1, <1>3, <2>1
    <3>6. FormBody(r.form) \in Seq(Text)
        BY <3>4, FormBodyIs DEF FormLays
    <3>7. u \in Seq(Token) /\ Len(u) = l
        BY <3>6, ToksTypes DEF l
    <3> HIDE DEF u
    <3>8. After(buf, 3) = u
        BY <3>3, <3>4, <3>5, <3>7, SeqEqual
    <3> QED
        BY <3>1, <3>8, <2>1 DEF u
  <2> QED
      BY <2>2, <2>4, <2>5, <2>6, <2>7, <1>6, <1>8 DEF IsComplete, m
<1> QED
    BY <1>7, <1>8

-----------------------------------------------------------------------------
(***************************************************************************)
(* The page's invariant.                                                   *)
(***************************************************************************)
PageTypes ==
    /\ request \in Requests
    /\ recieveBuffer \in Seq(Token) /\ rest \in Seq(Token)
    /\ sysCfg \in [Keys -> Seq(Text)] /\ stored \in [Keys -> Seq(Text)]
    /\ before \in [Keys -> Seq(Text)]
    /\ whole \in BOOLEAN /\ drops \in 0 .. MaxDrops
    /\ answers \in Nat /\ answers + Len(rest) <= Len(Message(request))

\* Nothing of the request was lost: what is buffered begins it, what is to come
\* ends it.
Collecting == recieveBuffer \o rest = Message(request)

\* A request whose header came in one segment has been served ...
Served ==
    /\ rest = <<>> /\ recieveBuffer = <<>> /\ answers = 1
    /\ stored = Applied(before, request.form)

\* ... or is being collected, its header complete once anything is buffered.
Waiting ==
    /\ rest # <<>> /\ answers = 0 /\ stored = before /\ Collecting
    /\ recieveBuffer = <<>> \/ Len(recieveBuffer) >= HeaderLength(request)

\* While no connection was lost, the buffer holds nothing of an older request;
\* a cut header of a request without data leaves its end to come.
Undropped ==
    /\ sysCfg \in [Keys -> Seq(Char)] /\ stored \in [Keys -> Seq(Char)]
    /\ rest = <<>> => recieveBuffer = <<>>
    /\ rest # <<>> => \/ Collecting
                      \/ /\ recieveBuffer = <<>> /\ rest = <<Tok("END")>>
                         /\ request.method # "POST"

\* The inductive invariant.
PageInv ==
    /\ PageTypes
    /\ whole => Served \/ Waiting
    /\ drops = 0 => Undropped

\* Every request has a header.
LEMMA MessageShape ==
    ASSUME NEW r \in Requests
    PROVE  /\ Message(r) \in Seq(Token) /\ Len(Message(r)) \in Nat
           /\ Len(Message(r)) >= 2 /\ Len(Message(r)) >= HeaderLength(r)
           /\ Message(r) # <<>>
<1>1. IsMessage(r, Message(r))
    BY MessageIs
<1>2. Message(r) \in Seq(Token) /\ Len(Message(r)) \in Nat
    BY <1>1, LenProperties DEF IsMessage
<1>3. Len(Message(r)) >= 2 /\ Len(Message(r)) >= HeaderLength(r)
    BY <1>1 DEF IsMessage, HeaderLength
<1>4. Len(<<>>) = 0
    OBVIOUS
<1> QED
    BY <1>2, <1>3, <1>4

\* Characters are text.
LEMMA CharsAreText ==
    Seq(Char) \subseteq Seq(Text) /\ [Keys -> Seq(Char)] \subseteq [Keys -> Seq(Text)]
<1>1. Char \subseteq Text
    BY DEF Text
<1>2. Seq(Char) \subseteq Seq(Text)
    BY <1>1, SeqMonotonic
<1> QED
    BY <1>2

\* A request without a form changes nothing.
LEMMA AppliedNothing ==
    ASSUME NEW cfg \in [Keys -> Seq(Text)]
    PROVE  Applied(cfg, <<>>) = cfg
<1>1. DOMAIN <<>> = {}
    OBVIOUS
<1>2. Applied(cfg, <<>>) = [k \in Keys |-> cfg[k]]
    BY <1>1 DEF Applied
<1> QED
    BY <1>2

\* The invariant holds at the start ...
LEMMA PageInit == Init => PageInv
<1> SUFFICES ASSUME Init PROVE PageInv
    OBVIOUS
<1>1. request \in Requests /\ request.form = <<>>
    BY DEF Init, Requests, GET
<1>2. Initial \in [Keys -> Seq(Char)] /\ Initial \in [Keys -> Seq(Text)]
    BY HttpAssumption, CharsAreText
<1>3. <<>> \in Seq(Token) /\ Len(<<>>) = 0
    BY EmptySeq
<1>4. Len(Message(request)) \in Nat /\ Len(Message(request)) >= 2
    BY <1>1, MessageShape
<1>5. PageTypes
  <2>1. answers + Len(rest) = 1
      BY <1>3 DEF Init
  <2>2. drops \in 0 .. MaxDrops
      BY HttpAssumption DEF Init
  <2> QED
      BY <1>1, <1>2, <1>3, <1>4, <2>1, <2>2 DEF Init, PageTypes
<1>6. Served
    BY <1>1, <1>2, AppliedNothing DEF Init, Served
<1>7. Undropped
    BY <1>2 DEF Init, Undropped
<1> QED
    BY <1>5, <1>6, <1>7 DEF PageInv

\* ... when the browser asks ...
LEMMA PageAsk ==
    ASSUME PageInv, Ask
    PROVE  PageInv'
<1>1. /\ request' \in Requests /\ rest' = Message(request') /\ rest = <<>>
      /\ before' = stored /\ answers' = 0 /\ drops' = drops
      /\ recieveBuffer' = recieveBuffer /\ sysCfg' = sysCfg /\ stored' = stored
    BY DEF Ask
<1>2. whole' = (recieveBuffer = <<>>)
    BY DEF Ask
<1>3. /\ Message(request') \in Seq(Token) /\ Len(Message(request')) \in Nat
      /\ Message(request') # <<>>
    BY <1>1, MessageShape
<1>4. PageTypes'
  <2>1. whole' \in BOOLEAN
      BY <1>2, Zenon
  <2>2. answers' \in Nat /\ answers' + Len(rest') <= Len(Message(request'))
      BY <1>1, <1>3
  <2> QED
      BY <1>1, <1>3, <2>1, <2>2 DEF PageInv, PageTypes
<1>5. ASSUME recieveBuffer = <<>> PROVE Collecting'
  <2>1. <<>> \o Message(request') = Message(request')
      BY <1>3, ConcatEmptySeq
  <2> QED
      BY <2>1, <1>1, <1>5 DEF Collecting
<1>6. whole' => Waiting'
    BY <1>1, <1>2, <1>3, <1>5 DEF Waiting
<1>7. drops' = 0 => Undropped'
  <2>1. SUFFICES ASSUME drops = 0 PROVE Undropped'
      BY <1>1
  <2>2. Undropped /\ recieveBuffer = <<>>
      BY <2>1, <1>1 DEF PageInv, Undropped
  <2>3. Collecting'
      BY <2>2, <1>5
  <2> QED
      BY <2>2, <2>3, <1>1, <1>3 DEF Undropped
<1> QED
    BY <1>4, <1>6, <1>7 DEF PageInv

\* ... when the device restarts ...
LEMMA PageFault ==
    ASSUME PageInv, Fault
    PROVE  PageInv'
<1>1. /\ recieveBuffer' = <<>> /\ rest' = <<>> /\ sysCfg' = stored
      /\ request' = request /\ stored' = stored /\ before' = before
      /\ answers' = answers /\ drops' = drops
    BY DEF Fault
<1>2. whole' = FALSE
    BY DEF Fault
<1>3. <<>> \in Seq(Token) /\ Len(<<>>) = 0
    BY EmptySeq
<1>4. PageTypes'
  <2>1. answers' \in Nat /\ answers' + Len(rest') <= Len(Message(request'))
    <3>1. answers \in Nat /\ Len(rest) \in Nat /\ answers + Len(rest) <= Len(Message(request))
          /\ Len(Message(request)) \in Nat
        BY LenProperties, MessageShape DEF PageInv, PageTypes
    <3> QED
        BY <3>1, <1>1, <1>3
  <2>2. whole' \in BOOLEAN
      BY <1>2, Zenon
  <2> QED
      BY <1>1, <1>3, <2>1, <2>2 DEF PageInv, PageTypes
<1>5. drops' = 0 => Undropped'
    BY <1>1 DEF PageInv, Undropped
<1> QED
    BY <1>2, <1>4, <1>5 DEF PageInv

\* ... when a connection is lost ...
LEMMA PageError ==
    ASSUME PageInv, ConnectionError
    PROVE  PageInv'
<1>1. /\ rest' = <<>> /\ drops' = drops + 1 /\ drops < MaxDrops
      /\ recieveBuffer' = recieveBuffer /\ request' = request /\ sysCfg' = sysCfg
      /\ stored' = stored /\ before' = before /\ answers' = answers
    BY DEF ConnectionError
<1>2. whole' = FALSE
    BY DEF ConnectionError
<1>3. <<>> \in Seq(Token) /\ Len(<<>>) = 0
    BY EmptySeq
<1>4. drops' \in 0 .. MaxDrops /\ drops' # 0
    BY <1>1, HttpAssumption DEF PageInv, PageTypes
<1>5. PageTypes'
  <2>1. answers' \in Nat /\ answers' + Len(rest') <= Len(Message(request'))
    <3>1. answers \in Nat /\ Len(rest) \in Nat /\ answers + Len(rest) <= Len(Message(request))
          /\ Len(Message(request)) \in Nat
        BY LenProperties, MessageShape DEF PageInv, PageTypes
    <3> QED
        BY <3>1, <1>1, <1>3
  <2>2. whole' \in BOOLEAN
      BY <1>2, Zenon
  <2> QED
      BY <1>1, <1>3, <1>4, <2>1, <2>2 DEF PageInv, PageTypes
<1> QED
    BY <1>2, <1>4, <1>5 DEF PageInv

\* ... when a segment arrives: HTTPConfig_TCPServerRecieveCallback ...
LEMMA PageRecieve ==
    ASSUME PageInv, Recieve
    PROVE  PageInv'
<1>0. /\ PageTypes /\ request \in Requests
      /\ recieveBuffer \in Seq(Token) /\ rest \in Seq(Token)
      /\ Len(recieveBuffer) \in Nat /\ Len(rest) \in Nat
      /\ Message(request) \in Seq(Token) /\ Len(Message(request)) \in Nat
    BY LenProperties, MessageShape DEF PageInv, PageTypes
<1>1. PICK n \in 1 .. Len(rest) : RecieveCallback(n) /\ whole' = (whole /\ HeaderIn(n))
    BY DEF Recieve
<1> DEFINE buf == recieveBuffer \o SubSeq(rest, 1, n)
           more == After(rest, n)
           all == HTTPConfig_AllInBuffer(buf)
<1>2. /\ rest' = more /\ request' = request /\ before' = before /\ drops' = drops
      /\ ~all => /\ recieveBuffer' = buf /\ answers' = answers
                 /\ sysCfg' = sysCfg /\ stored' = stored
      /\ all => recieveBuffer' = <<>> /\ answers' = answers + 1
      /\ all /\ buf[1].t = "POST" => HTTPConfig_SetData(buf) /\ sysCfg' = stored'
      /\ all /\ buf[1].t = "GET" => sysCfg' = stored /\ stored' = stored
      /\ all /\ buf[1].t # "POST" /\ buf[1].t # "GET" => sysCfg' = sysCfg /\ stored' = stored
    BY <1>1 DEF RecieveCallback
<1>3. /\ buf \in Seq(Token) /\ more \in Seq(Token)
      /\ Len(buf) = Len(recieveBuffer) + n /\ Len(more) = Len(rest) - n
      /\ (Collecting => buf \o more = Message(request))
    BY <1>0, Cut DEF IsCut, Collecting
<1> HIDE DEF buf, more, all
<1>4. Len(buf) >= 1 /\ Len(buf) \in Nat /\ Len(more) \in Nat
    BY <1>0, <1>3
<1>5. Collecting => IsComplete(request, buf, more)
    BY <1>0, <1>3, <1>4, Complete
<1>6. ASSUME all, buf[1].t = "POST"
      PROVE  Find(buf, "END") # 0 /\ stored' = SetData(stored, After(buf, Find(buf, "END")))
    BY <1>2, <1>6 DEF HTTPConfig_SetData
\* Types: whatever is read, it is read as values.
<1>7. stored' \in [Keys -> Seq(Text)] /\ sysCfg' \in [Keys -> Seq(Text)]
  <2>0. stored \in [Keys -> Seq(Text)] /\ sysCfg \in [Keys -> Seq(Text)]
      BY <1>0 DEF PageTypes
  <2>1. CASE all /\ buf[1].t = "POST"
    <3>1. Find(buf, "END") \in 0 .. Len(buf)
        BY <1>3, FindTypes
    <3>2. After(buf, Find(buf, "END")) \in Seq(Token)
        BY <3>1, <1>3, AfterIs
    <3>3. SetData(stored, After(buf, Find(buf, "END"))) \in [Keys -> Seq(Text)]
        BY <3>2, <2>0, SetDataTypes
    <3> QED
        BY <3>3, <2>1, <1>6, <1>2
  <2>2. CASE ~(all /\ buf[1].t = "POST")
    <3>1. stored' = stored /\ (sysCfg' = sysCfg \/ sysCfg' = stored)
        BY <2>2, <1>2
    <3> QED
        BY <3>1, <2>0
  <2> QED
      BY <2>1, <2>2
<1>8. PageTypes'
  <2>1. recieveBuffer' \in Seq(Token)
      BY <1>2, <1>3, EmptySeq
  <2>2. answers' \in Nat /\ answers' + Len(rest') <= Len(Message(request'))
    <3>1. answers' = answers \/ answers' = answers + 1
        BY <1>2
    <3>2. answers \in Nat /\ answers + Len(rest) <= Len(Message(request))
        BY <1>0 DEF PageTypes
    <3>3. Len(rest') = Len(rest) - n
        BY <1>2, <1>3
    <3> QED
        BY <3>1, <3>2, <3>3, <1>0, <1>2
  <2>3. whole' \in BOOLEAN
    <3>1. whole' = (whole /\ HeaderIn(n))
        BY <1>1
    <3> QED
        BY <3>1, Zenon
  <2> QED
      BY <2>1, <2>2, <2>3, <1>0, <1>2, <1>3, <1>7 DEF PageTypes
\* A complete form is stored.
<1>9. ASSUME Collecting, request.method = "POST", all, more = <<>>
      PROVE  request.form \in Forms /\ stored' = Applied(stored, request.form)
  <2>1. IsComplete(request, buf, more) /\ IsMessage(request, Message(request))
      BY <1>0, <1>5, <1>9, MessageIs
  <2>2. buf[1].t = "POST" /\ request.form \in Forms
      BY <2>1, <1>9 DEF IsComplete, IsMessage
  <2>3. Find(buf, "END") = 3 /\ After(buf, 3) = Toks(FormBody(request.form))
      BY <2>1, <1>9 DEF IsComplete
  <2>4. stored' = SetData(stored, Toks(FormBody(request.form)))
      BY <2>2, <2>3, <1>6, <1>9
  <2>5. stored \in [Keys -> Seq(Text)]
      BY <1>0 DEF PageTypes
  <2>6. SetData(stored, Toks(FormBody(request.form))) = Applied(stored, request.form)
      BY <2>2, <2>5, SetDataIs
  <2> QED
      BY <2>2, <2>4, <2>6
\* Without a form nothing is.
<1>10. ASSUME Collecting, request.method # "POST"
       PROVE  all /\ buf[1].t # "POST" /\ stored' = stored /\ request.form = <<>>
  <2>1. IsComplete(request, buf, more) /\ IsMessage(request, Message(request))
      BY <1>0, <1>5, <1>10, MessageIs
  <2>2. all /\ buf[1].t = request.method /\ request.form = <<>>
      BY <2>1, <1>10 DEF IsComplete, IsMessage, all
  <2>3. stored' = stored
      BY <2>2, <1>2, <1>10
  <2> QED
      BY <2>2, <2>3, <1>10
\* What is not all there is collected further.
<1>11. ASSUME Collecting, ~all
       PROVE  Collecting' /\ rest' # <<>>
  <2>1. Collecting'
      BY <1>2, <1>3, <1>11 DEF Collecting
  <2>2. more # <<>>
    <3>1. IsComplete(request, buf, more)
        BY <1>5, <1>11
    <3> QED
        BY <3>1, <1>11 DEF IsComplete, all
  <2> QED
      BY <2>1, <2>2, <1>2
<1>12. ASSUME whole' PROVE Served' \/ Waiting'
  <2>1. whole /\ HeaderIn(n)
      BY <1>1, <1>12
  <2>2. rest # <<>>
      BY <1>0, EmptySeq
  <2>3. Waiting
      BY <2>1, <2>2 DEF PageInv, Served
  <2>4. Collecting /\ answers = 0 /\ stored = before
      BY <2>3 DEF Waiting
  <2>5. Len(buf) >= HeaderLength(request)
    <3>1. Len(recieveBuffer) + Len(rest) = Len(Message(request))
        BY <2>4, <1>0, ConcatProperties DEF Collecting
    <3>2. HeaderLength(request) \in Nat
        BY DEF HeaderLength
    <3> QED
        BY <3>1, <3>2, <2>1, <1>0, <1>3 DEF HeaderIn
  <2>6. IsComplete(request, buf, more)
      BY <2>4, <1>5
  <2>7. CASE ~all
    <3>1. Collecting' /\ rest' # <<>>
        BY <2>4, <2>7, <1>11
    <3>2. /\ answers' = 0 /\ stored' = before' /\ recieveBuffer' = buf
          /\ request' = request
        BY <2>4, <2>7, <1>2
    <3>3. HeaderLength(request)' = HeaderLength(request)
        BY <3>2 DEF HeaderLength
    <3> QED
        BY <3>1, <3>2, <3>3, <2>5 DEF Waiting
  <2>8. CASE all
    <3>1. recieveBuffer' = <<>> /\ answers' = 1 /\ request' = request /\ before' = before
        BY <2>4, <2>8, <1>2
    <3>2. CASE request.method = "POST"
      <4>1. Len(buf) >= 3
          BY <3>2, <2>5 DEF HeaderLength
      <4>2. more = <<>>
          BY <4>1, <3>2, <2>6, <2>8 DEF IsComplete, all
      <4>3. stored' = Applied(before, request.form)
          BY <4>2, <3>2, <2>4, <2>8, <1>9
      <4> QED
          BY <4>2, <4>3, <3>1, <1>2 DEF Served
    <3>3. CASE request.method # "POST"
      <4>1. IsMessage(request, Message(request))
          BY <1>0, MessageIs
      <4>2. Len(Message(request)) = 2 /\ Len(buf) >= 2
          BY <4>1, <3>3, <2>5 DEF IsMessage, HeaderLength
      <4>3. Len(buf) + Len(more) = Len(Message(request))
          BY <2>4, <1>3, ConcatProperties
      <4>4. more = <<>>
        <5>1. Len(more) = 0
            BY <4>2, <4>3, <1>4
        <5> QED
            BY <5>1, <1>3, EmptySeq
      <4>5. stored' = before /\ request.form = <<>>
          BY <3>3, <2>4, <1>10
      <4>6. Applied(before, <<>>) = before
        <5>1. before \in [Keys -> Seq(Text)]
            BY <1>0 DEF PageTypes
        <5> QED
            BY <5>1, AppliedNothing
      <4> QED
          BY <4>4, <4>5, <4>6, <3>1, <1>2 DEF Served
    <3> QED
        BY <3>2, <3>3
  <2> QED
      BY <2>7, <2>8
<1>13. ASSUME drops' = 0 PROVE Undropped'
  <2>1. Undropped /\ rest # <<>>
      BY <1>0, <1>2, <1>13, EmptySeq DEF PageInv
  <2>2. stored \in [Keys -> Seq(Char)] /\ sysCfg \in [Keys -> Seq(Char)]
      BY <2>1 DEF Undropped
  <2>3. CASE Collecting /\ ~all
    <3>1. Collecting' /\ rest' # <<>> /\ stored' = stored /\ sysCfg' = sysCfg
        BY <2>3, <1>2, <1>11
    <3> QED
        BY <3>1, <2>2 DEF Undropped
  <2>4. CASE Collecting /\ all /\ request.method = "POST"
    <3>1. IsComplete(request, buf, more) /\ IsMessage(request, Message(request))
        BY <1>0, <1>5, <2>4, MessageIs
    <3>2. buf[1].t = "POST"
        BY <3>1, <2>4 DEF IsComplete, IsMessage
    <3>3. Find(buf, "END") # 0
        BY <3>2, <2>4, <1>6
    <3>4. Len(buf) >= 3
      <4>1. Len(buf) # 1 /\ Len(buf) # 2
          BY <3>1, <3>3, <2>4 DEF IsComplete, all
      <4>2. \A x \in Nat : x >= 1 /\ x # 1 /\ x # 2 => x >= 3
          OBVIOUS
      <4> QED
          BY <4>1, <4>2, <1>4, Zenon
    <3>5. more = <<>>
        BY <3>1, <3>4, <2>4 DEF IsComplete, all
    <3>6. request.form \in Forms /\ stored' = Applied(stored, request.form)
        BY <3>5, <2>4, <1>9
    <3>7. stored' \in [Keys -> Seq(Char)]
        BY <3>6, <2>2, AppliedTypes
    <3>8. sysCfg' = stored' /\ rest' = <<>> /\ recieveBuffer' = <<>>
        BY <3>2, <3>5, <2>4, <1>2
    <3> QED
        BY <3>7, <3>8 DEF Undropped
  <2>5. CASE Collecting /\ all /\ request.method # "POST"
    <3>1. buf[1].t # "POST" /\ stored' = stored
        BY <2>5, <1>10
    <3>2. recieveBuffer' = <<>> /\ (sysCfg' = sysCfg \/ sysCfg' = stored)
        BY <3>1, <2>5, <1>2
    <3>3. IsMessage(request, Message(request))
        BY <1>0, MessageIs
    <3>4. Len(Message(request)) = 2 /\ Message(request)[2] = Tok("END")
        BY <3>3, <2>5 DEF IsMessage
    <3>5. more = <<>> \/ more = <<Tok("END")>>
      <4>1. /\ Len(buf) + Len(more) = 2
            /\ \A i \in 1 .. Len(buf) + Len(more) : Message(request)[i] =
                  IF i <= Len(buf) THEN buf[i] ELSE more[i - Len(buf)]
        <5>1. buf \in Seq(Token) /\ more \in Seq(Token) /\ buf \o more = Message(request)
            BY <2>5, <1>3
        <5>2. /\ Len(buf \o more) = Len(buf) + Len(more)
              /\ \A i \in 1 .. Len(buf) + Len(more) : (buf \o more)[i] =
                    IF i <= Len(buf) THEN buf[i] ELSE more[i - Len(buf)]
            BY <5>1, ConcatProperties
        <5> QED
            BY <5>1, <5>2, <3>4
      <4>2. Len(more) = 0 \/ (Len(more) = 1 /\ Len(buf) = 1)
        <5>1. \A x, y \in Nat : x >= 1 /\ x + y = 2 => y = 0 \/ (y = 1 /\ x = 1)
            OBVIOUS
        <5> QED
            BY <5>1, <4>1, <1>4, Zenon
      <4>3. CASE Len(more) = 0
          BY <4>3, <1>3, EmptySeq
      <4>4. CASE Len(more) = 1 /\ Len(buf) = 1
        <5>1. more[1] = Tok("END")
            BY <4>1, <4>4, <3>4
        <5> QED
            BY <5>1, <4>4, <1>3
      <4> QED
          BY <4>2, <4>3, <4>4
    <3> QED
        BY <3>1, <3>2, <3>5, <2>2, <2>5, <1>2 DEF Undropped
  <2>6. CASE /\ recieveBuffer = <<>> /\ rest = <<Tok("END")>>
             /\ request.method # "POST"
    <3>1. Len(rest) = 1 /\ rest[1] = Tok("END")
        BY <2>6
    <3>2. n = 1 /\ more = <<>>
      <4>1. n = 1 /\ Len(more) = 0
          BY <3>1, <1>3
      <4> QED
          BY <4>1, <1>3, EmptySeq
    <3>3. buf = <<Tok("END")>>
      <4>1. SubSeq(rest, 1, 1) = rest
          BY <3>1, <1>0, SubSeqFull
      <4>2. <<>> \o rest = rest
          BY <1>0, ConcatEmptySeq
      <4> QED
          BY <4>1, <4>2, <3>2, <2>6 DEF buf
    <3>4. Len(buf) = 1 /\ buf[1].t = "END"
        BY <3>3 DEF Tok
    <3>5. \A j \in 1 .. Len(buf) : buf[j].t # "Content-Length"
        BY <3>4
    <3>6. Find(buf, "Content-Length") = 0
        BY <3>5, <1>3, FindNone
    <3>7. all
        BY <3>6 DEF all, HTTPConfig_AllInBuffer
    <3>8. recieveBuffer' = <<>> /\ rest' = <<>> /\ stored' = stored /\ sysCfg' = sysCfg
        BY <3>2, <3>4, <3>7, <1>2
    <3> QED
        BY <3>8, <2>2 DEF Undropped
  <2> QED
      BY <2>1, <2>3, <2>4, <2>5, <2>6 DEF Undropped
<1> QED
    BY <1>8, <1>12, <1>13 DEF PageInv

\* ... and so in every step.
LEMMA PageStep == PageInv /\ [Next]_httpVars => PageInv'
<1> SUFFICES ASSUME PageInv, [Next]_httpVars PROVE PageInv'
    OBVIOUS
<1>1. CASE Ask
    BY <1>1, PageAsk
<1>2. CASE Recieve
    BY <1>2, PageRecieve
<1>3. CASE Fault
    BY <1>3, PageFault
<1>4. CASE ConnectionError
    BY <1>4, PageError
<1>5. CASE UNCHANGED httpVars
  <2>1. /\ recieveBuffer' = recieveBuffer /\ rest' = rest /\ request' = request
        /\ sysCfg' = sysCfg /\ stored' = stored /\ before' = before
        /\ answers' = answers /\ drops' = drops
      BY <1>5 DEF httpVars
  <2>2. whole' = whole
      BY <1>5 DEF httpVars
  <2>3. PageTypes'
      BY <2>1, <2>2, Zenon DEF PageInv, PageTypes
  <2>4. (Served <=> Served') /\ (Waiting <=> Waiting') /\ (Undropped <=> Undropped')
      BY <2>1, Zenon DEF Served, Waiting, Undropped, Collecting, HeaderLength
  <2> QED
      BY <2>1, <2>2, <2>3, <2>4, Zenon DEF PageInv
<1> QED
    BY <1>1, <1>2, <1>3, <1>4, <1>5 DEF Next

\* The page always keeps its invariant: a request whose header came whole is
\* collected without loss until it is served, and the buffer holds nothing else
\* while no connection was lost.
THEOREM PageInvariant == Spec => []PageInv
<1>1. Init => PageInv
    BY PageInit
<1>2. PageInv /\ [Next]_httpVars => PageInv'
    BY PageStep
<1> QED
    BY <1>1, <1>2, PTL DEF Spec

\* The configuration that the page loads and saves has all its keys, with
\* values of decoded characters while no connection was lost, and a request gets
\* no more answers than it has tokens.
THEOREM PageTypeCorrect == Spec => []TypeOK
<1>1. PageInv => TypeOK
  <2> SUFFICES ASSUME PageInv PROVE TypeOK
      OBVIOUS
  <2>1. request \in Requests /\ drops \in 0 .. MaxDrops
      BY DEF PageInv, PageTypes
  <2>2. whole \in BOOLEAN
      BY Zenon DEF PageInv, PageTypes
  <2>3. sysCfg \in [Keys -> Seq(Text)] /\ stored \in [Keys -> Seq(Text)]
      BY DEF PageInv, PageTypes
  <2>4. drops = 0 => {sysCfg, stored} \subseteq [Keys -> Seq(Char)]
      BY DEF PageInv, Undropped
  <2>5. answers \in 0 .. Len(Message(request))
    <3>1. answers \in Nat /\ answers + Len(rest) <= Len(Message(request)) /\ rest \in Seq(Token)
        BY DEF PageInv, PageTypes
    <3>2. Len(rest) \in Nat /\ Len(Message(request)) \in Nat
        BY <3>1, <2>1, LenProperties, MessageShape
    <3> QED
        BY <3>1, <3>2
  <2> QED
      BY <2>1, <2>2, <2>3, <2>4, <2>5 DEF TypeOK
<1> QED
    BY <1>1, PageInvariant, PTL

\* For every form and every way to cut the request into segments:
\* HTTPConfig_SetData stores exactly the posted values, decoded, and nothing is
\* stored before the answer or by other requests.
THEOREM StoresTheFormHolds == Spec => []StoresTheForm
<1>1. PageInv => StoresTheForm
  <2> SUFFICES ASSUME PageInv, whole
               PROVE  stored = IF answers > 0 THEN Applied(before, request.form) ELSE before
      BY DEF StoresTheForm
  <2>1. CASE Served
      BY <2>1 DEF Served
  <2>2. CASE Waiting
      BY <2>2 DEF Waiting
  <2> QED
      BY <2>1, <2>2 DEF PageInv
<1> QED
    BY <1>1, PageInvariant, PTL

\* A request whose header came whole, and into an empty buffer, was answered
\* once when it has arrived, and HTTPConfig_TCPServerRecieveCallback emptied the
\* buffer.
THEOREM AnsweredOnceHolds == Spec => []AnsweredOnce
<1>1. PageInv => AnsweredOnce
    BY DEF PageInv, Served, Waiting, AnsweredOnce
<1> QED
    BY <1>1, PageInvariant, PTL

-----------------------------------------------------------------------------
(***************************************************************************)
(* Loops over a string (Utils)                                             *)
(***************************************************************************)
\* A set that goes from each number to the next.
LEMMA Induct ==
    ASSUME NEW p \in Nat, NEW q \in Nat, NEW T, p \in T,
           \A i \in p + 1 .. q : i - 1 \in T => i \in T
    PROVE  \A i \in p .. q : i \in T
<1> DEFINE F == {i \in p .. q : i \notin T}
<1>1. SUFFICES ASSUME F # {} PROVE FALSE
    OBVIOUS
<1>2. F \in SUBSET Nat
    OBVIOUS
<1>3. PICK n \in F : \A m \in F : n <= m
    BY <1>1, <1>2, Least
<1>4. n \in p .. q /\ n \notin T /\ n # p
    BY <1>3
<1>5. n \in p + 1 .. q /\ n - 1 \in p .. q /\ ~(n <= n - 1)
    BY <1>4
<1>6. n - 1 \notin F
    BY <1>3, <1>5
<1>7. n - 1 \in T
    BY <1>5, <1>6
<1> QED
    BY <1>4, <1>5, <1>7

\* The variables of a loop that turns from p to q, each turn as g says.
Turns(f, p, q, a, g) == f[p] = a /\ \A i \in p + 1 .. q : f[i] = g[i][f[i - 1]]

\* There is a function that does so.
LEMMA LoopExists ==
    ASSUME NEW p \in Nat, NEW q \in Nat, p <= q, NEW S, NEW a \in S,
           NEW g \in [p + 1 .. q -> [S -> S]]
    PROVE  \E f \in [p .. q -> S] : Turns(f, p, q, a, g)
<1> DEFINE T == {n \in p .. q : \E f \in [p .. n -> S] : Turns(f, p, n, a, g)}
<1>1. p \in T
  <2> DEFINE f == [i \in p .. p |-> a]
  <2>1. f \in [p .. p -> S] /\ Turns(f, p, p, a, g)
      BY DEF Turns
  <2>2. p \in p .. q
      OBVIOUS
  <2> HIDE DEF f
  <2> QED
      BY <2>1, <2>2
<1>2. ASSUME NEW n \in p + 1 .. q, n - 1 \in T
      PROVE  n \in T
  <2>1. n - 1 \in p .. q /\ n \in p .. q /\ n \in Nat
      OBVIOUS
  <2>2. PICK e \in [p .. n - 1 -> S] : Turns(e, p, n - 1, a, g)
      BY <1>2
  <2> DEFINE f == [i \in p .. n |-> IF i = n THEN g[n][e[n - 1]] ELSE e[i]]
  <2>3. g[n] \in [S -> S] /\ e[n - 1] \in S
      BY <2>1
  <2>4. f \in [p .. n -> S]
    <3>1. ASSUME NEW i \in p .. n PROVE (IF i = n THEN g[n][e[n - 1]] ELSE e[i]) \in S
        BY <2>3, <2>1
    <3> QED
        BY <3>1
  <2>5. f[p] = a
      BY <2>2, <2>1 DEF Turns
  <2>6. ASSUME NEW i \in p + 1 .. n PROVE f[i] = g[i][f[i - 1]]
    <3>1. f[i - 1] = e[i - 1]
        BY <2>1
    <3>2. CASE i = n
        BY <3>1, <3>2
    <3>3. CASE i # n
      <4>1. i \in p + 1 .. n - 1 /\ f[i] = e[i]
          BY <3>3, <2>1
      <4> QED
          BY <4>1, <3>1, <2>2 DEF Turns
    <3> QED
        BY <3>2, <3>3
  <2> HIDE DEF f
  <2>7. Turns(f, p, n, a, g)
      BY <2>5, <2>6 DEF Turns
  <2> QED
      BY <2>1, <2>4, <2>7
<1> HIDE DEF T
<1>3. \A i \in p .. q : i \in T
    BY <1>1, <1>2, Induct
<1>4. q \in T
    BY <1>3
<1> QED
    BY <1>4 DEF T

-----------------------------------------------------------------------------
(***************************************************************************)
(* Integers of a width                                                     *)
(***************************************************************************)
\* Division with remainder, in one way only.
LEMMA DivMod ==
    ASSUME NEW x \in Nat, NEW m \in Nat, m > 0
    PROVE  /\ x % m \in Nat /\ x % m < m
           /\ \E d \in Nat : x = m * d + (x % m)
<1>1. x % m \in 0 .. m - 1 /\ x \div m \in Nat
    OBVIOUS
<1>2. x = m * (x \div m) + (x % m)
    OBVIOUS
<1> DEFINE d == x \div m
           r == x % m
<1>3. r \in 0 .. m - 1 /\ d \in Nat /\ x = m * d + r
    BY <1>1, <1>2
<1> HIDE DEF d, r
<1>4. r \in Nat /\ r < m /\ \E e \in Nat : x = m * e + r
    BY <1>3
<1> QED
    BY <1>4 DEF r

\* The quotient is not smaller ...
LEMMA DivLess ==
    ASSUME NEW a \in Nat, NEW b \in Nat, NEW r \in Nat, NEW t \in Nat, NEW m \in Nat,
           r < m, m * a + r = m * b + t
    PROVE  ~(a < b)
<1> SUFFICES ASSUME a < b PROVE FALSE
    OBVIOUS
<1>1. PICK d \in Nat : b = a + d + 1
  <2>1. b - a - 1 \in Nat /\ b = a + (b - a - 1) + 1
      OBVIOUS
  <2> QED
      BY <2>1
<1>2. m * b = m * a + m * d + m
    BY <1>1
<1>3. m * d \in Nat /\ m * a \in Nat
    OBVIOUS
<1>4. r = m * d + m + t
  <2>1. \A u, v \in Nat : u + r = (u + v + m) + t => r = v + m + t
      OBVIOUS
  <2>2. m * a + r = (m * a + m * d + m) + t
      BY <1>2
  <2> QED
      BY <2>1, <2>2, <1>3
<1>5. \A v \in Nat : r # v + m + t
    OBVIOUS
<1> QED
    BY <1>3, <1>4, <1>5

\* ... so that the remainder is one number.
LEMMA DivUnique ==
    ASSUME NEW a \in Nat, NEW b \in Nat, NEW r \in Nat, NEW t \in Nat, NEW m \in Nat,
           r < m, t < m, m * a + r = m * b + t
    PROVE  r = t
<1>1. ~(a < b) /\ ~(b < a)
    BY DivLess
<1>2. a = b
    BY <1>1
<1>3. \A u \in Nat : u + r = u + t => r = t
    OBVIOUS
<1>4. m * b \in Nat /\ m * b + r = m * b + t
    BY <1>2
<1> QED
    BY <1>3, <1>4

\* An int holds what is in its range, and something of it of the rest.
LEMMA WrapIs ==
    ASSUME NEW x \in Int
    PROVE  Wrap(x) \in Int /\ (x \in Nat /\ x < IntBound => Wrap(x) = x)
<1> DEFINE m == 2 * IntBound
           y == x + IntBound
<1>1. IntBound \in Nat /\ IntBound >= 256
    BY UtilsAssumption
<1>2. m \in Nat /\ m > 0 /\ m \in Int /\ y \in Int
    BY <1>1
<1>3. Wrap(x) = (y % m) - IntBound
    BY DEF Wrap
<1>4. ASSUME x \in Nat, x < IntBound PROVE y \in Nat /\ y < m /\ y - IntBound = x
    BY <1>1, <1>4
<1> HIDE DEF m, y
<1>5. y % m \in Int
    BY <1>2
<1>6. ASSUME y \in Nat, y < m PROVE y % m = y
  <2> DEFINE r == y % m
  <2>1. r \in Nat /\ r < m /\ \E d \in Nat : y = m * d + r
      BY <1>2, <1>6, DivMod
  <2> HIDE DEF r
  <2>2. PICK d \in Nat : y = m * d + r
      BY <2>1
  <2>3. m * 0 + y = m * d + r /\ 0 \in Nat
      BY <2>2, <1>2, <1>6
  <2>4. y = r
      BY <2>1, <2>3, <1>2, <1>6, DivUnique
  <2> QED
      BY <2>4 DEF r
<1>7. Wrap(x) \in Int
    BY <1>1, <1>3, <1>5
<1> QED
    BY <1>3, <1>4, <1>6, <1>7

\* What n has of the number x: the number itself as long as an int holds it.
Tracks(n, x) == x \in Nat /\ (x < IntBound => n = x)

\* At first that is nothing ...
LEMMA TracksNone == Tracks(0, 0)
BY DEF Tracks

\* ... and it stays so with every digit.
LEMMA TracksMore ==
    ASSUME NEW n \in Int, NEW x, Tracks(n, x), NEW d \in 0 .. 9
    PROVE  Tracks(Wrap(10 * n + d), 10 * x + d)
<1>1. IntBound \in Nat /\ x \in Nat /\ 10 * x + d \in Nat /\ 10 * x + d \in Int
    BY UtilsAssumption DEF Tracks
<1>2. 10 * x + d < IntBound => x < IntBound
    BY <1>1
<1>3. ASSUME 10 * x + d < IntBound PROVE Wrap(10 * n + d) = 10 * x + d
  <2>1. n = x
      BY <1>2, <1>3 DEF Tracks
  <2> DEFINE y == 10 * x + d
  <2>2. y \in Nat /\ y \in Int /\ y < IntBound
      BY <1>1, <1>3
  <2> HIDE DEF y
  <2>3. Wrap(y) = y
      BY <2>2, WrapIs
  <2> QED
      BY <2>1, <2>3 DEF y
<1> QED
    BY <1>1, <1>3 DEF Tracks

-----------------------------------------------------------------------------
(***************************************************************************)
(* UTILS_IsIPV4 and UTILS_StrToIP, turn by turn                            *)
(***************************************************************************)
IPV4State == [segs : 0 .. 3, chcnt : Nat, accum : Nat, ok : BOOLEAN]

\* What a turn of UTILS_IsIPV4 does with each kind of character.
IPV4Turn(s, c, t) ==
    /\ ~s.ok => t = s
    /\ s.ok /\ c = Dot /\ s.chcnt # 0 /\ s.segs # 3 =>
          t.ok /\ t.segs = s.segs + 1 /\ t.chcnt = 0
    /\ s.ok /\ c = Dot /\ (s.chcnt = 0 \/ s.segs = 3) => ~t.ok
    /\ s.ok /\ c # Dot /\ ~IsDigit(c) => ~t.ok
    /\ s.ok /\ IsDigit(c) => t.ok /\ t.segs = s.segs /\ t.chcnt = (s.chcnt + 1) % 256

\* The turns of UTILS_IsIPV4 are these.
LEMMA IPV4StepIs ==
    ASSUME NEW s \in IPV4State, NEW c \in Int
    PROVE  IPV4Step(s, c) \in IPV4State /\ IPV4Turn(s, c, IPV4Step(s, c))
<1>1. CASE ~s.ok
    BY <1>1 DEF IPV4Step, IPV4Turn
<1>2. CASE s.ok /\ c = Dot
  <2>1. IPV4Step(s, c) = DotSegment(s) /\ ~IsDigit(c)
      BY <1>2 DEF IPV4Step, Dot, IsDigit
  <2>2. CASE s.chcnt = 0 \/ s.segs = 3
    <3>1. DotSegment(s) = [s EXCEPT !.ok = FALSE]
        BY <2>2 DEF DotSegment
    <3> QED
        BY <3>1, <2>1, <1>2, <2>2 DEF IPV4State, IPV4Turn
  <2>3. CASE s.chcnt # 0 /\ s.segs # 3
    <3> DEFINE k == s.segs + 1
    <3>1. DotSegment(s) = [s EXCEPT !.segs = k, !.chcnt = 0, !.accum = 0]
        BY <2>3 DEF DotSegment
    <3>2. k \in 0 .. 3 /\ k = s.segs + 1
        BY <2>3 DEF IPV4State
    <3> HIDE DEF k
    <3>3. 0 \in Nat /\ s.ok \in BOOLEAN
        BY DEF IPV4State
    <3>4. DotSegment(s) \in IPV4State
        BY <3>1, <3>2, <3>3, Zenon DEF IPV4State
    <3>5. /\ DotSegment(s).ok = s.ok /\ DotSegment(s).segs = s.segs + 1
          /\ DotSegment(s).chcnt = 0
        BY <3>1, <3>2, Zenon DEF IPV4State
    <3> QED
        BY <3>4, <3>5, <2>1, <1>2, <2>3 DEF IPV4Turn
  <2> QED
      BY <2>2, <2>3
<1>3. CASE s.ok /\ c # Dot /\ ~IsDigit(c)
  <2>1. IPV4Step(s, c) = [s EXCEPT !.ok = FALSE]
      BY <1>3 DEF IPV4Step
  <2> QED
      BY <2>1, <1>3 DEF IPV4State, IPV4Turn
<1>4. CASE s.ok /\ IsDigit(c)
  <2> DEFINE accum == (s.accum * 10 + Digit(c)) % 256
             chcnt == (s.chcnt + 1) % 256
  <2>1. c # Dot
      BY <1>4 DEF Dot, IsDigit
  <2>2. accum \in Nat /\ ~(accum > 255) /\ chcnt \in Nat
      BY DEF IPV4State, Digit
  <2>3. IPV4Step(s, c) = [s EXCEPT !.accum = accum, !.chcnt = chcnt, !.ok = ~(accum > 255)]
      BY <2>1, <1>4 DEF IPV4Step
  <2>4. IPV4Step(s, c) = [s EXCEPT !.accum = accum, !.chcnt = chcnt, !.ok = TRUE]
      BY <2>2, <2>3
  <2> HIDE DEF accum
  <2>5. IPV4Step(s, c) \in IPV4State
      BY <2>2, <2>4, Zenon DEF IPV4State
  <2>6. IPV4Step(s, c).ok /\ IPV4Step(s, c).segs = s.segs /\ IPV4Step(s, c).chcnt = chcnt
      BY <2>4 DEF IPV4State
  <2> QED
      BY <2>1, <2>5, <2>6, <1>4 DEF IPV4Turn
<1> QED
    BY <1>1, <1>2, <1>3, <1>4

\* UTILS_IsIPV4 starts as it is written and takes a turn for every character.
LEMMA IPV4LoopIs ==
    ASSUME NEW string \in Seq(Int), NEW read, read = IPV4Loop(string)
    PROVE  /\ \A i \in 0 .. Len(string) : read[i] \in IPV4State
           /\ read[0] = [segs |-> 0, chcnt |-> 0, accum |-> 0, ok |-> TRUE]
           /\ \A i \in 1 .. Len(string) : IPV4Turn(read[i - 1], string[i], read[i])
<1> DEFINE N == Len(string)
           a == [segs |-> 0, chcnt |-> 0, accum |-> 0, ok |-> TRUE]
           g == [i \in 0 + 1 .. N |-> [s \in IPV4State |-> IPV4Step(s, string[i])]]
           Eqn(f) == f = [i \in 0 .. N |-> IF i = 0 THEN a ELSE IPV4Step(f[i - 1], string[i])]
<1>1. N \in Nat /\ 0 <= N /\ 0 \in Nat
    BY LenProperties
<1>2. a \in IPV4State
    BY DEF IPV4State
<1>3. \A i \in 1 .. N : string[i] \in Int
    BY ElementOfSeq
<1> HIDE DEF N, a
<1>4. g \in [0 + 1 .. N -> [IPV4State -> IPV4State]]
    BY <1>3, IPV4StepIs
<1>5. \A i \in 1 .. N : \A s \in IPV4State : g[i][s] = IPV4Step(s, string[i])
    OBVIOUS
<1> HIDE DEF g
<1>6. PICK f \in [0 .. N -> IPV4State] : Turns(f, 0, N, a, g)
    BY <1>1, <1>2, <1>4, LoopExists
<1>7. Eqn(f)
  <2>1. ASSUME NEW i \in 0 .. N
        PROVE  f[i] = IF i = 0 THEN a ELSE IPV4Step(f[i - 1], string[i])
    <3>1. CASE i = 0
        BY <3>1, <1>6 DEF Turns
    <3>2. CASE i # 0
      <4>1. i \in 0 + 1 .. N /\ i \in 1 .. N /\ i - 1 \in 0 .. N
          BY <3>2, <1>1
      <4>2. f[i] = g[i][f[i - 1]] /\ f[i - 1] \in IPV4State
          BY <4>1, <1>6 DEF Turns
      <4> QED
          BY <4>1, <4>2, <3>2, <1>5
    <3> QED
        BY <3>1, <3>2
  <2> QED
      BY <2>1
<1>8. read = CHOOSE h : Eqn(h)
    BY DEF IPV4Loop, N, a
<1>9. Eqn(read)
    BY <1>7, <1>8
<1>10. read[0] = a /\ \A i \in 1 .. N : read[i] = IPV4Step(read[i - 1], string[i])
    BY <1>9, <1>1
<1> HIDE DEF Eqn
<1>11. \A i \in 0 .. N : read[i] \in IPV4State
  <2> DEFINE T == {i \in 0 .. N : read[i] \in IPV4State}
  <2>1. 0 \in T
      BY <1>1, <1>2, <1>10
  <2>2. ASSUME NEW i \in 0 + 1 .. N, i - 1 \in T PROVE i \in T
    <3>1. i \in 1 .. N /\ i \in 0 .. N
        BY <1>1
    <3>2. read[i - 1] \in IPV4State
        BY <2>2
    <3>3. read[i] \in IPV4State
        BY <3>1, <3>2, <1>3, <1>10, IPV4StepIs
    <3> QED
        BY <3>1, <3>3
  <2> HIDE DEF T
  <2>3. \A i \in 0 .. N : i \in T
      BY <1>1, <2>1, <2>2, Induct
  <2> QED
      BY <2>3 DEF T
<1>12. ASSUME NEW i \in 1 .. N PROVE IPV4Turn(read[i - 1], string[i], read[i])
  <2>1. i - 1 \in 0 .. N
      BY <1>1
  <2>2. read[i - 1] \in IPV4State /\ string[i] \in Int
      BY <2>1, <1>3, <1>11
  <2>3. read[i] = IPV4Step(read[i - 1], string[i])
      BY <1>10
  <2> QED
      BY <2>2, <2>3, IPV4StepIs
<1> QED
    BY <1>10, <1>11, <1>12 DEF N, a

StrToIPState == [ip : Seq(Nat), n : Int, ok : BOOLEAN]

\* Where a number of UTILS_StrToIP ends.
Stops(s, c) == ~IsDigit(c) /\ ((Len(s.ip) < 3 /\ c = Dot) \/ Len(s.ip) = 3)

\* What a turn of UTILS_StrToIP does with each kind of character.
StrToIPTurn(s, c, t) ==
    /\ ~s.ok \/ Len(s.ip) = 4 => t = s
    /\ s.ok /\ Len(s.ip) # 4 /\ IsDigit(c) =>
          t.ok /\ t.ip = s.ip /\ t.n = Wrap(10 * s.n + Digit(c))
    /\ s.ok /\ Len(s.ip) # 4 /\ Stops(s, c) /\ s.n < 256 =>
          t.ok /\ t.ip = Append(s.ip, s.n % 256) /\ t.n = 0
    /\ s.ok /\ Len(s.ip) # 4 /\ Stops(s, c) /\ s.n >= 256 => ~t.ok
    /\ s.ok /\ Len(s.ip) # 4 /\ ~IsDigit(c) /\ ~Stops(s, c) => ~t.ok

\* The turns of UTILS_StrToIP are these.
LEMMA StrToIPStepIs ==
    ASSUME NEW s \in StrToIPState, NEW c \in Int
    PROVE  StrToIPStep(s, c) \in StrToIPState /\ StrToIPTurn(s, c, StrToIPStep(s, c))
<1>0. s.ip \in Seq(Nat) /\ s.n \in Int /\ s.ok \in BOOLEAN
    BY DEF StrToIPState
<1>1. CASE ~s.ok \/ Len(s.ip) = 4
  <2>1. StrToIPStep(s, c) = s
      BY <1>1 DEF StrToIPStep
  <2> QED
      BY <2>1, <1>1 DEF StrToIPTurn
<1>2. CASE s.ok /\ Len(s.ip) # 4 /\ IsDigit(c)
  <2> DEFINE n == Wrap(s.n * 10 + Digit(c))
  <2>1. StrToIPStep(s, c) = [s EXCEPT !.n = n]
      BY <1>2 DEF StrToIPStep
  <2>2. n \in Int /\ n = Wrap(10 * s.n + Digit(c))
    <3>1. s.n * 10 + Digit(c) = 10 * s.n + Digit(c) /\ s.n * 10 + Digit(c) \in Int
        BY <1>0, <1>2 DEF IsDigit, Digit
    <3> QED
        BY <3>1, WrapIs
  <2>3. ~Stops(s, c)
      BY <1>2 DEF Stops
  <2> HIDE DEF n
  <2>4. StrToIPStep(s, c) \in StrToIPState
      BY <2>1, <2>2, Zenon DEF StrToIPState
  <2>5. /\ StrToIPStep(s, c).ok = s.ok /\ StrToIPStep(s, c).ip = s.ip
        /\ StrToIPStep(s, c).n = n
      BY <2>1, Zenon DEF StrToIPState
  <2> QED
      BY <2>2, <2>3, <2>4, <2>5, <1>2 DEF StrToIPTurn
<1>3. CASE s.ok /\ Len(s.ip) # 4 /\ Stops(s, c)
  <2>0. ~IsDigit(c) /\ ((Len(s.ip) < 3 /\ c = Dot) \/ Len(s.ip) = 3)
      BY <1>3 DEF Stops
  <2>1. StrToIPStep(s, c) = EndByte(s)
      BY <2>0, <1>3 DEF StrToIPStep
  <2>2. CASE s.n >= 256
    <3>1. EndByte(s) = [s EXCEPT !.ok = FALSE]
        BY <2>2 DEF EndByte
    <3>2. EndByte(s) \in StrToIPState /\ ~EndByte(s).ok
        BY <3>1 DEF StrToIPState
    <3>3. ~(s.n < 256)
        BY <2>2, <1>0
    <3> QED
        BY <3>2, <3>3, <2>0, <2>1, <2>2, <1>3 DEF StrToIPTurn
  <2>3. CASE ~(s.n >= 256)
    <3> DEFINE ip == Append(s.ip, s.n % 256)
    <3>1. EndByte(s) = [s EXCEPT !.ip = ip, !.n = 0]
        BY <2>3 DEF EndByte
    <3>2. ip \in Seq(Nat) /\ 0 \in Int
      <4>1. s.n % 256 \in Nat
          BY <1>0
      <4> QED
          BY <4>1, <1>0, AppendProperties
    <3> HIDE DEF ip
    <3>3. EndByte(s) \in StrToIPState
        BY <3>1, <3>2, <1>0, Zenon DEF StrToIPState
    <3>4. EndByte(s).ok = s.ok /\ EndByte(s).ip = ip /\ EndByte(s).n = 0
        BY <3>1, Zenon DEF StrToIPState
    <3> QED
        BY <3>3, <3>4, <2>0, <2>1, <2>3, <1>3 DEF StrToIPTurn, ip
  <2> QED
      BY <2>2, <2>3
<1>4. CASE s.ok /\ Len(s.ip) # 4 /\ ~IsDigit(c) /\ ~Stops(s, c)
  <2>0. ~((Len(s.ip) < 3 /\ c = Dot) \/ Len(s.ip) = 3)
      BY <1>4 DEF Stops
  <2>1. StrToIPStep(s, c) = [s EXCEPT !.ok = FALSE]
      BY <2>0, <1>4 DEF StrToIPStep
  <2>2. StrToIPStep(s, c) \in StrToIPState /\ ~StrToIPStep(s, c).ok
      BY <2>1 DEF StrToIPState
  <2> QED
      BY <2>2, <1>4 DEF StrToIPTurn
<1> QED
    BY <1>1, <1>2, <1>3, <1>4 DEF Stops

\* So does UTILS_StrToIP, and a last one for the terminating 0.
LEMMA StrToIPLoopIs ==
    ASSUME NEW string \in Seq(Int), NEW read, read = StrToIPLoop(string)
    PROVE  /\ \A i \in 0 .. Len(string) + 1 : read[i] \in StrToIPState
           /\ read[0] = [ip |-> <<>>, n |-> 0, ok |-> TRUE]
           /\ \A i \in 1 .. Len(string) + 1 :
                 StrToIPTurn(read[i - 1], Append(string, 0)[i], read[i])
<1> DEFINE N == Len(string) + 1
           text == Append(string, 0)
           a == [ip |-> <<>>, n |-> 0, ok |-> TRUE]
           g == [i \in 0 + 1 .. N |-> [s \in StrToIPState |-> StrToIPStep(s, text[i])]]
           Eqn(f) == f = [i \in 0 .. N |-> IF i = 0 THEN a ELSE StrToIPStep(f[i - 1], text[i])]
<1>1. N \in Nat /\ 0 <= N /\ 0 \in Nat
    BY LenProperties
<1>2. a \in StrToIPState
    BY EmptySeq DEF StrToIPState
<1>3. \A i \in 1 .. N : text[i] \in Int
  <2>1. text \in Seq(Int) /\ Len(text) = N
      BY AppendProperties
  <2> HIDE DEF text
  <2> QED
      BY <2>1, ElementOfSeq
<1> HIDE DEF N, a, text
<1>4. g \in [0 + 1 .. N -> [StrToIPState -> StrToIPState]]
    BY <1>3, StrToIPStepIs
<1>5. \A i \in 1 .. N : \A s \in StrToIPState : g[i][s] = StrToIPStep(s, text[i])
    OBVIOUS
<1> HIDE DEF g
<1>6. PICK f \in [0 .. N -> StrToIPState] : Turns(f, 0, N, a, g)
    BY <1>1, <1>2, <1>4, LoopExists
<1>7. Eqn(f)
  <2>1. ASSUME NEW i \in 0 .. N
        PROVE  f[i] = IF i = 0 THEN a ELSE StrToIPStep(f[i - 1], text[i])
    <3>1. CASE i = 0
        BY <3>1, <1>6 DEF Turns
    <3>2. CASE i # 0
      <4>1. i \in 0 + 1 .. N /\ i \in 1 .. N /\ i - 1 \in 0 .. N
          BY <3>2, <1>1
      <4>2. f[i] = g[i][f[i - 1]] /\ f[i - 1] \in StrToIPState
          BY <4>1, <1>6 DEF Turns
      <4> QED
          BY <4>1, <4>2, <3>2, <1>5
    <3> QED
        BY <3>1, <3>2
  <2> QED
      BY <2>1
<1>8. read = CHOOSE h : Eqn(h)
    BY DEF StrToIPLoop, N, a, text
<1>9. Eqn(read)
    BY <1>7, <1>8
<1>10. read[0] = a /\ \A i \in 1 .. N : read[i] = StrToIPStep(read[i - 1], text[i])
    BY <1>9, <1>1
<1> HIDE DEF Eqn
<1>11. \A i \in 0 .. N : read[i] \in StrToIPState
  <2> DEFINE T == {i \in 0 .. N : read[i] \in StrToIPState}
  <2>1. 0 \in T
      BY <1>1, <1>2, <1>10
  <2>2. ASSUME NEW i \in 0 + 1 .. N, i - 1 \in T PROVE i \in T
    <3>1. i \in 1 .. N /\ i \in 0 .. N
        BY <1>1
    <3>2. read[i - 1] \in StrToIPState
        BY <2>2
    <3>3. read[i] \in StrToIPState
        BY <3>1, <3>2, <1>3, <1>10, StrToIPStepIs
    <3> QED
        BY <3>1, <3>3
  <2> HIDE DEF T
  <2>3. \A i \in 0 .. N : i \in T
      BY <1>1, <2>1, <2>2, Induct
  <2> QED
      BY <2>3 DEF T
<1>12. ASSUME NEW i \in 1 .. N PROVE StrToIPTurn(read[i - 1], text[i], read[i])
  <2>1. i - 1 \in 0 .. N
      BY <1>1
  <2>2. read[i - 1] \in StrToIPState /\ text[i] \in Int
      BY <2>1, <1>3, <1>11
  <2>3. read[i] = StrToIPStep(read[i - 1], text[i])
      BY <1>10
  <2> QED
      BY <2>2, <2>3, StrToIPStepIs
<1> QED
    BY <1>10, <1>11, <1>12 DEF N, a, text

\* A character is a digit below 16 or none; the first ten are the decimal ones.
LEMMA HexValueIs ==
    ASSUME NEW c \in Int
    PROVE  /\ HexValue(c) \in -1 .. 15 /\ HexValue(c) \in Int
           /\ IsDigit(c) => HexValue(c) = Digit(c)
BY DEF HexValue, IsDigit, Digit

\* The number so far, and what the next digit makes of it.
LEMMA ValuesIs ==
    ASSUME str \in Seq(Int), NEW base \in Nat, NEW p \in 0 .. Len(str),
           NEW v, v = Values(base, p)
    PROVE  /\ v[p] = 0 /\ \A i \in p .. Len(str) : v[i] \in Int
           /\ \A i \in p + 1 .. Len(str) : v[i] = base * v[i - 1] + HexValue(str[i])
<1> DEFINE N == Len(str)
           next(x, i) == base * x + HexValue(str[i])
           g == [i \in p + 1 .. N |-> [x \in Int |-> next(x, i)]]
           Eqn(f) == f = [i \in p .. N |-> IF i = p THEN 0 ELSE next(f[i - 1], i)]
<1>1. N \in Nat /\ p \in Nat /\ p <= N /\ 0 \in Int
    BY LenProperties
<1>2. \A i \in p + 1 .. N : str[i] \in Int
    BY <1>1, ElementOfSeq
<1>3. v = CHOOSE h : Eqn(h)
    BY DEF Values
<1> HIDE DEF N
<1>4. ASSUME NEW i \in p + 1 .. N, NEW x \in Int PROVE next(x, i) \in Int
  <2>1. HexValue(str[i]) \in Int
      BY <1>2, HexValueIs
  <2> QED
      BY <2>1
<1> HIDE DEF next
<1>5. g \in [p + 1 .. N -> [Int -> Int]]
    BY <1>4
<1>6. \A i \in p + 1 .. N : \A x \in Int : g[i][x] = next(x, i)
    OBVIOUS
<1> HIDE DEF g
<1>7. PICK f \in [p .. N -> Int] : Turns(f, p, N, 0, g)
    BY <1>1, <1>5, LoopExists
<1>8. Eqn(f)
  <2>1. ASSUME NEW i \in p .. N
        PROVE  f[i] = IF i = p THEN 0 ELSE next(f[i - 1], i)
    <3>1. CASE i = p
        BY <3>1, <1>7 DEF Turns
    <3>2. CASE i # p
      <4>1. i \in p + 1 .. N /\ i - 1 \in p .. N
          BY <3>2, <1>1
      <4>2. f[i] = g[i][f[i - 1]] /\ f[i - 1] \in Int
          BY <4>1, <1>7 DEF Turns
      <4> QED
          BY <4>1, <4>2, <3>2, <1>6
    <3> QED
        BY <3>1, <3>2
  <2> QED
      BY <2>1
<1>9. Eqn(v)
    BY <1>3, <1>8
<1>10. v[p] = 0 /\ \A i \in p + 1 .. N : v[i] = next(v[i - 1], i)
    BY <1>9, <1>1
<1> HIDE DEF Eqn
<1>11. \A i \in p .. N : v[i] \in Int
  <2> DEFINE T == {i \in p .. N : v[i] \in Int}
  <2>1. p \in T
      BY <1>1, <1>10
  <2>2. ASSUME NEW i \in p + 1 .. N, i - 1 \in T PROVE i \in T
    <3>1. i \in p .. N
        BY <1>1
    <3>2. v[i] \in Int
        BY <2>2, <1>4, <1>10
    <3> QED
        BY <3>1, <3>2
  <2> HIDE DEF T
  <2>3. \A i \in p .. N : i \in T
      BY <1>1, <2>1, <2>2, Induct
  <2> QED
      BY <2>3 DEF T
<1> QED
    BY <1>10, <1>11 DEF N, next

-----------------------------------------------------------------------------
(***************************************************************************)
(* Where the numbers and the dots are                                      *)
(***************************************************************************)
UtilsInv == str \in Seq(Int)

\* Nothing but digits, or nothing, between two places.
AllDigits(p, q) == \A x \in p + 1 .. q - 1 : IsDigit(str[x])

\* Where the first k numbers of the string are, as far as place i: each ends at
\* a dot, and the fourth at any character.
Ends4(j, x) ==
    /\ j < 4 => x <= Len(str) /\ str[x] = Dot
    /\ j = 4 => x = Len(str) + 1 \/ (x <= Len(str) /\ ~IsDigit(str[x]))

Laid(cut, k, i) ==
    /\ cut \in [1 .. 5 -> Nat] /\ k \in 0 .. 4 /\ i \in Nat
    /\ cut[1] = 0 /\ cut[k + 1] <= i
    /\ \A j \in 1 .. k : /\ cut[j] < cut[j + 1] /\ cut[j + 1] <= i
                         /\ AllDigits(cut[j], cut[j + 1]) /\ Ends4(j, cut[j + 1])

\* Nothing is read yet.
LEMMA LaidStart ==
    \E cut : Laid(cut, 0, 0)
<1> DEFINE cut == [j \in 1 .. 5 |-> 0]
<1>1. Laid(cut, 0, 0)
    BY DEF Laid
<1> QED
    BY <1>1

\* What was found stays where it is.
LEMMA LaidOn ==
    ASSUME NEW cut, NEW k, NEW i \in Nat, Laid(cut, k, i)
    PROVE  Laid(cut, k, i + 1)
BY DEF Laid

\* The next number ends at i.
Longer(cut, k, i) == [cut EXCEPT ![k + 2] = i]

\* One number more is found.
LEMMA LaidNext ==
    ASSUME NEW cut, NEW k, NEW i \in Nat, Laid(cut, k, i), k < 4,
           AllDigits(cut[k + 1], i + 1), Ends4(k + 1, i + 1),
           NEW new, new = Longer(cut, k, i + 1)
    PROVE  /\ Laid(new, k + 1, i + 1) /\ new[k + 2] = i + 1
           /\ \A j \in 1 .. k + 1 : new[j] = cut[j]
<1>1. /\ cut \in [1 .. 5 -> Nat] /\ k \in 0 .. 3 /\ cut[1] = 0 /\ cut[k + 1] <= i
      /\ k + 1 \in 1 .. 5 /\ k + 2 \in 1 .. 5 /\ cut[k + 1] \in Nat
    BY DEF Laid
<1>2. new \in [1 .. 5 -> Nat] /\ new[k + 2] = i + 1 /\ \A j \in 1 .. k + 1 : new[j] = cut[j]
    BY <1>1 DEF Longer
<1>3. ASSUME NEW j \in 1 .. k + 1
      PROVE  /\ new[j] < new[j + 1] /\ new[j + 1] <= i + 1
             /\ AllDigits(new[j], new[j + 1]) /\ Ends4(j, new[j + 1])
  <2>1. CASE j = k + 1
    <3>1. new[j] = cut[k + 1] /\ new[j + 1] = i + 1
        BY <2>1, <1>2, <1>1
    <3> QED
        BY <3>1, <2>1, <1>1
  <2>2. CASE j # k + 1
    <3>1. j \in 1 .. k /\ j + 1 \in 1 .. k + 1
        BY <2>2, <1>1
    <3>2. new[j] = cut[j] /\ new[j + 1] = cut[j + 1]
        BY <3>1, <1>2
    <3>3. /\ cut[j] < cut[j + 1] /\ cut[j + 1] <= i
          /\ AllDigits(cut[j], cut[j + 1]) /\ Ends4(j, cut[j + 1])
        BY <3>1 DEF Laid
    <3>4. cut[j + 1] \in Nat
        BY <3>1, <1>1
    <3> QED
        BY <3>2, <3>3, <3>4
  <2> QED
      BY <2>1, <2>2
<1>4. new[1] = 0 /\ k + 1 \in 0 .. 4 /\ i + 1 \in Nat /\ new[(k + 1) + 1] <= i + 1
    BY <1>1, <1>2
<1> HIDE DEF Longer
<1>5. Laid(new, k + 1, i + 1)
    BY <1>2, <1>3, <1>4 DEF Laid
<1> QED
    BY <1>2, <1>5

-----------------------------------------------------------------------------
(***************************************************************************)
(* What the loops have found is there: forward                             *)
(***************************************************************************)
\* What UTILS_IsIPV4 has found, as far as place i.
IPV4Cut(cut, s, i) ==
    /\ Laid(cut, s.segs, i) /\ AllDigits(cut[s.segs + 1], i + 1)
    /\ i = cut[s.segs + 1] => s.chcnt = 0
    /\ \A j \in 1 .. s.segs : cut[j + 1] > cut[j] + 1
IPV4At(s, i) == s.ok => \E cut : IPV4Cut(cut, s, i)

\* One more digit, or nothing.
LEMMA AllDigitsMore ==
    ASSUME NEW p \in Nat, NEW i \in Nat, AllDigits(p, i), IsDigit(str[i])
    PROVE  AllDigits(p, i + 1)
BY DEF AllDigits

\* There is nothing between neighbours.
LEMMA AllDigitsNone ==
    ASSUME NEW p \in Nat
    PROVE  AllDigits(p, p + 1)
BY DEF AllDigits

\* A turn of UTILS_IsIPV4 keeps track of the dots, or fails.
LEMMA IPV4Forward ==
    ASSUME UtilsInv, NEW i \in Nat, i + 1 <= Len(str), NEW s \in IPV4State, NEW t \in IPV4State,
           IPV4Turn(s, str[i + 1], t), IPV4At(s, i)
    PROVE  IPV4At(t, i + 1)
<1> DEFINE c == str[i + 1]
<1>0. Len(str) \in Nat /\ i + 1 \in 1 .. Len(str)
    BY LenProperties DEF UtilsInv
<1>1. c \in Int
    BY <1>0, ElementOfSeq DEF UtilsInv
<1>2. SUFFICES ASSUME t.ok PROVE \E cut : IPV4Cut(cut, t, i + 1)
    BY DEF IPV4At
<1>3. s.ok
    BY <1>2 DEF IPV4Turn
<1>4. PICK cut : IPV4Cut(cut, s, i)
    BY <1>3 DEF IPV4At
<1> DEFINE k == s.segs
<1>5. k \in 0 .. 3 /\ s.chcnt \in Nat
    BY DEF IPV4State
<1>6. /\ Laid(cut, k, i) /\ AllDigits(cut[k + 1], i + 1) /\ (i = cut[k + 1] => s.chcnt = 0)
      /\ \A j \in 1 .. k : cut[j + 1] > cut[j] + 1
    BY <1>4 DEF IPV4Cut
<1>7. cut \in [1 .. 5 -> Nat] /\ cut[k + 1] \in Nat /\ cut[k + 1] <= i
    BY <1>5, <1>6 DEF Laid
<1>8. CASE IsDigit(c)
  <2>1. t.segs = k
      BY <1>3, <1>8 DEF IPV4Turn
  <2>2. Laid(cut, k, i + 1)
      BY <1>6, LaidOn
  <2>3. AllDigits(cut[k + 1], (i + 1) + 1)
      BY <1>6, <1>7, <1>8, AllDigitsMore
  <2>5. i + 1 # cut[k + 1]
    <3>1. \A m \in Nat : m <= i => i + 1 # m
        OBVIOUS
    <3> QED
        BY <3>1, <1>7
  <2>6. IPV4Cut(cut, t, i + 1)
      BY <2>1, <2>2, <2>3, <2>5, <1>6 DEF IPV4Cut
  <2> QED
      BY <2>6
<1>9. CASE ~IsDigit(c)
  <2>1. c = Dot /\ s.chcnt # 0 /\ k # 3 /\ t.segs = k + 1 /\ t.chcnt = 0
      BY <1>2, <1>3, <1>9 DEF IPV4Turn
  <2> DEFINE new == Longer(cut, k, i + 1)
  <2>2. k < 4 /\ k + 1 < 4
      BY <2>1, <1>5
  <2>3. Ends4(k + 1, i + 1)
      BY <2>1, <2>2, <1>0, <1>5 DEF Ends4
  <2>4. /\ Laid(new, k + 1, i + 1) /\ new[k + 2] = i + 1
        /\ \A j \in 1 .. k + 1 : new[j] = cut[j]
      BY <2>2, <2>3, <1>6, LaidNext
  <2> HIDE DEF new
  <2>5. AllDigits(new[(k + 1) + 1], (i + 1) + 1)
    <3>1. new[(k + 1) + 1] = i + 1 /\ i + 1 \in Nat
        BY <2>4, <1>5
    <3> QED
        BY <3>1, AllDigitsNone
  <2>7. ASSUME NEW j \in 1 .. k + 1 PROVE new[j + 1] > new[j] + 1
    <3>1. CASE j = k + 1
      <4>1. new[j] = cut[k + 1] /\ new[j + 1] = i + 1
          BY <3>1, <2>4, <1>5
      <4>2. i # cut[k + 1]
          BY <2>1, <1>6
      <4> QED
          BY <4>1, <4>2, <1>7, SMTT(40)
    <3>2. CASE j # k + 1
      <4>1. j \in 1 .. k /\ j + 1 \in 1 .. k + 1 /\ j \in 1 .. k + 1
          BY <3>2, <1>5
      <4> QED
          BY <4>1, <2>4, <1>6
    <3> QED
        BY <3>1, <3>2
  <2>8. IPV4Cut(new, t, i + 1)
    <3> HIDE DEF k
    <3> QED
        BY <2>1, <2>4, <2>5, <2>7 DEF IPV4Cut
  <2> QED
      BY <2>8
<1> QED
    BY <1>8, <1>9

\* While UTILS_IsIPV4 has not failed, there are numbers and dots only.
LEMMA IPV4Finds ==
    ASSUME UtilsInv, NEW read, read = IPV4Loop(str)
    PROVE  \A i \in 0 .. Len(str) : IPV4At(read[i], i)
<1> DEFINE N == Len(str)
           T == {i \in 0 .. N : IPV4At(read[i], i)}
<1>1. N \in Nat /\ 0 \in Nat /\ str \in Seq(Int)
    BY LenProperties DEF UtilsInv
<1>2. /\ \A i \in 0 .. N : read[i] \in IPV4State
      /\ read[0] = [segs |-> 0, chcnt |-> 0, accum |-> 0, ok |-> TRUE]
      /\ \A i \in 1 .. N : IPV4Turn(read[i - 1], str[i], read[i])
    BY <1>1, IPV4LoopIs
<1>3. 0 \in T
  <2>1. PICK cut : Laid(cut, 0, 0)
      BY LaidStart
  <2>2. cut[1] = 0
      BY <2>1 DEF Laid
  <2>3. AllDigits(0, 0 + 1)
      BY AllDigitsNone
  <2>4. read[0].segs = 0 /\ read[0].chcnt = 0
      BY <1>2
  <2>5. IPV4Cut(cut, read[0], 0)
      BY <2>1, <2>2, <2>3, <2>4 DEF IPV4Cut
  <2> QED
      BY <2>5, <1>1 DEF IPV4At
<1>4. ASSUME NEW i \in 0 + 1 .. N, i - 1 \in T PROVE i \in T
  <2> DEFINE m == i - 1
  <2>1. m \in Nat /\ m + 1 = i /\ m \in 0 .. N /\ i \in 1 .. N /\ i \in 0 .. N /\ i <= N
      BY <1>1
  <2>2. read[m] \in IPV4State /\ read[i] \in IPV4State /\ IPV4Turn(read[m], str[i], read[i])
      BY <2>1, <1>2
  <2>3. IPV4At(read[m], m)
      BY <1>4
  <2> HIDE DEF m
  <2>4. IPV4At(read[i], m + 1)
      BY <2>1, <2>2, <2>3, IPV4Forward
  <2> QED
      BY <2>1, <2>4
<1> HIDE DEF T
<1>5. \A i \in 0 .. N : i \in T
    BY <1>1, <1>3, <1>4, Induct
<1> QED
    BY <1>5 DEF T

-----------------------------------------------------------------------------
(***************************************************************************)
(* What is there is found: along four numbers                              *)
(***************************************************************************)
\* What is known of three dots with four numbers around them.
IsQuad(q) ==
    /\ q \in [1 .. 5 -> Nat] /\ q[1] = 0 /\ q[5] = Len(str) + 1
    /\ \A k \in 1 .. 4 : q[k] + 1 < q[k + 1] /\ AllDigits(q[k], q[k + 1])
    /\ \A k \in 2 .. 4 : q[k] <= Len(str) /\ str[q[k]] = Dot

\* An element of Quads is such.
LEMMA QuadIs ==
    ASSUME str \in Seq(Int), NEW q \in Quads
    PROVE  IsQuad(q)
<1>1. Len(str) \in Nat /\ DOMAIN str = 1 .. Len(str)
    BY LenProperties
<1>2. PICK a \in Dots, b \in Dots, c \in Dots : q = <<0, a, b, c, Len(str) + 1>>
    BY DEF Quads, Cuts
<1>3. /\ a \in 1 .. Len(str) /\ b \in 1 .. Len(str) /\ c \in 1 .. Len(str)
      /\ str[a] = Dot /\ str[b] = Dot /\ str[c] = Dot
    BY <1>1 DEF Dots
<1>4. q[1] = 0 /\ q[2] = a /\ q[3] = b /\ q[4] = c /\ q[5] = Len(str) + 1
    BY <1>2
<1>5. q \in [1 .. 5 -> Nat]
  <2>1. DOMAIN q = 1 .. 5 /\ q = [k \in 1 .. 5 |-> q[k]]
      BY <1>2
  <2>2. \A k \in 1 .. 5 : k = 1 \/ k = 2 \/ k = 3 \/ k = 4 \/ k = 5
      OBVIOUS
  <2>3. \A k \in 1 .. 5 : q[k] \in Nat
      BY <2>2, <1>1, <1>3, <1>4, SMTT(40)
  <2> QED
      BY <2>1, <2>3
<1>6. \A k \in 1 .. 4 : q[k] + 1 < q[k + 1] /\ AllDigits(q[k], q[k + 1])
  <2>1. \A k \in 1 .. 4 : IsNumber(q[k], q[k + 1])
      BY DEF Quads
  <2>2. \A k \in 1 .. 4 : q[k] \in Nat /\ q[k + 1] \in Nat
      BY <1>5
  <2>3. ASSUME NEW k \in 1 .. 4
        PROVE  q[k] + 1 < q[k + 1] /\ AllDigits(q[k], q[k + 1])
    <3>1. q[k + 1] > q[k] + 1 /\ AllDigits(q[k], q[k + 1])
        BY <2>1 DEF IsNumber, AllDigits
    <3> QED
        BY <3>1, <2>2
  <2> QED
      BY <2>3
<1>7. \A k \in 2 .. 4 : q[k] <= Len(str) /\ str[q[k]] = Dot
  <2>1. \A k \in 2 .. 4 : k = 2 \/ k = 3 \/ k = 4
      OBVIOUS
  <2> QED
      BY <2>1, <1>3, <1>4, SMTT(40)
<1> QED
    BY <1>4, <1>5, <1>6, <1>7 DEF IsQuad

\* The number behind the k-th dot.
LEMMA CutAt ==
    ASSUME str \in Seq(Int), NEW q, IsQuad(q), NEW k \in 0 .. 3
    PROVE  /\ q[k + 1] \in Nat /\ q[k + 2] \in Nat /\ q[k + 1] + 1 < q[k + 2]
           /\ AllDigits(q[k + 1], q[k + 2]) /\ q[k + 2] <= Len(str) + 1
           /\ k # 3 => q[k + 2] <= Len(str) /\ str[q[k + 2]] = Dot
           /\ k = 3 => q[k + 2] = Len(str) + 1
<1>1. /\ q \in [1 .. 5 -> Nat] /\ q[5] = Len(str) + 1 /\ Len(str) \in Nat
      /\ \A j \in 1 .. 4 : q[j] + 1 < q[j + 1] /\ AllDigits(q[j], q[j + 1])
      /\ \A j \in 2 .. 4 : q[j] <= Len(str) /\ str[q[j]] = Dot
    BY LenProperties DEF IsQuad
<1>2. \A j \in 1 .. 5 : q[j] \in Nat
    BY <1>1
<1> DEFINE j == k + 1
<1>3. j \in 1 .. 4 /\ j \in 1 .. 5 /\ j + 1 \in 1 .. 5 /\ j + 1 = k + 2
    OBVIOUS
<1>4. k # 3 => j + 1 \in 2 .. 4
    OBVIOUS
<1>5. k = 3 => j + 1 = 5
    OBVIOUS
<1> HIDE DEF j
<1>6. q[j] \in Nat /\ q[j + 1] \in Nat /\ q[j] + 1 < q[j + 1] /\ AllDigits(q[j], q[j + 1])
    BY <1>1, <1>2, <1>3, Zenon
<1>7. k # 3 => q[j + 1] <= Len(str) /\ str[q[j + 1]] = Dot
    BY <1>1, <1>4, Zenon
<1>8. k = 3 => q[j + 1] = Len(str) + 1
    BY <1>1, <1>5, Zenon
<1>9. q[j + 1] <= Len(str) + 1
  <2> DEFINE x == q[j + 1]
  <2>1. \A y, n \in Nat : y <= n \/ y = n + 1 => y <= n + 1
      OBVIOUS
  <2> HIDE DEF x
  <2>2. x \in Nat /\ (x <= Len(str) \/ x = Len(str) + 1)
      BY <1>6, <1>7, <1>8, Zenon DEF x
  <2>3. x <= Len(str) + 1
      BY <2>1, <2>2, <1>1, Zenon
  <2> QED
      BY <2>3 DEF x
<1> QED
    BY <1>3, <1>6, <1>7, <1>8, <1>9, Zenon DEF j

\* After i characters a loop is in the number behind the k-th dot.
Within(q, k, i) == k \in 0 .. 3 /\ i \in Nat /\ q[k + 1] <= i /\ i < q[k + 2]

\* At first a loop is in the first number.
LEMMA WithinStart ==
    ASSUME str \in Seq(Int), NEW q, IsQuad(q)
    PROVE  Within(q, 0, 0) /\ q[1] = 0
<1>1. 0 \in 0 .. 3 /\ 0 + 1 = 1 /\ q[1] = 0
    BY DEF IsQuad
<1>2. q[0 + 1] = 0 /\ q[0 + 2] \in Nat /\ q[0 + 1] + 1 < q[0 + 2]
    BY <1>1, CutAt
<1>3. \A x \in Nat : 0 + 1 < x => 0 < x
    OBVIOUS
<1> QED
    BY <1>1, <1>2, <1>3 DEF Within

\* The next character is a digit of the same number, or the dot that ends it.
LEMMA WithinNext ==
    ASSUME str \in Seq(Int), NEW q, IsQuad(q), NEW k, NEW i, Within(q, k, i), i + 1 <= Len(str)
    PROVE  \/ IsDigit(str[i + 1]) /\ Within(q, k, i + 1)
           \/ /\ str[i + 1] = Dot /\ i + 1 = q[k + 2] /\ k < 3
              /\ Within(q, k + 1, i + 1)
<1> DEFINE p == q[k + 1]
           r == q[k + 2]
<1>1. k \in 0 .. 3 /\ i \in Nat /\ p <= i /\ i < r
    BY DEF Within
<1>2. /\ p \in Nat /\ r \in Nat /\ p + 1 < r /\ AllDigits(p, r) /\ r <= Len(str) + 1
      /\ k # 3 => r <= Len(str) /\ str[r] = Dot
      /\ k = 3 => r = Len(str) + 1
    BY <1>1, CutAt
<1>3. Len(str) \in Nat
    BY LenProperties
<1>4. i + 1 < r => Within(q, k, i + 1)
  <2>1. i + 1 \in Nat /\ p <= i + 1
    <3> HIDE DEF p
    <3> QED
      BY <1>1, <1>2
  <2> QED
      BY <1>1, <2>1 DEF Within
<1> HIDE DEF p, r
<1>5. CASE i + 1 < r
  <2>1. i + 1 \in p + 1 .. r - 1
      BY <1>1, <1>2, <1>5
  <2>2. IsDigit(str[i + 1])
      BY <1>2, <2>1 DEF AllDigits
  <2> QED
      BY <1>4, <1>5, <2>2
<1>6. CASE ~(i + 1 < r)
  <2>1. i + 1 = r /\ r # Len(str) + 1
      BY <1>1, <1>2, <1>3, <1>6
  <2>2. k \in 0 .. 2 /\ str[i + 1] = Dot
      BY <2>1, <1>1, <1>2
  <2>3. k + 1 \in 0 .. 3 /\ (k + 1) + 1 = k + 2 /\ k < 3
      BY <2>2
  <2>4. q[(k + 1) + 1] + 1 < q[(k + 1) + 2] /\ q[(k + 1) + 2] \in Nat
      BY <2>3, CutAt
  <2>5. q[(k + 1) + 1] = i + 1
      BY <2>1, <2>3 DEF r
  <2>6. \A x, y \in Nat : x + 1 < y => x < y /\ x <= x
      OBVIOUS
  <2>7. i + 1 \in Nat /\ (i + 1) + 1 < q[(k + 1) + 2]
      BY <2>4, <2>5, <1>1
  <2>8. i + 1 < q[(k + 1) + 2] /\ q[(k + 1) + 1] <= i + 1
      BY <2>4, <2>5, <2>6, <2>7
  <2>9. Within(q, k + 1, i + 1)
      BY <2>3, <2>7, <2>8 DEF Within
  <2> QED
      BY <2>1, <2>2, <2>3, <2>9 DEF r
<1> QED
    BY <1>5, <1>6

\* All characters read: the loop is in the fourth number.
LEMMA WithinEnd ==
    ASSUME str \in Seq(Int), NEW q, IsQuad(q), NEW k, Within(q, k, Len(str))
    PROVE  k = 3
<1>1. k \in 0 .. 3 /\ Len(str) < q[k + 2] /\ Len(str) \in Nat
    BY LenProperties DEF Within
<1>2. q[k + 2] \in Nat /\ (k # 3 => q[k + 2] <= Len(str))
    BY <1>1, CutAt
<1>3. \A x, n \in Nat : n < x => ~(x <= n)
    OBVIOUS
<1> QED
    BY <1>1, <1>2, <1>3

IPV4Within(s, q, i) ==
    s.ok /\ Within(q, s.segs, i) /\ s.chcnt = i - q[s.segs + 1]

\* A turn of UTILS_IsIPV4 does not fail in a quad: chcnt does not overflow.
LEMMA IPV4Back ==
    ASSUME UtilsInv, Len(str) < 256, NEW q, IsQuad(q), NEW i, i + 1 <= Len(str),
           NEW s \in IPV4State, NEW t \in IPV4State,
           IPV4Turn(s, str[i + 1], t), IPV4Within(s, q, i)
    PROVE  IPV4Within(t, q, i + 1)
<1> DEFINE k == s.segs
           p == q[k + 1]
<1>0. str \in Seq(Int) /\ Len(str) \in Nat
    BY LenProperties DEF UtilsInv
<1>1. s.ok /\ Within(q, k, i) /\ s.chcnt = i - p
    BY DEF IPV4Within
<1>2. k \in 0 .. 3 /\ i \in Nat /\ p <= i /\ i < q[k + 2] /\ s.chcnt \in Nat
    BY <1>1 DEF Within, IPV4State
<1>3. /\ p \in Nat /\ q[k + 2] \in Nat /\ p + 1 < q[k + 2] /\ AllDigits(p, q[k + 2])
      /\ q[k + 2] <= Len(str) + 1
    BY <1>0, <1>2, CutAt
<1>4. CASE IsDigit(str[i + 1]) /\ Within(q, k, i + 1)
  <2>1. t.ok /\ t.segs = k /\ t.chcnt = (s.chcnt + 1) % 256
      BY <1>1, <1>4 DEF IPV4Turn
  <2>3. i < 255
      BY <1>0, <1>2
  <2>4. (s.chcnt + 1) % 256 = (i + 1) - p
    <3>0. \A h, m, x \in Nat : h = x - m /\ x < 255 =>
             h + 1 \in Nat /\ h + 1 < 256 /\ h + 1 = (x + 1) - m
        OBVIOUS
    <3>1. s.chcnt + 1 \in Nat /\ s.chcnt + 1 < 256 /\ s.chcnt + 1 = (i + 1) - p
      <4> HIDE DEF p
      <4> QED
        BY <3>0, <2>3, <1>1, <1>2, <1>3
    <3>2. \A n \in Nat : n < 256 => n % 256 = n
        OBVIOUS
    <3> QED
        BY <3>1, <3>2
  <2> QED
      BY <2>1, <2>4, <1>4 DEF IPV4Within
<1>5. CASE /\ str[i + 1] = Dot /\ i + 1 = q[k + 2] /\ k < 3
           /\ Within(q, k + 1, i + 1)
  <2>1. s.chcnt # 0 /\ k # 3
      BY <1>1, <1>2, <1>3, <1>5
  <2>2. t.ok /\ t.segs = k + 1 /\ t.chcnt = 0
      BY <2>1, <1>1, <1>5 DEF IPV4Turn
  <2>3. (i + 1) - q[(k + 1) + 1] = 0
      BY <1>5, <1>2
  <2> QED
      BY <2>2, <2>3, <1>5 DEF IPV4Within
<1> QED
    BY <1>0, <1>1, <1>4, <1>5, WithinNext

\* Nor does any.
LEMMA IPV4Accepts ==
    ASSUME UtilsInv, Len(str) < 256, NEW q, IsQuad(q), NEW read, read = IPV4Loop(str)
    PROVE  \A i \in 0 .. Len(str) : IPV4Within(read[i], q, i)
<1> DEFINE N == Len(str)
           T == {i \in 0 .. N : IPV4Within(read[i], q, i)}
<1>1. N \in Nat /\ 0 \in Nat /\ str \in Seq(Int)
    BY LenProperties DEF UtilsInv
<1>2. /\ \A i \in 0 .. N : read[i] \in IPV4State
      /\ read[0] = [segs |-> 0, chcnt |-> 0, accum |-> 0, ok |-> TRUE]
      /\ \A i \in 1 .. N : IPV4Turn(read[i - 1], str[i], read[i])
    BY <1>1, IPV4LoopIs
<1>3. 0 \in T
  <2>1. read[0].ok /\ read[0].segs = 0 /\ read[0].chcnt = 0
      BY <1>2
  <2>2. Within(q, 0, 0) /\ q[0 + 1] = 0
    <3>1. 0 + 1 = 1
        OBVIOUS
    <3> QED
      BY <3>1, <1>1, WithinStart
  <2> QED
      BY <2>1, <2>2, <1>1 DEF IPV4Within
<1>4. ASSUME NEW i \in 0 + 1 .. N, i - 1 \in T PROVE i \in T
  <2> DEFINE m == i - 1
  <2>1. m \in Nat /\ m + 1 = i /\ m \in 0 .. N /\ i \in 1 .. N /\ i \in 0 .. N /\ i <= N
      BY <1>1
  <2>2. read[m] \in IPV4State /\ read[i] \in IPV4State /\ IPV4Turn(read[m], str[i], read[i])
      BY <2>1, <1>2
  <2>3. IPV4Within(read[m], q, m)
      BY <1>4
  <2> HIDE DEF m
  <2>4. IPV4Within(read[i], q, m + 1)
      BY <2>1, <2>2, <2>3, IPV4Back
  <2> QED
      BY <2>1, <2>4
<1> HIDE DEF T
<1>5. \A i \in 0 .. N : i \in T
    BY <1>1, <1>3, <1>4, Induct
<1> QED
    BY <1>5 DEF T

\* Three dots with four numbers around them make an element of Quads.
LEMMA QuadFrom ==
    ASSUME str \in Seq(Int), NEW a \in Dots, NEW b \in Dots, NEW c \in Dots,
           IsNumber(0, a), IsNumber(a, b), IsNumber(b, c), IsNumber(c, Len(str) + 1)
    PROVE  <<0, a, b, c, Len(str) + 1>> \in Quads
<1> DEFINE q == <<0, a, b, c, Len(str) + 1>>
<1>1. q \in Cuts
    BY DEF Cuts
<1>2. q[1] = 0 /\ q[2] = a /\ q[3] = b /\ q[4] = c /\ q[5] = Len(str) + 1
    OBVIOUS
<1>3. ASSUME NEW k \in 1 .. 4 PROVE IsNumber(q[k], q[k + 1])
  <2> HIDE DEF q
  <2>1. k = 1 \/ k = 2 \/ k = 3 \/ k = 4
      OBVIOUS
  <2>2. 1 + 1 = 2 /\ 2 + 1 = 3 /\ 3 + 1 = 4 /\ 4 + 1 = 5
      OBVIOUS
  <2> QED
      BY <2>1, <2>2, <1>2
<1> HIDE DEF q
<1>4. q \in Quads
    BY <1>1, <1>3, Zenon DEF Quads
<1> QED
    BY <1>4 DEF q

\* Each dot that Laid knows of.
LEMMA LaidDots ==
    ASSUME str \in Seq(Int), NEW cut, NEW k, NEW i, Laid(cut, k, i), k >= 3
    PROVE  /\ cut[1] = 0 /\ cut[2] \in Dots /\ cut[3] \in Dots /\ cut[4] \in Dots
           /\ cut[2] < cut[3] /\ cut[3] < cut[4] /\ 0 < cut[2]
           /\ AllDigits(0, cut[2]) /\ AllDigits(cut[2], cut[3]) /\ AllDigits(cut[3], cut[4])
<1>1. /\ cut \in [1 .. 5 -> Nat] /\ k \in 0 .. 4 /\ cut[1] = 0
      /\ \A j \in 1 .. k : /\ cut[j] < cut[j + 1]
                           /\ AllDigits(cut[j], cut[j + 1]) /\ Ends4(j, cut[j + 1])
    BY DEF Laid
<1>2. 1 \in 1 .. k /\ 2 \in 1 .. k /\ 3 \in 1 .. k /\ 1 + 1 = 2 /\ 2 + 1 = 3 /\ 3 + 1 = 4
    BY <1>1
<1>3. /\ cut[1] < cut[2] /\ AllDigits(cut[1], cut[2]) /\ Ends4(1, cut[2])
      /\ cut[2] < cut[3] /\ AllDigits(cut[2], cut[3]) /\ Ends4(2, cut[3])
      /\ cut[3] < cut[4] /\ AllDigits(cut[3], cut[4]) /\ Ends4(3, cut[4])
    BY <1>1, <1>2
<1>4. cut[2] \in Nat /\ cut[3] \in Nat /\ cut[4] \in Nat
    BY <1>1
<1>5. /\ cut[2] <= Len(str) /\ str[cut[2]] = Dot
      /\ cut[3] <= Len(str) /\ str[cut[3]] = Dot
      /\ cut[4] <= Len(str) /\ str[cut[4]] = Dot
    BY <1>3 DEF Ends4
<1>6. DOMAIN str = 1 .. Len(str) /\ Len(str) \in Nat
    BY LenProperties
<1>7. ASSUME NEW x \in Nat, 0 < x, x <= Len(str), str[x] = Dot
      PROVE  x \in Dots
    BY <1>6, <1>7 DEF Dots
<1>8. 0 < cut[2] /\ 0 < cut[3] /\ 0 < cut[4]
    BY <1>1, <1>3, <1>4
<1> QED
    BY <1>1, <1>3, <1>4, <1>5, <1>7, <1>8

\* UTILS_IsIPV4 takes nothing but four numbers with dots in between.
LEMMA IsIPV4Exact ==
    ASSUME UtilsInv
    PROVE  /\ UTILS_IsIPV4(str) => Quads # {}
           /\ Quads # {} /\ Len(str) < 256 => UTILS_IsIPV4(str)
<1> DEFINE read == IPV4Loop(str)
           N == Len(str)
           end == read[N]
<1>1. str \in Seq(Int) /\ N \in Nat /\ N \in 0 .. N /\ 0 \in Nat
    BY LenProperties DEF UtilsInv
<1>2. UTILS_IsIPV4(str) <=> end.ok /\ end.segs = 3 /\ end.chcnt # 0
    BY DEF UTILS_IsIPV4
<1>3. end \in IPV4State
    BY <1>1, IPV4LoopIs
<1>4. ASSUME end.ok, end.segs = 3, end.chcnt # 0 PROVE Quads # {}
  <2>1. IPV4At(end, N)
      BY <1>1, IPV4Finds
  <2>2. PICK cut : IPV4Cut(cut, end, N)
      BY <1>4, <2>1 DEF IPV4At
  <2> HIDE DEF read
  <2>3. 3 + 1 = 4 /\ 2 + 1 = 3 /\ 1 + 1 = 2 /\ 3 >= 3 /\ 1 \in 1 .. 3 /\ 2 \in 1 .. 3 /\ 3 \in 1 .. 3
      OBVIOUS
  <2>4. /\ Laid(cut, 3, N) /\ AllDigits(cut[4], N + 1) /\ N # cut[4]
        /\ \A j \in 1 .. 3 : cut[j + 1] > cut[j] + 1
      BY <1>4, <2>2, <2>3 DEF IPV4Cut
  <2>5. cut[2] > cut[1] + 1 /\ cut[3] > cut[2] + 1 /\ cut[4] > cut[3] + 1
      BY <2>3, <2>4
  <2>6. /\ cut[1] = 0 /\ cut[2] \in Dots /\ cut[3] \in Dots /\ cut[4] \in Dots
        /\ AllDigits(0, cut[2]) /\ AllDigits(cut[2], cut[3]) /\ AllDigits(cut[3], cut[4])
      BY <1>1, <2>3, <2>4, LaidDots
  <2>7. N + 1 > cut[4] + 1
    <3>1. cut[4] \in Nat /\ cut[4] <= N
        BY <1>1, <2>6, LenProperties DEF Dots
    <3> HIDE DEF N
    <3> QED
        BY <3>1, <1>1, <2>4
  <2>8. IsNumber(0, cut[2]) /\ IsNumber(cut[2], cut[3]) /\ IsNumber(cut[3], cut[4])
      BY <2>5, <2>6 DEF IsNumber, AllDigits
  <2>9. IsNumber(cut[4], N + 1)
      BY <2>4, <2>7 DEF IsNumber, AllDigits
  <2>10. <<0, cut[2], cut[3], cut[4], N + 1>> \in Quads
      BY <1>1, <2>6, <2>8, <2>9, QuadFrom
  <2> QED
      BY <2>10
<1>5. ASSUME NEW q \in Quads, Len(str) < 256 PROVE end.ok /\ end.segs = 3 /\ end.chcnt # 0
  <2>1. IsQuad(q)
      BY <1>1, QuadIs
  <2>2. IPV4Within(end, q, N)
      BY <2>1, <1>1, <1>5, IPV4Accepts
  <2> HIDE DEF read
  <2>3. end.ok /\ Within(q, end.segs, N) /\ end.chcnt = N - q[end.segs + 1]
      BY <2>2 DEF IPV4Within
  <2>4. end.segs = 3
      BY <2>1, <2>3, <1>1, WithinEnd
  <2>5. 3 \in 0 .. 3 /\ 3 + 1 = 4 /\ 3 + 2 = 5
      OBVIOUS
  <2>6. q[3 + 1] + 1 < q[3 + 2] /\ q[3 + 2] = N + 1 /\ q[3 + 1] \in Nat
      BY <2>1, <2>5, <1>1, CutAt
  <2>7. q[4] + 1 < N + 1 /\ q[4] \in Nat /\ end.chcnt = N - q[4]
      BY <2>3, <2>4, <2>5, <2>6
  <2>8. end.chcnt # 0
      BY <2>7, <1>1
  <2> QED
      BY <2>3, <2>4, <2>8
<1> QED
    BY <1>2, <1>4, <1>5

-----------------------------------------------------------------------------
(***************************************************************************)
(* UTILS_StrToIP: the bytes are the numbers found, and all of them         *)
(***************************************************************************)
\* No digits stand for 0.
LEMMA NumberNone ==
    ASSUME str \in Seq(Int), NEW p \in Nat, p <= Len(str)
    PROVE  Number(p, p + 1) = 0
<1>1. p \in 0 .. Len(str) /\ 10 \in Nat /\ (p + 1) - 1 = p
    BY LenProperties
<1> QED
    BY <1>1, ValuesIs DEF Number

\* One more digit is ten times the number and the digit.
LEMMA NumberMore ==
    ASSUME str \in Seq(Int), NEW p \in Nat, NEW i \in Nat, p <= i, i + 1 <= Len(str),
           IsDigit(str[i + 1])
    PROVE  Number(p, (i + 1) + 1) = 10 * Number(p, i + 1) + Digit(str[i + 1])
<1> DEFINE v == Values(10, p)
           x == i + 1
<1>1. /\ p \in 0 .. Len(str) /\ 10 \in Nat /\ x \in p + 1 .. Len(str)
      /\ ((i + 1) + 1) - 1 = x /\ (i + 1) - 1 = i /\ x - 1 = i /\ x \in 1 .. Len(str)
    BY LenProperties
<1>2. v[x] = 10 * v[x - 1] + HexValue(str[x])
    BY <1>1, ValuesIs
<1>3. str[x] \in Int
    BY <1>1, ElementOfSeq
<1>4. HexValue(str[x]) = Digit(str[x])
    BY <1>3, HexValueIs
<1> HIDE DEF v
<1>5. Number(p, (i + 1) + 1) = v[x] /\ Number(p, i + 1) = v[x - 1]
    BY <1>1 DEF Number, v
<1> QED
    BY <1>2, <1>4, <1>5

\* The character that a turn of UTILS_StrToIP reads.
LEMMA ReadIs ==
    ASSUME str \in Seq(Int), NEW i \in Nat, i <= Len(str), NEW c, c = Append(str, 0)[i + 1]
    PROVE  /\ i + 1 <= Len(str) => c = str[i + 1]
           /\ ~(i + 1 <= Len(str)) => i = Len(str) /\ c = 0 /\ ~IsDigit(c) /\ c # Dot
           /\ c \in Int
<1>1. Len(str) \in Nat /\ 0 \in Int
    BY LenProperties
<1>2. Append(str, 0)[Len(str) + 1] = 0 /\ \A x \in 1 .. Len(str) : Append(str, 0)[x] = str[x]
    BY <1>1, AppendProperties
<1>3. CASE i + 1 <= Len(str)
  <2>1. i + 1 \in 1 .. Len(str)
      BY <1>1, <1>3
  <2>2. str[i + 1] \in Int
      BY <2>1, ElementOfSeq
  <2> QED
      BY <2>1, <2>2, <1>2, <1>3
<1>4. CASE ~(i + 1 <= Len(str))
  <2>1. i = Len(str)
      BY <1>1, <1>4
  <2> QED
      BY <2>1, <1>1, <1>2, <1>4 DEF IsDigit, Dot
<1> QED
    BY <1>3, <1>4

\* What a number that UTILS_StrToIP took is.
Passed(x) == x \in Nat /\ (x < IntBound => x <= 255)

\* What UTILS_StrToIP has found, as far as place i.
IPCut(cut, s, k, i) ==
    /\ Laid(cut, k, i)
    /\ k < 4 => /\ i <= Len(str) /\ AllDigits(cut[k + 1], i + 1)
                /\ Tracks(s.n, Number(cut[k + 1], i + 1))
    /\ \A j \in 1 .. k : Passed(Number(cut[j], cut[j + 1]))
IPAt(s, i) == s.ok => Len(s.ip) \in 0 .. 4 /\ \E cut : IPCut(cut, s, Len(s.ip), i)

\* A turn of UTILS_StrToIP keeps track of the numbers, or fails.
LEMMA IPForward ==
    ASSUME UtilsInv, NEW i \in Nat, i <= Len(str),
           NEW s \in StrToIPState, NEW t \in StrToIPState,
           StrToIPTurn(s, Append(str, 0)[i + 1], t), IPAt(s, i)
    PROVE  IPAt(t, i + 1)
<1> DEFINE c == Append(str, 0)[i + 1]
           k == Len(s.ip)
<1>0. str \in Seq(Int) /\ Len(str) \in Nat /\ s.ip \in Seq(Nat) /\ s.n \in Int
    BY LenProperties DEF UtilsInv, StrToIPState
<1>1. /\ i + 1 <= Len(str) => c = str[i + 1]
      /\ ~(i + 1 <= Len(str)) => i = Len(str) /\ c = 0 /\ ~IsDigit(c) /\ c # Dot
    BY <1>0, ReadIs
<1>t. StrToIPTurn(s, c, t)
    OBVIOUS
<1> HIDE DEF c
<1>2. SUFFICES ASSUME t.ok PROVE Len(t.ip) \in 0 .. 4 /\ \E cut : IPCut(cut, t, Len(t.ip), i + 1)
    BY DEF IPAt
<1>3. s.ok
    BY <1>2, <1>t DEF StrToIPTurn
<1>4. k \in 0 .. 4
    BY <1>3 DEF IPAt
<1>5. PICK cut : IPCut(cut, s, k, i)
    BY <1>3 DEF IPAt
<1>6. /\ Laid(cut, k, i)
      /\ k < 4 => AllDigits(cut[k + 1], i + 1) /\ Tracks(s.n, Number(cut[k + 1], i + 1))
      /\ \A j \in 1 .. k : Passed(Number(cut[j], cut[j + 1]))
    BY <1>5 DEF IPCut
<1>7. cut \in [1 .. 5 -> Nat] /\ cut[k + 1] \in Nat /\ cut[k + 1] <= i
  <2> HIDE DEF k
  <2> QED
    BY <1>4, <1>6 DEF Laid
<1>8. CASE k = 4
  <2>1. t = s
      BY <1>8, <1>t DEF StrToIPTurn
  <2>2. Laid(cut, k, i + 1) /\ ~(k < 4)
      BY <1>6, <1>8, LaidOn
  <2>3. IPCut(cut, t, k, i + 1)
    <3> HIDE DEF k
    <3> QED
      BY <2>1, <2>2, <1>6 DEF IPCut
  <2> QED
      BY <2>1, <2>3, <1>4
<1>9. CASE k # 4 /\ IsDigit(c)
  <2>0. t.ip = s.ip /\ t.n = Wrap(10 * s.n + Digit(c))
      BY <1>3, <1>9, <1>t DEF StrToIPTurn
  <2>1. t.ip = s.ip /\ t.n = Wrap(10 * s.n + Digit(c)) /\ k < 4
    <3> HIDE DEF k
    <3> QED
      BY <2>0, <1>4, <1>9
  <2>2. i + 1 <= Len(str) /\ c = str[i + 1]
      BY <1>1, <1>9
  <2>3. Laid(cut, k, i + 1)
      BY <1>6, LaidOn
  <2>4. AllDigits(cut[k + 1], (i + 1) + 1)
      BY <2>1, <2>2, <1>6, <1>7, <1>9, AllDigitsMore, SMTT(40)
  <2>5. Tracks(t.n, Number(cut[k + 1], (i + 1) + 1))
    <3>1. Number(cut[k + 1], (i + 1) + 1) = 10 * Number(cut[k + 1], i + 1) + Digit(c)
        BY <2>2, <1>0, <1>7, <1>9, NumberMore
    <3>2. Digit(c) \in 0 .. 9
        BY <1>9 DEF IsDigit, Digit
    <3>3. Tracks(s.n, Number(cut[k + 1], i + 1))
        BY <2>1, <1>6
    <3> HIDE DEF k
    <3> QED
        BY <3>1, <3>2, <3>3, <2>1, <1>0, TracksMore
  <2>6. IPCut(cut, t, k, i + 1)
    <3> HIDE DEF k
    <3> QED
      BY <2>1, <2>2, <2>3, <2>4, <2>5, <1>6 DEF IPCut
  <2> QED
      BY <2>1, <2>6, <1>4
<1>10. CASE k # 4 /\ ~IsDigit(c)
  <2>1. Stops(s, c) /\ s.n < 256 /\ t.ip = Append(s.ip, s.n % 256) /\ t.n = 0
    <3>1. ~(s.n >= 256) => s.n < 256
        BY <1>0
    <3> QED
      BY <3>1, <1>2, <1>3, <1>10, <1>t DEF StrToIPTurn
  <2> DEFINE new == Longer(cut, k, i + 1)
  <2>2. k \in 0 .. 3 /\ k < 4 /\ k + 1 \in 0 .. 4 /\ (k + 1) + 1 = k + 2
    <3> HIDE DEF k
    <3> QED
      BY <1>4, <1>10
  <2>3. k + 1 < 4 => c = Dot /\ i + 1 <= Len(str)
    <3>1. (k < 3 /\ c = Dot) \/ k = 3
        BY <2>1 DEF Stops
    <3> HIDE DEF k
    <3>2. k + 1 < 4 => k # 3
        BY <2>2
    <3> QED
        BY <3>1, <3>2, <1>1
  <2>4. Ends4(k + 1, i + 1)
    <3>1. CASE i + 1 <= Len(str)
        BY <3>1, <2>3, <1>1, <1>10 DEF Ends4
    <3>2. CASE ~(i + 1 <= Len(str))
      <4>1. i + 1 = Len(str) + 1 /\ ~(k + 1 < 4)
          BY <3>2, <2>3, <1>1
      <4> HIDE DEF k
      <4> QED
        BY <4>1, Zenon DEF Ends4
    <3> QED
        BY <3>1, <3>2
  <2>5. /\ Laid(new, k + 1, i + 1) /\ new[k + 2] = i + 1
        /\ \A j \in 1 .. k + 1 : new[j] = cut[j]
      BY <2>2, <2>4, <1>6, LaidNext, SMTT(40)
  <2> HIDE DEF new
  <2>6. Len(t.ip) = k + 1
    <3>1. s.n % 256 \in Nat
        BY <1>0
    <3> QED
        BY <3>1, <2>1, <1>0, AppendProperties
  <2>7. k + 1 < 4 => /\ AllDigits(new[(k + 1) + 1], (i + 1) + 1)
                     /\ Tracks(t.n, Number(new[(k + 1) + 1], (i + 1) + 1))
    <3>1. new[(k + 1) + 1] = i + 1 /\ i + 1 \in Nat
        BY <2>2, <2>5
    <3>2. k + 1 < 4 => Number(i + 1, (i + 1) + 1) = 0
        BY <3>1, <2>3, <1>0, NumberNone
    <3>3. AllDigits(i + 1, (i + 1) + 1)
        BY <3>1, AllDigitsNone
    <3> QED
        BY <3>1, <3>2, <3>3, <2>1, TracksNone
  <2>8. ASSUME NEW j \in 1 .. k + 1
        PROVE  Passed(Number(new[j], new[j + 1]))
    <3>1. CASE j = k + 1
      <4>1. new[j] = cut[k + 1] /\ new[j + 1] = i + 1
          BY <3>1, <2>2, <2>5
      <4> DEFINE x == Number(cut[k + 1], i + 1)
      <4>2. Tracks(s.n, x)
          BY <2>2, <1>6
      <4>3. Passed(x)
        <5> HIDE DEF x
        <5> QED
          BY <4>2, <2>1 DEF Tracks, Passed
      <4> QED
          BY <4>1, <4>3
    <3>2. CASE j # k + 1
      <4>1. j \in 1 .. k /\ j + 1 \in 1 .. k + 1
          BY <3>2, <2>2
      <4> QED
          BY <4>1, <2>5, <1>6
    <3> QED
        BY <3>1, <3>2
  <2>9. IPCut(new, t, k + 1, i + 1)
    <3> HIDE DEF k
    <3> QED
        BY <2>3, <2>5, <2>7, <2>8 DEF IPCut
  <2> QED
      BY <2>2, <2>6, <2>9
<1> QED
    BY <1>8, <1>9, <1>10

\* While UTILS_StrToIP has not failed, no number it took is above 255, unless an
\* int does not hold it.
LEMMA IPFinds ==
    ASSUME UtilsInv, NEW read, read = StrToIPLoop(str)
    PROVE  \A i \in 0 .. Len(str) + 1 : IPAt(read[i], i)
<1> DEFINE N == Len(str) + 1
           T == {i \in 0 .. N : IPAt(read[i], i)}
<1>1. N \in Nat /\ 0 \in Nat /\ str \in Seq(Int) /\ Len(str) \in Nat /\ 0 <= Len(str)
    BY LenProperties DEF UtilsInv
<1>2. /\ \A i \in 0 .. N : read[i] \in StrToIPState
      /\ read[0] = [ip |-> <<>>, n |-> 0, ok |-> TRUE]
      /\ \A i \in 1 .. N : StrToIPTurn(read[i - 1], Append(str, 0)[i], read[i])
    BY <1>1, StrToIPLoopIs
<1>3. 0 \in T
  <2>1. PICK cut : Laid(cut, 0, 0)
      BY LaidStart
  <2>2. cut[1] = 0 /\ 0 + 1 = 1
      BY <2>1 DEF Laid
  <2>3. AllDigits(0, 0 + 1) /\ Number(0, 0 + 1) = 0
      BY <1>1, AllDigitsNone, NumberNone
  <2>4. read[0].ip = <<>> /\ read[0].n = 0 /\ Len(read[0].ip) = 0
      BY <1>2
  <2>5. IPCut(cut, read[0], 0, 0)
      BY <2>1, <2>2, <2>3, <2>4, <1>1, TracksNone DEF IPCut
  <2>6. 0 \in 0 .. 4 /\ 0 \in 0 .. N
      BY <1>1
  <2> QED
      BY <2>4, <2>5, <2>6 DEF IPAt
<1>4. ASSUME NEW i \in 0 + 1 .. N, i - 1 \in T PROVE i \in T
  <2> DEFINE m == i - 1
  <2>1. m \in Nat /\ m + 1 = i /\ m \in 0 .. N /\ i \in 1 .. N /\ i \in 0 .. N /\ m <= Len(str)
      BY <1>1
  <2>2. /\ read[m] \in StrToIPState /\ read[i] \in StrToIPState
        /\ StrToIPTurn(read[m], Append(str, 0)[i], read[i])
      BY <2>1, <1>2
  <2>3. IPAt(read[m], m)
      BY <1>4
  <2> HIDE DEF m
  <2>4. IPAt(read[i], m + 1)
      BY <2>1, <2>2, <2>3, IPForward
  <2> QED
      BY <2>1, <2>4
<1> HIDE DEF T
<1>5. \A i \in 0 .. N : i \in T
    BY <1>1, <1>3, <1>4, Induct
<1> QED
    BY <1>5 DEF T

\* The bytes of the first k numbers.
Parsed(s, q, k) == \A j \in 1 .. k : s.ip[j] = Number(q[j], q[j + 1])

\* How far UTILS_StrToIP is in an address.
IPWithin(s, q, k, i) ==
    /\ s.ok /\ Within(q, k, i) /\ Tracks(s.n, Number(q[k + 1], i + 1))
    /\ Parsed(s, q, k)

\* A number ends where it is below 256.
LEMMA IPEnds ==
    ASSUME NEW s \in StrToIPState, NEW t \in StrToIPState, NEW c \in Int, NEW q,
           NEW k \in 0 .. 3, k = Len(s.ip), s.ok, StrToIPTurn(s, c, t), Stops(s, c),
           Tracks(s.n, Number(q[k + 1], q[k + 2])), Number(q[k + 1], q[k + 2]) <= 255,
           Parsed(s, q, k)
    PROVE  t.ok /\ Len(t.ip) = k + 1 /\ t.n = 0 /\ Parsed(t, q, k + 1)
<1>1. s.ip \in Seq(Nat) /\ s.n \in Int /\ (k + 1) + 1 = k + 2
    BY DEF StrToIPState
<1> DEFINE x == Number(q[k + 1], q[k + 2])
<1>2. s.n = x /\ s.n < 256 /\ k # 4 /\ s.n % 256 = s.n /\ s.n \in Nat
  <2>1. x <= 255 /\ x \in Nat /\ (x < IntBound => s.n = x)
      BY DEF Tracks
  <2>2. \A n \in 0 .. 3 : n # 4
      OBVIOUS
  <2> HIDE DEF x
  <2>3. x < IntBound /\ x < 256 /\ x % 256 = x
      BY <2>1, UtilsAssumption
  <2>4. s.n = x /\ k # 4
      BY <2>1, <2>2, <2>3, Zenon
  <2> QED
      BY <2>1, <2>3, <2>4
<1>3. t.ok /\ t.ip = Append(s.ip, s.n) /\ t.n = 0
    BY <1>2 DEF StrToIPTurn
<1>4. Len(t.ip) = k + 1 /\ t.ip[k + 1] = s.n /\ \A j \in 1 .. k : t.ip[j] = s.ip[j]
    BY <1>1, <1>2, <1>3, AppendProperties
<1>5. ASSUME NEW j \in 1 .. k + 1 PROVE t.ip[j] = Number(q[j], q[j + 1])
  <2>1. CASE j = k + 1
      BY <2>1, <1>1, <1>2, <1>4
  <2>2. CASE j # k + 1
    <3>1. j \in 1 .. k
        BY <2>2
    <3> QED
        BY <3>1, <1>4 DEF Parsed
  <2> QED
      BY <2>1, <2>2
<1> QED
    BY <1>3, <1>4, <1>5 DEF Parsed

\* A turn of UTILS_StrToIP does not fail in an address.
LEMMA IPBack ==
    ASSUME UtilsInv, NEW q, IsQuad(q), IsAddress(q), NEW i \in Nat, i + 1 <= Len(str),
           NEW s \in StrToIPState, NEW t \in StrToIPState,
           StrToIPTurn(s, str[i + 1], t), IPWithin(s, q, Len(s.ip), i)
    PROVE  IPWithin(t, q, Len(t.ip), i + 1)
<1> DEFINE k == Len(s.ip)
           c == str[i + 1]
<1>0. str \in Seq(Int) /\ Len(str) \in Nat /\ i + 1 \in 1 .. Len(str)
    BY LenProperties DEF UtilsInv
<1>1. /\ s.ok /\ Within(q, k, i) /\ Tracks(s.n, Number(q[k + 1], i + 1))
      /\ Parsed(s, q, k)
    BY DEF IPWithin
<1>2. k \in 0 .. 3 /\ q[k + 1] <= i
    BY <1>1 DEF Within
<1>3. q[k + 1] \in Nat /\ c \in Int
    BY <1>0, <1>2, CutAt, ElementOfSeq
<1>4. StrToIPTurn(s, c, t)
    OBVIOUS
<1>5. CASE IsDigit(c) /\ Within(q, k, i + 1)
  <2>1. k # 4
    <3> HIDE DEF k
    <3> QED
      BY <1>2
  <2>2. t.ok /\ t.ip = s.ip /\ t.n = Wrap(10 * s.n + Digit(c))
      BY <2>1, <1>1, <1>4, <1>5 DEF StrToIPTurn
  <2>3. Tracks(t.n, Number(q[k + 1], (i + 1) + 1))
    <3>1. Number(q[k + 1], (i + 1) + 1) = 10 * Number(q[k + 1], i + 1) + Digit(c)
        BY <1>0, <1>2, <1>3, <1>5, NumberMore
    <3>2. Digit(c) \in 0 .. 9
        BY <1>5 DEF IsDigit, Digit
    <3>3. s.n \in Int
        BY DEF StrToIPState
    <3> HIDE DEF k
    <3> QED
        BY <3>1, <3>2, <3>3, <2>2, <1>1, TracksMore
  <2>4. IPWithin(t, q, k, i + 1)
    <3> HIDE DEF k
    <3> QED
      BY <2>2, <2>3, <1>1, <1>5 DEF IPWithin, Parsed
  <2> QED
      BY <2>2, <2>4
<1>6. CASE c = Dot /\ i + 1 = q[k + 2] /\ k < 3 /\ Within(q, k + 1, i + 1)
  <2>1. ~IsDigit(c)
      BY <1>6 DEF IsDigit, Dot
  <2>2. Stops(s, c)
      BY <2>1, <1>6 DEF Stops
  <2>3. k + 1 \in 1 .. 4 /\ (k + 1) + 1 = k + 2
    <3> HIDE DEF k
    <3> QED
      BY <1>2
  <2>4. Number(q[k + 1], q[k + 2]) <= 255 /\ Tracks(s.n, Number(q[k + 1], q[k + 2]))
    <3> HIDE DEF k
    <3> QED
      BY <2>3, <1>1, <1>6 DEF IsAddress
  <2>5. t.ok /\ Len(t.ip) = k + 1 /\ t.n = 0 /\ Parsed(t, q, k + 1)
    <3>1. k = Len(s.ip)
        OBVIOUS
    <3> HIDE DEF k, c
    <3> QED
        BY <3>1, <2>2, <2>4, <1>1, <1>2, <1>3, <1>4, IPEnds, ZenonT(60)
  <2>6. Tracks(t.n, Number(q[(k + 1) + 1], (i + 1) + 1))
    <3>1. Number(q[(k + 1) + 1], (i + 1) + 1) = 0
        BY <2>3, <1>0, <1>6, NumberNone
    <3> QED
        BY <3>1, <2>5, TracksNone
  <2>7. IPWithin(t, q, k + 1, i + 1)
    <3> HIDE DEF k
    <3> QED
      BY <2>5, <2>6, <1>6 DEF IPWithin
  <2> QED
      BY <2>5, <2>7
<1>7. \/ IsDigit(c) /\ Within(q, k, i + 1)
      \/ c = Dot /\ i + 1 = q[k + 2] /\ k < 3 /\ Within(q, k + 1, i + 1)
    BY <1>0, <1>1, WithinNext
<1> QED
    BY <1>5, <1>6, <1>7

\* UTILS_StrToIP gives the four numbers of an address.
LEMMA StrToIPExact ==
    ASSUME UtilsInv, NEW q \in Quads, IsAddress(q)
    PROVE  /\ UTILS_StrToIP(str).ok
           /\ \A k \in 1 .. 4 : UTILS_StrToIP(str).ip[k] = Number(q[k], q[k + 1])
<1> DEFINE read == StrToIPLoop(str)
           N == Len(str)
           T == {i \in 0 .. N : IPWithin(read[i], q, Len(read[i].ip), i)}
<1>1. N \in Nat /\ 0 \in Nat /\ str \in Seq(Int) /\ N \in 0 .. N + 1 /\ N \in 0 .. N
    BY LenProperties DEF UtilsInv
<1>2. /\ \A i \in 0 .. N + 1 : read[i] \in StrToIPState
      /\ read[0] = [ip |-> <<>>, n |-> 0, ok |-> TRUE]
      /\ \A i \in 1 .. N + 1 : StrToIPTurn(read[i - 1], Append(str, 0)[i], read[i])
    BY <1>1, StrToIPLoopIs
<1>3. IsQuad(q)
    BY <1>1, QuadIs
<1>4. UTILS_StrToIP(str) = read[N + 1]
    BY DEF UTILS_StrToIP
<1> HIDE DEF read
<1>5. 0 \in T
  <2>1. read[0].ok /\ read[0].ip = <<>> /\ read[0].n = 0 /\ Len(read[0].ip) = 0
      BY <1>2
  <2>2. Within(q, 0, 0) /\ q[1] = 0 /\ 0 + 1 = 1
      BY <1>1, <1>3, WithinStart
  <2>3. Number(0, 0 + 1) = 0
      BY <1>1, NumberNone
  <2>4. IPWithin(read[0], q, 0, 0)
      BY <2>1, <2>2, <2>3, TracksNone DEF IPWithin, Parsed
  <2> QED
      BY <2>1, <2>4, <1>1
<1>6. ASSUME NEW i \in 0 + 1 .. N, i - 1 \in T PROVE i \in T
  <2> DEFINE m == i - 1
  <2>1. /\ m \in Nat /\ m + 1 = i /\ m \in 0 .. N + 1 /\ i \in 1 .. N + 1
        /\ i \in 0 .. N + 1 /\ i \in 0 .. N /\ i <= N
      BY <1>1
  <2>2. /\ read[m] \in StrToIPState /\ read[i] \in StrToIPState
        /\ StrToIPTurn(read[m], Append(str, 0)[i], read[i])
      BY <2>1, <1>2
  <2>3. IPWithin(read[m], q, Len(read[m].ip), m)
      BY <1>6
  <2> HIDE DEF m
  <2>4. Append(str, 0)[i] = str[i]
    <3>1. i \in 1 .. N
        BY <1>1
    <3> QED
        BY <3>1, <1>1, AppendProperties
  <2>5. IPWithin(read[i], q, Len(read[i].ip), m + 1)
      BY <2>1, <2>2, <2>3, <2>4, <1>3, IPBack
  <2> QED
      BY <2>1, <2>5
<1> HIDE DEF T
<1>7. \A i \in 0 .. N : i \in T
    BY <1>1, <1>5, <1>6, Induct
<1> DEFINE s == read[N]
           t == read[N + 1]
<1>8. IPWithin(s, q, Len(s.ip), N)
    BY <1>1, <1>7 DEF T
<1>9. s \in StrToIPState /\ t \in StrToIPState
    BY <1>1, <1>2
<1>10. StrToIPTurn(s, 0, t)
  <2>1. N + 1 \in 1 .. N + 1 /\ (N + 1) - 1 = N
      BY <1>1
  <2>2. Append(str, 0)[N + 1] = 0
      BY <1>1, AppendProperties
  <2> QED
      BY <2>1, <2>2, <1>2
<1> HIDE DEF s, t
<1>11. /\ s.ok /\ Within(q, Len(s.ip), N) /\ Tracks(s.n, Number(q[Len(s.ip) + 1], N + 1))
       /\ Parsed(s, q, Len(s.ip))
    BY <1>8 DEF IPWithin
<1>12. Len(s.ip) = 3
    BY <1>1, <1>3, <1>11, WithinEnd
<1>13. 3 + 1 = 4 /\ 3 + 2 = 5 /\ 4 + 1 = 5 /\ 4 \in 1 .. 4 /\ 3 \in 0 .. 3 /\ 0 \in Int
    OBVIOUS
<1>14. q[5] = N + 1
    BY <1>3 DEF IsQuad
<1>15. Tracks(s.n, Number(q[3 + 1], q[3 + 2])) /\ Number(q[3 + 1], q[3 + 2]) <= 255
    BY <1>11, <1>12, <1>13, <1>14 DEF IsAddress
<1>16. Stops(s, 0)
    BY <1>12 DEF Stops, IsDigit
<1>17. t.ok /\ Parsed(t, q, 3 + 1)
    BY <1>9, <1>10, <1>11, <1>12, <1>13, <1>15, <1>16, IPEnds
<1> QED
    BY <1>4, <1>13, <1>17 DEF t, Parsed

-----------------------------------------------------------------------------
(***************************************************************************)
(* UTILS_StrToIP refuses the rest                                          *)
(***************************************************************************)
\* Three elements are three.
LEMMA CardThree ==
    ASSUME NEW S, IsFiniteSet(S), NEW a \in S, NEW b \in S, NEW c \in S,
           a # b, a # c, b # c
    PROVE  ~(Cardinality(S) < 3)
<1>1. IsFiniteSet({a}) /\ Cardinality({a}) = 1
    BY FS_Singleton
<1>2. IsFiniteSet({a} \cup {b}) /\ Cardinality({a} \cup {b}) = 2
  <2> DEFINE A == {a}
  <2>1. IsFiniteSet(A) /\ Cardinality(A) = 1 /\ b \notin A
      BY <1>1
  <2> HIDE DEF A
  <2>2. IsFiniteSet(A \cup {b}) /\ Cardinality(A \cup {b}) = 2
      BY <2>1, FS_AddElement
  <2> QED
      BY <2>2 DEF A
<1>3. /\ IsFiniteSet(({a} \cup {b}) \cup {c})
      /\ Cardinality(({a} \cup {b}) \cup {c}) = 3
    BY <1>2, FS_AddElement
<1>4. ({a} \cup {b}) \cup {c} \in SUBSET S
    OBVIOUS
<1> DEFINE T == ({a} \cup {b}) \cup {c}
<1>5. T \in SUBSET S /\ Cardinality(T) = 3
    BY <1>3, <1>4
<1> HIDE DEF T
<1>6. Cardinality(T) <= Cardinality(S)
    BY <1>5, FS_Subset
<1>7. Cardinality(S) \in Nat
    BY FS_CardinalityType
<1> QED
    BY <1>5, <1>6, <1>7

\* Digits end at one place only.
LEMMA SameEnd ==
    ASSUME str \in Seq(Int), NEW p \in Nat, NEW x \in Nat, NEW y \in Nat, p < x, p < y,
           x <= Len(str) + 1, y <= Len(str) + 1, AllDigits(p, x), AllDigits(p, y),
           x <= Len(str) => ~IsDigit(str[x]), y <= Len(str) => ~IsDigit(str[y])
    PROVE  x = y
<1>1. Len(str) \in Nat
    BY LenProperties
<1>2. ASSUME x < y PROVE FALSE
  <2>1. x \in p + 1 .. y - 1 /\ x <= Len(str)
      BY <1>1, <1>2
  <2> QED
      BY <2>1 DEF AllDigits
<1>3. ASSUME y < x PROVE FALSE
  <2>1. y \in p + 1 .. x - 1 /\ y <= Len(str)
      BY <1>1, <1>3
  <2> QED
      BY <2>1 DEF AllDigits
<1> QED
    BY <1>2, <1>3

\* The dots of a string are finitely many.
LEMMA DotsFinite ==
    ASSUME str \in Seq(Int), NEW T, T \subseteq Dots
    PROVE  IsFiniteSet(T)
<1>1. DOMAIN str = 1 .. Len(str) /\ 1 \in Int /\ Len(str) \in Int
    BY LenProperties
<1>2. IsFiniteSet(1 .. Len(str))
    BY <1>1, FS_Interval
<1>3. T \in SUBSET (1 .. Len(str))
    BY <1>1 DEF Dots
<1> QED
    BY <1>2, <1>3, FS_Subset

\* UTILS_StrToIP succeeds on four numbers with dots in between, below 256 as far
\* as an int holds them.
LEMMA StrToIPFound ==
    ASSUME UtilsInv, UTILS_StrToIP(str).ok
    PROVE  \E cut : /\ Laid(cut, 4, Len(str) + 1)
                    /\ \A j \in 1 .. 4 : Passed(Number(cut[j], cut[j + 1]))
<1> DEFINE N == Len(str) + 1
           end == StrToIPLoop(str)[N]
           k == Len(end.ip)
<1>1. N \in Nat /\ N \in 0 .. N /\ str \in Seq(Int) /\ Len(str) \in Nat /\ ~(N <= Len(str))
    BY LenProperties DEF UtilsInv
<1>2. end.ok
    BY DEF UTILS_StrToIP
<1>3. IPAt(end, N) /\ end \in StrToIPState
    BY <1>1, IPFinds, StrToIPLoopIs
<1> HIDE DEF end
<1>4. k \in 0 .. 4
    BY <1>2, <1>3 DEF IPAt
<1>5. PICK cut : IPCut(cut, end, k, N)
    BY <1>2, <1>3 DEF IPAt
<1> HIDE DEF k
<1>8. ~(k < 4)
    BY <1>1, <1>5 DEF IPCut
<1>9. k = 4
    BY <1>4, <1>8
<1>10. Laid(cut, 4, N) /\ \A j \in 1 .. 4 : Passed(Number(cut[j], cut[j + 1]))
    BY <1>5, <1>9 DEF IPCut
<1> QED
    BY <1>10

\* Three dots, with four numbers around them, are where UTILS_StrToIP found them.
LEMMA SameCut ==
    ASSUME str \in Seq(Int), NEW q, IsQuad(q), NEW cut, Laid(cut, 4, Len(str) + 1)
    PROVE  \A j \in 1 .. 5 : q[j] = cut[j]
<1> DEFINE T == {j \in 1 .. 5 : q[j] = cut[j]}
<1>0. /\ cut \in [1 .. 5 -> Nat] /\ cut[1] = 0
      /\ \A j \in 1 .. 4 : /\ cut[j] < cut[j + 1] /\ cut[j + 1] <= Len(str) + 1
                           /\ AllDigits(cut[j], cut[j + 1]) /\ Ends4(j, cut[j + 1])
    BY DEF Laid
<1>1. 1 \in T
    BY <1>0 DEF IsQuad
<1>2. ASSUME NEW i \in 1 + 1 .. 5, i - 1 \in T PROVE i \in T
  <2> DEFINE j == i - 1
             k == i - 2
  <2>1. /\ j \in 1 .. 4 /\ j + 1 = i /\ i \in 1 .. 5 /\ k \in 0 .. 3 /\ k + 1 = j /\ k + 2 = i
        /\ (k # 3 <=> j < 4) /\ (k = 3 <=> j = 4) /\ j \in 1 .. 5
      OBVIOUS
  <2>2. q[j] = cut[j]
      BY <1>2
  <2> HIDE DEF j, k
  <2>3. /\ q[j] \in Nat /\ q[i] \in Nat /\ q[j] + 1 < q[i]
        /\ AllDigits(q[j], q[i]) /\ q[i] <= Len(str) + 1
        /\ k # 3 => q[i] <= Len(str) /\ str[q[i]] = Dot
        /\ k = 3 => q[i] = Len(str) + 1
    <3>1. /\ q[k + 1] \in Nat /\ q[k + 2] \in Nat /\ q[k + 1] + 1 < q[k + 2]
          /\ AllDigits(q[k + 1], q[k + 2]) /\ q[k + 2] <= Len(str) + 1
          /\ k # 3 => q[k + 2] <= Len(str) /\ str[q[k + 2]] = Dot
          /\ k = 3 => q[k + 2] = Len(str) + 1
        BY <2>1, CutAt
    <3> QED
        BY <2>1, <3>1
  <2>4. /\ cut[j] < cut[i] /\ cut[i] <= Len(str) + 1 /\ AllDigits(cut[j], cut[i])
        /\ Ends4(j, cut[i]) /\ cut[i] \in Nat
      BY <2>1, <1>0
  <2>5. Len(str) \in Nat /\ ~IsDigit(Dot)
      BY LenProperties DEF IsDigit, Dot
  <2>6. q[i] <= Len(str) => ~IsDigit(str[q[i]])
    <3>1. \A x, n \in Nat : x = n + 1 => ~(x <= n)
        OBVIOUS
    <3> QED
        BY <3>1, <2>3, <2>5
  <2>7. cut[i] <= Len(str) => ~IsDigit(str[cut[i]])
    <3>1. \A x, n \in Nat : x = n + 1 => ~(x <= n)
        OBVIOUS
    <3>2. CASE j < 4
        BY <3>2, <2>4, <2>5 DEF Ends4
    <3>3. CASE j = 4
        BY <3>1, <3>3, <2>4, <2>5 DEF Ends4
    <3>4. j < 4 \/ j = 4
        BY <2>1
    <3> QED
        BY <3>2, <3>3, <3>4
  <2>8. q[j] < q[i]
    <3>1. \A x, y \in Nat : x + 1 < y => x < y
        OBVIOUS
    <3> QED
        BY <3>1, <2>3
  <2>9. q[i] = cut[i]
      BY <2>2, <2>3, <2>4, <2>6, <2>7, <2>8, SameEnd
  <2> QED
      BY <2>1, <2>9
<1> HIDE DEF T
<1>3. \A j \in 1 .. 5 : j \in T
  <2>1. 1 \in Nat /\ 5 \in Nat
      OBVIOUS
  <2> QED
      BY <2>1, <1>1, <1>2, Induct
<1> QED
    BY <1>3 DEF T

\* A name, or a number above 255 that an int holds, does not pass UTILS_StrToIP.
LEMMA ResolvesNamesOk ==
    ASSUME UtilsInv
    PROVE  ResolvesNames
<1>1. str \in Seq(Int) /\ DOMAIN str = 1 .. Len(str) /\ Len(str) \in Nat
    BY LenProperties DEF UtilsInv
<1>2. SUFFICES ASSUME UTILS_StrToIP(str).ok
               PROVE  /\ ~(Cardinality(Dots) < 3)
                      /\ \A i \in DOMAIN str \ Dots :
                            ~IsDigit(str[i]) => ~(Cardinality({j \in Dots : j < i}) < 3)
                      /\ \A q \in Quads, k \in 1 .. 4 :
                            ~(Number(q[k], q[k + 1]) \in 256 .. IntBound - 1)
    BY DEF ResolvesNames
<1>3. PICK cut : /\ Laid(cut, 4, Len(str) + 1)
                 /\ \A j \in 1 .. 4 : Passed(Number(cut[j], cut[j + 1]))
    BY <1>2, StrToIPFound
<1> DEFINE a == cut[2]
           b == cut[3]
           c == cut[4]
<1>4. /\ a \in Dots /\ b \in Dots /\ c \in Dots /\ a < b /\ b < c /\ 0 < a
      /\ AllDigits(0, a) /\ AllDigits(a, b) /\ AllDigits(b, c)
  <2>1. 4 >= 3
      OBVIOUS
  <2> QED
      BY <2>1, <1>1, <1>3, LaidDots
<1> HIDE DEF a, b, c
<1>5. a \in Nat /\ b \in Nat /\ c \in Nat
    BY <1>1, <1>4 DEF Dots
<1>6. a # b /\ a # c /\ b # c
    BY <1>4, <1>5
<1>7. ~(Cardinality(Dots) < 3)
    BY <1>1, <1>4, <1>6, DotsFinite, CardThree
<1>8. ASSUME NEW i \in DOMAIN str \ Dots, ~IsDigit(str[i])
      PROVE  ~(Cardinality({j \in Dots : j < i}) < 3)
  <2> DEFINE S == {j \in Dots : j < i}
  <2>1. i \in Nat /\ 0 < i /\ i # a /\ i # b /\ i # c
      BY <1>1, <1>4
  <2>2. ~(i < a)
    <3>1. i < a => i \in 0 + 1 .. a - 1
        BY <2>1, <1>5
    <3> QED
        BY <3>1, <1>4, <1>8 DEF AllDigits
  <2>3. ~(a < i /\ i < b)
    <3>1. a < i /\ i < b => i \in a + 1 .. b - 1
        BY <2>1, <1>5
    <3> QED
        BY <3>1, <1>4, <1>8 DEF AllDigits
  <2>4. ~(b < i /\ i < c)
    <3>1. b < i /\ i < c => i \in b + 1 .. c - 1
        BY <2>1, <1>5
    <3> QED
        BY <3>1, <1>4, <1>8 DEF AllDigits
  <2>5. a < i /\ b < i /\ c < i
      BY <2>1, <2>2, <2>3, <2>4, <1>4, <1>5
  <2>6. a \in S /\ b \in S /\ c \in S /\ S \subseteq Dots
      BY <2>5, <1>4
  <2> HIDE DEF S
  <2>7. IsFiniteSet(S)
      BY <2>6, <1>1, DotsFinite
  <2>8. ~(Cardinality(S) < 3)
      BY <2>6, <2>7, <1>6, CardThree
  <2> QED
      BY <2>8 DEF S
<1>9. ASSUME NEW q \in Quads, NEW k \in 1 .. 4
      PROVE  ~(Number(q[k], q[k + 1]) \in 256 .. IntBound - 1)
  <2> DEFINE x == Number(q[k], q[k + 1])
  <2>1. IsQuad(q)
      BY <1>1, QuadIs
  <2>2. \A j \in 1 .. 5 : q[j] = cut[j]
      BY <2>1, <1>1, <1>3, SameCut
  <2>3. k \in 1 .. 5 /\ k + 1 \in 1 .. 5
      OBVIOUS
  <2>4. Passed(x)
      BY <2>2, <2>3, <1>3
  <2> HIDE DEF x
  <2>5. ~(x \in 256 .. IntBound - 1)
      BY <2>4, UtilsAssumption DEF Passed
  <2> QED
      BY <2>5 DEF x
<1> QED
    BY <1>7, <1>8, <1>9

-----------------------------------------------------------------------------
(***************************************************************************)
(* UTILS_Atoh: remainders of a number                                      *)
(***************************************************************************)
\* Sixteen times as many with each digit.
LEMMA PowerIs ==
    /\ Power[0] = 1
    /\ \A n \in 0 .. HexDigits : Power[n] \in Nat /\ Power[n] > 0
    /\ \A n \in 1 .. HexDigits : Power[n] = 16 * Power[n - 1]
<1> DEFINE H == HexDigits
           P == Nat \ {0}
           g == [n \in 0 + 1 .. H |-> [x \in P |-> 16 * x]]
           Eqn(f) == f = [n \in 0 .. H |-> IF n = 0 THEN 1 ELSE 16 * f[n - 1]]
<1>1. H \in Nat /\ 0 \in Nat /\ 0 <= H /\ 1 \in P
    BY UtilsAssumption
<1>2. \A x \in P : 16 * x \in P
    OBVIOUS
<1>3. Power = CHOOSE h : Eqn(h)
    BY DEF Power
<1> HIDE DEF H, P
<1>4. g \in [0 + 1 .. H -> [P -> P]] /\ \A n \in 1 .. H : \A x \in P : g[n][x] = 16 * x
    BY <1>2
<1> HIDE DEF g
<1>5. PICK f \in [0 .. H -> P] : Turns(f, 0, H, 1, g)
    BY <1>1, <1>4, LoopExists
<1>6. Eqn(f)
  <2>1. ASSUME NEW n \in 0 .. H
        PROVE  f[n] = IF n = 0 THEN 1 ELSE 16 * f[n - 1]
    <3>1. CASE n = 0
        BY <3>1, <1>5 DEF Turns
    <3>2. CASE n # 0
      <4>1. n \in 0 + 1 .. H /\ n \in 1 .. H /\ n - 1 \in 0 .. H
          BY <3>2, <1>1
      <4>2. f[n] = g[n][f[n - 1]] /\ f[n - 1] \in P
          BY <4>1, <1>5 DEF Turns
      <4> QED
          BY <4>1, <4>2, <3>2, <1>4
    <3> QED
        BY <3>1, <3>2
  <2> QED
      BY <2>1
<1>7. Eqn(Power)
    BY <1>3, <1>6
<1>8. Power[0] = 1 /\ \A n \in 1 .. H : Power[n] = 16 * Power[n - 1]
    BY <1>7, <1>1
<1> HIDE DEF Eqn
<1>9. \A n \in 0 .. H : Power[n] \in P
  <2> DEFINE T == {n \in 0 .. H : Power[n] \in P}
  <2>1. 0 \in T
      BY <1>1, <1>8
  <2>2. ASSUME NEW n \in 0 + 1 .. H, n - 1 \in T PROVE n \in T
    <3>1. n \in 0 .. H /\ n \in 1 .. H
        BY <1>1
    <3>2. Power[n] \in P
        BY <3>1, <2>2, <1>2, <1>8
    <3> QED
        BY <3>1, <3>2
  <2> HIDE DEF T
  <2>3. \A n \in 0 .. H : n \in T
      BY <1>1, <2>1, <2>2, Induct
  <2> QED
      BY <2>3 DEF T
<1>10. \A x \in P : x \in Nat /\ x > 0
    BY DEF P
<1> QED
    BY <1>8, <1>9, <1>10 DEF H

\* More digits, more values.
LEMMA PowerGrows ==
    ASSUME NEW k \in 0 .. HexDigits
    PROVE  Power[k] <= Power[HexDigits]
<1> DEFINE H == HexDigits
           T == {n \in k .. H : Power[k] <= Power[n]}
<1>1. H \in Nat /\ k \in Nat /\ k <= H
    BY UtilsAssumption
<1>2. k \in T
    BY <1>1, PowerIs
<1>3. ASSUME NEW n \in k + 1 .. H, n - 1 \in T PROVE n \in T
  <2>1. n \in k .. H /\ n \in 1 .. H /\ n - 1 \in 0 .. H /\ n \in 0 .. H
      BY <1>1
  <2>2. /\ Power[n] = 16 * Power[n - 1] /\ Power[n - 1] \in Nat /\ Power[k] \in Nat
        /\ Power[k] <= Power[n - 1]
      BY <2>1, <1>3, PowerIs
  <2>3. \A x, y \in Nat : x <= y => x <= 16 * y
      OBVIOUS
  <2> QED
      BY <2>1, <2>2, <2>3
<1> HIDE DEF T
<1>4. \A n \in k .. H : n \in T
    BY <1>1, <1>2, <1>3, Induct
<1>5. H \in T
    BY <1>1, <1>4
<1> QED
    BY <1>5 DEF T

AtohState == [value : Nat, done : BOOLEAN]

\* What a turn of UTILS_Atoh does.
AtohTurn(s, c, t) ==
    /\ s.done \/ HexValue(c) = -1 => t.done /\ t.value = s.value
    /\ ~s.done /\ HexValue(c) # -1 =>
          ~t.done /\ t.value = (s.value * 16 + HexValue(c)) % Power[HexDigits]

\* The turns of UTILS_Atoh are these.
LEMMA AtohStepIs ==
    ASSUME NEW s \in AtohState, NEW c \in Int
    PROVE  AtohStep(s, c) \in AtohState /\ AtohTurn(s, c, AtohStep(s, c))
<1>0. s.value \in Nat /\ s.done \in BOOLEAN
    BY DEF AtohState
<1>1. CASE s.done \/ HexValue(c) = -1
  <2>1. AtohStep(s, c) = [s EXCEPT !.done = TRUE]
      BY <1>1 DEF AtohStep
  <2>2. AtohStep(s, c) \in AtohState /\ AtohStep(s, c).done /\ AtohStep(s, c).value = s.value
      BY <2>1, Zenon DEF AtohState
  <2> QED
      BY <2>2, <1>1 DEF AtohTurn
<1>2. CASE ~s.done /\ HexValue(c) # -1
  <2> DEFINE x == s.value * 16 + HexValue(c)
             v == x % Power[HexDigits]
  <2>1. AtohStep(s, c) = [s EXCEPT !.value = v]
      BY <1>2 DEF AtohStep
  <2>2. HexValue(c) \in -1 .. 15
      BY HexValueIs
  <2>3. x \in Nat
    <3>1. \A y \in Nat : \A h \in -1 .. 15 : h # -1 => y * 16 + h \in Nat
        OBVIOUS
    <3> QED
        BY <3>1, <2>2, <1>0, <1>2
  <2>4. Power[HexDigits] \in Nat /\ Power[HexDigits] > 0
    <3>1. HexDigits \in 0 .. HexDigits
        BY UtilsAssumption
    <3> QED
        BY <3>1, PowerIs
  <2> HIDE DEF x
  <2>5. v \in Nat
      BY <2>3, <2>4, DivMod
  <2> HIDE DEF v
  <2>6. AtohStep(s, c) \in AtohState
      BY <2>1, <2>5, Zenon DEF AtohState
  <2>7. AtohStep(s, c).done = s.done /\ AtohStep(s, c).value = v
      BY <2>1, Zenon DEF AtohState
  <2> QED
      BY <2>6, <2>7, <1>2 DEF AtohTurn, v, x
<1> QED
    BY <1>1, <1>2

\* UTILS_Atoh starts with 0 and takes a turn for every character.
LEMMA AtohLoopIs ==
    ASSUME NEW string \in Seq(Int), NEW read, read = AtohLoop(string)
    PROVE  /\ \A i \in 0 .. Len(string) : read[i] \in AtohState
           /\ read[0] = [value |-> 0, done |-> FALSE]
           /\ \A i \in 1 .. Len(string) : AtohTurn(read[i - 1], string[i], read[i])
<1> DEFINE N == Len(string)
           a == [value |-> 0, done |-> FALSE]
           g == [i \in 0 + 1 .. N |-> [s \in AtohState |-> AtohStep(s, string[i])]]
           Eqn(f) == f = [i \in 0 .. N |-> IF i = 0 THEN a ELSE AtohStep(f[i - 1], string[i])]
<1>1. N \in Nat /\ 0 <= N /\ 0 \in Nat
    BY LenProperties
<1>2. a \in AtohState
    BY DEF AtohState
<1>3. \A i \in 1 .. N : string[i] \in Int
    BY ElementOfSeq
<1> HIDE DEF N, a
<1>4. g \in [0 + 1 .. N -> [AtohState -> AtohState]]
    BY <1>3, AtohStepIs
<1>5. \A i \in 1 .. N : \A s \in AtohState : g[i][s] = AtohStep(s, string[i])
    OBVIOUS
<1> HIDE DEF g
<1>6. PICK f \in [0 .. N -> AtohState] : Turns(f, 0, N, a, g)
    BY <1>1, <1>2, <1>4, LoopExists
<1>7. Eqn(f)
  <2>1. ASSUME NEW i \in 0 .. N
        PROVE  f[i] = IF i = 0 THEN a ELSE AtohStep(f[i - 1], string[i])
    <3>1. CASE i = 0
        BY <3>1, <1>6 DEF Turns
    <3>2. CASE i # 0
      <4>1. i \in 0 + 1 .. N /\ i \in 1 .. N /\ i - 1 \in 0 .. N
          BY <3>2, <1>1
      <4>2. f[i] = g[i][f[i - 1]] /\ f[i - 1] \in AtohState
          BY <4>1, <1>6 DEF Turns
      <4> QED
          BY <4>1, <4>2, <3>2, <1>5
    <3> QED
        BY <3>1, <3>2
  <2> QED
      BY <2>1
<1>8. read = CHOOSE h : Eqn(h)
    BY DEF AtohLoop, N, a
<1>9. Eqn(read)
    BY <1>7, <1>8
<1>10. read[0] = a /\ \A i \in 1 .. N : read[i] = AtohStep(read[i - 1], string[i])
    BY <1>9, <1>1
<1> HIDE DEF Eqn
<1>11. \A i \in 0 .. N : read[i] \in AtohState
  <2> DEFINE T == {i \in 0 .. N : read[i] \in AtohState}
  <2>1. 0 \in T
      BY <1>1, <1>2, <1>10
  <2>2. ASSUME NEW i \in 0 + 1 .. N, i - 1 \in T PROVE i \in T
    <3>1. i \in 1 .. N /\ i \in 0 .. N
        BY <1>1
    <3>2. read[i - 1] \in AtohState
        BY <2>2
    <3>3. read[i] \in AtohState
        BY <3>1, <3>2, <1>3, <1>10, AtohStepIs
    <3> QED
        BY <3>1, <3>3
  <2> HIDE DEF T
  <2>3. \A i \in 0 .. N : i \in T
      BY <1>1, <2>1, <2>2, Induct
  <2> QED
      BY <2>3 DEF T
<1>12. ASSUME NEW i \in 1 .. N PROVE AtohTurn(read[i - 1], string[i], read[i])
  <2>1. i - 1 \in 0 .. N
      BY <1>1
  <2>2. read[i - 1] \in AtohState /\ string[i] \in Int
      BY <2>1, <1>3, <1>11
  <2>3. read[i] = AtohStep(read[i - 1], string[i])
      BY <1>10
  <2> QED
      BY <2>2, <2>3, AtohStepIs
<1> QED
    BY <1>10, <1>11, <1>12 DEF N, a
\* Hexadecimal digits as far as place h, and not one further.
AllHex(h) == \A j \in 1 .. h : HexValue(str[j]) # -1
FirstOther(h) == HexValue(str[h + 1]) = -1

\* Each of them is a digit.
LEMMA HexDigitIs ==
    ASSUME str \in Seq(Int), NEW h \in 0 .. Len(str), AllHex(h), NEW j \in 1 .. h
    PROVE  HexValue(str[j]) \in 0 .. 15
<1>1. j \in 1 .. Len(str)
    BY LenProperties
<1>2. str[j] \in Int
    BY <1>1, ElementOfSeq
<1>3. HexValue(str[j]) \in -1 .. 15 /\ HexValue(str[j]) # -1
    BY <1>2, HexValueIs DEF AllHex
<1>4. \A x \in -1 .. 15 : x # -1 => x \in 0 .. 15
    OBVIOUS
<1> QED
    BY <1>3, <1>4

\* What the digits stand for, and the remainder that fits.
Fits(x, v) ==
    v \in Nat /\ v < Power[HexDigits] /\ \E d \in Nat : x = Power[HexDigits] * d + v

\* The remainder so far and a digit give the next remainder.
LEMMA FitsMore ==
    ASSUME NEW x \in Nat, NEW v \in Nat, Fits(x, v), NEW h \in 0 .. 15
    PROVE  Fits(16 * x + h, (v * 16 + h) % Power[HexDigits])
<1> DEFINE M == Power[HexDigits]
           y == v * 16 + h
           z == y % M
<1>1. M \in Nat /\ M > 0
  <2>1. HexDigits \in 0 .. HexDigits
      BY UtilsAssumption
  <2> QED
      BY <2>1, PowerIs
<1>2. PICK d \in Nat : x = M * d + v
    BY DEF Fits
<1>3. y \in Nat
    OBVIOUS
<1> HIDE DEF M
<1>4. 16 * x + h = M * (16 * d) + y
    BY <1>1, <1>2
<1> HIDE DEF y
<1>5. /\ z \in Nat /\ z < M
      /\ \E e \in Nat : y = M * e + z
    BY <1>1, <1>3, DivMod
<1> HIDE DEF z
<1>6. PICK e \in Nat : y = M * e + z
    BY <1>5
<1>7. 16 * x + h = M * (16 * d + e) + z
  <2>1. M * (16 * d) \in Nat /\ M * e \in Nat /\ M * (16 * d + e) = M * (16 * d) + M * e
      BY <1>1
  <2>2. \A u, w \in Nat : u + (w + z) = (u + w) + z
      BY <1>5
  <2> QED
      BY <1>4, <1>6, <2>1, <2>2
<1>8. 16 * d + e \in Nat
    OBVIOUS
<1>9. \E k \in Nat : 16 * x + h = M * k + z
    BY <1>7, <1>8
<1> QED
    BY <1>5, <1>9 DEF Fits, M, z, y

\* Hexadecimal digits stand for a natural number.
LEMMA ValuesNat ==
    ASSUME str \in Seq(Int), NEW h \in 0 .. Len(str), AllHex(h), NEW s \in 0 .. h,
           NEW v, v = Values(16, s)
    PROVE  \A i \in s .. h : v[i] \in Nat
<1> DEFINE T == {i \in s .. h : v[i] \in Nat}
<1>1. s \in Nat /\ h \in Nat /\ 16 \in Nat /\ s \in 0 .. Len(str) /\ h <= Len(str) /\ Len(str) \in Nat
    BY LenProperties
<1>2. v[s] = 0 /\ \A i \in s + 1 .. Len(str) : v[i] = 16 * v[i - 1] + HexValue(str[i])
    BY <1>1, ValuesIs
<1>3. s \in T
    BY <1>1, <1>2
<1>4. ASSUME NEW i \in s + 1 .. h, i - 1 \in T PROVE i \in T
  <2>1. i \in s .. h /\ i \in 1 .. h /\ i \in s + 1 .. Len(str)
      BY <1>1
  <2>2. v[i] = 16 * v[i - 1] + HexValue(str[i]) /\ v[i - 1] \in Nat
      BY <2>1, <1>2, <1>4
  <2>3. HexValue(str[i]) \in 0 .. 15
      BY <2>1, HexDigitIs
  <2>4. \A x \in Nat : \A y \in 0 .. 15 : 16 * x + y \in Nat
      OBVIOUS
  <2> QED
      BY <2>1, <2>2, <2>3, <2>4
<1> HIDE DEF T
<1>5. \A i \in s .. h : i \in T
    BY <1>1, <1>3, <1>4, Induct
<1> QED
    BY <1>5 DEF T

\* The digits behind place s are the last ones of the number from the start.
LEMMA LastDigits ==
    ASSUME str \in Seq(Int), NEW h \in 0 .. Len(str), AllHex(h), NEW s \in 0 .. h,
           h - s <= HexDigits, NEW v, v = Values(16, 0), NEW w, w = Values(16, s)
    PROVE  /\ v[h] = v[s] * Power[h - s] + w[h]
           /\ w[h] \in Nat /\ w[h] < Power[h - s]
<1> DEFINE P(i) == v[i] = v[s] * Power[i - s] + w[i] /\ w[i] < Power[i - s]
           T == {i \in s .. h : P(i)}
<1>1. /\ s \in Nat /\ h \in Nat /\ 16 \in Nat /\ s \in 0 .. Len(str) /\ h <= Len(str)
      /\ Len(str) \in Nat /\ 0 \in 0 .. Len(str) /\ 0 \in 0 .. h /\ HexDigits \in Nat
    BY LenProperties, UtilsAssumption
<1>2. w[s] = 0 /\ \A i \in s + 1 .. Len(str) : w[i] = 16 * w[i - 1] + HexValue(str[i])
    BY <1>1, ValuesIs
<1>3. \A i \in 0 + 1 .. Len(str) : v[i] = 16 * v[i - 1] + HexValue(str[i])
    BY <1>1, ValuesIs
<1>4. (\A i \in 0 .. h : v[i] \in Nat) /\ \A i \in s .. h : w[i] \in Nat
    BY <1>1, ValuesNat
<1>5. v[s] \in Nat
    BY <1>1, <1>4
<1>6. s \in T
  <2>1. Power[s - s] = 1
    <3>1. s - s = 0
        BY <1>1
    <3> QED
        BY <3>1, PowerIs
  <2>2. v[s] * 1 + 0 = v[s] /\ 0 < 1 /\ s \in s .. h
      BY <1>1, <1>5
  <2> QED
      BY <2>1, <2>2, <1>2
<1>7. ASSUME NEW i \in s + 1 .. h, i - 1 \in T PROVE i \in T
  <2> DEFINE m == i - 1
             b == Power[m - s]
             d == HexValue(str[i])
  <2>1. /\ i \in s .. h /\ i \in 1 .. h /\ i \in s + 1 .. Len(str) /\ i \in 0 + 1 .. Len(str)
        /\ m \in 0 .. h /\ m \in s .. h
        /\ i - s \in 1 .. HexDigits /\ m - s \in 0 .. HexDigits /\ (i - s) - 1 = m - s
      BY <1>1
  <2>2. v[m] = v[s] * b + w[m] /\ w[m] < b
      BY <1>7
  <2>3. v[m] \in Nat /\ w[m] \in Nat
      BY <2>1, <1>4
  <2>4. d \in 0 .. 15
      BY <2>1, HexDigitIs
  <2>5. v[i] = 16 * v[m] + d /\ w[i] = 16 * w[m] + d
      BY <2>1, <1>2, <1>3
  <2>6. b \in Nat /\ Power[i - s] = 16 * b
      BY <2>1, PowerIs
  <2> HIDE DEF b, d, m
  <2>7. \A x, y, z \in Nat : 16 * (x * y + z) + d = x * (16 * y) + (16 * z + d)
      BY <2>4
  <2>8. v[i] = v[s] * (16 * b) + w[i]
    <3>1. v[i] = 16 * (v[s] * b + w[m]) + d
        BY <2>2, <2>5, Zenon
    <3>2. 16 * (v[s] * b + w[m]) + d = v[s] * (16 * b) + (16 * w[m] + d)
        BY <2>3, <2>6, <2>7, <1>5, ZenonT(60)
    <3> QED
        BY <3>1, <3>2, <2>5, Zenon
  <2>9. \A y, z \in Nat : z < y => 16 * z + d < 16 * y
      BY <2>4
  <2>10. w[i] < 16 * b
      BY <2>2, <2>3, <2>5, <2>6, <2>9
  <2> QED
      BY <2>1, <2>6, <2>8, <2>10
<1> HIDE DEF T
<1>8. \A i \in s .. h : i \in T
    BY <1>1, <1>6, <1>7, Induct
<1>9. h \in s .. h
    BY <1>1
<1>10. P(h)
    BY <1>8, <1>9 DEF T
<1> QED
    BY <1>4, <1>9, <1>10

\* UTILS_Atoh after i characters: it stands behind the last digit, or went past it.
AtohAt(s, i, v) ==
    \E h \in 0 .. i : /\ AllHex(h) /\ Fits(v[h], s.value)
                      /\ ~s.done => h = i
                      /\ s.done => h < i /\ FirstOther(h)

\* A turn of UTILS_Atoh goes on, stops or has stopped.
LEMMA AtohNext ==
    ASSUME str \in Seq(Int), NEW i \in Nat, i + 1 <= Len(str),
           NEW s \in AtohState, NEW t \in AtohState, NEW v, v = Values(16, 0),
           AtohTurn(s, str[i + 1], t), AtohAt(s, i, v)
    PROVE  AtohAt(t, i + 1, v)
<1>1. Len(str) \in Nat /\ 16 \in Nat /\ 0 \in 0 .. Len(str) /\ i + 1 \in 0 + 1 .. Len(str)
    BY LenProperties
<1>2. PICK h \in 0 .. i : /\ AllHex(h) /\ Fits(v[h], s.value)
                          /\ ~s.done => h = i
                          /\ s.done => h < i /\ FirstOther(h)
    BY DEF AtohAt
<1>3. h \in 0 .. i + 1 /\ h < i + 1 /\ i + 1 \in 0 .. i + 1
    BY <1>2
<1>4. CASE s.done
  <2>1. t.done /\ t.value = s.value
      BY <1>4 DEF AtohTurn
  <2> QED
      BY <2>1, <1>2, <1>3, <1>4 DEF AtohAt
<1>5. CASE ~s.done /\ HexValue(str[i + 1]) = -1
  <2>1. t.done /\ t.value = s.value
      BY <1>5 DEF AtohTurn
  <2>2. h = i /\ FirstOther(h)
      BY <1>2, <1>5 DEF FirstOther
  <2> QED
      BY <2>1, <2>2, <1>2, <1>3 DEF AtohAt
<1>6. CASE ~s.done /\ HexValue(str[i + 1]) # -1
  <2> DEFINE x == i + 1
             d == HexValue(str[x])
  <2>1. ~t.done /\ t.value = (s.value * 16 + d) % Power[HexDigits]
      BY <1>6 DEF AtohTurn
  <2>2. h = i /\ AllHex(i) /\ Fits(v[i], s.value) /\ s.value \in Nat
      BY <1>2, <1>6 DEF AtohState
  <2>3. AllHex(x)
    <3>1. \A j \in 1 .. x : j \in 1 .. i \/ j = x
        OBVIOUS
    <3> QED
        BY <3>1, <2>2, <1>6 DEF AllHex
  <2>4. x \in 0 .. Len(str) /\ 0 \in 0 .. x /\ x \in 1 .. x /\ i \in 0 .. x /\ x - 1 = i
      BY <1>1
  <2>5. d \in 0 .. 15
      BY <2>3, <2>4, HexDigitIs
  <2>6. v[i] \in Nat
      BY <2>3, <2>4, ValuesNat
  <2>7. v[x] = 16 * v[i] + d
      BY <2>4, <1>1, ValuesIs
  <2> HIDE DEF d
  <2>8. Fits(v[x], t.value)
      BY <2>1, <2>2, <2>5, <2>6, <2>7, FitsMore
  <2> QED
      BY <2>1, <2>3, <2>8, <1>3 DEF AtohAt
<1> QED
    BY <1>4, <1>5, <1>6

\* All characters read.
LEMMA AtohFinds ==
    ASSUME str \in Seq(Int), NEW read, read = AtohLoop(str), NEW v, v = Values(16, 0)
    PROVE  AtohAt(read[Len(str)], Len(str), v)
<1> DEFINE N == Len(str)
           T == {i \in 0 .. N : AtohAt(read[i], i, v)}
<1>1. N \in Nat /\ 0 \in Nat /\ 0 \in 0 .. N /\ N \in 0 .. N /\ 16 \in Nat
    BY LenProperties
<1>2. /\ \A i \in 0 .. N : read[i] \in AtohState
      /\ read[0] = [value |-> 0, done |-> FALSE]
      /\ \A i \in 1 .. N : AtohTurn(read[i - 1], str[i], read[i])
    BY <1>1, AtohLoopIs
<1>3. 0 \in T
  <2>1. ~read[0].done /\ read[0].value = 0
      BY <1>2
  <2>2. AllHex(0)
      BY DEF AllHex
  <2>3. v[0] = 0
      BY <1>1, ValuesIs
  <2>4. Power[HexDigits] \in Nat /\ Power[HexDigits] > 0
    <3>1. HexDigits \in 0 .. HexDigits
        BY UtilsAssumption
    <3> QED
        BY <3>1, PowerIs
  <2>5. \A m \in Nat : m > 0 => 0 < m /\ 0 = m * 0 + 0
      OBVIOUS
  <2>6. Fits(0, 0)
      BY <2>4, <2>5, <1>1 DEF Fits
  <2>7. 0 \in 0 .. 0
      OBVIOUS
  <2>8. AtohAt(read[0], 0, v)
      BY <2>1, <2>2, <2>3, <2>6, <2>7 DEF AtohAt
  <2> QED
      BY <2>8, <1>1
<1>4. ASSUME NEW i \in 0 + 1 .. N, i - 1 \in T PROVE i \in T
  <2> DEFINE m == i - 1
  <2>1. m \in Nat /\ m + 1 = i /\ m \in 0 .. N /\ i \in 1 .. N /\ i \in 0 .. N /\ i <= N
      BY <1>1
  <2>2. read[m] \in AtohState /\ read[i] \in AtohState /\ AtohTurn(read[m], str[i], read[i])
      BY <2>1, <1>2
  <2>3. AtohAt(read[m], m, v)
      BY <1>4
  <2> HIDE DEF m
  <2>4. AtohAt(read[i], m + 1, v)
      BY <2>1, <2>2, <2>3, AtohNext
  <2> QED
      BY <2>1, <2>4
<1> HIDE DEF T
<1>5. \A i \in 0 .. N : i \in T
    BY <1>1, <1>3, <1>4, Induct
<1>6. N \in T
    BY <1>1, <1>5
<1> QED
    BY <1>6 DEF T

\* UTILS_Atoh gives the last digits that fit.
LEMMA AtohReadsOk ==
    ASSUME UtilsInv
    PROVE  AtohReads
<1> DEFINE N == Len(str)
           v == Values(16, 0)
           end == AtohLoop(str)[N]
           M == Power[HexDigits]
<1>1. str \in Seq(Int) /\ N \in Nat /\ N \in 0 .. N /\ DOMAIN str = 1 .. N /\ HexDigits \in Nat
    BY LenProperties, UtilsAssumption DEF UtilsInv
<1>2. AtohAt(end, N, v) /\ end \in AtohState
    BY <1>1, AtohFinds, AtohLoopIs
<1>3. UTILS_Atoh(str) = end.value
    BY DEF UTILS_Atoh
<1> HIDE DEF end, v
<1>4. PICK h \in 0 .. N : /\ AllHex(h) /\ Fits(v[h], end.value)
                          /\ ~end.done => h = N
                          /\ end.done => h < N /\ FirstOther(h)
    BY <1>2 DEF AtohAt
<1>5. Hex = 1 .. h
  <2>1. ASSUME NEW i \in Hex PROVE i \in 1 .. h
    <3>1. i \in 1 .. N /\ \A j \in 1 .. i : HexValue(str[j]) # -1
        BY <1>1 DEF Hex
    <3>2. CASE h = N
        BY <3>1, <3>2
    <3>3. CASE h < N /\ FirstOther(h)
      <4>1. h + 1 \notin 1 .. i
          BY <3>1, <3>3, Zenon DEF FirstOther
      <4> QED
          BY <4>1, <3>1, <3>3
    <3> QED
        BY <3>2, <3>3, <1>4
  <2>2. ASSUME NEW i \in 1 .. h PROVE i \in Hex
    <3>1. i \in 1 .. N /\ \A j \in 1 .. i : j \in 1 .. h
        BY <1>1
    <3>2. \A j \in 1 .. i : HexValue(str[j]) # -1
        BY <3>1, <1>4, Zenon DEF AllHex
    <3> QED
        BY <3>1, <3>2, <1>1, Zenon DEF Hex
  <2> QED
      BY <2>1, <2>2
<1>6. h \in Nat /\ h \in Int /\ 1 \in Int /\ h <= N /\ 0 \in 0 .. h /\ h \in 0 .. h
    BY <1>1
<1>7. Cardinality(Hex) = h
  <2>1. Cardinality(1 .. h) = IF 1 > h THEN 0 ELSE h - 1 + 1
      BY <1>6, FS_Interval
  <2>2. (IF 1 > h THEN 0 ELSE h - 1 + 1) = h
      BY <1>6, SMTT(40)
  <2> QED
      BY <2>1, <2>2, <1>5
<1>8. v[h] \in Nat
    BY <1>1, <1>4, <1>6, ValuesNat, Zenon DEF v
<1>9. M \in Nat /\ M > 0
  <2>1. HexDigits \in 0 .. HexDigits
      BY <1>1
  <2> QED
      BY <2>1, PowerIs
<1>10. PICK d \in Nat : v[h] = M * d + end.value
    BY <1>4 DEF Fits
<1>11. end.value \in Nat /\ end.value < M
    BY <1>4 DEF Fits
<1>12. CASE h > HexDigits
  <2> DEFINE s == h - HexDigits
             w == Values(16, s)
  <2>1. s \in 0 .. h /\ h - s = HexDigits /\ h - s <= HexDigits /\ s \in Nat
      BY <1>1, <1>6, <1>12
  <2> HIDE DEF s
  <2>2. v[h] = v[s] * M + w[h] /\ w[h] \in Nat /\ w[h] < M
    <3>1. /\ v[h] = v[s] * Power[h - s] + w[h]
          /\ w[h] \in Nat /\ w[h] < Power[h - s]
        BY <2>1, <1>1, <1>4, LastDigits, Zenon DEF v
    <3> QED
        BY <3>1, <2>1, Zenon
  <2>3. v[s] \in Nat
      BY <2>1, <1>1, <1>4, <1>6, ValuesNat, Zenon DEF v
  <2> HIDE DEF w
  <2>4. M * d + end.value = M * v[s] + w[h]
    <3>1. \A x, y \in Nat : x * y = y * x
        OBVIOUS
    <3>2. v[s] * M = M * v[s]
      <4> HIDE DEF M
      <4> QED
        BY <3>1, <2>3, <1>9, Zenon
    <3> QED
        BY <3>2, <2>2, <1>10, Zenon
  <2>5. end.value = w[h]
    <3> HIDE DEF M
    <3> QED
      BY <2>2, <2>3, <2>4, <1>9, <1>11, DivUnique
  <2> QED
      BY <2>5, <1>3, <1>7, <1>12 DEF AtohReads, w, s
<1>13. CASE ~(h > HexDigits)
  <2>1. h \in 0 .. HexDigits /\ h - 0 = h /\ h - 0 <= HexDigits
      BY <1>1, <1>6, <1>13
  <2>2. v[h] < Power[h - 0]
      BY <2>1, <1>1, <1>4, <1>6, LastDigits, Zenon DEF v
  <2>3. Power[h] \in Nat /\ Power[h] <= M
      BY <2>1, PowerIs, PowerGrows
  <2>4. v[h] < M
    <3>1. \A x, y, z \in Nat : x < y /\ y <= z => x < z
        OBVIOUS
    <3> HIDE DEF M
    <3> QED
        BY <3>1, <2>1, <2>2, <2>3, <1>8, <1>9
  <2>5. M * d + end.value = M * 0 + v[h] /\ 0 \in Nat
    <3> HIDE DEF M
    <3>1. M * 0 + v[h] = v[h]
        BY <1>8, <1>9
    <3> QED
        BY <3>1, <1>10
  <2>6. end.value = v[h]
    <3> HIDE DEF M
    <3> QED
      BY <2>4, <2>5, <1>8, <1>9, <1>11, DivUnique
  <2> QED
      BY <2>6, <1>3, <1>7, <1>13 DEF AtohReads, v
<1> QED
    BY <1>12, <1>13

-----------------------------------------------------------------------------
(***************************************************************************)
(* The strings                                                             *)
(***************************************************************************)
\* Both directions, for both functions.
LEMMA ParsesAddressesOk ==
    ASSUME UtilsInv
    PROVE  ParsesAddresses
BY IsIPV4Exact, StrToIPExact DEF ParsesAddresses

\* The strings are of characters.
LEMMA UtilsInvariant ==
    UtilsSpec => []UtilsInv
<1>1. UtilsInit => UtilsInv
  <2>1. ASSUME UtilsInit PROVE UtilsInv
    <3>1. str = <<>>
        BY <2>1 DEF UtilsInit
    <3>2. str \in Seq(Int) /\ Len(str) = 0
        BY <3>1, EmptySeq
    <3> QED
        BY <3>2 DEF UtilsInv
  <2> QED
      BY <2>1
<1>2. UtilsInv /\ [UtilsNext]_utilsVars => UtilsInv'
  <2> SUFFICES ASSUME UtilsInv, [UtilsNext]_utilsVars PROVE UtilsInv'
      OBVIOUS
  <2>1. CASE Extend
    <3>1. PICK t \in Tokens : str' = str \o t
        BY <2>1 DEF Extend
    <3>2. t \in Seq(1 .. 127)
        BY UtilsAssumption
    <3>3. t \in Seq(Int)
      <4>1. 1 .. 127 \subseteq Int
          OBVIOUS
      <4>2. Len(t) \in Nat /\ t \in [1 .. Len(t) -> 1 .. 127]
          BY <3>2, LenProperties
      <4>3. t \in [1 .. Len(t) -> Int]
          BY <4>1, <4>2
      <4> QED
          BY <4>2, <4>3, SeqDef
    <3>4. str' \in Seq(Int)
        BY <3>1, <3>3, ConcatProperties DEF UtilsInv
    <3> QED
        BY <3>4 DEF UtilsInv
  <2>2. CASE Restart
    <3>1. str' = <<>>
        BY <2>2 DEF Restart
    <3>2. str' \in Seq(Int) /\ Len(str') = 0
        BY <3>1, EmptySeq
    <3> QED
        BY <3>2 DEF UtilsInv
  <2>3. CASE UNCHANGED utilsVars
      BY <2>3 DEF utilsVars, UtilsInv
  <2> QED
      BY <2>1, <2>2, <2>3 DEF UtilsNext
<1> QED
    BY <1>1, <1>2, PTL DEF UtilsSpec

\* UTILS_StrToIP gives the four numbers of every address, of any length, from any
\* tokens and for any width of int; UTILS_IsIPV4 takes nothing but four numbers
\* with dots in between, and every address below 256 characters.
THEOREM ParsesAddressesHolds == UtilsSpec => []ParsesAddresses
<1>1. UtilsInv => ParsesAddresses
    BY ParsesAddressesOk
<1> QED
    BY <1>1, UtilsInvariant, PTL

\* A host with fewer dots than three, with a letter before the third, or with a
\* number among four that is above 255 and that an int holds is no address to
\* UTILS_StrToIP, in strings of any length and for any width of int.
THEOREM ResolvesNamesHolds == UtilsSpec => []ResolvesNames
<1>1. UtilsInv => ResolvesNames
    BY ResolvesNamesOk
<1> QED
    BY <1>1, UtilsInvariant, PTL

\* UTILS_Atoh gives the last digits that fit, for every width and every string.
THEOREM AtohReadsHolds == UtilsSpec => []AtohReads
<1>1. UtilsInv => AtohReads
    BY AtohReadsOk
<1> QED
    BY <1>1, UtilsInvariant, PTL
=============================================================================
