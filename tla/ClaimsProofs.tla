----------------------------- MODULE ClaimsProofs -----------------------------
(***************************************************************************)
(* What the loops of claims.go compute, for text and arrays of any length, *)
(* and the induction that it takes.  The library's induction theorems have *)
(* an operator as a parameter; here the induction runs over a set, and the *)
(* body of a loop is a function.                                           *)
(***************************************************************************)
EXTENDS Claims, TLAPS

LOCAL INSTANCE WellFoundedInduction

\* A set of natural numbers that is not empty has a least element.
LEMMA LeastElement ==
    ASSUME NEW T \in SUBSET Nat, T # {}
    PROVE  \E x \in T : \A y \in T : x <= y
<1> DEFINE less == {ss \in Nat \X Nat : ss[1] < ss[2]}
<1>1. IsWellFoundedOn(less, Nat)
  BY NatLessThanWellFounded DEF OpToRel
<1>2. PICK x \in T : \A y \in T : ~(<<y, x>> \in less)
  <2> HIDE DEF less
  <2> QED
    BY <1>1, WFMin, Zenon
<1>3. ASSUME NEW y \in T PROVE x <= y
  <2>1. x \in Nat /\ y \in Nat /\ <<y, x>> \in Nat \X Nat
    OBVIOUS
  <2>2. ~(<<y, x>>[1] < <<y, x>>[2])
    BY <1>2, <2>1, Zenon
  <2> QED
    BY <2>1, <2>2
<1> QED
  BY <1>3

\* Induction: a set with 0 and the successor of each of its numbers has all of them.
LEMMA SetInduction ==
    ASSUME NEW S, 0 \in S, \A n \in Nat : n \in S => n + 1 \in S
    PROVE  \A n \in Nat : n \in S
<1> SUFFICES ASSUME Nat \ S # {} PROVE FALSE
  OBVIOUS
<1>1. PICK x \in Nat \ S : \A y \in Nat \ S : x <= y
  BY LeastElement, Zenon
<1>2. x - 1 \in Nat /\ x - 1 \in S
  BY <1>1
<1> QED
  BY <1>2

\* Induction over the rounds of a loop.
LEMMA LoopInduction ==
    ASSUME NEW N \in Nat, NEW S, 0 \in S, \A i \in 1 .. N : i - 1 \in S => i \in S
    PROVE  \A i \in 0 .. N : i \in S
<1> DEFINE T == {n \in Nat : n <= N => n \in S}
<1>1. 0 \in T
  OBVIOUS
<1>2. ASSUME NEW n \in Nat, n \in T PROVE n + 1 \in T
  BY <1>2
<1>3. \A n \in Nat : n \in T
  <2> HIDE DEF T
  <2> QED
    BY <1>1, <1>2, SetInduction
<1> QED
  BY <1>3

\* g has the states of a loop with N rounds over V: body[i] is what round i does to a state.
LoopBody(body, N, V)     == body \in [1 .. N -> [V -> V]]
Loops(g, first, body, N) == g[0] = first /\ \A i \in 1 .. N : g[i] = body[i][g[i - 1]]

\* A loop has states.
LEMMA LoopExists ==
    ASSUME NEW N \in Nat, NEW V, NEW first \in V, NEW body, LoopBody(body, N, V)
    PROVE  \E g \in [0 .. N -> V] : Loops(g, first, body, N)
<1> USE DEF LoopBody, Loops
<1> DEFINE Runs(g, n) == g[0] = first /\ \A i \in 1 .. n : g[i] = body[i][g[i - 1]]
           S == {n \in Nat : n <= N => \E g \in [0 .. n -> V] : Runs(g, n)}
<1>1. 0 \in S
  <2>1. [i \in 0 .. 0 |-> first] \in [0 .. 0 -> V] /\ Runs([i \in 0 .. 0 |-> first], 0)
    OBVIOUS
  <2> QED
    BY <2>1, Zenon
<1>2. ASSUME NEW n \in Nat, n \in S PROVE n + 1 \in S
  <2> SUFFICES ASSUME n + 1 <= N PROVE \E h \in [0 .. n + 1 -> V] : Runs(h, n + 1)
    OBVIOUS
  <2>1. PICK g \in [0 .. n -> V] : Runs(g, n)
    BY <1>2
  <2> DEFINE h == [i \in 0 .. n + 1 |-> IF i = n + 1 THEN body[n + 1][g[n]] ELSE g[i]]
  <2>2. body[n + 1] \in [V -> V] /\ g[n] \in V
    OBVIOUS
  <2>3. h \in [0 .. n + 1 -> V]
    BY <2>2
  <2>4. h[0] = first /\ \A i \in 1 .. n + 1 : h[i] = body[i][h[i - 1]]
    BY <2>1
  <2> QED
    BY <2>3, <2>4, Zenon
<1>3. N \in S
  <2> HIDE DEF S
  <2> QED
    BY <1>1, <1>2, SetInduction
<1> QED
  BY <1>3

-----------------------------------------------------------------------------
\* What splitScopes' loop works with: the words so far, and where one began, 0 between words.
SplitState(S, s) == [out : Seq(Seq(S)), start : 0 .. Len(s)]

LEMMA SplitStepType ==
    ASSUME NEW S, NEW s \in Seq(S), NEW i \in 1 .. Len(s) + 1, NEW acc \in SplitState(S, s)
    PROVE  SplitStep(s, acc, i) \in SplitState(S, s)
<1>1. Len(s) \in Nat /\ acc.out \in Seq(Seq(S)) /\ acc.start \in 0 .. Len(s)
  BY DEF SplitState
<1>2. ASSUME acc.start > 0 PROVE Append(acc.out, SubSeq(s, acc.start, i - 1)) \in Seq(Seq(S))
  <2>1. \A k \in acc.start .. i - 1 : s[k] \in S
    BY <1>1, <1>2
  <2>2. SubSeq(s, acc.start, i - 1) \in Seq(S)
    BY <1>1, <2>1
  <2> QED
    BY <1>1, <2>2
<1>3. SplitStep(s, acc, i).out \in Seq(Seq(S))
  BY <1>1, <1>2 DEF SplitStep
<1>4. SplitStep(s, acc, i).start \in 0 .. Len(s)
  <2>1. CASE i > Len(s) \/ s[i] = Space
    <3>1. SplitStep(s, acc, i).start = 0
      BY <2>1, Zenon DEF SplitStep
    <3> QED
      BY <1>1, <3>1
  <2>2. CASE ~(i > Len(s) \/ s[i] = Space)
    <3>1. ~(i > Len(s))
      BY <2>2, Zenon
    <3>2. i \in 0 .. Len(s)
      BY <1>1, <3>1
    <3>3. SplitStep(s, acc, i).start = IF acc.start = 0 THEN i ELSE acc.start
      BY <2>2, Zenon DEF SplitStep
    <3> QED
      BY <1>1, <3>2, <3>3
  <2> QED
    BY <2>1, <2>2
<1> QED
  BY <1>3, <1>4 DEF SplitState, SplitStep

LEMMA SplitLoopRuns ==
    ASSUME NEW S, NEW s \in Seq(S)
    PROVE  /\ SplitLoop(s) \in [0 .. Len(s) + 1 -> SplitState(S, s)]
           /\ SplitLoop(s)[0] = [out |-> <<>>, start |-> 0]
           /\ \A i \in 1 .. Len(s) + 1 : SplitLoop(s)[i] = SplitStep(s, SplitLoop(s)[i - 1], i)
<1> DEFINE N == Len(s) + 1
           V == SplitState(S, s)
           first == [out |-> <<>>, start |-> 0]
           body == [i \in 1 .. N |-> [acc \in V |-> SplitStep(s, acc, i)]]
           Unfolds(g) == g = [i \in 0 .. N |-> IF i = 0 THEN first ELSE SplitStep(s, g[i - 1], i)]
<1>1. N \in Nat /\ first \in V
  BY DEF SplitState
<1>2. LoopBody(body, N, V)
  BY SplitStepType DEF LoopBody
<1>3. PICK g \in [0 .. N -> V] : Loops(g, first, body, N)
  <2> HIDE DEF N, V, first, body, Unfolds
  <2> QED
    BY <1>1, <1>2, LoopExists
<1>4. ASSUME NEW i \in 1 .. N PROVE g[i] = SplitStep(s, g[i - 1], i)
  <2>1. g[i - 1] \in V
    <3> HIDE DEF N, V
    <3> QED
      BY <1>1
  <2>2. g[i] = body[i][g[i - 1]]
    BY <1>3, Zenon DEF Loops
  <2> QED
    BY <2>1, <2>2
<1>5. Unfolds(g)
  BY <1>1, <1>3, <1>4 DEF Loops
<1>6. Unfolds(SplitLoop(s))
  <2>1. SplitLoop(s) = CHOOSE h : Unfolds(h)
    BY DEF SplitLoop
  <2> HIDE DEF Unfolds
  <2> QED
    BY <1>5, <2>1
<1> DEFINE loop == SplitLoop(s)
<1>7. loop = [i \in 0 .. N |-> loop[i]] /\ loop[0] = first
  BY <1>1, <1>6
<1>8. ASSUME NEW i \in 1 .. N PROVE loop[i] = SplitStep(s, loop[i - 1], i)
  <2>1. i \in 0 .. N /\ i # 0
    BY <1>1
  <2>2. loop[i] = IF i = 0 THEN first ELSE SplitStep(s, loop[i - 1], i)
    <3> HIDE DEF N, first
    <3> QED
      BY <1>6, <2>1, Zenon
  <2> QED
    BY <2>1, <2>2
<1>9. \A i \in 0 .. N : loop[i] \in V
  <2> DEFINE G == {i \in 0 .. N : loop[i] \in V}
  <2>1. 0 \in G
    BY <1>1, <1>7
  <2>2. ASSUME NEW i \in 1 .. N, i - 1 \in G PROVE i \in G
    BY <1>1, <1>8, <2>2, SplitStepType
  <2>3. \A i \in 0 .. N : i \in G
    <3> HIDE DEF G, N
    <3> QED
      BY <1>1, <2>1, <2>2, LoopInduction, Zenon
  <2> QED
    BY <2>3
<1> QED
  BY <1>7, <1>8, <1>9, Zenon

\* s[a .. b] is a word: no space inside, a space or an end of s on either side.
IsWord(s, a, b) ==
    /\ a <= b
    /\ \A k \in a .. b : s[k] # Space
    /\ a > 1 => s[a - 1] = Space
    /\ b < Len(s) => s[b + 1] = Space

\* The words that end before index i.
WordsBefore(S, s, i) ==
    {w \in Seq(S) : \E a, b \in 1 .. Len(s) : b < i /\ IsWord(s, a, b) /\ w = SubSeq(s, a, b)}

\* The loop after index i has the words that end before i; in a word, start is where it began.
SplitInv(S, s, acc, i) ==
    /\ Range(acc.out) = WordsBefore(S, s, i)
    /\ acc.start = 0 => i = 0 \/ i > Len(s) \/ s[i] = Space
    /\ acc.start > 0 => /\ acc.start <= i /\ i <= Len(s)
                        /\ \A k \in acc.start .. i : s[k] # Space
                        /\ acc.start > 1 => s[acc.start - 1] = Space

LEMMA RangeAppend ==
    ASSUME NEW S, NEW seq \in Seq(S), NEW x \in S
    PROVE  Range(Append(seq, x)) = Range(seq) \cup {x}
<1>1. Append(seq, x) \in Seq(S) /\ Len(Append(seq, x)) = Len(seq) + 1
  OBVIOUS
<1>2. Range(Append(seq, x)) = {Append(seq, x)[i] : i \in 1 .. Len(seq) + 1}
  BY <1>1 DEF Range
<1>3. Range(seq) = {seq[i] : i \in 1 .. Len(seq)}
  BY DEF Range
<1>4. \A i \in 1 .. Len(seq) : Append(seq, x)[i] = seq[i]
  OBVIOUS
<1>5. Append(seq, x)[Len(seq) + 1] = x
  OBVIOUS
<1>6. Len(seq) \in Nat
  OBVIOUS
<1> QED
  BY <1>2, <1>3, <1>4, <1>5, <1>6

\* Two words that end at the same place are the same.
LEMMA WordUnique ==
    ASSUME NEW S, NEW s \in Seq(S), NEW a \in 1 .. Len(s), NEW c \in 1 .. Len(s), NEW b \in 1 .. Len(s),
           a <= b, \A k \in a .. b : s[k] # Space, a > 1 => s[a - 1] = Space,
           c <= b, \A k \in c .. b : s[k] # Space, c > 1 => s[c - 1] = Space
    PROVE  a = c
<1>1. ~(a < c)
  <2> SUFFICES ASSUME a < c PROVE FALSE
    OBVIOUS
  <2>1. c - 1 \in a .. b /\ c > 1
    OBVIOUS
  <2> QED
    BY <2>1
<1>2. ~(c < a)
  <2> SUFFICES ASSUME c < a PROVE FALSE
    OBVIOUS
  <2>1. a - 1 \in c .. b /\ a > 1
    OBVIOUS
  <2> QED
    BY <2>1
<1> QED
  BY <1>1, <1>2

LEMMA SplitStepInv ==
    ASSUME NEW S, NEW s \in Seq(S), NEW i \in 1 .. Len(s) + 1, NEW acc \in SplitState(S, s),
           SplitInv(S, s, acc, i - 1)
    PROVE  SplitInv(S, s, SplitStep(s, acc, i), i)
<1> DEFINE next == SplitStep(s, acc, i)
           start == acc.start
           Ends == {w \in Seq(S) : \E a \in 1 .. Len(s) :
                        i - 1 \in 1 .. Len(s) /\ IsWord(s, a, i - 1) /\ w = SubSeq(s, a, i - 1)}
<1>1. Len(s) \in Nat /\ acc.out \in Seq(Seq(S)) /\ start \in 0 .. Len(s)
  BY DEF SplitState
<1>2. WordsBefore(S, s, i) = WordsBefore(S, s, i - 1) \cup Ends
  <2>1. \A b \in 1 .. Len(s) : b < i <=> b < i - 1 \/ b = i - 1
    BY <1>1
  <2> QED
    BY <2>1, Zenon DEF WordsBefore
<1>3. /\ start = 0 => i - 1 = 0 \/ i - 1 > Len(s) \/ s[i - 1] = Space
      /\ start > 0 => /\ start <= i - 1 /\ i - 1 <= Len(s)
                      /\ \A k \in start .. i - 1 : s[k] # Space
                      /\ start > 1 => s[start - 1] = Space
  BY DEF SplitInv
<1>4. CASE i > Len(s) \/ s[i] = Space
  <2>1. next.start = 0
    BY <1>4 DEF SplitStep
  <2>2. Range(next.out) = WordsBefore(S, s, i)
    <3>1. CASE start > 0
      <4> DEFINE word == SubSeq(s, start, i - 1)
      <4>1. next.out = Append(acc.out, word)
        BY <1>4, <3>1, Zenon DEF SplitStep
      <4>2. \A k \in start .. i - 1 : s[k] \in S
        BY <1>1, <1>3, <3>1
      <4>3. word \in Seq(S)
        BY <1>1, <4>2
      <4>4. Range(next.out) = Range(acc.out) \cup {word}
        <5> HIDE DEF word, next
        <5>1. Range(Append(acc.out, word)) = Range(acc.out) \cup {word}
          BY <1>1, <4>3, RangeAppend
        <5> QED
          BY <4>1, <5>1
      <4>5. IsWord(s, start, i - 1) /\ start \in 1 .. Len(s) /\ i - 1 \in 1 .. Len(s)
        BY <1>1, <1>3, <1>4, <3>1 DEF IsWord
      <4>6. \A a \in 1 .. Len(s) : IsWord(s, a, i - 1) => a = start
        BY <1>1, <4>5, WordUnique DEF IsWord
      <4>7. Ends = {word}
        BY <4>3, <4>5, <4>6, Zenon
      <4> QED
        BY <1>2, <4>4, <4>7, Zenon DEF SplitInv
    <3>2. CASE start = 0
      <4>1. next.out = acc.out
        BY <1>1, <3>2 DEF SplitStep
      <4>2. Ends = {}
        BY <1>1, <1>3, <3>2 DEF IsWord
      <4> QED
        BY <1>2, <4>1, <4>2 DEF SplitInv
    <3> QED
      BY <1>1, <3>1, <3>2
  <2> QED
    BY <1>1, <1>4, <2>1, <2>2 DEF SplitInv
<1>5. CASE ~(i > Len(s) \/ s[i] = Space)
  <2>1. next.out = acc.out /\ next.start = IF start = 0 THEN i ELSE start
    BY <1>5 DEF SplitStep
  <2>2. i \in 1 .. Len(s) /\ s[i] # Space
    BY <1>1, <1>5
  <2>3. Ends = {}
    <3>1. \A a \in 1 .. Len(s) : ~IsWord(s, a, i - 1)
      BY <1>1, <2>2 DEF IsWord
    <3> QED
      BY <3>1
  <2>4. Range(next.out) = WordsBefore(S, s, i)
    BY <1>2, <2>1, <2>3 DEF SplitInv
  <2>5. next.start > 0 => /\ next.start <= i /\ i <= Len(s)
                          /\ \A k \in next.start .. i : s[k] # Space
                          /\ next.start > 1 => s[next.start - 1] = Space
    <3>1. CASE start = 0
      BY <1>1, <1>3, <2>1, <2>2, <3>1
    <3>2. CASE start > 0
      BY <1>1, <1>3, <2>1, <2>2, <3>2
    <3> QED
      BY <1>1, <3>1, <3>2
  <2>6. next.start # 0
    BY <1>1, <2>1, <2>2
  <2> QED
    BY <2>4, <2>5, <2>6 DEF SplitInv
<1> QED
  BY <1>4, <1>5

\* Words, with the pairs of positions taken apart.
LEMMA WordsAre ==
    ASSUME NEW S, NEW s \in Seq(S)
    PROVE  Words(s, {Space}) = WordsBefore(S, s, Len(s) + 1)
<1>1. DOMAIN s = 1 .. Len(s) /\ Len(s) \in Nat
  OBVIOUS
<1> DEFINE Bounds == { q \in (DOMAIN s) \X (DOMAIN s) :
                        /\ q[1] <= q[2] /\ \A i \in q[1] .. q[2] : s[i] \notin {Space}
                        /\ q[1] > 1 => s[q[1] - 1] \in {Space}
                        /\ q[2] < Len(s) => s[q[2] + 1] \in {Space} }
<1>2. Words(s, {Space}) = {SubSeq(s, p[1], p[2]) : p \in Bounds}
  BY DEF Words
<1>3. ASSUME NEW w \in Words(s, {Space}) PROVE w \in WordsBefore(S, s, Len(s) + 1)
  <2>1. PICK p \in Bounds : w = SubSeq(s, p[1], p[2])
    BY <1>2, Zenon
  <2> DEFINE a == p[1]
             b == p[2]
  <2>2. a \in 1 .. Len(s) /\ b \in 1 .. Len(s) /\ IsWord(s, a, b)
    BY <1>1 DEF IsWord
  <2>3. \A k \in a .. b : s[k] \in S
    BY <1>1, <2>2
  <2>4. w \in Seq(S)
    BY <2>1, <2>2, <2>3
  <2>5. b < Len(s) + 1
    BY <1>1, <2>2
  <2> QED
    BY <2>1, <2>2, <2>4, <2>5, Zenon DEF WordsBefore
<1>4. ASSUME NEW w \in WordsBefore(S, s, Len(s) + 1) PROVE w \in Words(s, {Space})
  <2>1. PICK a \in 1 .. Len(s), b \in 1 .. Len(s) : IsWord(s, a, b) /\ w = SubSeq(s, a, b)
    BY DEF WordsBefore
  <2>2. <<a, b>> \in Bounds
    BY <1>1, <2>1 DEF IsWord
  <2>3. w = SubSeq(s, <<a, b>>[1], <<a, b>>[2])
    BY <2>1
  <2> HIDE DEF Bounds
  <2> QED
    BY <1>2, <2>2, <2>3, Zenon
<1> QED
  BY <1>3, <1>4, Zenon

\* claims.go:125-139, splitScopes: for text of any length its result has the words of the
\* text, all of them and no other.
THEOREM SplitScopesWords ==
    ASSUME NEW S, NEW s \in Seq(S)
    PROVE  splitScopes(s) \in Seq(Seq(S)) /\ Range(splitScopes(s)) = Words(s, {Space})
<1> DEFINE loop == SplitLoop(s)
           N == Len(s) + 1
           G == {i \in 0 .. N : SplitInv(S, s, loop[i], i)}
<1>1. N \in Nat /\ Len(s) \in Nat
  OBVIOUS
<1>2. /\ loop \in [0 .. N -> SplitState(S, s)] /\ loop[0] = [out |-> <<>>, start |-> 0]
      /\ \A i \in 1 .. N : loop[i] = SplitStep(s, loop[i - 1], i)
  BY SplitLoopRuns
<1>3. 0 \in G
  <2>1. WordsBefore(S, s, 0) = {}
    BY <1>1 DEF WordsBefore
  <2>2. Range(<<>>) = {}
    BY DEF Range
  <2>3. loop[0].out = <<>> /\ loop[0].start = 0
    BY <1>2
  <2>4. SplitInv(S, s, loop[0], 0)
    <3>1. Range(loop[0].out) = WordsBefore(S, s, 0)
      BY <2>1, <2>2, <2>3, Zenon
    <3>2. loop[0].start = 0 /\ ~(loop[0].start > 0)
      BY <2>3
    <3> HIDE DEF loop
    <3> QED
      BY <3>1, <3>2, Zenon DEF SplitInv
  <2> QED
    BY <1>1, <2>4
<1>4. ASSUME NEW i \in 1 .. N, i - 1 \in G PROVE i \in G
  <2>1. loop[i - 1] \in SplitState(S, s) /\ SplitInv(S, s, loop[i - 1], i - 1)
    BY <1>1, <1>2, <1>4
  <2> QED
    BY <1>1, <1>2, <2>1, SplitStepInv
<1>5. \A i \in 0 .. N : i \in G
  <2> HIDE DEF N, G
  <2> QED
    BY <1>1, <1>3, <1>4, LoopInduction
<1>6. SplitInv(S, s, loop[N], N) /\ loop[N] \in SplitState(S, s)
  BY <1>1, <1>2, <1>5
<1>7. splitScopes(s) = loop[N].out
  BY DEF splitScopes
<1> QED
  BY <1>6, <1>7, WordsAre, Zenon DEF SplitInv, SplitState

-----------------------------------------------------------------------------
\* The texts of the strings among the first i values.
StringsBefore(of, i) == {of[k].s : k \in {j \in 1 .. i : IsString(of[j])}}

\* claims.go:107-113, the loop over an array scp: it collects the strings in the array, in
\* an array of any length.
THEOREM StringsCollected ==
    ASSUME NEW V, NEW of \in Seq(V)
    PROVE  Range(Strings(of)) = {v.s : v \in {x \in Range(of) : IsString(x)}}
<1> DEFINE N == Len(of)
           T == {v.s : v \in V}
           Step(acc, i) == IF IsString(of[i]) THEN Append(acc, of[i].s) ELSE acc
           body == [i \in 1 .. N |-> [acc \in Seq(T) |-> Step(acc, i)]]
           Unfolds(g) == g = [i \in 0 .. N |-> IF i = 0 THEN <<>> ELSE Step(g[i - 1], i)]
           loop == StringsLoop(of)
<1>1. N \in Nat /\ <<>> \in Seq(T)
  OBVIOUS
<1>2. ASSUME NEW i \in 1 .. N, NEW acc \in Seq(T)
      PROVE  /\ Step(acc, i) \in Seq(T)
             /\ Range(Step(acc, i)) = Range(acc) \cup (IF IsString(of[i]) THEN {of[i].s} ELSE {})
  <2>1. of[i].s \in T
    OBVIOUS
  <2>2. Append(acc, of[i].s) \in Seq(T) /\ Range(Append(acc, of[i].s)) = Range(acc) \cup {of[i].s}
    BY <2>1, RangeAppend
  <2> QED
    BY <2>2
<1> HIDE DEF T
<1>3. LoopBody(body, N, Seq(T))
  <2> HIDE DEF Step
  <2> QED
    BY <1>2 DEF LoopBody
<1>4. PICK g \in [0 .. N -> Seq(T)] : Loops(g, <<>>, body, N)
  <2> HIDE DEF N, body, Unfolds
  <2> QED
    BY <1>1, <1>3, LoopExists, Zenon
<1>5. ASSUME NEW i \in 1 .. N PROVE g[i] = Step(g[i - 1], i)
  <2>1. g[i - 1] \in Seq(T)
    BY <1>1
  <2>2. g[i] = body[i][g[i - 1]]
    BY <1>4, Zenon DEF Loops
  <2> HIDE DEF Step
  <2> QED
    BY <2>1, <2>2
<1>6. Unfolds(g)
  <2> HIDE DEF Step
  <2> QED
    BY <1>1, <1>4, <1>5 DEF Loops
<1>7. Unfolds(loop)
  <2>1. loop = CHOOSE h : Unfolds(h)
    BY DEF StringsLoop
  <2> HIDE DEF Unfolds
  <2> QED
    BY <1>6, <2>1
<1>8. loop[0] = <<>>
  BY <1>1, <1>7
<1>9. ASSUME NEW i \in 1 .. N PROVE loop[i] = Step(loop[i - 1], i)
  <2>1. i \in 0 .. N /\ i # 0
    BY <1>1
  <2>2. loop[i] = IF i = 0 THEN <<>> ELSE Step(loop[i - 1], i)
    <3> HIDE DEF N, Step
    <3> QED
      BY <1>7, <2>1, Zenon
  <2> QED
    BY <2>1, <2>2
<1> HIDE DEF Step, loop
<1> DEFINE G == {i \in 0 .. N : loop[i] \in Seq(T) /\ Range(loop[i]) = StringsBefore(of, i)}
<1>10. 0 \in G
  <2>1. Range(<<>>) = {} /\ StringsBefore(of, 0) = {}
    BY DEF Range, StringsBefore
  <2>2. loop[0] \in Seq(T) /\ Range(loop[0]) = StringsBefore(of, 0)
    BY <1>1, <1>8, <2>1, Zenon
  <2> QED
    BY <1>1, <2>2
<1>11. ASSUME NEW i \in 1 .. N, i - 1 \in G PROVE i \in G
  <2>1. loop[i - 1] \in Seq(T) /\ Range(loop[i - 1]) = StringsBefore(of, i - 1)
    BY <1>11
  <2>2. StringsBefore(of, i) = StringsBefore(of, i - 1) \cup (IF IsString(of[i]) THEN {of[i].s} ELSE {})
    <3>1. \A k \in Nat : k \in 1 .. i <=> k \in 1 .. i - 1 \/ k = i
      BY <1>1
    <3> QED
      BY <1>1, <3>1 DEF StringsBefore
  <2>3. /\ Step(loop[i - 1], i) \in Seq(T)
        /\ Range(Step(loop[i - 1], i)) = StringsBefore(of, i)
    BY <1>2, <2>1, <2>2
  <2>4. loop[i] \in Seq(T) /\ Range(loop[i]) = StringsBefore(of, i)
    BY <1>9, <2>3, Zenon
  <2> QED
    BY <1>1, <2>4
<1>12. \A i \in 0 .. N : i \in G
  <2> HIDE DEF N, G
  <2> QED
    BY <1>1, <1>10, <1>11, LoopInduction, Zenon
<1>13. Range(Strings(of)) = StringsBefore(of, N)
  BY <1>1, <1>12 DEF Strings, loop
<1>14. StringsBefore(of, N) = {v.s : v \in {x \in Range(of) : IsString(x)}}
  <2>1. DOMAIN of = 1 .. N
    OBVIOUS
  <2> QED
    BY <2>1 DEF StringsBefore, Range
<1> QED
  BY <1>13, <1>14

\* claims.go:101-121, scopesFromToken: in either form of the claim, and whatever else the
\* token has, the scopes are those the issuer granted.
THEOREM ScopesGranted ==
    ASSUME NEW private, \A n \in DOMAIN private : IsValue(private[n])
    PROVE  Range(scopesFromToken(private)) = GrantedScopes(private)
<1>1. CASE HasTyped(private, "scp", "array")
  <2>1. private["scp"].of \in Seq(Range(private["scp"].of))
    BY <1>1 DEF HasTyped, IsValue
  <2>2. Range(Strings(private["scp"].of)) = {v.s : v \in {x \in Range(private["scp"].of) : IsString(x)}}
    BY <2>1, StringsCollected
  <2> QED
    BY <1>1, <2>2, Zenon DEF scopesFromToken, GrantedScopes
<1>2. CASE ~HasTyped(private, "scp", "array") /\ HasTyped(private, "scope", "string")
  <2>1. private["scope"].s \in Seq(Range(private["scope"].s))
    BY <1>2 DEF HasTyped, IsValue
  <2>2. Range(splitScopes(private["scope"].s)) = Words(private["scope"].s, {Space})
    BY <2>1, SplitScopesWords, Zenon
  <2> QED
    BY <1>2, <2>2, Zenon DEF scopesFromToken, GrantedScopes
<1>3. CASE ~HasTyped(private, "scp", "array") /\ ~HasTyped(private, "scope", "string")
  <2>1. scopesFromToken(private) = <<>> /\ GrantedScopes(private) = {}
    BY <1>3, Zenon DEF scopesFromToken, GrantedScopes
  <2> QED
    BY <2>1 DEF Range
<1> QED
  BY <1>1, <1>2, <1>3

LEMMA ClaimsRecord ==
    ASSUME NEW s, NEW i, NEW a, NEW e, NEW m, NEW sc, NEW co, NEW r
    PROVE  LET cs == [Subject |-> s, Issuer |-> i, Audience |-> a, ExpiresAt |-> e, Email |-> m,
                      Scopes |-> sc, Confirmation |-> co, Raw |-> r]
           IN  cs.Subject = s /\ cs.Issuer = i /\ cs.Email = m /\ cs.Scopes = sc /\ cs.Raw = r
  OBVIOUS

\* The fields of the claims that policies read.
LEMMA ClaimsFields ==
    ASSUME NEW t
    PROVE  /\ claimsFromToken(t).Subject = t.sub /\ claimsFromToken(t).Issuer = t.iss
           /\ claimsFromToken(t).Email =
                 IF HasTyped(t.private, "email", "string") THEN t.private["email"].s ELSE <<>>
           /\ claimsFromToken(t).Scopes = scopesFromToken(t.private)
           /\ claimsFromToken(t).Raw =
                 [k \in {n \in DOMAIN t.private \ Extracted : IsString(t.private[n])} |-> t.private[k].s]
  BY ClaimsRecord, Zenon DEF claimsFromToken
=============================================================================
