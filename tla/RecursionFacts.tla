--------------------------- MODULE RecursionFacts --------------------------
(***************************************************************************)
(* Recursive functions over 1..n and 0..n, by least counterexamples: what  *)
(* FlattenSeq of the community modules is, one element at a time, and what *)
(* a function defined from its own previous value is.                      *)
(***************************************************************************)
EXTENDS Integers, SequencesExt, SequenceTheorems, WellFoundedInduction, TLAPS

\* A set of natural numbers that is not empty has a least element.
LEMMA LeastElement ==
    ASSUME NEW S \in SUBSET Nat, S # {}
    PROVE  \E least \in S : \A k \in S : least <= k
<1> DEFINE R == OpToRel(<, Nat)
<1>1. IsWellFoundedOn(R, Nat)
  BY NatLessThanWellFounded
<1> HIDE DEF R
<1>2. PICK least \in S : \A k \in S : ~ (<<k, least>> \in R)
  BY <1>1, WFMin
<1>3. ASSUME NEW k \in S PROVE least <= k
  <2>1. k \in Nat /\ least \in Nat
    OBVIOUS
  <2>2. ~ (<<k, least>> \in R)
    BY <1>2
  <2>3. k < least => <<k, least>> \in R
    BY <2>1 DEF R, OpToRel
  <2> QED
    BY <2>1, <2>2, <2>3
<1> QED
  BY <1>3

----------------------------------------------------------------------------
(* FlattenSeq                                                              *)

\* f is the function inside FlattenSeq, for the first n elements of s.
Flattens(f, s, n) ==
    f = [i \in 1..n |-> IF i = 1 THEN s[i] ELSE f[i - 1] \o s[i]]

\* There is one, for every n.
LEMMA FlattenExists ==
    ASSUME NEW s, NEW n \in Nat
    PROVE  \E f : Flattens(f, s, n)
<1> DEFINE Bad == {m \in Nat : ~ \E f : Flattens(f, s, m)}
<1> SUFFICES Bad = {}
  OBVIOUS
<1>1. SUFFICES ASSUME Bad # {} PROVE FALSE
  OBVIOUS
<1>2. PICK m \in Bad : \A k \in Bad : m <= k
  <2>1. Bad \in SUBSET Nat
    OBVIOUS
  <2> HIDE DEF Bad
  <2> QED
    BY <1>1, <2>1, LeastElement
<1>3. m \in Nat /\ ~ \E f : Flattens(f, s, m)
  OBVIOUS
<1>4. CASE m = 0
  <2> DEFINE f == [i \in 1..0 |-> s[i]]
  <2>1. Flattens(f, s, 0)
    BY DEF Flattens
  <2> QED
    BY <1>3, <1>4, <2>1
<1>5. CASE m > 0
  <2>1. m - 1 \in Nat /\ m - 1 \notin Bad
    <3> HIDE DEF Bad
    <3> QED
      BY <1>2, <1>3, <1>5
  <2>2. PICK f : Flattens(f, s, m - 1)
    BY <2>1
  <2> DEFINE g == [i \in 1..m |-> IF i < m THEN f[i]
                                   ELSE IF m = 1 THEN s[m] ELSE f[m - 1] \o s[m]]
  <2>3. \A i \in 1..(m - 1) : f[i] = IF i = 1 THEN s[i] ELSE f[i - 1] \o s[i]
    BY <2>2 DEF Flattens
  <2>4. \A i \in 1..m : g[i] = IF i = 1 THEN s[i] ELSE g[i - 1] \o s[i]
    <3> SUFFICES ASSUME NEW i \in 1..m
                 PROVE  g[i] = IF i = 1 THEN s[i] ELSE g[i - 1] \o s[i]
      OBVIOUS
    <3>1. CASE i < m
      <4>1. i \in 1..(m - 1) /\ g[i] = f[i]
        BY <1>3, <3>1
      <4>2. i # 1 => i - 1 \in 1..m /\ i - 1 < m
        BY <1>3, <3>1
      <4>3. i # 1 => g[i - 1] = f[i - 1]
        BY <4>2
      <4> QED
        BY <2>3, <4>1, <4>3
    <3>2. CASE i = m
      <4>1. m # 1 => m - 1 \in 1..m /\ m - 1 < m
        BY <1>3, <1>5
      <4>2. m # 1 => g[m - 1] = f[m - 1]
        BY <4>1
      <4>3. g[m] = IF m = 1 THEN s[m] ELSE f[m - 1] \o s[m]
        BY <1>3, <1>5
      <4> QED
        BY <3>2, <4>2, <4>3
    <3> QED
      BY <1>3, <3>1, <3>2
  <2>5. g = [i \in 1..m |-> IF i = 1 THEN s[i] ELSE g[i - 1] \o s[i]]
    <3>1. g = [i \in 1..m |-> g[i]]
      OBVIOUS
    <3> HIDE DEF g
    <3> QED
      BY <2>4, <3>1
  <2>6. Flattens(g, s, m)
    <3> HIDE DEF g
    <3> QED
      BY <2>5 DEF Flattens
  <2> QED
    BY <1>3, <2>6
<1> QED
  BY <1>3, <1>4, <1>5

\* Two sequences that begin alike are flattened alike so far.
LEMMA FlattenAgrees ==
    ASSUME NEW s, NEW t, NEW n \in Nat, \A i \in 1..n : s[i] = t[i],
           NEW f, Flattens(f, s, n), NEW g, Flattens(g, t, n + 1)
    PROVE  \A i \in 1..n : f[i] = g[i]
<1> DEFINE Bad == {i \in 1..n : f[i] # g[i]}
<1> SUFFICES ASSUME Bad # {} PROVE FALSE
  OBVIOUS
<1>1. PICK i \in Bad : \A k \in Bad : i <= k
  <2>1. Bad \in SUBSET Nat
    OBVIOUS
  <2> HIDE DEF Bad
  <2> QED
    BY <2>1, LeastElement
<1>2. i \in 1..n /\ f[i] # g[i] /\ i \in 1..(n + 1)
  OBVIOUS
<1>3. /\ f[i] = IF i = 1 THEN s[i] ELSE f[i - 1] \o s[i]
      /\ g[i] = IF i = 1 THEN t[i] ELSE g[i - 1] \o t[i]
  BY <1>2 DEF Flattens
<1>4. i # 1 => f[i - 1] = g[i - 1]
  <2>1. i - 1 \notin Bad
    <3> HIDE DEF Bad
    <3> QED
      BY <1>1, <1>2
  <2>2. i # 1 => i - 1 \in 1..n
    BY <1>2
  <2> QED
    BY <2>1, <2>2
<1> QED
  BY <1>2, <1>3, <1>4

\* FlattenSeq is the last value of such a function.
LEMMA FlattenIs ==
    ASSUME NEW s, Len(s) \in Nat \ {0}
    PROVE  \E f : Flattens(f, s, Len(s)) /\ FlattenSeq(s) = f[Len(s)]
<1> DEFINE flatten[i \in 1..Len(s)] ==
             IF i = 1 THEN s[i] ELSE flatten[i - 1] \o s[i]
<1>1. \E h : h = [i \in 1..Len(s) |-> IF i = 1 THEN s[i] ELSE h[i - 1] \o s[i]]
  BY FlattenExists DEF Flattens
<1>2. flatten = [i \in 1..Len(s) |-> IF i = 1 THEN s[i] ELSE flatten[i - 1] \o s[i]]
  BY <1>1
<1>3. FlattenSeq(s) = flatten[Len(s)]
  BY DEF FlattenSeq
<1> HIDE DEF flatten
<1> QED
  BY <1>2, <1>3 DEF Flattens

\* The value of such a function is a sequence over what the elements of s are.
LEMMA FlattensType ==
    ASSUME NEW S, NEW s \in Seq(Seq(S)), NEW n \in Nat, n <= Len(s),
           NEW f, Flattens(f, s, n)
    PROVE  \A i \in 1..n : f[i] \in Seq(S)
<1> DEFINE Bad == {i \in 1..n : f[i] \notin Seq(S)}
<1> SUFFICES ASSUME Bad # {} PROVE FALSE
  OBVIOUS
<1>1. PICK i \in Bad : \A k \in Bad : i <= k
  <2>1. Bad \in SUBSET Nat
    OBVIOUS
  <2> HIDE DEF Bad
  <2> QED
    BY <2>1, LeastElement
<1>2. i \in 1..n /\ f[i] \notin Seq(S) /\ s[i] \in Seq(S)
  OBVIOUS
<1>3. f[i] = IF i = 1 THEN s[i] ELSE f[i - 1] \o s[i]
  BY <1>2 DEF Flattens
<1>4. i # 1 => f[i - 1] \in Seq(S)
  <2>1. i - 1 \notin Bad
    <3> HIDE DEF Bad
    <3> QED
      BY <1>1, <1>2
  <2>2. i # 1 => i - 1 \in 1..n
    BY <1>2
  <2> QED
    BY <2>1, <2>2
<1> QED
  BY <1>2, <1>3, <1>4

\* Nothing flattened is nothing.
LEMMA FlattenEmpty == FlattenSeq(<< >>) = << >>
BY DEF FlattenSeq

\* What is flattened is a sequence over what its parts are.
LEMMA FlattenType ==
    ASSUME NEW S, NEW s \in Seq(Seq(S))
    PROVE  FlattenSeq(s) \in Seq(S)
<1>1. CASE Len(s) = 0
  BY <1>1 DEF FlattenSeq
<1>2. CASE Len(s) # 0
  <2>1. PICK f : Flattens(f, s, Len(s)) /\ FlattenSeq(s) = f[Len(s)]
    BY <1>2, FlattenIs
  <2>2. f[Len(s)] \in Seq(S)
    BY <1>2, <2>1, FlattensType
  <2> QED
    BY <2>1, <2>2
<1> QED
  BY <1>1, <1>2

\* A sequence one longer is flattened to one part more.
LEMMA FlattenNext ==
    ASSUME NEW s, NEW t, NEW n \in Nat \ {0}, Len(s) = n, Len(t) = n + 1,
           \A i \in 1..n : s[i] = t[i]
    PROVE  FlattenSeq(t) = FlattenSeq(s) \o t[n + 1]
<1>1. PICK f : Flattens(f, s, n) /\ FlattenSeq(s) = f[n]
  BY FlattenIs
<1>2. PICK g : Flattens(g, t, n + 1) /\ FlattenSeq(t) = g[n + 1]
  <2>1. Len(t) \in Nat \ {0}
    OBVIOUS
  <2>2. \E g : Flattens(g, t, Len(t)) /\ FlattenSeq(t) = g[Len(t)]
    BY <2>1, FlattenIs
  <2> QED
    BY <2>2
<1>3. \A i \in 1..n : f[i] = g[i]
  BY <1>1, <1>2, FlattenAgrees
<1>4. g[n + 1] = g[n] \o t[n + 1]
  <2>1. n + 1 \in 1..(n + 1) /\ (n + 1) - 1 = n /\ n + 1 # 1
    OBVIOUS
  <2> QED
    BY <1>2, <2>1 DEF Flattens
<1>5. n \in 1..n
  OBVIOUS
<1> QED
  BY <1>1, <1>2, <1>3, <1>4, <1>5

\* A part added at the end is added to what is flattened.
LEMMA FlattenSnoc ==
    ASSUME NEW S, NEW s \in Seq(Seq(S)), NEW e \in Seq(S)
    PROVE  FlattenSeq(Append(s, e)) = FlattenSeq(s) \o e
<1>1. CASE s = << >>
  <2>1. Append(s, e) = <<e>>
    BY <1>1
  <2>2. PICK f : Flattens(f, <<e>>, Len(<<e>>)) /\ FlattenSeq(<<e>>) = f[Len(<<e>>)]
    <3>1. Len(<<e>>) \in Nat \ {0}
      OBVIOUS
    <3> QED
      BY <3>1, FlattenIs
  <2>3. Len(<<e>>) = 1 /\ <<e>>[1] = e /\ 1 \in 1..1
    OBVIOUS
  <2>4. f[1] = e
    BY <2>2, <2>3 DEF Flattens
  <2>5. FlattenSeq(s) \o e = e
    BY <1>1, FlattenEmpty
  <2> QED
    BY <2>1, <2>2, <2>3, <2>4, <2>5
<1>2. CASE s # << >>
  <2>1. Len(s) \in Nat \ {0}
    BY <1>2
  <2>2. /\ Len(Append(s, e)) = Len(s) + 1 /\ Append(s, e)[Len(s) + 1] = e
        /\ \A i \in 1..Len(s) : s[i] = Append(s, e)[i]
    OBVIOUS
  <2> QED
    BY <2>1, <2>2, FlattenNext
<1> QED
  BY <1>1, <1>2
=============================================================================
