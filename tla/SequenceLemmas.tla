---------------------------- MODULE SequenceLemmas ----------------------------
(***************************************************************************)
(* What the loops of Subsequences and FlattenSeq return, for a sequence of *)
(* any length, and what it is to arrange a finite set.                     *)
(*                                                                         *)
(* The provers cannot instantiate a theorem with an operator parameter, as *)
(* those of induction are.  Here an induction is over a set of numbers     *)
(* (UpTo), which follows from that every set of numbers has a least one,   *)
(* and a recursive function is made of a step that is a function           *)
(* (RecursiveFunction).                                                    *)
(***************************************************************************)
EXTENDS Subsequences, SequencesExt, SequenceTheorems, FiniteSetTheorems,
        WellFoundedInduction, TLAPS

LessThan == {pair \in Nat \X Nat : pair[1] < pair[2]}

LEMMA LeastElement ==
  ASSUME NEW T \in SUBSET Nat, T # {}
  PROVE  \E least \in T : \A x \in T : least <= x
<1>1. IsWellFoundedOn(LessThan, Nat)
  BY NatLessThanWellFounded DEF OpToRel, LessThan
<1>2. PICK least \in T : \A x \in T : ~(<<x, least>> \in LessThan)
  BY <1>1, WFMin
<1>3. ASSUME NEW x \in T PROVE least <= x
  <2>1. <<x, least>> \in Nat \X Nat /\ ~(x < least)
    BY <1>2 DEF LessThan
  <2> QED BY <2>1
<1> QED BY <1>3

LEMMA GreatestElement ==
  ASSUME NEW n \in Nat, NEW T \in SUBSET (0..n), T # {}
  PROVE  \E greatest \in T : \A x \in T : x <= greatest
<1> DEFINE Above == {k \in 0..n : n - k \in T}
<1>1. Above \in SUBSET Nat /\ Above # {}
  <2>1. PICK x \in T : x \in 0..n
    OBVIOUS
  <2>2. n - x \in 0..n /\ n - (n - x) = x
    BY <2>1
  <2>3. n - x \in Above
    BY <2>1, <2>2
  <2>4. Above \subseteq Nat
    OBVIOUS
  <2> HIDE DEF Above
  <2> QED BY <2>3, <2>4
<1>2. PICK k \in Above : \A j \in Above : k <= j
  BY <1>1, LeastElement
<1>3. \A x \in T : n - x \in Above
  OBVIOUS
<1>4. n - k \in T /\ \A x \in T : x <= n - k
  BY <1>2, <1>3
<1> QED BY <1>4

(* Induction on the numbers up to n. *)
LEMMA UpTo ==
  ASSUME NEW n \in Nat, NEW T, 0 \in T, \A i \in 1..n : i - 1 \in T => i \in T
  PROVE  \A i \in 0..n : i \in T
<1> DEFINE Missing == {i \in 0..n : i \notin T}
<1> SUFFICES ASSUME Missing # {} PROVE FALSE
  OBVIOUS
<1>1. PICK i \in Missing : \A j \in Missing : i <= j
  <2>1. Missing \in SUBSET Nat
    OBVIOUS
  <2> HIDE DEF Missing
  <2> QED BY <2>1, LeastElement
<1>2. i \in 1..n /\ i - 1 \notin Missing /\ i - 1 \in 0..n
  BY <1>1
<1> QED BY <1>2

(* f is what step makes of base, again and again. *)
Iterates(f, n, S, base, step) ==
  /\ f \in [0..n -> S] /\ f[0] = base
  /\ \A i \in 1..n : f[i] = step[<<i, f[i - 1]>>]

LEMMA RecursiveFunction ==
  ASSUME NEW n \in Nat, NEW S, NEW base \in S, NEW step \in [(1..n) \X S -> S]
  PROVE  \E f : Iterates(f, n, S, base, step)
<1> DEFINE Computed(k, f) == f[0] = base /\ \A i \in 1..k : f[i] = step[<<i, f[i - 1]>>]
           T == {k \in 0..n : \E f \in [0..k -> S] : Computed(k, f)}
<1>1. 0 \in T
  <2> DEFINE f == [i \in 0..0 |-> base]
  <2>1. f \in [0..0 -> S] /\ f[0] = base
    OBVIOUS
  <2>2. 0 \in 0..n /\ 1..0 = {}
    OBVIOUS
  <2> QED BY <2>1, <2>2
<1>2. ASSUME NEW k \in 1..n, k - 1 \in T
      PROVE  k \in T
  <2>1. PICK f \in [0..k - 1 -> S] : Computed(k - 1, f)
    BY <1>2
  <2> DEFINE g == [i \in 0..k |-> IF i = k THEN step[<<k, f[k - 1]>>] ELSE f[i]]
  <2>2. g \in [0..k -> S]
    <3>1. f[k - 1] \in S /\ <<k, f[k - 1]>> \in (1..n) \X S
      BY <2>1
    <3> QED BY <3>1, <2>1
  <2>3. g[0] = base
    BY <2>1
  <2>4. ASSUME NEW i \in 1..k PROVE g[i] = step[<<i, g[i - 1]>>]
    <3>1. i - 1 \in 0..k /\ i - 1 # k /\ i \in 0..k
      OBVIOUS
    <3>2. g[i - 1] = f[i - 1]
      BY <3>1
    <3>3. CASE i = k
      BY <3>1, <3>2, <3>3
    <3>4. CASE i # k
      <4>1. i \in 1..k - 1
        BY <3>4
      <4>2. g[i] = f[i]
        BY <3>4
      <4> QED BY <4>1, <4>2, <3>2, <2>1
    <3> QED BY <3>3, <3>4
  <2>5. k \in 0..n
    OBVIOUS
  <2> HIDE DEF g
  <2> QED BY <2>2, <2>3, <2>4, <2>5
<1>3. n \in T
  <2> HIDE DEF T
  <2> QED BY <1>1, <1>2, UpTo
<1> QED BY <1>3 DEF Iterates

-----------------------------------------------------------------------------
(* ElementsAt. *)

LEMMA ElementsAtDef ==
  ASSUME NEW S, NEW s \in Seq(S), NEW I
  PROVE  \E appended \in [0..Len(s) -> Seq(S)] :
           /\ ElementsAt(s, I) = appended[Len(s)]
           /\ appended[0] = << >>
           /\ \A n \in 1..Len(s) :
                appended[n] = IF n \in I THEN Append(appended[n - 1], s[n]) ELSE appended[n - 1]
<1> DEFINE step == [p \in (1..Len(s)) \X Seq(S) |->
                      IF p[1] \in I THEN Append(p[2], s[p[1]]) ELSE p[2]]
           Def(f) == f = [n \in 0..Len(s) |->
                            IF n = 0 THEN << >>
                            ELSE IF n \in I THEN Append(f[n - 1], s[n]) ELSE f[n - 1]]
<1>1. << >> \in Seq(S) /\ Len(s) \in Nat
  OBVIOUS
<1>2. step \in [(1..Len(s)) \X Seq(S) -> Seq(S)]
  OBVIOUS
<1>3. PICK f : Iterates(f, Len(s), Seq(S), << >>, step)
  <2> HIDE DEF step
  <2> QED BY <1>1, <1>2, RecursiveFunction
<1>3a. /\ f \in [0..Len(s) -> Seq(S)] /\ f[0] = << >>
      /\ \A n \in 1..Len(s) : f[n] = step[<<n, f[n - 1]>>]
  <2> HIDE DEF step
  <2> QED BY <1>3 DEF Iterates
<1>4. ASSUME NEW n \in 1..Len(s)
      PROVE  f[n] = IF n \in I THEN Append(f[n - 1], s[n]) ELSE f[n - 1]
  <2>1. n - 1 \in 0..Len(s) /\ f[n - 1] \in Seq(S)
    BY <1>3a
  <2>2. step[<<n, f[n - 1]>>] = IF n \in I THEN Append(f[n - 1], s[n]) ELSE f[n - 1]
    BY <2>1
  <2> QED BY <1>3a, <2>2
<1>5. Def(f)
  <2>1. \A n \in 0..Len(s) : n # 0 => n \in 1..Len(s)
    OBVIOUS
  <2> QED BY <1>3a, <1>4, <2>1
<1> DEFINE g == CHOOSE g : Def(g)
<1>6. Def(g) /\ ElementsAt(s, I) = g[Len(s)]
  <2>1. Def(g)
    BY <1>5
  <2> QED BY <2>1 DEF ElementsAt
<1>7. \A n \in 0..Len(s) : g[n] = f[n]
  <2> DEFINE T == {n \in 0..Len(s) : g[n] = f[n]}
  <2> HIDE DEF g
  <2>1. 0 \in T
    BY <1>6, <1>3a, <1>1
  <2>2. ASSUME NEW n \in 1..Len(s), n - 1 \in T PROVE n \in T
    <3>1. n \in 0..Len(s) /\ n # 0 /\ g[n - 1] = f[n - 1]
      BY <2>2
    <3>2. g[n] = IF n \in I THEN Append(g[n - 1], s[n]) ELSE g[n - 1]
      BY <3>1, <1>6
    <3> QED BY <3>1, <3>2, <1>4
  <2>3. \A n \in 0..Len(s) : n \in T
    <3> HIDE DEF T
    <3> QED BY <1>1, <2>1, <2>2, UpTo
  <2> QED BY <2>3
<1>8. ElementsAt(s, I) = f[Len(s)]
  BY <1>6, <1>7, <1>1
<1> QED BY <1>3a, <1>4, <1>8

(* The element at j of the result is the one at at[j] of the sequence. *)
Indexes(e, s, I, at) ==
  /\ at \in [1..Len(e) -> I]
  /\ \A i \in I : \E j \in 1..Len(e) : at[j] = i
  /\ \A j, k \in 1..Len(e) : j < k => at[j] < at[k]
  /\ \A j \in 1..Len(e) : e[j] = s[at[j]]

LEMMA ElementsAtIndexes ==
  ASSUME NEW S, NEW s \in Seq(S), NEW I \in SUBSET DOMAIN s
  PROVE  /\ ElementsAt(s, I) \in Seq(S)
         /\ \E at : Indexes(ElementsAt(s, I), s, I, at)
<1>1. PICK f \in [0..Len(s) -> Seq(S)] :
        /\ ElementsAt(s, I) = f[Len(s)]
        /\ f[0] = << >>
        /\ \A n \in 1..Len(s) : f[n] = IF n \in I THEN Append(f[n - 1], s[n]) ELSE f[n - 1]
  BY ElementsAtDef
<1> DEFINE Below(n) == I \cap (1..n)
           T == {n \in 0..Len(s) : \E at : Indexes(f[n], s, Below(n), at)}
<1>2. Len(s) \in Nat /\ DOMAIN s = 1..Len(s)
  OBVIOUS
<1>3. 0 \in T
  <2>1. Indexes(<< >>, s, Below(0), << >>)
    <3>1. Below(0) = {} /\ 1..0 = {} /\ Len(<< >>) = 0
      OBVIOUS
    <3> QED BY <3>1 DEF Indexes
  <2> QED BY <1>1, <1>2, <2>1
<1>4. ASSUME NEW n \in 1..Len(s), n - 1 \in T PROVE n \in T
  <2>1. PICK at : Indexes(f[n - 1], s, Below(n - 1), at)
    BY <1>4
  <2>2. f[n - 1] \in Seq(S) /\ n \in 0..Len(s)
    BY <1>1
  <2>3. CASE n \notin I
    <3>1. f[n] = f[n - 1] /\ Below(n) = Below(n - 1)
      BY <2>3, <1>1, <1>2
    <3> QED BY <2>1, <2>2, <3>1
  <2>4. CASE n \in I
    <3> DEFINE k == Len(f[n - 1])
               more == [j \in 1..k + 1 |-> IF j = k + 1 THEN n ELSE at[j]]
    <3>1. f[n] = Append(f[n - 1], s[n]) /\ k \in Nat /\ Len(f[n]) = k + 1
      <4>1. f[n] = Append(f[n - 1], s[n])
        BY <2>4, <1>1
      <4>2. s[n] \in S
        OBVIOUS
      <4> QED BY <4>1, <4>2, <2>2, AppendProperties
    <3>2. Below(n) = Below(n - 1) \cup {n} /\ \A i \in Below(n - 1) : i < n
      BY <2>4, <1>2
    <3>3. Indexes(f[n], s, Below(n), more)
      <4> HIDE DEF Below
      <4>1. more \in [1..Len(f[n]) -> Below(n)]
        BY <3>1, <3>2, <2>1 DEF Indexes
      <4>2. ASSUME NEW i \in Below(n) PROVE \E j \in 1..Len(f[n]) : more[j] = i
        <5>1. CASE i = n
          <6>1. k + 1 \in 1..Len(f[n]) /\ more[k + 1] = n
            BY <3>1
          <6> QED BY <5>1, <6>1
        <5>2. CASE i # n
          <6>1. PICK j \in 1..k : at[j] = i
            BY <5>2, <3>2, <2>1 DEF Indexes
          <6>2. j \in 1..k + 1 /\ j # k + 1
            BY <3>1, <6>1
          <6> QED BY <6>1, <6>2, <3>1
        <5> QED BY <5>1, <5>2
      <4>3. ASSUME NEW j \in 1..Len(f[n]), NEW l \in 1..Len(f[n]), j < l
            PROVE  more[j] < more[l]
        <5>1. j \in 1..k /\ more[j] = at[j] /\ at[j] \in Below(n - 1)
          BY <4>3, <3>1, <2>1 DEF Indexes
        <5>2. CASE l = k + 1
          BY <5>1, <5>2, <3>1, <3>2
        <5>3. CASE l # k + 1
          <6>1. l \in 1..k /\ more[l] = at[l]
            BY <4>3, <5>3, <3>1
          <6> QED BY <4>3, <5>1, <6>1, <2>1 DEF Indexes
        <5> QED BY <5>2, <5>3
      <4>4. ASSUME NEW j \in 1..Len(f[n]) PROVE f[n][j] = s[more[j]]
        <5>1. CASE j = k + 1
          BY <5>1, <3>1, <2>2
        <5>2. CASE j # k + 1
          <6>1. j \in 1..k /\ more[j] = at[j] /\ f[n][j] = f[n - 1][j]
            BY <5>2, <3>1, <2>2
          <6> QED BY <6>1, <2>1 DEF Indexes
        <5> QED BY <5>1, <5>2
      <4> HIDE DEF more
      <4> QED BY <4>1, <4>2, <4>3, <4>4 DEF Indexes
    <3> QED BY <3>3, <2>2
  <2> QED BY <2>3, <2>4
<1>5. Len(s) \in T
  <2>1. \A n \in 0..Len(s) : n \in T
    <3> HIDE DEF T
    <3> QED BY <1>2, <1>3, <1>4, UpTo
  <2> HIDE DEF T
  <2> QED BY <2>1, <1>2
<1>6. Below(Len(s)) = I
  BY <1>2
<1> QED BY <1>1, <1>2, <1>5, <1>6

(* What is appended is what the indexes lead to, in their order. *)
Selects(e, s, I) ==
  /\ \A i \in I : \E j \in DOMAIN e : e[j] = s[i]
  /\ \A j \in DOMAIN e : \E i \in I : e[j] = s[i]
  /\ \A j, k \in DOMAIN e : j < k => \E i, l \in I : i < l /\ e[j] = s[i] /\ e[k] = s[l]

LEMMA ElementsAtSelects ==
  ASSUME NEW S, NEW s \in Seq(S), NEW I \in SUBSET DOMAIN s
  PROVE  ElementsAt(s, I) \in Seq(S) /\ Selects(ElementsAt(s, I), s, I)
<1> DEFINE e == ElementsAt(s, I)
<1>1. e \in Seq(S)
  BY ElementsAtIndexes
<1>2. PICK at : Indexes(e, s, I, at)
  BY ElementsAtIndexes
<1> HIDE DEF e
<1>3. DOMAIN e = 1..Len(e)
  BY <1>1
<1>4. \A i \in I : \E j \in DOMAIN e : e[j] = s[i]
  BY <1>2, <1>3 DEF Indexes
<1>5. \A j \in DOMAIN e : \E i \in I : e[j] = s[i]
  BY <1>2, <1>3 DEF Indexes
<1>6. ASSUME NEW j \in DOMAIN e, NEW k \in DOMAIN e, j < k
      PROVE  \E i, l \in I : i < l /\ e[j] = s[i] /\ e[k] = s[l]
  <2>1. at[j] \in I /\ at[k] \in I /\ at[j] < at[k] /\ e[j] = s[at[j]] /\ e[k] = s[at[k]]
    BY <1>2, <1>3, <1>6 DEF Indexes
  <2> QED BY <2>1
<1>7. Selects(e, s, I)
  BY <1>4, <1>5, <1>6 DEF Selects
<1> QED BY <1>1, <1>7 DEF e

(* Each value once, in the order of where it occurs first. *)
Deduplicates(e, s) ==
  /\ Selects(e, s, DOMAIN s)
  /\ \A j, k \in DOMAIN e : e[j] = e[k] => j = k

LEMMA FirstOccurrencesDeduplicates ==
  ASSUME NEW S, NEW s \in Seq(S)
  PROVE  FirstOccurrences(s) \in Seq(S) /\ Deduplicates(FirstOccurrences(s), s)
<1> DEFINE I == {n \in DOMAIN s : \A m \in 1..n - 1 : s[m] # s[n]}
           e == FirstOccurrences(s)
<1>1. DOMAIN s = 1..Len(s) /\ Len(s) \in Nat /\ I \in SUBSET DOMAIN s
  OBVIOUS
<1>2. e = ElementsAt(s, I)
  BY DEF FirstOccurrences
<1> HIDE DEF e
<1>3. e \in Seq(S) /\ Selects(e, s, I)
  <2> HIDE DEF I
  <2> QED BY <1>1, <1>2, ElementsAtSelects
<1>4. ASSUME NEW i \in DOMAIN s PROVE \E j \in DOMAIN e : e[j] = s[i]
  <2> DEFINE Same == {n \in 1..Len(s) : s[n] = s[i]}
  <2>1. Same \in SUBSET Nat /\ i \in Same
    BY <1>1
  <2>2. PICK n \in Same : \A m \in Same : n <= m
    <3> HIDE DEF Same
    <3> QED BY <2>1, LeastElement
  <2>3. n \in I /\ s[n] = s[i]
    BY <1>1, <2>2
  <2> QED BY <1>3, <2>3 DEF Selects
<1>5. ASSUME NEW j \in DOMAIN e, NEW k \in DOMAIN e, e[j] = e[k] PROVE j = k
  <2>1. ASSUME NEW a \in DOMAIN e, NEW b \in DOMAIN e, a < b PROVE e[a] # e[b]
    <3>1. PICK i \in I, l \in I : i < l /\ e[a] = s[i] /\ e[b] = s[l]
      <4> HIDE DEF I
      <4> QED BY <1>3, <2>1 DEF Selects
    <3>2. i \in 1..l - 1
      BY <1>1, <3>1
    <3> QED BY <3>1, <3>2
  <2>2. j \in Nat /\ k \in Nat
    BY <1>3
  <2> QED BY <1>5, <2>1, <2>2
<1>6. Selects(e, s, DOMAIN s)
  <2>1. \A j \in DOMAIN e : \E i \in DOMAIN s : e[j] = s[i]
    BY <1>3 DEF Selects
  <2>2. ASSUME NEW j \in DOMAIN e, NEW k \in DOMAIN e, j < k
        PROVE  \E i, l \in DOMAIN s : i < l /\ e[j] = s[i] /\ e[k] = s[l]
    <3>1. PICK i \in I, l \in I : i < l /\ e[j] = s[i] /\ e[k] = s[l]
      BY <1>3, <2>2 DEF Selects
    <3> QED BY <3>1
  <2> QED BY <1>4, <2>1, <2>2 DEF Selects
<1> QED BY <1>3, <1>5, <1>6 DEF e, Deduplicates

-----------------------------------------------------------------------------
(* FlattenSeq. *)

(* e has the elements of the first n sequences of ss. *)
Flattens(e, ss, n) ==
  /\ \A i \in 1..n : \A j \in DOMAIN ss[i] : \E k \in DOMAIN e : e[k] = ss[i][j]
  /\ \A k \in DOMAIN e : \E i \in 1..n : \E j \in DOMAIN ss[i] : e[k] = ss[i][j]

LEMMA FlattensMore ==
  ASSUME NEW S, NEW ss, NEW k \in Nat, NEW a \in Seq(S), ss[k + 1] \in Seq(S), Flattens(a, ss, k)
  PROVE  Flattens(a \o ss[k + 1], ss, k + 1)
<1> DEFINE b == ss[k + 1]
           c == a \o b
<1>1. c \in Seq(S) /\ Len(c) = Len(a) + Len(b) /\ \A l \in 1..Len(c) :
        c[l] = IF l <= Len(a) THEN a[l] ELSE b[l - Len(a)]
  BY ConcatProperties
<1>2. DOMAIN a = 1..Len(a) /\ DOMAIN b = 1..Len(b) /\ DOMAIN c = 1..Len(c)
      /\ Len(a) \in Nat /\ Len(b) \in Nat
  BY <1>1
<1> HIDE DEF c
<1>3. \A l \in DOMAIN a : l \in DOMAIN c /\ c[l] = a[l]
  BY <1>1, <1>2
<1>4. ASSUME NEW l \in DOMAIN b PROVE \E m \in DOMAIN c : c[m] = b[l]
  <2> DEFINE m == Len(a) + l
  <2>1. m \in DOMAIN c /\ ~(m <= Len(a)) /\ m - Len(a) = l
    BY <1>1, <1>2
  <2> QED BY <1>1, <1>2, <2>1
<1>5. ASSUME NEW i \in 1..k + 1, NEW j \in DOMAIN ss[i] PROVE \E l \in DOMAIN c : c[l] = ss[i][j]
  <2>1. CASE i = k + 1
    BY <1>4, <2>1
  <2>2. CASE i # k + 1
    <3>1. PICK l \in DOMAIN a : a[l] = ss[i][j]
      BY <2>2 DEF Flattens
    <3> QED BY <1>3, <3>1
  <2> QED BY <2>1, <2>2
<1>6. ASSUME NEW l \in DOMAIN c PROVE \E i \in 1..k + 1 : \E j \in DOMAIN ss[i] : c[l] = ss[i][j]
  <2>1. CASE l <= Len(a)
    <3>1. l \in DOMAIN a /\ c[l] = a[l]
      BY <1>1, <1>2, <2>1
    <3>2. PICK i \in 1..k : \E j \in DOMAIN ss[i] : a[l] = ss[i][j]
      BY <3>1 DEF Flattens
    <3> QED BY <3>1, <3>2
  <2>2. CASE ~(l <= Len(a))
    <3>1. l - Len(a) \in DOMAIN b /\ c[l] = b[l - Len(a)] /\ k + 1 \in 1..k + 1
      BY <1>1, <1>2, <2>2
    <3> QED BY <3>1
  <2> QED BY <2>1, <2>2
<1>7. Flattens(c, ss, k + 1)
  BY <1>5, <1>6 DEF Flattens
<1> QED BY <1>7 DEF c

LEMMA FlattenSeqFlattens ==
  ASSUME NEW S, NEW ss \in Seq(Seq(S))
  PROVE  FlattenSeq(ss) \in Seq(S) /\ Flattens(FlattenSeq(ss), ss, Len(ss))
<1> DEFINE e == FlattenSeq(ss)
<1>1. CASE Len(ss) = 0
  <2>1. e = << >> /\ Len(ss) \in Nat
    BY <1>1 DEF FlattenSeq
  <2>2. Flattens(<< >>, ss, 0)
    BY DEF Flattens
  <2> QED BY <1>1, <2>1, <2>2
<1>2. CASE Len(ss) # 0
  <2> DEFINE n == Len(ss) - 1
             V == Seq(S)
             step == [p \in (1..n) \X V |-> p[2] \o ss[p[1] + 1]]
             Def(f) == f = [i \in 1..Len(ss) |-> IF i = 1 THEN ss[i] ELSE f[i - 1] \o ss[i]]
  <2>1. n \in Nat /\ Len(ss) = n + 1 /\ DOMAIN ss = 1..n + 1 /\ \A i \in 1..n + 1 : ss[i] \in V
    BY <1>2
  <2>2. step \in [(1..n) \X V -> V]
    <3>1. \A p \in (1..n) \X V : p[2] \in V /\ ss[p[1] + 1] \in V
      BY <2>1
    <3>2. \A a, b \in V : a \o b \in V
      OBVIOUS
    <3> QED BY <3>1, <3>2
  <2>3. PICK h : Iterates(h, n, V, ss[1], step)
    <3> HIDE DEF step, n, V
    <3>1. ss[1] \in V
      BY <2>1
    <3> QED BY <2>1, <2>2, <3>1, RecursiveFunction
  <2>4. /\ h \in [0..n -> V] /\ h[0] = ss[1]
        /\ \A i \in 1..n : h[i] = h[i - 1] \o ss[i + 1]
    <3>1. h \in [0..n -> V] /\ h[0] = ss[1] /\ \A i \in 1..n : h[i] = step[<<i, h[i - 1]>>]
      <4> HIDE DEF step, n, V
      <4> QED BY <2>3 DEF Iterates
    <3>2. ASSUME NEW i \in 1..n PROVE step[<<i, h[i - 1]>>] = h[i - 1] \o ss[i + 1]
      <4> HIDE DEF n, V
      <4>1. <<i, h[i - 1]>> \in (1..n) \X V
        BY <2>1, <3>1
      <4> QED BY <4>1
    <3> QED BY <3>1, <3>2
  <2> HIDE DEF n, V, step
  <2> DEFINE f == [i \in 1..Len(ss) |-> h[i - 1]]
             g == CHOOSE g : Def(g)
  <2>5. Def(f)
    <3>1. ASSUME NEW i \in 1..Len(ss) PROVE f[i] = IF i = 1 THEN ss[i] ELSE f[i - 1] \o ss[i]
      <4>1. CASE i = 1
        BY <2>4, <4>1
      <4>2. CASE i # 1
        <5>1. i - 1 \in 1..n /\ i - 1 \in 1..Len(ss) /\ (i - 1) + 1 = i
          BY <2>1, <4>2
        <5> QED BY <2>4, <4>2, <5>1
      <4> QED BY <4>1, <4>2
    <3> QED BY <3>1
  <2>6. Def(g) /\ e = g[Len(ss)]
    <3>1. Def(g)
      BY <2>5
    <3> QED BY <3>1, <1>2 DEF FlattenSeq
  <2>7. \A i \in 0..n : g[i + 1] = h[i]
    <3> DEFINE T == {i \in 0..n : g[i + 1] = h[i]}
    <3> HIDE DEF g
    <3>1. 0 \in T
      BY <2>1, <2>4, <2>6
    <3>2. ASSUME NEW i \in 1..n, i - 1 \in T PROVE i \in T
      <4>1. i + 1 \in 1..Len(ss) /\ i + 1 # 1 /\ (i + 1) - 1 = i /\ (i - 1) + 1 = i
        BY <2>1
      <4>2. g[i + 1] = g[i] \o ss[i + 1]
        BY <2>6, <4>1
      <4>3. g[i] = h[i - 1] /\ i \in 0..n
        BY <2>1, <3>2, <4>1
      <4> QED BY <2>4, <4>2, <4>3
    <3>3. \A i \in 0..n : i \in T
      <4> HIDE DEF T
      <4> QED BY <2>1, <3>1, <3>2, UpTo
    <3> QED BY <3>3
  <2>8. e = h[n]
    <3>1. n \in 0..n
      BY <2>1
    <3> HIDE DEF g
    <3> QED BY <2>1, <2>6, <2>7, <3>1
  <2> DEFINE T == {k \in 0..n : Flattens(h[k], ss, k + 1)}
  <2>9. 0 \in T
    <3>1. Flattens(ss[1], ss, 0 + 1)
      BY DEF Flattens
    <3> QED BY <3>1, <2>1, <2>4
  <2>10. ASSUME NEW k \in 1..n, k - 1 \in T PROVE k \in T
    <3>1. h[k - 1] \in Seq(S) /\ ss[k + 1] \in Seq(S) /\ h[k] = h[k - 1] \o ss[k + 1]
      <4>1. k - 1 \in 0..n /\ k + 1 \in 1..n + 1
        BY <2>1
      <4>2. h[k - 1] \in V /\ ss[k + 1] \in V
        BY <2>1, <2>4, <4>1
      <4> QED BY <2>4, <4>2 DEF V
    <3>2. Flattens(h[k - 1], ss, k) /\ k \in Nat /\ k \in 0..n
      <4>1. (k - 1) + 1 = k
        BY <2>1
      <4> QED BY <2>1, <2>10, <4>1
    <3> QED BY <3>1, <3>2, FlattensMore
  <2>11. n \in T
    <3>1. \A k \in 0..n : k \in T
      <4> HIDE DEF T
      <4> QED BY <2>1, <2>9, <2>10, UpTo
    <3> HIDE DEF T
    <3> QED BY <2>1, <3>1
  <2>12. e \in Seq(S)
    BY <2>1, <2>4, <2>8 DEF V
  <2> HIDE DEF e
  <2>13. Flattens(e, ss, Len(ss))
    BY <2>1, <2>8, <2>11
  <2> QED BY <2>12, <2>13 DEF e
<1> QED BY <1>1, <1>2

-----------------------------------------------------------------------------
(* What does not descend at any step does not descend at all. *)
LEMMA Ascending ==
  ASSUME NEW n \in Nat, NEW f, \A i \in 1..n : f[i] \in Int, \A i \in 2..n : f[i - 1] <= f[i],
         NEW low \in 1..n, NEW high \in 1..n, low <= high
  PROVE  f[low] <= f[high]
<1> DEFINE m == high - low
           T == {k \in 0..m : f[low] <= f[low + k]}
<1>1. m \in Nat /\ low + m = high /\ low + 0 = low
  OBVIOUS
<1>2. 0 \in T
  BY <1>1
<1>3. ASSUME NEW k \in 1..m, k - 1 \in T PROVE k \in T
  <2>1. low + k \in 2..n /\ low + k \in 1..n /\ (low + k) - 1 = low + (k - 1) /\ low + (k - 1) \in 1..n
    BY <1>1
  <2>2. f[low] <= f[low + (k - 1)] /\ f[low + (k - 1)] <= f[low + k]
    BY <1>3, <2>1
  <2>3. f[low] \in Int /\ f[low + (k - 1)] \in Int /\ f[low + k] \in Int
    BY <2>1
  <2>4. f[low] <= f[low + k]
    BY <2>2, <2>3
  <2> QED BY <2>4
<1>4. \A k \in 0..m : k \in T
  <2> HIDE DEF T, m
  <2> QED BY <1>1, <1>2, <1>3, UpTo
<1>5. m \in 0..m
  BY <1>1
<1>6. f[low] <= f[low + m]
  BY <1>4, <1>5
<1> HIDE DEF m
<1> QED BY <1>1, <1>6

-----------------------------------------------------------------------------
(* Arrangements. *)

(* Every element of a finite set has a place in each arrangement of the set. *)
LEMMA Arrangement ==
  ASSUME NEW S, IsFiniteSet(S), NEW f \in SetToSeqs(S)
  PROVE  /\ Cardinality(S) \in Nat /\ f \in [1..Cardinality(S) -> S]
         /\ \A x \in S : \E i \in 1..Cardinality(S) : f[i] = x
         /\ \A i, j \in 1..Cardinality(S) : f[i] = f[j] => i = j
<1> DEFINE n == Cardinality(S)
<1>1. n \in Nat
  BY FS_CardinalityType
<1>2. f \in [1..n -> S] /\ \A i, j \in 1..n : i # j => f[i] # f[j]
  BY DEF SetToSeqs
<1> HIDE DEF n
<1>3. f \in Injection(1..n, S)
  BY <1>2 DEF Injection, IsInjective
<1>4. Cardinality(1..n) = n
  <2>1. 1 \in Int /\ n \in Int /\ n >= 0
    BY <1>1
  <2>2. Cardinality(1..n) = IF 1 > n THEN 0 ELSE n - 1 + 1
    BY <2>1, FS_Interval
  <2> QED BY <2>1, <2>2
<1>5. f \in Surjection(1..n, S)
  BY <1>3, <1>4, FS_Injection DEF n
<1>6. \A x \in S : \E i \in 1..n : f[i] = x
  BY <1>5 DEF Surjection
<1> QED BY <1>1, <1>2, <1>6 DEF n
=============================================================================
