---------------------------- MODULE DataLemmas ----------------------------
(***************************************************************************)
(* Lemmas about the sequence operators the models are built from: the      *)
(* filter Select, the concatenation FlattenSeq and the sum SumFunction;    *)
(* and about how many places of a sequence hold elements of a set.         *)
(*                                                                         *)
(* The first three are recursive functions: each fact about them needs an  *)
(* induction.  The library's induction rules take an operator as their     *)
(* parameter, which no installed prover can instantiate; NatByOne below is *)
(* the same rule about a set, and follows from the library's theorem that  *)
(* strict inclusion of finite sets is well founded.                        *)
(***************************************************************************)
EXTENDS Selection, FiniteSets, FiniteSetTheorems, WellFoundedInduction,
        SequenceTheorems, TLAPS

-----------------------------------------------------------------------------
(* Induction.                                                              *)

\* A set of natural numbers that is not empty has a least element.
LEMMA LeastNatural ==
  ASSUME NEW S \in SUBSET Nat, S # {}
  PROVE  \E n \in S : \A m \in S : n <= m
<1> DEFINE T == {0 .. n : n \in S}
<1>1. T \subseteq FiniteSubsetsOf(Nat)
  <2> SUFFICES ASSUME NEW n \in S PROVE 0 .. n \in FiniteSubsetsOf(Nat)
    BY DEF T
  <2>1. IsFiniteSet(0 .. n)
    BY FS_Interval
  <2>2. 0 .. n \subseteq Nat
    BY SMT
  <2> QED
    BY <2>1, <2>2 DEF FiniteSubsetsOf
<1>2. T # {}
  BY DEF T
<1>3. IsWellFoundedOn(StrictSubsetOrdering(Nat), FiniteSubsetsOf(Nat))
  BY FS_StrictSubsetOrderingWellFounded
<1>4. PICK x \in T : \A y \in T : ~(<<y, x>> \in StrictSubsetOrdering(Nat))
  <2> HIDE DEF T
  <2> QED
    BY <1>1, <1>2, <1>3, WFMin, Zenon
<1>5. PICK n \in S : x = 0 .. n
  BY <1>4 DEF T
<1> SUFFICES ASSUME NEW m \in S, m < n PROVE FALSE
  BY <1>5
<1>6. 0 .. m \in T
  BY DEF T
<1>7. 0 .. m \subseteq 0 .. n /\ 0 .. m # 0 .. n
  BY SMT
<1>8. <<0 .. m, 0 .. n>> \in StrictSubsetOrdering(Nat)
  BY <1>7, SMT DEF StrictSubsetOrdering
<1> QED
  BY <1>4, <1>5, <1>6, <1>8

\* A set that has 0, and with each number below a bound the next one, has every
\* number up to the bound.
LEMMA NatByOne ==
  ASSUME NEW N \in Nat, NEW G, 0 \in G, \A n \in 0 .. N - 1 : n \in G => n + 1 \in G
  PROVE  \A n \in 0 .. N : n \in G
<1> DEFINE B == {n \in 0 .. N : n \notin G}
<1> SUFFICES ASSUME B # {} PROVE FALSE
  OBVIOUS
<1>1. PICK n \in B : \A m \in B : n <= m
  <2>1. B \in SUBSET Nat
    OBVIOUS
  <2> HIDE DEF B
  <2> QED
    BY <2>1, LeastNatural
<1>2. n \in 0 .. N /\ n # 0 /\ n \notin G
  OBVIOUS
<1>3. n - 1 \in 0 .. N - 1 /\ (n - 1) + 1 = n
  BY <1>2
<1>4. n - 1 \notin B
  BY <1>1, <1>2
<1>5. n - 1 \in G
  BY <1>3, <1>4
<1> QED
  BY <1>2, <1>3, <1>5

-----------------------------------------------------------------------------
(* Select.                                                                 *)

\* Select's function on the first places of a sequence.
SelectsUpTo(f, s, S, m) ==
  f = [n \in 0 .. m |-> IF n = 0 THEN << >>
                        ELSE IF s[n] \in S THEN Append(f[n - 1], s[n]) ELSE f[n - 1]]

\* There is such a function, for any number of places.
LEMMA SelectExists ==
  ASSUME NEW s, NEW S, NEW N \in Nat
  PROVE  \E f : SelectsUpTo(f, s, S, N)
<1> DEFINE G == {m \in Nat : \E f : SelectsUpTo(f, s, S, m)}
<1>1. 0 \in G
  <2> DEFINE f == [n \in 0 .. 0 |-> << >>]
  <2>1. SelectsUpTo(f, s, S, 0)
    BY DEF SelectsUpTo
  <2> QED
    BY <2>1
<1>2. ASSUME NEW m \in 0 .. N - 1, m \in G PROVE m + 1 \in G
  <2>1. PICK f : SelectsUpTo(f, s, S, m)
    BY <1>2
  <2> DEFINE next == IF s[m + 1] \in S THEN Append(f[m], s[m + 1]) ELSE f[m]
             g == [n \in 0 .. m + 1 |-> IF n = m + 1 THEN next ELSE f[n]]
  <2>2. \A n \in 0 .. m : f[n] = IF n = 0 THEN << >>
                              ELSE IF s[n] \in S THEN Append(f[n - 1], s[n]) ELSE f[n - 1]
    BY <2>1, Zenon DEF SelectsUpTo
  <2>3. \A n \in 0 .. m + 1 : g[n] = IF n = 0 THEN << >>
                              ELSE IF s[n] \in S THEN Append(g[n - 1], s[n]) ELSE g[n - 1]
    <3> SUFFICES ASSUME NEW n \in 0 .. m + 1
                 PROVE  g[n] = IF n = 0 THEN << >>
                               ELSE IF s[n] \in S THEN Append(g[n - 1], s[n]) ELSE g[n - 1]
      OBVIOUS
    <3>1. CASE n = m + 1
      <4>1. n # 0 /\ n - 1 = m /\ m \in 0 .. m + 1 /\ m # m + 1
        BY <3>1
      <4>2. g[n] = next /\ g[n - 1] = f[m]
        BY <3>1, <4>1
      <4> QED
        BY <3>1, <4>1, <4>2
    <3>2. CASE n # m + 1
      <4>1. n \in 0 .. m /\ g[n] = f[n]
        BY <3>2
      <4>2. n # 0 => n - 1 \in 0 .. m + 1 /\ n - 1 # m + 1 /\ g[n - 1] = f[n - 1]
        BY <4>1
      <4> HIDE DEF g
      <4> QED
        BY <2>2, <4>1, <4>2
    <3> QED
      BY <3>1, <3>2
  <2>4. DOMAIN g = 0 .. m + 1 /\ g = [n \in 0 .. m + 1 |-> g[n]]
    OBVIOUS
  <2>5. SelectsUpTo(g, s, S, m + 1)
    <3> HIDE DEF g
    <3> QED
      BY <2>3, <2>4, Zenon DEF SelectsUpTo
  <2> HIDE DEF g
  <2> QED
    BY <2>5
<1>3. N \in G
  <2> HIDE DEF G
  <2>1. \A n \in 0 .. N : n \in G
    BY <1>1, <1>2, NatByOne, Zenon
  <2> QED
    BY <2>1
<1> QED
  BY <1>3

\* What Select has selected of the first places of a sequence.
SelectTable(f, s, S) ==
  /\ f[0] = << >>
  /\ \A n \in 1 .. Len(s) : s[n] \in S => f[n] = Append(f[n - 1], s[n])
  /\ \A n \in 1 .. Len(s) : s[n] \notin S => f[n] = f[n - 1]

\* How Select goes through a sequence.
LEMMA SelectSteps ==
  ASSUME NEW s, NEW S, Len(s) \in Nat
  PROVE  \E f : Select(s, S) = f[Len(s)] /\ SelectTable(f, s, S)
<1> DEFINE f == CHOOSE g : SelectsUpTo(g, s, S, Len(s))
<1>1. SelectsUpTo(f, s, S, Len(s))
  BY SelectExists
<1>2. Select(s, S) = f[Len(s)]
  BY Zenon DEF Select, SelectsUpTo
<1> HIDE DEF f
<1>3. \A n \in 0 .. Len(s) : f[n] = IF n = 0 THEN << >>
                            ELSE IF s[n] \in S THEN Append(f[n - 1], s[n]) ELSE f[n - 1]
  BY <1>1, Zenon DEF SelectsUpTo
<1>4. /\ 0 \in 0 .. Len(s)
      /\ \A n \in 1 .. Len(s) : n \in 0 .. Len(s) /\ n # 0
  OBVIOUS
<1>5. SelectTable(f, s, S)
  BY <1>3, <1>4, Zenon DEF SelectTable
<1> QED
  BY <1>2, <1>5

\* What is selected are elements of both, and not more of them.
LEMMA SelectType ==
  ASSUME NEW T, NEW s \in Seq(T), NEW S
  PROVE  /\ Select(s, S) \in Seq(T \cap S)
         /\ Len(Select(s, S)) \in Nat /\ Len(Select(s, S)) <= Len(s)
<1>1. Len(s) \in Nat /\ \A n \in 1 .. Len(s) : s[n] \in T
  BY LenProperties
<1>a. PICK f : Select(s, S) = f[Len(s)] /\ SelectTable(f, s, S)
  BY <1>1, SelectSteps
<1>2. /\ Select(s, S) = f[Len(s)]
      /\ f[0] = << >>
      /\ \A n \in 1 .. Len(s) : s[n] \in S => f[n] = Append(f[n - 1], s[n])
      /\ \A n \in 1 .. Len(s) : s[n] \notin S => f[n] = f[n - 1]
  BY <1>a DEF SelectTable
<1> DEFINE G == {n \in Nat : f[n] \in Seq(T \cap S) /\ Len(f[n]) <= n}
<1>3. 0 \in G
  <2>1. f[0] \in Seq(T \cap S) /\ Len(f[0]) = 0
    BY <1>2, EmptySeq
  <2>2. Len(f[0]) <= 0
    BY <2>1
  <2> QED
    BY <2>1, <2>2
<1>4. ASSUME NEW n \in 0 .. Len(s) - 1, n \in G PROVE n + 1 \in G
  <2>1. n + 1 \in 1 .. Len(s) /\ (n + 1) - 1 = n /\ n + 1 \in Nat /\ n \in Nat
    BY <1>1
  <2> DEFINE g == f[n]
  <2>2. g \in Seq(T \cap S) /\ Len(g) \in Nat /\ Len(g) <= n
    BY <1>4
  <2>3. CASE s[n + 1] \in S
    <3>1. f[n + 1] = Append(g, s[n + 1]) /\ s[n + 1] \in T \cap S
      BY <1>1, <1>2, <2>1, <2>3
    <3> HIDE DEF g
    <3>2. f[n + 1] \in Seq(T \cap S) /\ Len(f[n + 1]) = Len(g) + 1
      BY <2>2, <3>1, AppendProperties
    <3> QED
      BY <2>1, <2>2, <3>2
  <2>4. CASE s[n + 1] \notin S
    <3>1. f[n + 1] = g
      BY <1>2, <2>1, <2>4
    <3> HIDE DEF g
    <3> QED
      BY <2>1, <2>2, <3>1
  <2> QED
    BY <2>3, <2>4
<1>5. Len(s) \in G
  <2> HIDE DEF G
  <2>1. \A n \in 0 .. Len(s) : n \in G
    BY <1>1, <1>3, <1>4, NatByOne, Zenon
  <2> QED
    BY <1>1, <2>1
<1> QED
  BY <1>2, <1>5

\* Whatever is in both is selected.
LEMMA SelectKeeps ==
  ASSUME NEW T, NEW s \in Seq(T), NEW S, NEW i \in 1 .. Len(s), s[i] \in S
  PROVE  \E k \in 1 .. Len(Select(s, S)) : Select(s, S)[k] = s[i]
<1>1. Len(s) \in Nat /\ \A n \in 1 .. Len(s) : s[n] \in T
  BY LenProperties
<1>a. PICK f : Select(s, S) = f[Len(s)] /\ SelectTable(f, s, S)
  BY <1>1, SelectSteps
<1>2. /\ Select(s, S) = f[Len(s)]
      /\ f[0] = << >>
      /\ \A n \in 1 .. Len(s) : s[n] \in S => f[n] = Append(f[n - 1], s[n])
      /\ \A n \in 1 .. Len(s) : s[n] \notin S => f[n] = f[n - 1]
  BY <1>a DEF SelectTable
<1> DEFINE G == {n \in Nat : f[n] \in Seq(T) /\ (i <= n => \E k \in 1 .. Len(f[n]) : f[n][k] = s[i])}
<1>3. 0 \in G
  <2>1. f[0] = << >> /\ << >> \in Seq(T) /\ ~(i <= 0)
    BY <1>1, <1>2, EmptySeq
  <2> QED
    BY <2>1
<1>4. ASSUME NEW n \in 0 .. Len(s) - 1, n \in G PROVE n + 1 \in G
  <2>1. n + 1 \in 1 .. Len(s) /\ (n + 1) - 1 = n /\ n + 1 \in Nat /\ n \in Nat
    BY <1>1
  <2> DEFINE g == f[n]
  <2>2. g \in Seq(T) /\ Len(g) \in Nat /\ (i <= n => \E k \in 1 .. Len(g) : g[k] = s[i])
    BY <1>4
  <2>3. CASE s[n + 1] \in S
    <3>1. f[n + 1] = Append(g, s[n + 1]) /\ s[n + 1] \in T
      BY <1>1, <1>2, <2>1, <2>3
    <3> HIDE DEF g
    <3>2. /\ f[n + 1] \in Seq(T) /\ Len(f[n + 1]) = Len(g) + 1
          /\ \A k \in 1 .. Len(g) : f[n + 1][k] = g[k]
          /\ f[n + 1][Len(g) + 1] = s[n + 1]
      BY <2>2, <3>1, AppendProperties
    <3>3. i <= n + 1 => \E k \in 1 .. Len(g) + 1 : f[n + 1][k] = s[i]
      <4>1. CASE i <= n
        BY <2>2, <3>2, <4>1
      <4>2. CASE i = n + 1
        BY <2>2, <3>2, <4>2
      <4> QED
        BY <2>1, <4>1, <4>2
    <3> QED
      BY <2>1, <3>2, <3>3
  <2>4. CASE s[n + 1] \notin S
    <3>1. f[n + 1] = g /\ i # n + 1
      BY <1>2, <2>1, <2>4
    <3> HIDE DEF g
    <3> QED
      BY <2>1, <2>2, <3>1
  <2> QED
    BY <2>3, <2>4
<1>5. Len(s) \in G
  <2> HIDE DEF G
  <2>1. \A n \in 0 .. Len(s) : n \in G
    BY <1>1, <1>3, <1>4, NatByOne, Zenon
  <2> QED
    BY <1>1, <2>1
<1> QED
  BY <1>1, <1>2, <1>5

\* Of a sequence with nothing to select there is nothing left.
LEMMA SelectNone ==
  ASSUME NEW T, NEW s \in Seq(T), NEW S, \A n \in 1 .. Len(s) : s[n] \notin S
  PROVE  Select(s, S) = << >>
<1> DEFINE U == {s[n] : n \in 1 .. Len(s)}
           q == Select(s, S)
<1>1. s \in Seq(U) /\ U \cap S = {}
  BY LenProperties, IsASeq
<1>2. q \in Seq(U \cap S)
  BY <1>1, SelectType, Zenon
<1> HIDE DEF U, q
<1>3. q \in Seq({})
  BY <1>1, <1>2
<1>4. q = << >>
  <2>1. Len(q) \in Nat /\ \A k \in 1 .. Len(q) : q[k] \in {}
    BY <1>3, LenProperties
  <2>2. Len(q) = 0
    BY <2>1
  <2> QED
    BY <1>3, <2>2, EmptySeq
<1> QED
  BY <1>4 DEF q

\* A sequence with nothing to leave out is left as it is.
LEMMA SelectAll ==
  ASSUME NEW T, NEW s \in Seq(T), NEW S, \A n \in 1 .. Len(s) : s[n] \in S
  PROVE  Select(s, S) = s
<1>1. Len(s) \in Nat /\ \A n \in 1 .. Len(s) : s[n] \in T
  BY LenProperties
<1>a. PICK f : Select(s, S) = f[Len(s)] /\ SelectTable(f, s, S)
  BY <1>1, SelectSteps
<1>2. /\ Select(s, S) = f[Len(s)]
      /\ f[0] = << >>
      /\ \A n \in 1 .. Len(s) : s[n] \in S => f[n] = Append(f[n - 1], s[n])
      /\ \A n \in 1 .. Len(s) : s[n] \notin S => f[n] = f[n - 1]
  BY <1>a DEF SelectTable
<1> DEFINE G == {n \in Nat : f[n] \in Seq(T) /\ Len(f[n]) = n /\ \A k \in 1 .. n : f[n][k] = s[k]}
<1>3. 0 \in G
  <2>1. f[0] \in Seq(T) /\ Len(f[0]) = 0
    BY <1>2, EmptySeq
  <2>2. \A k \in 1 .. 0 : f[0][k] = s[k]
    OBVIOUS
  <2> QED
    BY <2>1, <2>2
<1>4. ASSUME NEW n \in 0 .. Len(s) - 1, n \in G PROVE n + 1 \in G
  <2>1. n + 1 \in 1 .. Len(s) /\ (n + 1) - 1 = n /\ n + 1 \in Nat /\ n \in Nat
    BY <1>1
  <2> DEFINE g == f[n]
  <2>2. g \in Seq(T) /\ Len(g) = n /\ \A k \in 1 .. n : g[k] = s[k]
    BY <1>4
  <2>3. f[n + 1] = Append(g, s[n + 1]) /\ s[n + 1] \in T
    BY <1>1, <1>2, <2>1
  <2> HIDE DEF g
  <2>4. /\ f[n + 1] \in Seq(T) /\ Len(f[n + 1]) = n + 1
        /\ \A k \in 1 .. n : f[n + 1][k] = g[k]
        /\ f[n + 1][n + 1] = s[n + 1]
    BY <2>2, <2>3, AppendProperties
  <2> QED
    BY <2>1, <2>2, <2>4
<1>5. Len(s) \in G
  <2> HIDE DEF G
  <2>1. \A n \in 0 .. Len(s) : n \in G
    BY <1>1, <1>3, <1>4, NatByOne, Zenon
  <2> QED
    BY <1>1, <2>1
<1>6. f[Len(s)] \in Seq(T) /\ Len(f[Len(s)]) = Len(s) /\ \A k \in 1 .. Len(s) : f[Len(s)][k] = s[k]
  BY <1>5
<1> DEFINE q == f[Len(s)]
<1> HIDE DEF q
<1>7. q \in Seq(T) /\ Len(q) = Len(s) /\ \A k \in 1 .. Len(s) : q[k] = s[k]
  BY <1>6 DEF q
<1>8. q = s
  BY <1>7, SeqEqual
<1> QED
  BY <1>2, <1>8 DEF q

\* Filtering one element.
LEMMA SelectOne ==
  ASSUME NEW d, NEW S
  PROVE  /\ d \in S => Select(<<d>>, S) = <<d>>
         /\ d \notin S => Select(<<d>>, S) = << >>
<1> DEFINE T == {d}
           s == <<d>>
<1>1. s \in Seq(T) /\ Len(s) = 1 /\ s[1] = d
  OBVIOUS
<1> HIDE DEF T, s
<1>2. d \in S => \A n \in 1 .. Len(s) : s[n] \in S
  BY <1>1
<1>3. d \notin S => \A n \in 1 .. Len(s) : s[n] \notin S
  BY <1>1
<1>4. d \in S => Select(s, S) = s
  BY <1>1, <1>2, SelectAll
<1>5. d \notin S => Select(s, S) = << >>
  BY <1>1, <1>3, SelectNone
<1> QED
  BY <1>4, <1>5 DEF s

-----------------------------------------------------------------------------
(* FlattenSeq.                                                             *)

\* FlattenSeq's function on the first parts of a sequence of sequences.
FlattensUpTo(f, s, m) ==
  f = [i \in 1 .. m |-> IF i = 1 THEN s[i] ELSE f[i - 1] \o s[i]]

\* There is such a function, for any number of parts.
LEMMA FlattenExists ==
  ASSUME NEW s, NEW N \in Nat
  PROVE  \E f : FlattensUpTo(f, s, N)
<1> DEFINE G == {m \in Nat : \E f : FlattensUpTo(f, s, m)}
<1>1. 0 \in G
  <2> DEFINE f == [i \in 1 .. 0 |-> << >>]
  <2>1. FlattensUpTo(f, s, 0)
    BY DEF FlattensUpTo
  <2> QED
    BY <2>1
<1>2. ASSUME NEW m \in 0 .. N - 1, m \in G PROVE m + 1 \in G
  <2>1. PICK f : FlattensUpTo(f, s, m)
    BY <1>2
  <2> DEFINE next == IF m = 0 THEN s[1] ELSE f[m] \o s[m + 1]
             g == [i \in 1 .. m + 1 |-> IF i = m + 1 THEN next ELSE f[i]]
  <2>2. \A i \in 1 .. m : f[i] = IF i = 1 THEN s[i] ELSE f[i - 1] \o s[i]
    BY <2>1, Zenon DEF FlattensUpTo
  <2>3. \A i \in 1 .. m + 1 : g[i] = IF i = 1 THEN s[i] ELSE g[i - 1] \o s[i]
    <3> SUFFICES ASSUME NEW i \in 1 .. m + 1
                 PROVE  g[i] = IF i = 1 THEN s[i] ELSE g[i - 1] \o s[i]
      OBVIOUS
    <3>1. CASE i = m + 1
      <4>1. g[i] = next /\ (i = 1 <=> m = 0) /\ i - 1 = m
        BY <3>1
      <4>2. i # 1 => g[i - 1] = f[m]
        BY <3>1, <4>1
      <4> HIDE DEF g
      <4> QED
        BY <3>1, <4>1, <4>2
    <3>2. CASE i # m + 1
      <4>1. i \in 1 .. m /\ g[i] = f[i]
        BY <3>2
      <4>2. i # 1 => i - 1 \in 1 .. m + 1 /\ i - 1 # m + 1 /\ g[i - 1] = f[i - 1]
        BY <4>1
      <4> HIDE DEF g
      <4> QED
        BY <2>2, <4>1, <4>2
    <3> QED
      BY <3>1, <3>2
  <2>4. g = [i \in 1 .. m + 1 |-> g[i]]
    OBVIOUS
  <2>5. FlattensUpTo(g, s, m + 1)
    <3> HIDE DEF g
    <3> QED
      BY <2>3, <2>4, Zenon DEF FlattensUpTo
  <2> HIDE DEF g
  <2> QED
    BY <2>5
<1>3. N \in G
  <2> HIDE DEF G
  <2>1. \A n \in 0 .. N : n \in G
    BY <1>1, <1>2, NatByOne, Zenon
  <2> QED
    BY <2>1
<1> QED
  BY <1>3

\* How FlattenSeq goes through the parts.
LEMMA FlattenSteps ==
  ASSUME NEW s, Len(s) \in Nat, Len(s) # 0
  PROVE  \E f : /\ FlattenSeq(s) = f[Len(s)]
                /\ f[1] = s[1]
                /\ \A n \in 1 .. Len(s) - 1 : f[n + 1] = f[n] \o s[n + 1]
<1> DEFINE f == CHOOSE g : FlattensUpTo(g, s, Len(s))
<1>1. FlattensUpTo(f, s, Len(s))
  BY FlattenExists
<1>2. FlattenSeq(s) = f[Len(s)]
  BY Zenon DEF FlattenSeq, FlattensUpTo
<1> HIDE DEF f
<1>3. \A n \in 1 .. Len(s) : f[n] = IF n = 1 THEN s[n] ELSE f[n - 1] \o s[n]
  BY <1>1, Zenon DEF FlattensUpTo
<1>4. /\ 1 \in 1 .. Len(s)
      /\ \A n \in 1 .. Len(s) - 1 : n + 1 \in 1 .. Len(s) /\ n + 1 # 1 /\ (n + 1) - 1 = n
  OBVIOUS
<1>5. \A n \in 1 .. Len(s) - 1 : f[n + 1] = f[n] \o s[n + 1]
  BY <1>3, <1>4
<1> QED
  BY <1>2, <1>3, <1>4, <1>5, Zenon

\* No parts, one part and two parts.
LEMMA FlattenFew ==
  /\ FlattenSeq(<< >>) = << >>
  /\ \A x : FlattenSeq(<<x>>) = x
  /\ \A x, y : FlattenSeq(<<x, y>>) = x \o y
<1>1. FlattenSeq(<< >>) = << >>
  BY DEF FlattenSeq
<1>2. ASSUME NEW x PROVE FlattenSeq(<<x>>) = x
  <2> DEFINE s == <<x>>
  <2>1. Len(s) = 1 /\ s[1] = x /\ Len(s) \in Nat /\ Len(s) # 0
    OBVIOUS
  <2> HIDE DEF s
  <2>2. PICK f : FlattenSeq(s) = f[Len(s)] /\ f[1] = s[1]
    BY <2>1, FlattenSteps
  <2> QED
    BY <2>1, <2>2 DEF s
<1>3. ASSUME NEW x, NEW y PROVE FlattenSeq(<<x, y>>) = x \o y
  <2> DEFINE s == <<x, y>>
  <2>1. Len(s) = 2 /\ s[1] = x /\ s[2] = y /\ Len(s) \in Nat /\ Len(s) # 0
    OBVIOUS
  <2> HIDE DEF s
  <2>2. PICK f : FlattenSeq(s) = f[Len(s)] /\ f[1] = s[1] /\ \A n \in 1 .. Len(s) - 1 : f[n + 1] = f[n] \o s[n + 1]
    BY <2>1, FlattenSteps
  <2>3. f[2] = f[1] \o s[2]
    <3>1. 1 \in 1 .. Len(s) - 1 /\ 1 + 1 = 2
      BY <2>1
    <3> QED
      BY <2>2, <3>1
  <2> QED
    BY <2>1, <2>2, <2>3 DEF s
<1> QED
  BY <1>1, <1>2, <1>3

\* The whole is a sequence of what its parts are made of.
LEMMA FlattenType ==
  ASSUME NEW T, NEW s \in Seq(Seq(T))
  PROVE  FlattenSeq(s) \in Seq(T)
<1>1. Len(s) \in Nat /\ \A n \in 1 .. Len(s) : s[n] \in Seq(T)
  BY LenProperties
<1>2. CASE Len(s) = 0
  <2>1. FlattenSeq(s) = s /\ s = << >>
    BY <1>2, EmptySeq DEF FlattenSeq
  <2> QED
    BY <2>1, EmptySeq
<1>3. CASE Len(s) # 0
  <2>1. PICK f : /\ FlattenSeq(s) = f[Len(s)]
                 /\ f[1] = s[1]
                 /\ \A n \in 1 .. Len(s) - 1 : f[n + 1] = f[n] \o s[n + 1]
    BY <1>1, <1>3, FlattenSteps
  <2> DEFINE G == {n \in Nat : f[n + 1] \in Seq(T)}
             N == Len(s) - 1
  <2>2. 0 \in G /\ N \in Nat /\ N + 1 = Len(s)
    BY <1>1, <1>3, <2>1
  <2>3. ASSUME NEW n \in 0 .. N - 1, n \in G PROVE n + 1 \in G
    <3>1. n + 1 \in 1 .. Len(s) - 1 /\ (n + 1) + 1 \in 1 .. Len(s) /\ n + 1 \in Nat
      BY <1>1, <1>3
    <3>2. f[(n + 1) + 1] = f[n + 1] \o s[(n + 1) + 1] /\ f[n + 1] \in Seq(T) /\ s[(n + 1) + 1] \in Seq(T)
      BY <1>1, <2>1, <2>3, <3>1
    <3>3. f[(n + 1) + 1] \in Seq(T)
      BY <3>2, ConcatProperties
    <3> QED
      BY <3>1, <3>3
  <2>4. N \in G
    <3> HIDE DEF G, N
    <3>1. \A n \in 0 .. N : n \in G
      BY <2>2, <2>3, NatByOne, Zenon
    <3> QED
      BY <2>2, <3>1
  <2> QED
    BY <2>1, <2>2, <2>4
<1> QED
  BY <1>2, <1>3

\* A sequence is one over any set that has its elements.
LEMMA SeqOver ==
  ASSUME NEW T, NEW q \in Seq(T), NEW U, \A j \in 1 .. Len(q) : q[j] \in U
  PROVE  q \in Seq(U)
<1>1. Len(q) \in Nat /\ q \in [1 .. Len(q) -> T]
  BY LenProperties
<1>2. q = [j \in 1 .. Len(q) |-> q[j]]
  BY <1>1, Zenon
<1>3. q \in [1 .. Len(q) -> U]
  BY <1>2
<1> QED
  BY <1>1, <1>3, SeqDef

\* Nothing is in the whole that is not in a part.
LEMMA FlattenElements ==
  ASSUME NEW T, NEW s \in Seq(Seq(T)), NEW i \in 1 .. Len(FlattenSeq(s))
  PROVE  \E k \in 1 .. Len(s) : \E j \in 1 .. Len(s[k]) : FlattenSeq(s)[i] = s[k][j]
<1> DEFINE U == UNION {{s[k][j] : j \in 1 .. Len(s[k])} : k \in 1 .. Len(s)}
<1>1. Len(s) \in Nat /\ \A n \in 1 .. Len(s) : s[n] \in Seq(T)
  BY LenProperties
<1>2. \A n \in 1 .. Len(s) : s[n] \in Seq(U)
  <2> SUFFICES ASSUME NEW n \in 1 .. Len(s) PROVE s[n] \in Seq(U)
    OBVIOUS
  <2>1. ASSUME NEW j \in 1 .. Len(s[n]) PROVE s[n][j] \in U
    <3>1. s[n][j] \in {s[n][h] : h \in 1 .. Len(s[n])}
      OBVIOUS
    <3>2. {s[n][h] : h \in 1 .. Len(s[n])} \in {{s[k][h] : h \in 1 .. Len(s[k])} : k \in 1 .. Len(s)}
      OBVIOUS
    <3> QED
      BY ONLY <3>1, <3>2, Zenon
  <2>2. s[n] \in Seq(T)
    BY <1>1
  <2> DEFINE q == s[n]
  <2> HIDE DEF U, q
  <2>3. q \in Seq(T) /\ \A j \in 1 .. Len(q) : q[j] \in U
    BY <2>1, <2>2 DEF q
  <2>4. q \in Seq(U)
    BY <2>3, SeqOver
  <2> QED
    BY <2>4 DEF q
<1> HIDE DEF U
<1>3. s \in Seq(Seq(U))
  BY <1>1, <1>2, LenProperties, IsASeq
<1>4. FlattenSeq(s) \in Seq(U)
  BY <1>3, FlattenType
<1> DEFINE F == FlattenSeq(s)
<1> HIDE DEF F
<1>5. F[i] \in U
  BY <1>4, LenProperties DEF F
<1> QED
  BY <1>5 DEF F, U

\* A part that is not empty has its first element in the whole; if it is the
\* first part, the whole begins with it.
LEMMA FlattenHead ==
  ASSUME NEW T, NEW s \in Seq(Seq(T)), s # << >>, s[1] # << >>
  PROVE  FlattenSeq(s) # << >> /\ FlattenSeq(s)[1] = s[1][1]
<1>1. Len(s) \in Nat /\ Len(s) # 0 /\ (\A n \in 1 .. Len(s) : s[n] \in Seq(T)) /\ 1 \in 1 .. Len(s)
  BY LenProperties, EmptySeq
<1>2. PICK f : /\ FlattenSeq(s) = f[Len(s)]
               /\ f[1] = s[1]
               /\ \A n \in 1 .. Len(s) - 1 : f[n + 1] = f[n] \o s[n + 1]
  BY <1>1, FlattenSteps
<1> DEFINE G == {n \in Nat : f[n + 1] \in Seq(T) /\ f[n + 1] # << >> /\ f[n + 1][1] = s[1][1]}
           N == Len(s) - 1
<1>3. 0 \in G /\ N \in Nat /\ N + 1 = Len(s)
  BY <1>1, <1>2
<1>4. ASSUME NEW n \in 0 .. N - 1, n \in G PROVE n + 1 \in G
  <2>1. n + 1 \in 1 .. Len(s) - 1 /\ (n + 1) + 1 \in 1 .. Len(s) /\ n + 1 \in Nat
    BY <1>1
  <2> DEFINE a == f[n + 1]
             b == s[(n + 1) + 1]
             c == f[(n + 1) + 1]
  <2>2. c = a \o b /\ a \in Seq(T) /\ b \in Seq(T) /\ a # << >> /\ a[1] = s[1][1]
    BY <1>1, <1>2, <1>4, <2>1
  <2> HIDE DEF a, b, c
  <2>3. Len(a) \in Nat /\ Len(a) # 0
    BY <2>2, EmptySeq, LenProperties
  <2>4. c \in Seq(T) /\ Len(c) = Len(a) + Len(b) /\ Len(b) \in Nat /\ c[1] = a[1]
    <3>1. 1 \in 1 .. Len(a)
      BY <2>3
    <3> QED
      BY <2>2, <3>1, ConcatProperties, LenProperties
  <2>5. c # << >>
    BY <2>3, <2>4, EmptySeq
  <2> QED
    BY <2>1, <2>2, <2>4, <2>5 DEF c
<1>5. N \in G
  <2> HIDE DEF G, N
  <2>1. \A n \in 0 .. N : n \in G
    BY <1>3, <1>4, NatByOne, Zenon
  <2> QED
    BY <1>3, <2>1
<1> QED
  BY <1>2, <1>3, <1>5

-----------------------------------------------------------------------------
(* SumFunction.                                                            *)

\* SumFunction's function on the subsets of a set: each is summed from one of
\* its elements and what is left.
SumsUpTo(g, f, S, n) ==
  g = [T \in {U \in SUBSET S : Cardinality(U) <= n} |->
         IF T = {} THEN 0 ELSE f[CHOOSE x \in T : TRUE] + g[T \ {CHOOSE x \in T : TRUE}]]

\* A subset of a finite set is finite, and has one element less without one.
LEMMA Smaller ==
  ASSUME NEW S, IsFiniteSet(S), NEW T \in SUBSET S
  PROVE  /\ IsFiniteSet(T) /\ Cardinality(T) \in Nat /\ Cardinality(T) <= Cardinality(S)
         /\ Cardinality(T) = 0 <=> T = {}
         /\ \A x \in T : T \ {x} \in SUBSET S /\ Cardinality(T \ {x}) = Cardinality(T) - 1
<1>1. IsFiniteSet(T) /\ Cardinality(T) <= Cardinality(S)
  BY FS_Subset
<1> QED
  BY <1>1, FS_CardinalityType, FS_EmptySet, FS_RemoveElement

\* There is such a function, for sets of any size.
LEMMA SumExists ==
  ASSUME NEW f, NEW S, IsFiniteSet(S), NEW N \in Nat
  PROVE  \E g : SumsUpTo(g, f, S, N)
<1> DEFINE G == {m \in Nat : \E g : SumsUpTo(g, f, S, m)}
           Upto(n) == {U \in SUBSET S : Cardinality(U) <= n}
           c(T) == CHOOSE x \in T : TRUE
<1>1. 0 \in G
  <2> DEFINE g == [T \in Upto(0) |-> 0]
  <2>1. \A T \in Upto(0) : T = {}
    BY Smaller
  <2>2. SumsUpTo(g, f, S, 0)
    BY <2>1 DEF SumsUpTo
  <2> QED
    BY <2>2
<1>2. ASSUME NEW m \in 0 .. N - 1, m \in G PROVE m + 1 \in G
  <2>1. PICK h : SumsUpTo(h, f, S, m)
    BY <1>2
  <2> DEFINE value(T) == IF T = {} THEN 0 ELSE f[c(T)] + h[T \ {c(T)}]
             g == [T \in Upto(m + 1) |-> value(T)]
  <2>2. \A T \in Upto(m) : h[T] = value(T)
    BY <2>1, Zenon DEF SumsUpTo
  <2>3. ASSUME NEW T \in Upto(m + 1), T # {}
        PROVE  T \ {c(T)} \in Upto(m) /\ T \ {c(T)} \in Upto(m + 1)
    <3>1. c(T) \in T
      BY <2>3
    <3> DEFINE x == c(T)
    <3> HIDE DEF c
    <3>2. T \ {x} \in SUBSET S /\ Cardinality(T \ {x}) = Cardinality(T) - 1 /\ Cardinality(T) \in Nat
      BY <3>1, Smaller
    <3>3. Cardinality(T) <= m + 1 /\ m \in Nat
      OBVIOUS
    <3> HIDE DEF x
    <3>4. Cardinality(T \ {x}) <= m /\ Cardinality(T \ {x}) <= m + 1
      BY <3>2, <3>3
    <3> QED
      BY <3>2, <3>4 DEF x
  <2> HIDE DEF c
  <2>4. \A T \in Upto(m) : T \in Upto(m + 1)
    <3> SUFFICES ASSUME NEW T \in Upto(m) PROVE T \in Upto(m + 1)
      OBVIOUS
    <3>1. Cardinality(T) \in Nat /\ Cardinality(T) <= m
      BY Smaller
    <3>2. Cardinality(T) <= m + 1
      BY <3>1
    <3> QED
      BY <3>2
  <2>5. \A T \in Upto(m + 1) : T # {} => g[T \ {c(T)}] = h[T \ {c(T)}]
    <3> SUFFICES ASSUME NEW T \in Upto(m + 1), T # {} PROVE g[T \ {c(T)}] = h[T \ {c(T)}]
      OBVIOUS
    <3> DEFINE U == T \ {c(T)}
    <3>1. U \in Upto(m) /\ U \in Upto(m + 1)
      BY <2>3
    <3> HIDE DEF U, Upto
    <3>2. g[U] = value(U) /\ h[U] = value(U)
      BY <2>2, <3>1
    <3> QED
      BY <3>2 DEF U
  <2>6. g = [T \in Upto(m + 1) |-> IF T = {} THEN 0 ELSE f[c(T)] + g[T \ {c(T)}]]
    <3> HIDE DEF Upto
    <3>1. \A T \in Upto(m + 1) : g[T] = IF T = {} THEN 0 ELSE f[c(T)] + g[T \ {c(T)}]
      BY <2>5
    <3>2. g = [T \in Upto(m + 1) |-> g[T]]
      OBVIOUS
    <3> HIDE DEF g
    <3> QED
      BY <3>1, <3>2
  <2>7. SumsUpTo(g, f, S, m + 1)
    <3> HIDE DEF g
    <3> QED
      BY <2>6, Zenon DEF SumsUpTo, c
  <2> HIDE DEF g
  <2> QED
    BY <2>7
<1>3. N \in G
  <2> HIDE DEF G
  <2>1. \A n \in 0 .. N : n \in G
    BY <1>1, <1>2, NatByOne, Zenon
  <2> QED
    BY <2>1
<1> QED
  BY <1>3

\* A table of sums: that of a set is one of its elements and the sum of the rest.
SumTable(g, f, S) ==
  g[{}] = 0 /\ \A T \in SUBSET S : T # {} => \E x \in T : g[T] = f[x] + g[T \ {x}]

\* How SumFunction goes through the domain: the sum of a set is one of its
\* elements added to the sum of the others.
LEMMA SumSteps ==
  ASSUME NEW S, IsFiniteSet(S), NEW f, DOMAIN f = S
  PROVE  \E g : SumFunction(f) = g[S] /\ SumTable(g, f, S)
<1> DEFINE IsIter(g) == g = [T \in SUBSET S |-> IF T = {} THEN 0 ELSE f[CHOOSE x \in T : TRUE] + g[T \ {CHOOSE x \in T : TRUE}]]
           g == CHOOSE g : IsIter(g)
<1>1. \E h : IsIter(h)
  <2>1. Cardinality(S) \in Nat
    BY FS_CardinalityType
  <2>2. PICK h : SumsUpTo(h, f, S, Cardinality(S))
    BY <2>1, SumExists
  <2>3. {U \in SUBSET S : Cardinality(U) <= Cardinality(S)} = SUBSET S
    BY Smaller
  <2>4. IsIter(h)
    BY <2>2, <2>3, Zenon DEF SumsUpTo
  <2> QED
    BY <2>4
<1>2. SumFunction(f) = g[S]
  BY DEF SumFunction, SumFunctionOnSet, FoldFunctionOnSet, MapThenFoldSet
<1>3. IsIter(g)
  <2> HIDE DEF IsIter
  <2> QED
    BY <1>1, Zenon
<1> HIDE DEF g
<1>4. \A T \in SUBSET S : g[T] = IF T = {} THEN 0 ELSE f[CHOOSE x \in T : TRUE] + g[T \ {CHOOSE x \in T : TRUE}]
  BY <1>3, Zenon
<1>5. ASSUME NEW T \in SUBSET S, T # {} PROVE \E x \in T : g[T] = f[x] + g[T \ {x}]
  <2> DEFINE x == CHOOSE x \in T : TRUE
  <2>1. x \in T
    BY <1>5
  <2>2. g[T] = f[x] + g[T \ {x}]
    BY <1>4, <1>5, Zenon
  <2> HIDE DEF x
  <2> QED
    BY <2>1, <2>2
<1>6. g[{}] = 0
  BY <1>4
<1>7. SumTable(g, f, S)
  BY <1>5, <1>6 DEF SumTable
<1> QED
  BY <1>2, <1>7

\* It does not matter which element is taken first.
LEMMA SumAnyElement ==
  ASSUME NEW S, IsFiniteSet(S), NEW f \in [S -> Int], NEW g, SumTable(g, f, S)
  PROVE  \A T \in SUBSET S : g[T] \in Int /\ \A x \in T : g[T] = f[x] + g[T \ {x}]
<1> USE DEF SumTable
<1> DEFINE Good(T) == g[T] \in Int /\ \A x \in T : g[T] = f[x] + g[T \ {x}]
           G == {n \in Nat : \A T \in SUBSET S : Cardinality(T) <= n => Good(T)}
           N == Cardinality(S)
<1>1. N \in Nat
  BY FS_CardinalityType
<1>2. 0 \in G
  <2> SUFFICES ASSUME NEW T \in SUBSET S, Cardinality(T) <= 0 PROVE Good(T)
    OBVIOUS
  <2>1. T = {}
    BY Smaller
  <2> QED
    BY <2>1
<1>3. ASSUME NEW n \in 0 .. N - 1, n \in G PROVE n + 1 \in G
  <2>1. n \in Nat /\ n + 1 \in Nat
    BY <1>1
  <2> SUFFICES ASSUME NEW T \in SUBSET S, Cardinality(T) <= n + 1, T # {} PROVE Good(T)
    <3>1. ASSUME NEW T \in SUBSET S, T = {} PROVE Good(T)
      BY <3>1
    <3> HIDE DEF Good
    <3> QED
      BY <2>1, <3>1
  <2>2. Cardinality(T) \in Nat
    BY Smaller
  <2>3. PICK c \in T : g[T] = f[c] + g[T \ {c}]
    OBVIOUS
  <2>4. \A x \in T : T \ {x} \in SUBSET S /\ Cardinality(T \ {x}) <= n
    <3> SUFFICES ASSUME NEW x \in T PROVE T \ {x} \in SUBSET S /\ Cardinality(T \ {x}) <= n
      OBVIOUS
    <3>1. T \ {x} \in SUBSET S /\ Cardinality(T \ {x}) = Cardinality(T) - 1
      BY Smaller
    <3> QED
      BY <2>1, <2>2, <3>1
  <2>5. \A U \in SUBSET S : Cardinality(U) <= n => Good(U)
    BY <1>3
  <2>6. g[T] \in Int
    BY <2>3, <2>4, <2>5
  <2>7. ASSUME NEW x \in T PROVE g[T] = f[x] + g[T \ {x}]
    <3>1. CASE x = c
      BY <2>3, <3>1
    <3>2. CASE x # c
      <4> DEFINE C == T \ {c}
                 X == T \ {x}
                 U == (T \ {c}) \ {x}
      <4>1. x \in C /\ c \in X /\ C \ {x} = U /\ X \ {c} = U
        BY <3>2
      <4>2. C \in SUBSET S /\ X \in SUBSET S /\ U \in SUBSET S /\ Cardinality(C) <= n /\ Cardinality(X) <= n
        BY <2>4
      <4>3. Cardinality(U) <= n
        <5>1. Cardinality(U) = Cardinality(C) - 1 /\ Cardinality(C) \in Nat
          BY <4>1, <4>2, Smaller
        <5> QED
          BY <2>1, <4>2, <5>1
      <4> HIDE DEF C, X, U
      <4>4. g[C] = f[x] + g[U] /\ g[X] = f[c] + g[U] /\ g[U] \in Int
        BY <2>5, <4>1, <4>2, <4>3
      <4>5. g[T] = f[c] + g[C]
        BY <2>3 DEF C
      <4>6. f[x] \in Int /\ f[c] \in Int
        OBVIOUS
      <4>7. g[T] = f[x] + g[X]
        BY <4>4, <4>5, <4>6
      <4> QED
        BY <4>7 DEF X
    <3> QED
      BY <3>1, <3>2
  <2> QED
    BY <2>6, <2>7
<1>4. N \in G
  <2> HIDE DEF G, N
  <2>1. \A n \in 0 .. N : n \in G
    BY <1>1, <1>2, <1>3, NatByOne, Zenon
  <2> QED
    BY <1>1, <2>1
<1> QED
  BY <1>1, <1>4, Smaller

\* The two together: the table gives the sum whichever element is taken first.
SumAnyOrder(g, f, S) ==
  g[{}] = 0 /\ \A T \in SUBSET S : g[T] \in Int /\ \A x \in T : g[T] = f[x] + g[T \ {x}]

\* SumFunction has such a table.
LEMMA SumTakes ==
  ASSUME NEW S, IsFiniteSet(S), NEW f \in [S -> Int]
  PROVE  \E g : SumFunction(f) = g[S] /\ SumAnyOrder(g, f, S)
<1>1. DOMAIN f = S
  OBVIOUS
<1>2. PICK g : SumFunction(f) = g[S] /\ SumTable(g, f, S)
  BY <1>1, SumSteps
<1>3. \A T \in SUBSET S : g[T] \in Int /\ \A x \in T : g[T] = f[x] + g[T \ {x}]
  BY <1>2, SumAnyElement, SMTT(30)
<1> QED
  BY <1>2, <1>3 DEF SumTable, SumAnyOrder

\* Eight steps, as numbers.
LEMMA EightSteps ==
  ASSUME NEW x0 \in Int, NEW x1 \in Int, NEW x2 \in Int, NEW x3 \in Int,
         NEW x4 \in Int, NEW x5 \in Int, NEW x6 \in Int, NEW x7 \in Int,
         NEW y0 \in Int, NEW y1 \in Int, NEW y2 \in Int, NEW y3 \in Int,
         NEW y4 \in Int, NEW y5 \in Int, NEW y6 \in Int, NEW y7 \in Int,
         y0 = x0 + y1, y1 = x1 + y2, y2 = x2 + y3, y3 = x3 + y4,
         y4 = x4 + y5, y5 = x5 + y6, y6 = x6 + y7, y7 = x7
  PROVE  y0 = x0 + x1 + x2 + x3 + x4 + x5 + x6 + x7
  OBVIOUS

\* A sum over eight successive numbers.
LEMMA SumOfEight ==
  ASSUME NEW a \in Int, NEW f, f \in [a .. a + 7 -> Int]
  PROVE  SumFunction(f) = f[a] + f[a + 1] + f[a + 2] + f[a + 3] + f[a + 4] + f[a + 5] + f[a + 6] + f[a + 7]
<1> DEFINE S == a .. a + 7
<1>1. IsFiniteSet(S) /\ DOMAIN f = S /\ f \in [S -> Int]
  <2>1. a + 7 \in Int
    OBVIOUS
  <2> QED
    BY <2>1, FS_Interval
<1> HIDE DEF S
<1>a. PICK g : SumFunction(f) = g[S] /\ SumAnyOrder(g, f, S)
  BY <1>1, SumTakes
<1>2. /\ SumFunction(f) = g[S] /\ g[{}] = 0
      /\ \A T \in SUBSET S : g[T] \in Int /\ \A x \in T : g[T] = f[x] + g[T \ {x}]
  BY <1>a DEF SumAnyOrder
<1> DEFINE R(k) == (a + k) .. (a + 7)
<1>4. ASSUME NEW k \in 0 .. 7 PROVE g[R(k)] = f[a + k] + g[R(k + 1)] /\ g[R(k)] \in Int /\ g[R(k + 1)] \in Int /\ f[a + k] \in Int
  <2>a. a + (k + 1) = (a + k) + 1 /\ k \in Int /\ 0 <= k /\ k <= 7
    OBVIOUS
  <2>1. R(k) \in SUBSET S /\ R(k + 1) \in SUBSET S /\ a + k \in R(k) /\ a + k \in S
    BY <2>a DEF S
  <2>2. R(k) \ {a + k} = R(k + 1)
    <3>1. \A y \in Int : (a + k <= y /\ y <= a + 7 /\ y # a + k) <=> ((a + k) + 1 <= y /\ y <= a + 7)
      BY <2>a
    <3> QED
      BY <2>a, <3>1
  <2> HIDE DEF R
  <2> QED
    BY <1>1, <1>2, <2>1, <2>2, ZenonT(40)
<1>5. R(8) = {} /\ R(0) = S
  BY DEF S
<1> HIDE DEF R
<1>6. \A k \in 0 .. 7 : g[R(k)] = f[a + k] + g[R(k + 1)] /\ g[R(k)] \in Int /\ f[a + k] \in Int
  BY <1>4
<1>7. /\ g[R(0)] = f[a + 0] + g[R(1)] /\ g[R(1)] = f[a + 1] + g[R(2)]
      /\ g[R(2)] = f[a + 2] + g[R(3)] /\ g[R(3)] = f[a + 3] + g[R(4)]
      /\ g[R(4)] = f[a + 4] + g[R(5)] /\ g[R(5)] = f[a + 5] + g[R(6)]
      /\ g[R(6)] = f[a + 6] + g[R(7)] /\ g[R(7)] = f[a + 7] + g[R(8)]
  <2>1. /\ 0 \in 0 .. 7 /\ 1 \in 0 .. 7 /\ 2 \in 0 .. 7 /\ 3 \in 0 .. 7 /\ 4 \in 0 .. 7 /\ 5 \in 0 .. 7
        /\ 6 \in 0 .. 7 /\ 7 \in 0 .. 7 /\ 0 + 1 = 1 /\ 1 + 1 = 2 /\ 2 + 1 = 3 /\ 3 + 1 = 4 /\ 4 + 1 = 5
        /\ 5 + 1 = 6 /\ 6 + 1 = 7 /\ 7 + 1 = 8
    OBVIOUS
  <2> QED
    BY <1>4, <2>1, Zenon
<1>8. /\ g[R(0)] \in Int /\ g[R(1)] \in Int /\ g[R(2)] \in Int /\ g[R(3)] \in Int
      /\ g[R(4)] \in Int /\ g[R(5)] \in Int /\ g[R(6)] \in Int /\ g[R(7)] \in Int
  BY <1>6
<1>9. /\ f[a + 0] \in Int /\ f[a + 1] \in Int /\ f[a + 2] \in Int /\ f[a + 3] \in Int
      /\ f[a + 4] \in Int /\ f[a + 5] \in Int /\ f[a + 6] \in Int /\ f[a + 7] \in Int
  BY <1>6
<1>10. g[R(8)] = 0 /\ SumFunction(f) = g[R(0)]
  BY <1>2, <1>5
<1> DEFINE y0 == g[R(0)]
           y1 == g[R(1)]
           y2 == g[R(2)]
           y3 == g[R(3)]
           y4 == g[R(4)]
           y5 == g[R(5)]
           y6 == g[R(6)]
           y7 == g[R(7)]
           y8 == g[R(8)]
           x0 == f[a + 0]
           x1 == f[a + 1]
           x2 == f[a + 2]
           x3 == f[a + 3]
           x4 == f[a + 4]
           x5 == f[a + 5]
           x6 == f[a + 6]
           x7 == f[a + 7]
<1>11. /\ y0 = x0 + y1 /\ y1 = x1 + y2 /\ y2 = x2 + y3 /\ y3 = x3 + y4
       /\ y4 = x4 + y5 /\ y5 = x5 + y6 /\ y6 = x6 + y7 /\ y7 = x7 + y8 /\ y8 = 0
       /\ SumFunction(f) = y0
  BY <1>7, <1>10, Zenon
<1>12. SumFunction(f) = x0 + x1 + x2 + x3 + x4 + x5 + x6 + x7
  <2>1. /\ y0 \in Int /\ y1 \in Int /\ y2 \in Int /\ y3 \in Int /\ y4 \in Int /\ y5 \in Int /\ y6 \in Int /\ y7 \in Int
        /\ x0 \in Int /\ x1 \in Int /\ x2 \in Int /\ x3 \in Int /\ x4 \in Int /\ x5 \in Int /\ x6 \in Int /\ x7 \in Int
    BY <1>8, <1>9, Zenon
  <2> HIDE DEF x0, x1, x2, x3, x4, x5, x6, x7, y0, y1, y2, y3, y4, y5, y6, y7, y8
  <2> QED
    BY <1>11, <2>1
<1>13. a + 0 = a
  OBVIOUS
<1> QED
  BY <1>12, <1>13

\* Two tables of sums agree on a set on which their functions agree.
LEMMA SumsAgree ==
  ASSUME NEW S, IsFiniteSet(S), NEW f \in [S -> Int], NEW h \in [S -> Int],
         NEW D \in SUBSET S, \A i \in D : f[i] = h[i],
         NEW a, SumAnyOrder(a, f, S), NEW b, SumAnyOrder(b, h, S)
  PROVE  a[D] = b[D]
<1> DEFINE n == Cardinality(D)
           G == {m \in Nat : \A T \in SUBSET D : Cardinality(T) = m => a[T] = b[T]}
<1>1. IsFiniteSet(D) /\ n \in Nat
  BY FS_Subset, FS_CardinalityType
<1>2. \A T \in SUBSET D : IsFiniteSet(T) /\ Cardinality(T) \in Nat
  BY <1>1, FS_Subset, FS_CardinalityType
<1>3. 0 \in G
  <2>1. \A T \in SUBSET D : Cardinality(T) = 0 => T = {}
    BY <1>2, FS_EmptySet
  <2> QED
    BY <2>1 DEF SumAnyOrder
<1>4. ASSUME NEW m \in 0 .. n - 1, m \in G PROVE m + 1 \in G
  <2>1. ASSUME NEW T \in SUBSET D, Cardinality(T) = m + 1 PROVE a[T] = b[T]
    <3>1. T # {}
      BY <2>1, FS_EmptySet
    <3>2. PICK x \in T : TRUE
      BY <3>1
    <3>3. Cardinality(T \ {x}) = m
      BY <1>2, <2>1, FS_RemoveElement
    <3>4. a[T \ {x}] = b[T \ {x}]
      BY <1>4, <3>3
    <3> QED
      BY <3>4 DEF SumAnyOrder
  <2> QED
    BY <2>1
<1>5. \A m \in 0 .. n : m \in G
  <2> HIDE DEF G, n
  <2> QED
    BY <1>1, <1>3, <1>4, NatByOne
<1> QED
  BY <1>1, <1>5

\* Sums that differ in one place.
LEMMA SumOffOne ==
  ASSUME NEW S, IsFiniteSet(S), NEW f \in [S -> Int], NEW h \in [S -> Int],
         NEW k \in S, \A i \in S \ {k} : f[i] = h[i]
  PROVE  /\ SumFunction(f) \in Int /\ SumFunction(h) \in Int
         /\ SumFunction(h) = SumFunction(f) + (h[k] - f[k])
<1>1. PICK a : SumFunction(f) = a[S] /\ SumAnyOrder(a, f, S)
  BY SumTakes
<1>2. PICK b : SumFunction(h) = b[S] /\ SumAnyOrder(b, h, S)
  BY SumTakes
<1>3. a[S \ {k}] = b[S \ {k}]
  BY <1>1, <1>2, SumsAgree
<1>4. a[S] = f[k] + a[S \ {k}] /\ a[S] \in Int /\ a[S \ {k}] \in Int
  BY <1>1 DEF SumAnyOrder
<1>5. b[S] = h[k] + b[S \ {k}] /\ b[S] \in Int
  BY <1>2 DEF SumAnyOrder
<1>6. f[k] \in Int /\ h[k] \in Int
  OBVIOUS
<1> QED
  BY <1>1, <1>2, <1>3, <1>4, <1>5, <1>6

\* Sums that differ in two places.
LEMMA SumOffTwo ==
  ASSUME NEW S, IsFiniteSet(S), NEW f \in [S -> Int], NEW h \in [S -> Int],
         NEW k \in S, NEW l \in S, k # l, \A i \in S \ {k, l} : f[i] = h[i]
  PROVE  /\ SumFunction(f) \in Int /\ SumFunction(h) \in Int
         /\ SumFunction(h) = SumFunction(f) + (h[k] - f[k]) + (h[l] - f[l])
<1> DEFINE m == [f EXCEPT ![k] = h[k]]
<1>1. m \in [S -> Int] /\ m[k] = h[k] /\ m[l] = f[l]
  OBVIOUS
<1>2. (\A i \in S \ {k} : f[i] = m[i]) /\ (\A i \in S \ {l} : m[i] = h[i])
  OBVIOUS
<1> HIDE DEF m
<1>3. /\ SumFunction(f) \in Int /\ SumFunction(m) \in Int
      /\ SumFunction(m) = SumFunction(f) + (m[k] - f[k])
  BY <1>1, <1>2, SumOffOne
<1>4. /\ SumFunction(h) \in Int
      /\ SumFunction(h) = SumFunction(m) + (h[l] - m[l])
  BY <1>1, <1>2, SumOffOne
<1>5. f[k] \in Int /\ h[k] \in Int /\ f[l] \in Int /\ h[l] \in Int
  OBVIOUS
<1> QED
  BY <1>1, <1>3, <1>4, <1>5

-----------------------------------------------------------------------------
(* Sequences place by place, and what they hold.                           *)

\* A function on the places of a sequence, made into one.
LEMMA MapSeq ==
  ASSUME NEW U, NEW n \in Nat, NEW g \in [1 .. n -> U]
  PROVE  g \o << >> = g /\ g \in Seq(U) /\ Len(g) = n
<1>1. g \in Seq(U)
  BY SeqDef
<1> QED
  BY <1>1, ConcatEmptySeq

\* Parts of one length, and the sequence of what is in them.
OfOneLength(s, w) == \A i \in 1 .. Len(s) : Len(s[i]) = w
InParts(f, s, w) ==
  /\ Len(f) = w * Len(s)
  /\ \A i \in 1 .. Len(s) : \A j \in 1 .. w : f[w * (i - 1) + j] = s[i][j]

LEMMA FlattenEqual ==
  ASSUME NEW T, NEW w \in {2, 3, 4}, NEW s \in Seq(Seq(T)), OfOneLength(s, w)
  PROVE  FlattenSeq(s) \in Seq(T) /\ InParts(FlattenSeq(s), s, w)
<1> USE DEF OfOneLength, InParts
<1>1. Len(s) \in Nat /\ \A n \in 1 .. Len(s) : s[n] \in Seq(T)
  BY LenProperties
<1>w. w = 2 \/ w = 3 \/ w = 4
  OBVIOUS
<1>2. CASE Len(s) = 0
  <2>1. s = << >>
    BY <1>2, EmptySeq
  <2>2. FlattenSeq(s) = << >>
    BY <2>1, FlattenFew
  <2>3. << >> \in Seq(T) /\ Len(<< >>) = 0 /\ w * Len(s) = 0
    BY <1>2, <1>w, EmptySeq
  <2> QED
    BY <1>2, <2>2, <2>3
<1>3. CASE Len(s) # 0
  <2>1. PICK f : /\ FlattenSeq(s) = f[Len(s)]
                 /\ f[1] = s[1]
                 /\ \A n \in 1 .. Len(s) - 1 : f[n + 1] = f[n] \o s[n + 1]
    BY <1>1, <1>3, FlattenSteps
  <2> DEFINE Good(q, m) == /\ q \in Seq(T) /\ Len(q) = w * m
                           /\ \A i \in 1 .. m : \A j \in 1 .. w : q[w * (i - 1) + j] = s[i][j]
             G == {n \in Nat : Good(f[n + 1], n + 1)}
             N == Len(s) - 1
  <2>2. N \in Nat /\ N + 1 = Len(s)
    BY <1>1, <1>3
  <2>3. 0 \in G
    <3>1. 1 \in 1 .. Len(s) /\ 0 + 1 = 1 /\ w * 1 = w /\ \A j \in 1 .. w : w * (1 - 1) + j = j
      BY <1>1, <1>3, <1>w
    <3>2. f[1] \in Seq(T) /\ Len(f[1]) = w
      BY <1>1, <2>1, <3>1
    <3>3. \A i \in 1 .. 1 : i = 1
      OBVIOUS
    <3>4. Good(f[1], 1)
      BY <2>1, <3>1, <3>2, <3>3
    <3> HIDE DEF Good
    <3> QED
      BY <3>1, <3>4
  <2>4. ASSUME NEW n \in 0 .. N - 1, n \in G PROVE n + 1 \in G
    <3> DEFINE q == f[n + 1]
               m == n + 1
               p == s[m + 1]
    <3>1. m \in 1 .. Len(s) - 1 /\ m \in Nat /\ m + 1 \in 1 .. Len(s) /\ n \in Nat
      BY <2>2
    <3>2. f[m + 1] = q \o p
      BY <2>1, <3>1
    <3>3. p \in Seq(T) /\ Len(p) = w
      BY <1>1, <3>1
    <3>4. Good(q, m)
      BY <2>4
    <3> HIDE DEF q, p, m
    <3>5. /\ q \o p \in Seq(T) /\ Len(q \o p) = Len(q) + Len(p)
          /\ \A i \in 1 .. Len(q) + Len(p) : (q \o p)[i] = IF i <= Len(q) THEN q[i] ELSE p[i - Len(q)]
      BY <3>3, <3>4, ConcatProperties
    <3>6. Len(q) = w * m
      BY <3>4
    <3>7. Len(q \o p) = w * (m + 1)
      BY <1>w, <3>1, <3>3, <3>5, <3>6
    <3>8. ASSUME NEW i \in 1 .. m + 1, NEW j \in 1 .. w
          PROVE  (q \o p)[w * (i - 1) + j] = s[i][j]
      <4> DEFINE t == w * (i - 1) + j
      <4>1. CASE i = m + 1
        <5>1. t \in 1 .. Len(q) + Len(p) /\ ~(t <= Len(q)) /\ t - Len(q) = j
          BY <1>w, <3>1, <3>3, <3>6, <4>1
        <5> HIDE DEF t
        <5>2. (q \o p)[t] = p[j]
          BY <3>5, <5>1
        <5> QED
          BY <4>1, <5>2 DEF p, t
      <4>2. CASE i # m + 1
        <5>1. i \in 1 .. m
          BY <3>1, <4>2
        <5>2. t \in 1 .. Len(q) + Len(p) /\ t <= Len(q)
          BY <1>w, <3>1, <3>3, <3>6, <5>1
        <5>3. q[t] = s[i][j]
          BY <3>4, <5>1
        <5> HIDE DEF t
        <5>4. (q \o p)[t] = q[t]
          BY <3>5, <5>2
        <5> QED
          BY <5>3, <5>4 DEF t
      <4> QED
        BY <4>1, <4>2
    <3>9. Good(f[m + 1], m + 1)
      BY <3>2, <3>5, <3>7, <3>8
    <3> HIDE DEF Good
    <3> QED
      BY <3>1, <3>9 DEF m
  <2>5. N \in G
    <3> HIDE DEF G, N
    <3>1. \A n \in 0 .. N : n \in G
      BY <2>2, <2>3, <2>4, NatByOne, Zenon
    <3> QED
      BY <2>2, <3>1
  <2> QED
    BY <2>1, <2>2, <2>5
<1> QED
  BY <1>2, <1>3

\* Pairs one after the other.
LEMMA FlattenPairs ==
  ASSUME NEW T, NEW s \in Seq(Seq(T)), \A i \in 1 .. Len(s) : Len(s[i]) = 2
  PROVE  /\ FlattenSeq(s) \in Seq(T) /\ Len(FlattenSeq(s)) = 2 * Len(s)
         /\ \A i \in 1 .. Len(s) : FlattenSeq(s)[2 * i - 1] = s[i][1] /\ FlattenSeq(s)[2 * i] = s[i][2]
<1> DEFINE f == FlattenSeq(s)
<1>1. /\ f \in Seq(T) /\ Len(f) = 2 * Len(s)
      /\ \A i \in 1 .. Len(s) : \A j \in 1 .. 2 : f[2 * (i - 1) + j] = s[i][j]
  <2>1. OfOneLength(s, 2)
    BY DEF OfOneLength
  <2>2. f \in Seq(T) /\ InParts(f, s, 2)
    BY <2>1, FlattenEqual
  <2> QED
    BY <2>2 DEF InParts
<1> HIDE DEF f
<1>2. ASSUME NEW i \in 1 .. Len(s) PROVE f[2 * i - 1] = s[i][1] /\ f[2 * i] = s[i][2]
  <2>1. 1 \in 1 .. 2 /\ 2 \in 1 .. 2 /\ 2 * (i - 1) + 1 = 2 * i - 1 /\ 2 * (i - 1) + 2 = 2 * i
    BY LenProperties
  <2>2. f[2 * (i - 1) + 1] = s[i][1] /\ f[2 * (i - 1) + 2] = s[i][2]
    BY <1>1, <2>1
  <2> QED
    BY <2>1, <2>2
<1> QED
  BY <1>1, <1>2 DEF f

\* One sequence after the other, place by place.
LEMMA Joined ==
  ASSUME NEW T, NEW s \in Seq(T), NEW t \in Seq(T)
  PROVE  /\ s \o t \in Seq(T) /\ Len(s \o t) = Len(s) + Len(t) /\ Len(s) \in Nat /\ Len(t) \in Nat
         /\ \A i \in 1 .. Len(s) : (s \o t)[i] = s[i]
         /\ \A j \in 1 .. Len(t) : (s \o t)[Len(s) + j] = t[j]
         /\ \A i \in 1 .. Len(s \o t) : i \in 1 .. Len(s) \/ (i - Len(s) \in 1 .. Len(t) /\ i = Len(s) + (i - Len(s)))
<1>1. Len(s) \in Nat /\ Len(t) \in Nat
  OBVIOUS
<1>2. s \o t \in Seq(T) /\ Len(s \o t) = Len(s) + Len(t)
  BY ConcatProperties
<1>3. \A i \in 1 .. Len(s) + Len(t) : (s \o t)[i] = IF i <= Len(s) THEN s[i] ELSE t[i - Len(s)]
  BY ConcatProperties
<1>4. \A i \in 1 .. Len(s) : (s \o t)[i] = s[i]
  BY <1>1, <1>3
<1>5. ASSUME NEW j \in 1 .. Len(t) PROVE (s \o t)[Len(s) + j] = t[j]
  <2>1. Len(s) + j \in 1 .. Len(s) + Len(t) /\ ~(Len(s) + j <= Len(s)) /\ (Len(s) + j) - Len(s) = j
    BY <1>1
  <2> QED
    BY <1>3, <2>1
<1> DEFINE m == Len(s)
           n == Len(t)
<1>6. m \in Nat /\ n \in Nat /\ Len(s \o t) = m + n
  BY <1>1, <1>2
<1> HIDE DEF m, n
<1>7. \A i \in 1 .. m + n : i \in 1 .. m \/ (i - m \in 1 .. n /\ i = m + (i - m))
  BY <1>6
<1> QED
  BY <1>1, <1>2, <1>4, <1>5, <1>6, <1>7 DEF m, n

\* The elements of a sequence that are in a set, counted.
Count(s, A) == Cardinality({i \in 1 .. Len(s) : s[i] \in A})

\* There are finitely many.
LEMMA CountType ==
  ASSUME NEW s, Len(s) \in Nat, NEW A
  PROVE  /\ IsFiniteSet({i \in 1 .. Len(s) : s[i] \in A}) /\ Count(s, A) \in Nat
         /\ (\E i \in 1 .. Len(s) : s[i] \in A) => Count(s, A) >= 1
         /\ (\A i \in 1 .. Len(s) : s[i] \notin A) => Count(s, A) = 0
<1> DEFINE P == {i \in 1 .. Len(s) : s[i] \in A}
<1>1. IsFiniteSet(1 .. Len(s))
  <2>1. 1 \in Int /\ Len(s) \in Int
    OBVIOUS
  <2> QED
    BY <2>1, FS_Interval
<1>2. IsFiniteSet(P)
  <2>1. P \in SUBSET (1 .. Len(s))
    OBVIOUS
  <2> QED
    BY <1>1, <2>1, FS_Subset
<1>3. Cardinality(P) \in Nat
  BY <1>2, FS_CardinalityType
<1>4. Cardinality(P) = 0 <=> P = {}
  BY <1>2, FS_EmptySet
<1>5. (\E i \in 1 .. Len(s) : s[i] \in A) => P # {}
  OBVIOUS
<1>6. (\A i \in 1 .. Len(s) : s[i] \notin A) => P = {}
  OBVIOUS
<1> HIDE DEF P
<1>7. P # {} => Cardinality(P) >= 1
  BY <1>3, <1>4
<1> QED
  BY <1>2, <1>3, <1>4, <1>5, <1>6, <1>7 DEF P, Count

\* Places of one sequence that are places of another have no more to count.
LEMMA CountInto ==
  ASSUME NEW s, Len(s) \in Nat, NEW t, Len(t) \in Nat, NEW A,
         NEW g \in [1 .. Len(t) -> 1 .. Len(s)],
         \A i, j \in 1 .. Len(t) : g[i] = g[j] => i = j,
         \A i \in 1 .. Len(t) : t[i] = s[g[i]]
  PROVE  Count(t, A) <= Count(s, A)
<1> DEFINE P == {i \in 1 .. Len(s) : s[i] \in A}
           Q == {i \in 1 .. Len(t) : t[i] \in A}
           h == [i \in Q |-> g[i]]
<1>1. IsFiniteSet(P)
  BY CountType
<1>2. h \in [Q -> P]
  OBVIOUS
<1>3. \A i, j \in Q : h[i] = h[j] => i = j
  OBVIOUS
<1>4. DOMAIN h = Q
  OBVIOUS
<1> HIDE DEF h, P, Q
<1>5. h \in Injection(Q, P)
  BY <1>2, <1>3, <1>4 DEF Injection, IsInjective
<1>6. Cardinality(Q) <= Cardinality(P)
  BY <1>1, <1>5, FS_Injection
<1> QED
  BY <1>6 DEF P, Q, Count

\* Two sequences one after the other have what both have.
LEMMA CountJoined ==
  ASSUME NEW T, NEW s \in Seq(T), NEW t \in Seq(T), NEW A
  PROVE  Count(s \o t, A) = Count(s, A) + Count(t, A)
<1> DEFINE m == Len(s)
           n == Len(t)
           q == s \o t
           P == {i \in 1 .. m : s[i] \in A}
           Q == {j \in 1 .. n : t[j] \in A}
           R == {i \in 1 .. Len(q) : q[i] \in A}
           U == {m + j : j \in Q}
<1>1. /\ Len(q) = m + n /\ m \in Nat /\ n \in Nat
      /\ \A i \in 1 .. m : q[i] = s[i]
      /\ \A j \in 1 .. n : q[m + j] = t[j]
  BY Joined
<1>2. IsFiniteSet(P) /\ IsFiniteSet(Q) /\ Cardinality(P) \in Nat /\ Cardinality(Q) \in Nat
  <2>1. IsFiniteSet(P) /\ IsFiniteSet(Q)
    BY <1>1, CountType
  <2> QED
    BY <2>1, FS_CardinalityType
<1> HIDE DEF q, m, n
<1>3. R = P \cup U
  <2>1. ASSUME NEW i \in R PROVE i \in P \cup U
    <3>1. i \in 1 .. m + n /\ q[i] \in A
      BY <1>1
    <3>2. CASE i <= m
      <4>1. i \in 1 .. m
        BY <1>1, <3>1, <3>2
      <4> QED
        BY <1>1, <3>1, <4>1
    <3>3. CASE ~(i <= m)
      <4> DEFINE j == i - m
      <4>1. j \in 1 .. n /\ i = m + j
        BY <1>1, <3>1, <3>3
      <4> HIDE DEF j
      <4>2. j \in Q
        BY <1>1, <3>1, <4>1
      <4> QED
        BY <4>1, <4>2
    <3> QED
      BY <3>2, <3>3
  <2>2. ASSUME NEW i \in P PROVE i \in R
    <3>1. i \in 1 .. m /\ s[i] \in A
      OBVIOUS
    <3>2. i \in 1 .. m + n
      BY <1>1, <3>1
    <3> QED
      BY <1>1, <3>1, <3>2
  <2>3. ASSUME NEW j \in Q PROVE m + j \in R
    <3>1. j \in 1 .. n /\ t[j] \in A
      OBVIOUS
    <3>2. m + j \in 1 .. m + n
      BY <1>1, <3>1
    <3> QED
      BY <1>1, <3>1, <3>2
  <2> QED
    BY <2>1, <2>2, <2>3
<1>4. P \cap U = {}
  <2> SUFFICES ASSUME NEW i \in P, NEW j \in Q, i = m + j PROVE FALSE
    OBVIOUS
  <2>1. i \in 1 .. m /\ j \in 1 .. n
    OBVIOUS
  <2> QED
    BY <1>1, <2>1
<1>5. IsFiniteSet(U) /\ Cardinality(U) = Cardinality(Q)
  <2> DEFINE f == [i \in U |-> i - m]
             g == [j \in Q |-> m + j]
  <2>1. \A j \in Q : j \in Int /\ (m + j) - m = j
    BY <1>1
  <2>2. f \in [U -> Q] /\ (\A x, y \in U : f[x] = f[y] => x = y) /\ DOMAIN f = U
    <3>1. \A x \in U : x - m \in Q /\ m + (x - m) = x
      BY <1>1, <2>1
    <3> HIDE DEF U, Q
    <3> QED
      BY <3>1
  <2>3. g \in [Q -> U] /\ (\A x, y \in Q : g[x] = g[y] => x = y) /\ DOMAIN g = Q
    <3>1. \A x, y \in Q : m + x = m + y => x = y
      BY <1>1, <2>1
    <3>2. \A x \in Q : m + x \in U
      OBVIOUS
    <3> HIDE DEF U, Q
    <3> QED
      BY <3>1, <3>2
  <2> HIDE DEF f, g, U, Q
  <2>4. f \in Injection(U, Q) /\ g \in Injection(Q, U)
    BY <2>2, <2>3 DEF Injection, IsInjective
  <2>5. IsFiniteSet(U) /\ Cardinality(U) <= Cardinality(Q)
    BY <1>2, <2>4, FS_Injection
  <2>6. Cardinality(Q) <= Cardinality(U)
    BY <2>4, <2>5, FS_Injection
  <2>7. Cardinality(U) \in Nat
    BY <2>5, FS_CardinalityType
  <2> QED
    BY <1>2, <2>5, <2>6, <2>7
<1> HIDE DEF P, Q, R, U
<1>6. Cardinality(R) = Cardinality(P) + Cardinality(U) - Cardinality(P \cap U)
  BY <1>2, <1>3, <1>5, FS_Union
<1>7. Cardinality(P \cap U) = 0
  BY <1>4, FS_EmptySet
<1>8. Cardinality(R) = Cardinality(P) + Cardinality(Q)
  BY <1>2, <1>5, <1>6, <1>7
<1> QED
  BY <1>8 DEF P, Q, R, Count, q, m, n

\* The rank of an element among the smaller ones of a set of places: it is
\* between one and their number, and no two have the same.
LEMMA Ranks ==
  ASSUME NEW n \in Nat, NEW S \in SUBSET (1 .. n)
  PROVE  /\ \A i \in S : Cardinality({j \in S : j <= i}) \in 1 .. Cardinality(S)
         /\ \A i, k \in S : Cardinality({j \in S : j <= i}) = Cardinality({j \in S : j <= k}) => i = k
<1> DEFINE R(i) == {j \in S : j <= i}
<1>1. IsFiniteSet(S)
  <2>1. 1 \in Int /\ n \in Int
    OBVIOUS
  <2>2. IsFiniteSet(1 .. n)
    BY <2>1, FS_Interval
  <2> QED
    BY <2>2, FS_Subset
<1>2. ASSUME NEW i \in S
      PROVE  /\ IsFiniteSet(R(i)) /\ Cardinality(R(i)) \in 1 .. Cardinality(S)
  <2>1. R(i) \in SUBSET S /\ i \in R(i)
    OBVIOUS
  <2> HIDE DEF R
  <2>2. IsFiniteSet(R(i)) /\ Cardinality(R(i)) <= Cardinality(S)
    BY <1>1, <2>1, FS_Subset
  <2>3. Cardinality(R(i)) \in Nat /\ Cardinality(R(i)) # 0 /\ Cardinality(S) \in Nat
    BY <1>1, <2>1, <2>2, FS_CardinalityType, FS_EmptySet
  <2> QED
    BY <2>2, <2>3
<1>3. ASSUME NEW i \in S, NEW k \in S, i < k
      PROVE  Cardinality(R(i)) # Cardinality(R(k))
  <2>1. R(i) \in SUBSET R(k) /\ k \in R(k) /\ k \notin R(i)
    <3>1. \A j \in S : j <= i => j <= k
      BY <1>3
    <3>2. k <= k /\ ~(k <= i)
      BY <1>3
    <3> QED
      BY <3>1, <3>2
  <2>2. R(i) # R(k)
    BY <2>1
  <2>3. IsFiniteSet(R(k))
    BY <1>2
  <2> HIDE DEF R
  <2> QED
    BY <2>1, <2>2, <2>3, FS_Subset
<1>4. ASSUME NEW i \in S, NEW k \in S, Cardinality(R(i)) = Cardinality(R(k))
      PROVE  i = k
  <2>1. i \in Int /\ k \in Int
    OBVIOUS
  <2>2. i = k \/ i < k \/ k < i
    BY <2>1
  <2> HIDE DEF R
  <2> QED
    BY <1>3, <1>4, <2>2
<1> QED
  BY <1>2, <1>4

\* Places that increase and leave none out are the first ones.
LEMMA PlacesAreFirst ==
  ASSUME NEW n \in Nat, NEW m, \A i \in 1 .. n : m[i] \in Nat \ {0},
         \A i, j \in 1 .. n : i < j => m[i] < m[j],
         \A i \in 1 .. n : \A j \in 1 .. m[i] - 1 : \E t \in 1 .. n : m[t] = j
  PROVE  \A i \in 1 .. n : m[i] = i
<1> DEFINE S == {i \in 1 .. n : m[i] # i}
<1> SUFFICES ASSUME S # {} PROVE FALSE
  OBVIOUS
<1>1. PICK i \in S : \A k \in S : i <= k
  <2>1. S \in SUBSET Nat
    OBVIOUS
  <2> HIDE DEF S
  <2> QED
    BY <2>1, LeastNatural
<1>2. i \in 1 .. n /\ m[i] # i /\ m[i] \in Nat \ {0}
  BY <1>1
<1>3. \A t \in 1 .. n : t < i => m[t] = t
  <2> SUFFICES ASSUME NEW t \in 1 .. n, t < i, m[t] # t PROVE FALSE
    OBVIOUS
  <2>1. t \in S
    OBVIOUS
  <2>2. i <= t
    BY <1>1, <2>1
  <2> QED
    BY <1>2, <2>2
<1> HIDE DEF S
<1>4. m[i] > i
  <2>1. CASE i = 1
    BY <1>2, <2>1
  <2>2. CASE i # 1
    <3>1. i - 1 \in 1 .. n /\ i - 1 < i
      BY <1>2, <2>2
    <3>2. m[i - 1] = i - 1 /\ m[i - 1] < m[i]
      BY <1>2, <1>3, <3>1
    <3> QED
      BY <1>2, <3>1, <3>2
  <2> QED
    BY <2>1, <2>2
<1>5. i \in 1 .. m[i] - 1
  BY <1>2, <1>4
<1>6. PICK t \in 1 .. n : m[t] = i
  BY <1>2, <1>5
<1>7. CASE t < i
  BY <1>2, <1>3, <1>6, <1>7
<1>8. CASE t = i
  BY <1>2, <1>6, <1>8
<1>9. CASE i < t
  <2>1. m[i] < m[t]
    BY <1>2, <1>9
  <2> QED
    BY <1>2, <1>4, <1>6, <2>1
<1> QED
  BY <1>2, <1>7, <1>8, <1>9

\* Increasing places, q of them, among the first n.
Rising(m, q, n) ==
  /\ \A i \in 1 .. q : m[i] \in 1 .. n
  /\ \A i, j \in 1 .. q : i < j => m[i] < m[j]

\* Increasing places among the first n are no more than n, and all of them when
\* they are as many.
LEMMA PlacesWithin ==
  ASSUME NEW n \in Nat, NEW q \in Nat, NEW m, Rising(m, q, n)
  PROVE  q <= n /\ (q = n => \A i \in 1 .. q : m[i] = i)
<1>0. /\ \A i \in 1 .. q : m[i] \in 1 .. n
      /\ \A i, j \in 1 .. q : i < j => m[i] < m[j]
  BY DEF Rising
<1>1. ASSUME NEW i \in 1 .. q PROVE m[i] >= i
  <2> DEFINE S == {k \in 1 .. q : m[k] < k}
  <2> SUFFICES ASSUME S # {} PROVE FALSE
    <3>1. i \notin S
      OBVIOUS
    <3>2. m[i] \in Int
      BY <1>0
    <3> QED
      BY <3>1, <3>2
  <2>1. PICK k \in S : \A l \in S : k <= l
    <3>1. S \in SUBSET Nat
      OBVIOUS
    <3> HIDE DEF S
    <3> QED
      BY <3>1, LeastNatural
  <2>2. k \in 1 .. q /\ m[k] < k /\ m[k] \in 1 .. n
    BY <1>0, <2>1
  <2>3. k # 1
    BY <2>2
  <2>4. k - 1 \in 1 .. q /\ k - 1 < k
    BY <2>2, <2>3
  <2>5. k - 1 \notin S
    BY <2>1, <2>2
  <2>6. ~(m[k - 1] < k - 1) /\ m[k - 1] < m[k] /\ m[k - 1] \in 1 .. n
    BY <1>0, <2>2, <2>4, <2>5
  <2> QED
    BY <2>2, <2>6
<1>2. ASSUME NEW i \in 1 .. q PROVE m[i] <= n - (q - i)
  <2> DEFINE S == {k \in 0 .. q - 1 : m[q - k] > n - k}
  <2> SUFFICES ASSUME S # {} PROVE FALSE
    <3>1. S = {}
      OBVIOUS
    <3> DEFINE k == q - i
    <3>2. k \in 0 .. q - 1 /\ q - k = i /\ n - k = n - (q - i)
      OBVIOUS
    <3> HIDE DEF k
    <3>3. ~(m[q - k] > n - k)
      BY <3>1, <3>2
    <3>4. m[i] \in Int
      BY <1>0
    <3> QED
      BY <3>2, <3>3, <3>4
  <2>1. PICK k \in S : \A l \in S : k <= l
    <3>1. S \in SUBSET Nat
      OBVIOUS
    <3> HIDE DEF S
    <3> QED
      BY <3>1, LeastNatural
  <2>2. k \in 0 .. q - 1 /\ q - k \in 1 .. q /\ m[q - k] > n - k /\ m[q - k] \in 1 .. n
    BY <1>0, <2>1
  <2>3. k # 0
    BY <2>2
  <2>4. k - 1 \in 0 .. q - 1 /\ q - (k - 1) \in 1 .. q /\ q - k < q - (k - 1)
    BY <2>2, <2>3
  <2>5. k - 1 \notin S
    BY <2>1, <2>2
  <2>6. ~(m[q - (k - 1)] > n - (k - 1))
    BY <2>4, <2>5
  <2> HIDE DEF S
  <2>7. m[q - k] < m[q - (k - 1)] /\ m[q - (k - 1)] \in 1 .. n
    BY <1>0, <2>2, <2>4
  <2> QED
    BY <2>2, <2>6, <2>7
<1>3. q <= n
  <2>1. CASE q = 0
    BY <2>1
  <2>2. CASE q # 0
    <3>1. q \in 1 .. q
      BY <2>2
    <3>2. m[q] >= q /\ m[q] \in 1 .. n
      BY <1>0, <1>1, <3>1
    <3> QED
      BY <3>2
  <2> QED
    BY <2>1, <2>2
<1>4. ASSUME q = n, NEW i \in 1 .. q PROVE m[i] = i
  <2>1. m[i] >= i /\ m[i] <= n - (q - i) /\ m[i] \in 1 .. n
    BY <1>0, <1>1, <1>2
  <2> QED
    BY <1>4, <2>1
<1> QED
  BY <1>3, <1>4

\* Each rank up to the number of places is taken, and later places have higher ones.
LEMMA RanksTaken ==
  ASSUME NEW n \in Nat, NEW S \in SUBSET (1 .. n)
  PROVE  /\ \A c \in 1 .. Cardinality(S) : \E i \in S : Cardinality({j \in S : j <= i}) = c
         /\ \A i, k \in S : i < k => Cardinality({j \in S : j <= i}) < Cardinality({j \in S : j <= k})
<1> DEFINE R(i) == {j \in S : j <= i}
           r == [i \in S |-> Cardinality(R(i))]
           C == 1 .. Cardinality(S)
<1>1. IsFiniteSet(S) /\ Cardinality(S) \in Nat
  <2>1. 1 \in Int /\ n \in Int
    OBVIOUS
  <2>2. IsFiniteSet(1 .. n)
    BY <2>1, FS_Interval
  <2> QED
    BY <2>2, FS_Subset, FS_CardinalityType
<1>2. /\ \A i \in S : Cardinality(R(i)) \in C
      /\ \A i, k \in S : Cardinality(R(i)) = Cardinality(R(k)) => i = k
  BY Ranks
<1>3. ASSUME NEW i \in S, NEW k \in S, i < k
      PROVE  Cardinality(R(i)) < Cardinality(R(k))
  <2>1. R(i) \in SUBSET R(k)
    <3>1. \A j \in S : j <= i => j <= k
      BY <1>3
    <3> QED
      BY <3>1
  <2>2. R(k) \in SUBSET S
    OBVIOUS
  <2>3. Cardinality(R(i)) \in Int /\ Cardinality(R(k)) \in Int /\ Cardinality(R(i)) # Cardinality(R(k))
    <3>1. i # k
      BY <1>3
    <3>2. \A x \in C : x \in Int
      OBVIOUS
    <3> HIDE DEF R, C
    <3> QED
      BY <1>2, <3>1, <3>2
  <2> HIDE DEF R
  <2>4. IsFiniteSet(R(k))
    BY <1>1, <2>2, FS_Subset
  <2>5. Cardinality(R(i)) <= Cardinality(R(k))
    BY <2>1, <2>4, FS_Subset
  <2> QED
    BY <2>3, <2>5
<1>4. IsFiniteSet(C) /\ Cardinality(C) = Cardinality(S)
  <2> DEFINE c == Cardinality(S)
  <2>1. c \in Nat
    BY <1>1
  <2> HIDE DEF c
  <2>2. 1 \in Int /\ c \in Int /\ (IF 1 > c THEN 0 ELSE c - 1 + 1) = c
    BY <2>1
  <2>3. IsFiniteSet(1 .. c) /\ Cardinality(1 .. c) = c
    BY <2>2, FS_Interval
  <2> QED
    BY <2>3 DEF c
<1> HIDE DEF R, C
<1>5. r \in Injection(S, C)
  BY <1>2 DEF Injection, IsInjective
<1>6. r \in Surjection(S, C)
  <2> HIDE DEF r
  <2> QED
    BY <1>4, <1>5, FS_Injection
<1>7. \A c \in C : \E i \in S : r[i] = c
  <2> HIDE DEF r
  <2> QED
    BY <1>6 DEF Surjection
<1> QED
  BY <1>3, <1>7 DEF R, C

\* Where the selected elements stood: in the same order, and none is left out.
LEMMA SelectPlaces ==
  ASSUME NEW T, NEW s \in Seq(T), NEW S
  PROVE  \E b : /\ \A k \in 1 .. Len(Select(s, S)) :
                     b[k] \in 1 .. Len(s) /\ s[b[k]] \in S /\ Select(s, S)[k] = s[b[k]]
                /\ \A k, l \in 1 .. Len(Select(s, S)) : k < l => b[k] < b[l]
                /\ \A i \in 1 .. Len(s) : s[i] \in S => \E k \in 1 .. Len(Select(s, S)) : b[k] = i
<1>1. Len(s) \in Nat /\ \A n \in 1 .. Len(s) : s[n] \in T
  BY LenProperties
<1>a. PICK f : Select(s, S) = f[Len(s)] /\ SelectTable(f, s, S)
  BY <1>1, SelectSteps
<1>2. /\ Select(s, S) = f[Len(s)]
      /\ f[0] = << >>
      /\ \A n \in 1 .. Len(s) : s[n] \in S => f[n] = Append(f[n - 1], s[n])
      /\ \A n \in 1 .. Len(s) : s[n] \notin S => f[n] = f[n - 1]
  BY <1>a DEF SelectTable
<1> DEFINE At(q, n, b) == /\ q \in Seq(T)
                          /\ \A k \in 1 .. Len(q) : b[k] \in 1 .. n /\ s[b[k]] \in S /\ q[k] = s[b[k]]
                          /\ \A k, l \in 1 .. Len(q) : k < l => b[k] < b[l]
                          /\ \A i \in 1 .. n : s[i] \in S => \E k \in 1 .. Len(q) : b[k] = i
           G == {n \in Nat : \E b : At(f[n], n, b)}
<1>3. 0 \in G
  <2> DEFINE e == << >>
  <2>1. f[0] = e /\ e \in Seq(T) /\ Len(e) = 0
    BY <1>2, EmptySeq
  <2>2. (\A k \in 1 .. 0 : FALSE)
    OBVIOUS
  <2> HIDE DEF e
  <2>3. At(e, 0, e)
    BY <2>1, <2>2
  <2> HIDE DEF At
  <2> QED
    BY <2>1, <2>3
<1>4. ASSUME NEW n \in 0 .. Len(s) - 1, n \in G PROVE n + 1 \in G
  <2>1. n + 1 \in 1 .. Len(s) /\ (n + 1) - 1 = n /\ n + 1 \in Nat /\ n \in Nat
    BY <1>1
  <2> DEFINE g == f[n]
  <2>2. PICK b : At(g, n, b)
    BY <1>4
  <2>3. g \in Seq(T) /\ Len(g) \in Nat
    BY <2>2
  <2>4. CASE s[n + 1] \in S
    <3> DEFINE p == Len(g) + 1
               c == [k \in 1 .. p |-> IF k = p THEN n + 1 ELSE b[k]]
               h == f[n + 1]
    <3>1. h = Append(g, s[n + 1]) /\ s[n + 1] \in T
      BY <1>1, <1>2, <2>1, <2>4
    <3> HIDE DEF g, h
    <3>2. /\ h \in Seq(T) /\ Len(h) = p
          /\ \A k \in 1 .. Len(g) : h[k] = g[k]
          /\ h[p] = s[n + 1]
      BY <2>3, <3>1, AppendProperties
    <3>3. p \in Nat /\ \A k \in 1 .. p : k = p \/ (k \in 1 .. Len(g) /\ k # p)
      BY <2>3
    <3>4. c[p] = n + 1 /\ \A k \in 1 .. Len(g) : c[k] = b[k] /\ k \in 1 .. p
      BY <2>3, <3>3
    <3>5. /\ \A k \in 1 .. Len(g) : b[k] \in 1 .. n /\ s[b[k]] \in S /\ g[k] = s[b[k]]
          /\ \A k, l \in 1 .. Len(g) : k < l => b[k] < b[l]
          /\ \A i \in 1 .. n : s[i] \in S => \E k \in 1 .. Len(g) : b[k] = i
      BY <2>2
    <3> HIDE DEF c, p
    <3>6. \A k \in 1 .. p : c[k] \in 1 .. n + 1 /\ s[c[k]] \in S /\ h[k] = s[c[k]]
      <4> SUFFICES ASSUME NEW k \in 1 .. p PROVE c[k] \in 1 .. n + 1 /\ s[c[k]] \in S /\ h[k] = s[c[k]]
        OBVIOUS
      <4>1. CASE k = p
        BY <2>1, <2>4, <3>2, <3>4, <4>1
      <4>2. CASE k \in 1 .. Len(g)
        <5>1. \A x \in 1 .. n : x \in 1 .. n + 1
          BY <2>1
        <5> QED
          BY <3>2, <3>4, <3>5, <4>2, <5>1
      <4> QED
        BY <3>3, <4>1, <4>2
    <3>7. \A k, l \in 1 .. p : k < l => c[k] < c[l]
      <4> SUFFICES ASSUME NEW k \in 1 .. p, NEW l \in 1 .. p, k < l PROVE c[k] < c[l]
        OBVIOUS
      <4>1. k \in 1 .. Len(g)
        BY <3>3
      <4>2. CASE l = p
        <5>1. c[k] \in 1 .. n /\ c[l] = n + 1
          BY <3>4, <3>5, <4>1, <4>2
        <5> QED
          BY <2>1, <5>1
      <4>3. CASE l \in 1 .. Len(g)
        BY <3>4, <3>5, <4>1, <4>3
      <4> QED
        BY <3>3, <4>2, <4>3
    <3>8. \A i \in 1 .. n + 1 : s[i] \in S => \E k \in 1 .. p : c[k] = i
      <4> SUFFICES ASSUME NEW i \in 1 .. n + 1, s[i] \in S PROVE \E k \in 1 .. p : c[k] = i
        OBVIOUS
      <4>1. CASE i = n + 1
        <5>1. p \in 1 .. p
          BY <2>3 DEF p
        <5> QED
          BY <3>4, <4>1, <5>1
      <4>2. CASE i # n + 1
        <5>1. i \in 1 .. n
          BY <2>1, <4>2
        <5>2. PICK k \in 1 .. Len(g) : b[k] = i
          BY <3>5, <5>1
        <5> QED
          BY <3>4, <5>2
      <4> QED
        BY <4>1, <4>2
    <3>9. At(h, n + 1, c)
      BY <3>2, <3>6, <3>7, <3>8
    <3> HIDE DEF At
    <3> QED
      BY <2>1, <3>9 DEF h
  <2>5. CASE s[n + 1] \notin S
    <3>1. f[n + 1] = g
      BY <1>2, <2>1, <2>5
    <3> HIDE DEF g
    <3>2. At(g, n + 1, b)
      <4>1. \A i \in 1 .. n + 1 : i \in 1 .. n \/ i = n + 1
        BY <2>1
      <4>2. \A x \in 1 .. n : x \in 1 .. n + 1
        BY <2>1
      <4> QED
        BY <2>2, <2>5, <4>1, <4>2
    <3> HIDE DEF At
    <3> QED
      BY <2>1, <3>1, <3>2
  <2> QED
    BY <2>4, <2>5
<1>5. Len(s) \in G
  <2> HIDE DEF G
  <2>1. \A n \in 0 .. Len(s) : n \in G
    BY <1>1, <1>3, <1>4, NatByOne, Zenon
  <2> QED
    BY <1>1, <2>1
<1> DEFINE q == Select(s, S)
<1>6. PICK b : At(q, Len(s), b)
  BY <1>2, <1>5
<1> HIDE DEF q
<1>7. /\ \A k \in 1 .. Len(q) : b[k] \in 1 .. Len(s) /\ s[b[k]] \in S /\ q[k] = s[b[k]]
      /\ \A k, l \in 1 .. Len(q) : k < l => b[k] < b[l]
      /\ \A i \in 1 .. Len(s) : s[i] \in S => \E k \in 1 .. Len(q) : b[k] = i
  BY <1>6
<1> QED
  BY <1>7, Zenon DEF q

\* Sequences of no more than seven, one after the other: how long that is, and,
\* when all but the last are of seven, what stands where.
LEMMA FlattenSevens ==
  ASSUME NEW T, NEW s \in Seq(Seq(T)), \A i \in 1 .. Len(s) : Len(s[i]) <= 7
  PROVE  /\ FlattenSeq(s) \in Seq(T) /\ Len(FlattenSeq(s)) <= 7 * Len(s)
         /\ (\A i \in 1 .. Len(s) - 1 : Len(s[i]) = 7) =>
              \A t \in 1 .. Len(FlattenSeq(s)) :
                \E i \in 1 .. Len(s) : \E j \in 1 .. Len(s[i]) : t = 7 * (i - 1) + j /\ FlattenSeq(s)[t] = s[i][j]
<1>1. Len(s) \in Nat /\ \A n \in 1 .. Len(s) : s[n] \in Seq(T)
  BY LenProperties
<1>2. CASE Len(s) = 0
  <2>1. s = << >>
    BY <1>2, EmptySeq
  <2>2. FlattenSeq(s) = << >>
    BY <2>1, FlattenFew
  <2>3. << >> \in Seq(T) /\ Len(<< >>) = 0
    BY EmptySeq
  <2> QED
    BY <1>2, <2>2, <2>3
<1>3. CASE Len(s) # 0
  <2>1. PICK f : /\ FlattenSeq(s) = f[Len(s)]
                 /\ f[1] = s[1]
                 /\ \A n \in 1 .. Len(s) - 1 : f[n + 1] = f[n] \o s[n + 1]
    BY <1>1, <1>3, FlattenSteps
  <2> DEFINE W == \A i \in 1 .. Len(s) - 1 : Len(s[i]) = 7
             Found(q, m) == \A t \in 1 .. Len(q) :
                              \E i \in 1 .. m : \E j \in 1 .. Len(s[i]) : t = 7 * (i - 1) + j /\ q[t] = s[i][j]
             Good(q, m) == /\ q \in Seq(T) /\ Len(q) <= 7 * m
                           /\ W => (m < Len(s) => Len(q) = 7 * m) /\ Found(q, m)
             G == {n \in Nat : Good(f[n + 1], n + 1)}
             N == Len(s) - 1
  <2>2. N \in Nat /\ N + 1 = Len(s)
    BY <1>1, <1>3
  <2>3. 0 \in G
    <3>1. 1 \in 1 .. Len(s) /\ 0 + 1 = 1
      BY <1>1, <1>3
    <3> DEFINE q == f[1]
    <3>2. q \in Seq(T) /\ q = s[1] /\ Len(q) <= 7 /\ Len(q) \in Nat
      BY <1>1, <2>1, <3>1
    <3> HIDE DEF q
    <3>3. W => (1 < Len(s) => Len(q) = 7)
      <4>1. 1 < Len(s) => 1 \in 1 .. Len(s) - 1
        BY <1>1
      <4> QED
        BY <3>2, <4>1
    <3>4. Found(q, 1)
      <4>1. \A t \in 1 .. Len(q) : 1 \in 1 .. 1 /\ t \in 1 .. Len(s[1]) /\ t = 7 * (1 - 1) + t /\ q[t] = s[1][t]
        BY <3>2
      <4> QED
        BY <4>1
    <3> HIDE DEF W, Found
    <3>5. Good(q, 1)
      BY <3>2, <3>3, <3>4
    <3> HIDE DEF Good
    <3> QED
      BY <3>1, <3>5 DEF q
  <2>4. ASSUME NEW n \in 0 .. N - 1, n \in G PROVE n + 1 \in G
    <3> DEFINE q == f[n + 1]
               m == n + 1
               p == s[m + 1]
    <3>1. m \in 1 .. Len(s) - 1 /\ m \in Nat /\ m + 1 \in 1 .. Len(s) /\ n \in Nat
      BY <2>2
    <3>2. f[m + 1] = q \o p
      BY <2>1, <3>1
    <3>3. p \in Seq(T) /\ Len(p) <= 7 /\ Len(p) \in Nat
      BY <1>1, <3>1
    <3>4. Good(q, m)
      BY <2>4
    <3>5. W /\ m + 1 < Len(s) => Len(p) = 7
      <4>1. m + 1 < Len(s) => m + 1 \in 1 .. Len(s) - 1
        BY <1>1, <3>1
      <4> QED
        BY <4>1
    <3> HIDE DEF q, m, W
    <3>6. q \in Seq(T) /\ Len(q) \in Nat /\ Len(q) <= 7 * m /\ (W => Len(q) = 7 * m /\ Found(q, m))
      <4>1. m < Len(s)
        BY <1>1, <3>1
      <4> HIDE DEF Found
      <4> QED
        BY <3>4, <4>1
    <3> HIDE DEF p
    <3>7. /\ q \o p \in Seq(T) /\ Len(q \o p) = Len(q) + Len(p)
          /\ \A i \in 1 .. Len(q) + Len(p) : (q \o p)[i] = IF i <= Len(q) THEN q[i] ELSE p[i - Len(q)]
      BY <3>3, <3>6, ConcatProperties
    <3>8. Len(q \o p) <= 7 * (m + 1) /\ (W => (m + 1 < Len(s) => Len(q \o p) = 7 * (m + 1)))
      <4> DEFINE x == Len(q)
                 y == Len(p)
      <4>1. x \in Nat /\ y \in Nat /\ m \in Nat /\ x <= 7 * m /\ y <= 7 /\ Len(q \o p) = x + y
        BY <3>1, <3>3, <3>6, <3>7
      <4>2. (W => x = 7 * m) /\ (W /\ m + 1 < Len(s) => y = 7)
        BY <3>5, <3>6
      <4> HIDE DEF x, y
      <4>3. x + y <= 7 * (m + 1) /\ (x = 7 * m /\ y = 7 => x + y = 7 * (m + 1))
        BY <4>1
      <4> QED
        BY <4>1, <4>2, <4>3
    <3>9. ASSUME W PROVE Found(q \o p, m + 1)
      <4>1. Len(q) = 7 * m /\ Found(q, m)
        BY <3>6, <3>9
      <4> SUFFICES ASSUME NEW t \in 1 .. Len(q) + Len(p)
                   PROVE  \E i \in 1 .. m + 1 : \E j \in 1 .. Len(s[i]) : t = 7 * (i - 1) + j /\ (q \o p)[t] = s[i][j]
        BY <3>7
      <4>2. CASE t <= Len(q)
        <5>1. t \in 1 .. Len(q) /\ (q \o p)[t] = q[t]
          BY <3>3, <3>6, <3>7, <4>2
        <5>2. PICK i \in 1 .. m : \E j \in 1 .. Len(s[i]) : t = 7 * (i - 1) + j /\ q[t] = s[i][j]
          BY <4>1, <5>1
        <5>3. i \in 1 .. m + 1
          BY <3>1
        <5> QED
          BY <5>1, <5>2, <5>3
      <4>3. CASE ~(t <= Len(q))
        <5> DEFINE j == t - Len(q)
                   y == Len(p)
        <5>1. y \in Nat /\ t \in 1 .. 7 * m + y /\ ~(t <= 7 * m) /\ j = t - 7 * m
          BY <3>3, <4>1, <4>3
        <5> HIDE DEF y
        <5>2. j \in 1 .. y /\ t = 7 * ((m + 1) - 1) + j /\ m + 1 \in 1 .. m + 1
          BY <3>1, <5>1
        <5>3. (q \o p)[t] = p[j]
          BY <3>7, <4>3
        <5> HIDE DEF j
        <5> QED
          BY <5>2, <5>3 DEF y, p
      <4> QED
        BY <4>2, <4>3
    <3> HIDE DEF Found
    <3>10. Good(f[m + 1], m + 1)
      <4>1. W => Found(q \o p, m + 1)
        BY <3>9
      <4> DEFINE h == q \o p
      <4>2. h \in Seq(T) /\ Len(h) <= 7 * (m + 1) /\ (W => (m + 1 < Len(s) => Len(h) = 7 * (m + 1))) /\ (W => Found(h, m + 1)) /\ f[m + 1] = h
        BY <3>2, <3>7, <3>8, <4>1
      <4> HIDE DEF h
      <4> QED
        BY <4>2
    <3> HIDE DEF Good
    <3> QED
      BY <3>1, <3>10 DEF m
  <2>5. N \in G
    <3> HIDE DEF G, N
    <3>1. \A n \in 0 .. N : n \in G
      BY <2>2, <2>3, <2>4, NatByOne, Zenon
    <3> QED
      BY <2>2, <3>1
  <2>6. Good(FlattenSeq(s), Len(s))
    <3> HIDE DEF Good
    <3> QED
      BY <2>1, <2>2, <2>5
  <2> QED
    BY <2>6
<1> QED
  BY <1>2, <1>3
=============================================================================
