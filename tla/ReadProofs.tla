----------------------------- MODULE ReadProofs -----------------------------
(***************************************************************************)
(* Proofs about ObdSession, where a read ends too early: a call on a line  *)
(* that was clear takes the whole of the ECU's reply, or less of it, and   *)
(* never bytes of another.                                                 *)
(*                                                                         *)
(* Each printed frame of a read is traced to the ECU and the place in its  *)
(* reply it was sent from, through a line lost, a line cut short and the   *)
(* merge of what two ECUs print; what the reassembly puts together of such *)
(* frames is then compared with the reply, byte by byte.                   *)
(***************************************************************************)
EXTENDS SessionProofs

-----------------------------------------------------------------------------
(* What an adapter prints of two ECUs, and the frames of a long reply.     *)

\* The lines of a merge: the i-th is the one at place p[i] of the first sequence
\* or of the second, as w[i] says; each is taken in its own order, and whole.
Interleaves(m, a, b, w, p) ==
  /\ \A i \in 1 .. Len(m) : \/ w[i] = 1 /\ p[i] \in 1 .. Len(a) /\ m[i] = a[p[i]]
                            \/ w[i] = 2 /\ p[i] \in 1 .. Len(b) /\ m[i] = b[p[i]]
  /\ \A i, j \in 1 .. Len(m) : i < j /\ w[i] = w[j] => p[i] < p[j]
  /\ \A c \in 1 .. Len(a) : \E i \in 1 .. Len(m) : w[i] = 1 /\ p[i] = c
  /\ \A c \in 1 .. Len(b) : \E i \in 1 .. Len(m) : w[i] = 2 /\ p[i] = c

\* A merge takes each of two sequences in its own order, and all of both.
LEMMA MergePlaces ==
  ASSUME NEW T, NEW a \in Seq(T), NEW b \in Seq(T), NEW m \in Merges(a, b)
  PROVE  m \in Seq(T) /\ \E w, p : Interleaves(m, a, b, w, p)
<1> DEFINE n == Len(a) + Len(b)
<1>1. Len(a) \in Nat /\ Len(b) \in Nat /\ n \in Nat
      /\ (\A i \in 1 .. Len(a) : a[i] \in T) /\ (\A i \in 1 .. Len(b) : b[i] \in T)
  BY LenProperties
<1>2. PICK S \in SUBSET (1 .. n) :
        /\ Cardinality(S) = Len(a)
        /\ m = [i \in 1 .. n |-> IF i \in S THEN a[Cardinality({j \in S : j <= i})]
                                 ELSE b[Cardinality({j \in 1 .. i : j \notin S})]] \o << >>
  BY DEF Merges
<1> DEFINE V == (1 .. n) \ S
           r(i) == Cardinality({j \in S : j <= i})
           u(i) == Cardinality({j \in V : j <= i})
           g == [i \in 1 .. n |-> IF i \in S THEN a[r(i)] ELSE b[u(i)]]
<1>3. Cardinality(V) = Len(b)
  <2>1. 1 \in Int /\ n \in Int /\ (n > 0 \/ n = 0) /\ (IF 1 > n THEN 0 ELSE n - 1 + 1) = n
    BY <1>1
  <2>2. IsFiniteSet(1 .. n) /\ Cardinality(1 .. n) = n
    <3> HIDE DEF n
    <3> QED
      BY <2>1, FS_Interval
  <2>3. (1 .. n) \cap S = S
    OBVIOUS
  <2>4. Cardinality(V) = Cardinality(1 .. n) - Cardinality(S)
    <3> HIDE DEF n
    <3> QED
      BY <2>2, <2>3, FS_Difference, ZenonT(40)
  <2> QED
    BY <1>1, <1>2, <2>2, <2>4
<1>4. m = g \o << >>
  <2>1. ASSUME NEW i \in 1 .. n PROVE {j \in 1 .. i : j \notin S} = {j \in V : j <= i}
    <3>1. \A j : j \in 1 .. i <=> j \in 1 .. n /\ j <= i
      BY <1>1
    <3> QED
      BY <3>1
  <2> DEFINE w(i) == {j \in 1 .. i : j \notin S}
             v(i) == {j \in V : j <= i}
  <2>2. \A i \in 1 .. n : w(i) = v(i)
    BY <2>1
  <2>3. m = [i \in 1 .. n |-> IF i \in S THEN a[r(i)] ELSE b[Cardinality(w(i))]] \o << >>
    BY <1>2
  <2>4. g = [i \in 1 .. n |-> IF i \in S THEN a[r(i)] ELSE b[Cardinality(v(i))]]
    OBVIOUS
  <2> HIDE DEF w, v, n, g, r
  <2> QED
    BY <2>2, <2>3, <2>4
<1>5. /\ \A i \in S : r(i) \in 1 .. Len(a)
      /\ \A i, k \in S : i < k => r(i) < r(k)
      /\ \A c \in 1 .. Len(a) : \E i \in S : r(i) = c
  <2> HIDE DEF n
  <2>1. \A i \in S : Cardinality({j \in S : j <= i}) \in 1 .. Cardinality(S)
    BY <1>1, Ranks
  <2>2. /\ \A c \in 1 .. Cardinality(S) : \E i \in S : Cardinality({j \in S : j <= i}) = c
        /\ \A i, k \in S : i < k => Cardinality({j \in S : j <= i}) < Cardinality({j \in S : j <= k})
    BY <1>1, RanksTaken
  <2> QED
    BY <1>2, <2>1, <2>2
<1>6. /\ \A i \in V : u(i) \in 1 .. Len(b)
      /\ \A i, k \in V : i < k => u(i) < u(k)
      /\ \A c \in 1 .. Len(b) : \E i \in V : u(i) = c
  <2>1. V \in SUBSET (1 .. n)
    OBVIOUS
  <2> HIDE DEF n, V
  <2>2. \A i \in V : Cardinality({j \in V : j <= i}) \in 1 .. Cardinality(V)
    BY <1>1, <2>1, Ranks
  <2>3. /\ \A c \in 1 .. Cardinality(V) : \E i \in V : Cardinality({j \in V : j <= i}) = c
        /\ \A i, k \in V : i < k => Cardinality({j \in V : j <= i}) < Cardinality({j \in V : j <= k})
    BY <1>1, <2>1, RanksTaken
  <2> QED
    BY <1>3, <2>2, <2>3
<1>7. \A i \in 1 .. n : (i \in S /\ i \notin V) \/ (i \in V /\ i \notin S)
  OBVIOUS
<1>7a. (\A i \in S : i \in 1 .. n) /\ (\A i \in V : i \in 1 .. n)
  OBVIOUS
<1> HIDE DEF r, u, V
<1>8. g \in [1 .. n -> T] /\ \A i \in 1 .. n : g[i] = IF i \in S THEN a[r(i)] ELSE b[u(i)]
  BY <1>1, <1>5, <1>6, <1>7
<1>9. m = g /\ m \in Seq(T) /\ Len(m) = n
  <2> HIDE DEF g, n
  <2> QED
    BY <1>1, <1>4, <1>8, MapSeq
<1> DEFINE who == [i \in 1 .. n |-> IF i \in S THEN 1 ELSE 2]
           place == [i \in 1 .. n |-> IF i \in S THEN r(i) ELSE u(i)]
<1>10. /\ \A i \in S : who[i] = 1 /\ place[i] = r(i)
       /\ \A i \in V : who[i] = 2 /\ place[i] = u(i)
  BY <1>7, <1>7a
<1> HIDE DEF who, place, g, n
<1>11. \A i \in 1 .. n : \/ who[i] = 1 /\ place[i] \in 1 .. Len(a) /\ m[i] = a[place[i]]
                         \/ who[i] = 2 /\ place[i] \in 1 .. Len(b) /\ m[i] = b[place[i]]
  BY <1>5, <1>6, <1>7, <1>8, <1>9, <1>10
<1>12. \A i, j \in 1 .. n : i < j /\ who[i] = who[j] => place[i] < place[j]
  <2> SUFFICES ASSUME NEW i \in 1 .. n, NEW j \in 1 .. n, i < j, who[i] = who[j] PROVE place[i] < place[j]
    OBVIOUS
  <2>1. CASE i \in S /\ j \in S
    BY <1>5, <1>10, <2>1
  <2>2. CASE i \in V /\ j \in V
    BY <1>6, <1>10, <2>2
  <2>3. ~(i \in S /\ j \in V) /\ ~(i \in V /\ j \in S)
    BY <1>10
  <2> QED
    BY <1>7, <2>1, <2>2, <2>3
<1>13. \A c \in 1 .. Len(a) : \E i \in 1 .. n : who[i] = 1 /\ place[i] = c
  BY <1>5, <1>7a, <1>10
<1>14. \A c \in 1 .. Len(b) : \E i \in 1 .. n : who[i] = 2 /\ place[i] = c
  BY <1>6, <1>7a, <1>10
<1>15. Len(m) = n /\ m \in Seq(T)
  BY <1>9
<1>16. Interleaves(m, a, b, who, place)
  BY <1>11, <1>12, <1>13, <1>14, <1>15, Zenon DEF Interleaves
<1> QED
  BY <1>15, <1>16

\* One byte before some others.
LEMMA HeadedByOne ==
  ASSUME NEW x \in Bytes, NEW t \in Seq(Bytes)
  PROVE  /\ <<x>> \o t \in Seq(Bytes) /\ Len(<<x>> \o t) = 1 + Len(t) /\ Len(t) \in Nat
         /\ (<<x>> \o t)[1] = x /\ \A i \in 1 .. Len(t) : (<<x>> \o t)[i + 1] = t[i]
<1> DEFINE h == <<x>>
<1>1. h \in Seq(Bytes) /\ Len(h) = 1 /\ h[1] = x /\ Len(t) \in Nat
  BY LenProperties
<1> HIDE DEF h
<1>2. /\ h \o t \in Seq(Bytes) /\ Len(h \o t) = Len(h) + Len(t)
      /\ \A i \in 1 .. Len(h) + Len(t) : (h \o t)[i] = IF i <= Len(h) THEN h[i] ELSE t[i - Len(h)]
  BY <1>1, ConcatProperties
<1>3. 1 \in 1 .. 1 + Len(t) /\ 1 <= 1
      /\ \A i \in 1 .. Len(t) : i + 1 \in 1 .. 1 + Len(t) /\ ~(i + 1 <= 1) /\ (i + 1) - 1 = i
  BY <1>1
<1>4. (h \o t)[1] = h[1] /\ \A i \in 1 .. Len(t) : (h \o t)[i + 1] = t[i]
  BY <1>1, <1>2, <1>3
<1> QED
  BY <1>1, <1>2, <1>4 DEF h

\* A payload that does not fit in one frame.
IsLong(a) == Len(a) \in 8 .. 600

\* The k-th frame behind the first one of a long payload.
Consecutive(f, d, k) ==
  /\ f \in Seq(Bytes) /\ Len(f) = 8 /\ f[1] \in 32 .. 47
  /\ \A j \in 1 .. 7 : 7 * k + j - 1 <= Len(d) => f[j + 1] = d[7 * k + j - 1]

\* The first frame of a long payload.
First(f, d) ==
  /\ f \in Seq(Bytes) /\ Len(f) = 8 /\ f[1] \in 16 .. 31
  /\ (f[1] % 16) * 256 + f[2] = Len(d)
  /\ \A j \in 1 .. 6 : f[j + 2] = d[j]

\* The frames of a payload that does not fit in one: a first frame and those
\* behind it, whose bytes are the payload's in their order.
LEMMA LongFrames ==
  ASSUME NEW d \in Seq(Bytes), IsLong(d)
  PROVE  /\ IsoTp(d) \in Seq(Seq(Bytes)) /\ Len(IsoTp(d)) = 1 + (Len(d) \div 7)
         /\ First(IsoTp(d)[1], d)
         /\ \A k \in 1 .. Len(d) \div 7 : Consecutive(IsoTp(d)[1 + k], d, k)
<1> DEFINE L == Len(d)
<1>1. L \in Nat /\ L >= 8 /\ L <= 600 /\ ~(L <= 7)
  <2>1. L \in 8 .. 600
    BY Zenon DEF IsLong
  <2> HIDE DEF L
  <2> QED
    BY <2>1
<1>2. \A i \in 1 .. L : d[i] \in Bytes
  BY ElementOfSeq
<1> DEFINE n == (L - 6 + 6) \div 7
<1>3. n = L \div 7 /\ n \in Nat /\ 7 * n <= L
  <2> HIDE DEF L
  <2> QED
    BY <1>1
<1> DEFINE head == <<16 + (L \div 256), L % 256>>
           six == SubSeq(d, 1, 6)
           first == head \o six
           end(k) == IF 7 * k + 6 < L THEN 7 * k + 6 ELSE L
           rest == [k \in 1 .. n |-> PadTo8(<<32 + (k % 16)>> \o SubSeq(d, 7 * k, end(k)))]
<1>4. IsoTp(d) = <<first>> \o rest
  <2>1. ~(Len(d) <= 7)
    BY <1>1
  <2> QED
    BY <2>1, Zenon DEF IsoTp
<1> HIDE DEF L, n, end, rest
<1>5. First(first, d)
  <2> DEFINE x == 16 + (L \div 256)
             y == L % 256
  <2>1. x \in 16 .. 18 /\ y \in 0 .. 255 /\ x \in Bytes /\ y \in Bytes /\ (x % 16) * 256 + y = L
    BY <1>1 DEF Bytes
  <2>2. six \in Seq(Bytes) /\ Len(six) = 6 /\ \A j \in 1 .. 6 : six[j] = d[j]
    <3>1. 1 \in Int /\ 6 \in Int /\ \A i \in 1 .. 6 : d[i] \in Bytes
      BY <1>1, <1>2
    <3>2. /\ SubSeq(d, 1, 6) \in Seq(Bytes)
          /\ Len(SubSeq(d, 1, 6)) = IF 1 <= 6 THEN 6 - 1 + 1 ELSE 0
          /\ \A i \in 1 .. 6 - 1 + 1 : SubSeq(d, 1, 6)[i] = d[1 + i - 1]
      BY <3>1, SubSeqProperties
    <3>3. 6 - 1 + 1 = 6 /\ \A j \in 1 .. 6 : 1 + j - 1 = j
      OBVIOUS
    <3> QED
      BY <3>2, <3>3
  <2> HIDE DEF x, y, six
  <2> DEFINE h == <<x, y>>
  <2>3. h \in Seq(Bytes) /\ Len(h) = 2 /\ h[1] = x /\ h[2] = y
    BY <2>1
  <2> HIDE DEF h
  <2>4. /\ h \o six \in Seq(Bytes) /\ Len(h \o six) = Len(h) + Len(six)
        /\ \A i \in 1 .. Len(h) + Len(six) : (h \o six)[i] = IF i <= Len(h) THEN h[i] ELSE six[i - Len(h)]
    BY <2>2, <2>3, ConcatProperties
  <2> DEFINE f == h \o six
  <2>5. f \in Seq(Bytes) /\ Len(f) = 8 /\ f[1] = x /\ f[2] = y /\ \A j \in 1 .. 6 : f[j + 2] = d[j]
    <3>1. Len(h) + Len(six) = 8 /\ 1 \in 1 .. 8 /\ 1 <= 2 /\ 2 \in 1 .. 8 /\ 2 <= 2
      BY <2>2, <2>3
    <3>2. \A j \in 1 .. 6 : j + 2 \in 1 .. 8 /\ ~(j + 2 <= 2) /\ (j + 2) - 2 = j
      OBVIOUS
    <3>3. \A i \in 1 .. 8 : f[i] = IF i <= 2 THEN h[i] ELSE six[i - 2]
      BY <2>3, <2>4, <3>1
    <3>4. f \in Seq(Bytes) /\ Len(f) = 8
      BY <2>4, <3>1
    <3> HIDE DEF f
    <3>5. f[1] = x /\ f[2] = y
      BY <2>3, <3>1, <3>3
    <3>6. \A j \in 1 .. 6 : f[j + 2] = six[j]
      BY <3>2, <3>3
    <3> QED
      BY <2>2, <3>4, <3>5, <3>6
  <2>6. first = f
    BY DEF h, x, y
  <2> HIDE DEF f, first
  <2>7. f[1] \in 16 .. 31 /\ (f[1] % 16) * 256 + f[2] = Len(d)
    <3>1. x \in 16 .. 31
      BY <2>1
    <3> QED
      BY <2>1, <2>5, <3>1 DEF L
  <2> QED
    BY <2>5, <2>6, <2>7 DEF First
<1>6. ASSUME NEW k \in 1 .. n
      PROVE  Consecutive(rest[k], d, k)
  <2> DEFINE x == 32 + (k % 16)
             a == 7 * k
             b == IF 7 * k + 6 < L THEN 7 * k + 6 ELSE L
             part == SubSeq(d, a, b)
  <2>1. k \in Nat /\ k >= 1 /\ 7 * k <= L
    <3>1. k \in Nat /\ k >= 1 /\ k <= n
      BY <1>3
    <3> QED
      BY <1>1, <1>3, <3>1
  <2> HIDE DEF b, part
  <2>2. x \in 32 .. 47 /\ x \in Bytes
    BY <2>1 DEF Bytes
  <2>3. a \in Int /\ b \in Int /\ a <= b /\ b <= a + 6 /\ a >= 1 /\ b <= L
        /\ \A j \in 1 .. 7 : a + j - 1 <= L => j <= b - a + 1
    BY <1>1, <2>1 DEF b
  <2>4. rest[k] = PadTo8(<<x>> \o part)
    BY DEF rest, end, b, part
  <2> HIDE DEF x
  <2>5. part \in Seq(Bytes) /\ Len(part) = b - a + 1 /\ \A j \in 1 .. b - a + 1 : part[j] = d[a + j - 1]
    <3> HIDE DEF a
    <3>1. \A i \in a .. b : d[i] \in Bytes
      BY <1>1, <1>2, <2>3
    <3>2. /\ SubSeq(d, a, b) \in Seq(Bytes)
          /\ Len(SubSeq(d, a, b)) = IF a <= b THEN b - a + 1 ELSE 0
          /\ \A i \in 1 .. b - a + 1 : SubSeq(d, a, b)[i] = d[a + i - 1]
      BY <2>3, <3>1, SubSeqProperties
    <3> QED
      BY <2>3, <3>2 DEF part
  <2> DEFINE h == <<x>> \o part
  <2>6. h \in Seq(Bytes) /\ Len(h) = 1 + Len(part) /\ h[1] = x /\ \A j \in 1 .. Len(part) : h[j + 1] = part[j]
    BY <2>2, <2>5, HeadedByOne
  <2> HIDE DEF h
  <2>7. Len(h) \in 1 .. 8
    BY <2>3, <2>5, <2>6
  <2>8. PadTo8(h) \in Seq(Bytes) /\ Len(PadTo8(h)) = 8 /\ \A i \in 1 .. Len(h) : PadTo8(h)[i] = h[i]
    BY <2>6, <2>7, PadBytes
  <2> DEFINE f == PadTo8(h)
  <2> HIDE DEF f
  <2>9. f[1] = x
    <3> DEFINE m == Len(h)
    <3>1. m \in 1 .. 8
      BY <2>7
    <3> HIDE DEF m
    <3>2. 1 \in 1 .. m
      BY <3>1
    <3> QED
      BY <2>6, <2>8, <3>2 DEF f, m
  <2>10. ASSUME NEW j \in 1 .. 7, a + j - 1 <= L PROVE f[j + 1] = d[a + j - 1]
    <3>1. j \in 1 .. b - a + 1
      BY <2>3, <2>10
    <3>2. j \in 1 .. Len(part) /\ j + 1 \in 1 .. Len(h)
      BY <2>3, <2>5, <2>6, <3>1
    <3> QED
      BY <2>5, <2>6, <2>8, <3>1, <3>2 DEF f
  <2>11. \A j \in 1 .. 7 : 7 * k + j - 1 <= Len(d) => f[j + 1] = d[7 * k + j - 1]
    BY <2>10 DEF L, a
  <2>12. rest[k] = f
    BY <2>4 DEF f, h
  <2>13. f \in Seq(Bytes) /\ Len(f) = 8 /\ f[1] \in 32 .. 47
    BY <2>2, <2>8, <2>9 DEF f
  <2> QED
    BY <2>11, <2>12, <2>13 DEF Consecutive
<1> HIDE DEF first, head
<1>7. rest \in [1 .. n -> Seq(Bytes)]
  <2>1. \A k \in 1 .. n : rest[k] \in Seq(Bytes)
    BY <1>6 DEF Consecutive
  <2> QED
    BY <2>1 DEF rest
<1>8. rest \in Seq(Seq(Bytes)) /\ Len(rest) = n
  <2> DEFINE S == Seq(Bytes)
  <2>1. n \in Nat /\ rest \in [1 .. n -> S]
    BY <1>3, <1>7
  <2> HIDE DEF S
  <2>2. rest \in Seq(S) /\ Len(rest) = n
    BY <2>1, MapSeq
  <2> QED
    BY <2>2 DEF S
<1> DEFINE one == <<first>>
<1>9. one \in Seq(Seq(Bytes)) /\ Len(one) = 1 /\ one[1] = first
  <2> DEFINE S == Seq(Bytes)
  <2>1. first \in S
    BY <1>5 DEF First
  <2> HIDE DEF S
  <2>2. one \in Seq(S) /\ Len(one) = 1 /\ one[1] = first
    BY <2>1
  <2> QED
    BY <2>2 DEF S
<1> HIDE DEF one
<1>10. /\ one \o rest \in Seq(Seq(Bytes)) /\ Len(one \o rest) = Len(one) + Len(rest)
       /\ \A i \in 1 .. Len(one) : (one \o rest)[i] = one[i]
       /\ \A k \in 1 .. Len(rest) : (one \o rest)[Len(one) + k] = rest[k]
  <2> DEFINE S == Seq(Bytes)
  <2>1. one \in Seq(S) /\ rest \in Seq(S)
    BY <1>8, <1>9
  <2> HIDE DEF S
  <2>2. /\ one \o rest \in Seq(S) /\ Len(one \o rest) = Len(one) + Len(rest)
        /\ \A i \in 1 .. Len(one) : (one \o rest)[i] = one[i]
        /\ \A k \in 1 .. Len(rest) : (one \o rest)[Len(one) + k] = rest[k]
    BY <2>1, Joined
  <2> QED
    BY <2>2 DEF S
<1> DEFINE q == one \o rest
<1>11. q \in Seq(Seq(Bytes)) /\ Len(q) = 1 + n /\ q[1] = first /\ \A k \in 1 .. n : q[1 + k] = rest[k]
  <2>1. 1 \in 1 .. 1
    OBVIOUS
  <2>2. q[1] = first
    BY <1>9, <1>10, <2>1
  <2> QED
    BY <1>8, <1>9, <1>10, <2>2
<1>12. IsoTp(d) = q
  BY <1>4 DEF one
<1> HIDE DEF q
<1>13. n = Len(d) \div 7
  BY <1>3 DEF L
<1> QED
  BY <1>5, <1>6, <1>11, <1>12, <1>13

-----------------------------------------------------------------------------
(* What is put together of the first bytes and frames of a reply.          *)

\* One sequence of bytes is the beginning of another, or all of it.
Begins(d, s) == d \in Seq(Bytes) /\ Len(d) <= Len(s) /\ \A i \in 1 .. Len(d) : d[i] = s[i]

\* The first bytes of a sequence.
LEMMA FirstBytes ==
  ASSUME NEW t \in Seq(Bytes), NEW n \in Nat
  PROVE  LET r == SubSeq(t, 1, IF n < Len(t) THEN n ELSE Len(t))
         IN  Begins(r, t) /\ Len(r) \in Nat /\ Len(r) <= n
<1> DEFINE m == IF n < Len(t) THEN n ELSE Len(t)
           r == SubSeq(t, 1, m)
<1>1. Len(t) \in Nat /\ \A i \in 1 .. Len(t) : t[i] \in Bytes
  BY LenProperties, ElementOfSeq
<1>2. m \in Nat /\ m <= n /\ m <= Len(t)
  BY <1>1
<1> HIDE DEF m
<1>3. \A i \in 1 .. m : t[i] \in Bytes
  BY <1>1, <1>2
<1>4. /\ SubSeq(t, 1, m) \in Seq(Bytes)
      /\ Len(SubSeq(t, 1, m)) = IF 1 <= m THEN m - 1 + 1 ELSE 0
      /\ \A i \in 1 .. m - 1 + 1 : SubSeq(t, 1, m)[i] = t[1 + i - 1]
  <2>1. 1 \in Int /\ m \in Int
    BY <1>2
  <2> QED
    BY <1>3, <2>1, SubSeqProperties
<1>5. (IF 1 <= m THEN m - 1 + 1 ELSE 0) = m /\ m - 1 + 1 = m /\ \A i \in 1 .. m : 1 + i - 1 = i
  BY <1>2
<1>6. r \in Seq(Bytes) /\ Len(r) = m /\ \A i \in 1 .. m : r[i] = t[i]
  BY <1>4, <1>5
<1> HIDE DEF r
<1>7. Begins(r, t) /\ Len(r) \in Nat /\ Len(r) <= n
  BY <1>2, <1>6 DEF Begins
<1> QED
  BY <1>7 DEF r, m

\* What is put together from the beginning of a single frame is the beginning of
\* its payload.
LEMMA ReassembleShort ==
  ASSUME NEW d \in Seq(Bytes), Len(d) \in 0 .. 7, NEW g, g[1] # << >>, Begins(g[1], SingleFrame(d))
  PROVE  Begins(Reassemble(g), d)
<1> DEFINE f == g[1]
           c == SingleFrame(d)
           n == Len(d)
           t == Tail(f)
           UpTo(s, k) == SubSeq(s, 1, IF k < Len(s) THEN k ELSE Len(s))
<1>1. /\ c \in Seq(Bytes) /\ Len(c) = 8 /\ c[1] = n /\ \A i \in 1 .. n : c[i + 1] = d[i]
      /\ n \in Nat /\ n <= 7
  <2>1. c \in Seq(Bytes) /\ Len(c) = 8 /\ c[1] = n /\ \A i \in 1 .. n : c[i + 1] = d[i]
    BY SingleFrameBytes
  <2>2. n \in 0 .. 7
    OBVIOUS
  <2> HIDE DEF c, n
  <2> QED
    BY <2>1, <2>2
<1>2. f \in Seq(Bytes) /\ f # << >> /\ Len(f) \in Nat /\ Len(f) <= Len(c) /\ \A i \in 1 .. Len(f) : f[i] = c[i]
  <2>1. Begins(f, c) /\ f # << >>
    OBVIOUS
  <2> HIDE DEF f, c
  <2> QED
    BY <2>1, LenProperties DEF Begins
<1>3. Pci(f) = 0 /\ ~(Pci(f) = 1) => Reassemble(g) = UpTo(t, f[1] % 16)
  BY Zenon DEF Reassemble
<1> HIDE DEF f, c, n
<1>4. Len(f) # 0
  BY <1>2, EmptySeq
<1>5. f[1] = n /\ Pci(f) = 0 /\ ~(Pci(f) = 1) /\ f[1] % 16 = n
  <2>1. 1 \in 1 .. Len(f)
    BY <1>2, <1>4
  <2>2. f[1] = n
    BY <1>1, <1>2, <2>1
  <2>3. n \in 0 .. 7
    BY <1>1
  <2>4. n \div 16 = 0 /\ n % 16 = n
    BY <2>3
  <2> QED
    BY <2>2, <2>4 DEF Pci
<1>6. t \in Seq(Bytes) /\ Len(t) = Len(f) - 1 /\ \A i \in 1 .. Len(t) : t[i] = f[i + 1]
  BY <1>2, HeadTailProperties
<1>7. UpTo(t, f[1] % 16) = UpTo(t, n)
  BY <1>5, Zenon
<1> HIDE DEF t
<1> DEFINE r == UpTo(t, n)
<1>8. Begins(r, t) /\ Len(r) \in Nat /\ Len(r) <= n
  BY <1>1, <1>6, FirstBytes
<1>9. Reassemble(g) = r
  <2>1. Reassemble(g) = UpTo(t, f[1] % 16)
    BY <1>3, <1>5
  <2> QED
    BY <1>7, <2>1
<1> HIDE DEF r
<1>10. ASSUME NEW i \in 1 .. Len(r) PROVE r[i] = d[i]
  <2> DEFINE l == Len(t)
             e == Len(r)
             m == Len(f)
  <2>1. l \in Nat /\ m \in Nat /\ e \in Nat /\ e <= n /\ e <= l /\ l = m - 1 /\ i \in 1 .. e
    BY <1>2, <1>4, <1>6, <1>8, <1>10 DEF Begins
  <2> HIDE DEF l, e, m
  <2>2. i \in 1 .. l /\ i + 1 \in 1 .. m /\ i \in 1 .. n
    BY <1>1, <2>1
  <2>3. r[i] = t[i]
    BY <1>8, <1>10 DEF Begins
  <2> QED
    BY <1>1, <1>2, <1>6, <2>2, <2>3 DEF l, m
<1>11. Begins(r, d)
  BY <1>8, <1>10 DEF Begins, n
<1> QED
  BY <1>9, <1>11

\* The frames behind the first: some of those sent, in their order, of which only
\* the last may be cut.
Behind(g, a, k) ==
  /\ \A i \in 1 .. Len(g) - 1 :
       /\ k[i] \in 1 .. Len(a) \div 7
       /\ g[i + 1] # << >>
       /\ \E c : Consecutive(c, a, k[i]) /\ Begins(g[i + 1], c) /\ (i < Len(g) - 1 => g[i + 1] = c)
  /\ \A i, j \in 1 .. Len(g) - 1 : i < j => k[i] < k[j]

\* The beginning of the first frame has its length and some of the first bytes.
FirstLooks(f, a) ==
  /\ f \in Seq(Bytes) /\ Len(f) \in 2 .. 8 /\ f[1] \in 16 .. 31 /\ (f[1] % 16) * 256 + f[2] = Len(a)
  /\ SubSeq(f, 3, Len(f)) \in Seq(Bytes) /\ Len(SubSeq(f, 3, Len(f))) = Len(f) - 2
  /\ \A j \in 1 .. Len(f) - 2 : SubSeq(f, 3, Len(f))[j] = a[j]

LEMMA FirstFrame ==
  ASSUME NEW a \in Seq(Bytes), NEW c, First(c, a), NEW f, Begins(f, c), Len(f) >= 2
  PROVE  FirstLooks(f, a)
<1> DEFINE m == Len(f)
<1>1. /\ f \in Seq(Bytes) /\ m \in Nat /\ m <= 8 /\ m >= 2 /\ \A i \in 1 .. m : f[i] = c[i]
      /\ \A i \in 1 .. m : f[i] \in Bytes
  BY LenProperties, ElementOfSeq DEF Begins, First
<1>2. c[1] \in 16 .. 31 /\ (c[1] % 16) * 256 + c[2] = Len(a) /\ \A j \in 1 .. 6 : c[j + 2] = a[j]
  BY DEF First
<1> HIDE DEF m
<1>3. 1 \in 1 .. m /\ 2 \in 1 .. m /\ m \in 2 .. 8 /\ 3 \in Int /\ m \in Int
  BY <1>1
<1>4. f[1] = c[1] /\ f[2] = c[2]
  BY <1>1, <1>3
<1>5. \A i \in 3 .. m : f[i] \in Bytes
  BY <1>1
<1>6. /\ SubSeq(f, 3, m) \in Seq(Bytes)
      /\ Len(SubSeq(f, 3, m)) = IF 3 <= m THEN m - 3 + 1 ELSE 0
      /\ \A i \in 1 .. m - 3 + 1 : SubSeq(f, 3, m)[i] = f[3 + i - 1]
  BY <1>3, <1>5, SubSeqProperties
<1>7. (IF 3 <= m THEN m - 3 + 1 ELSE 0) = m - 2 /\ m - 3 + 1 = m - 2
      /\ \A j \in 1 .. m - 2 : 3 + j - 1 = j + 2 /\ j + 2 \in 1 .. m /\ j \in 1 .. 6
  BY <1>1
<1> DEFINE r == SubSeq(f, 3, m)
<1>8. r \in Seq(Bytes) /\ Len(r) = m - 2 /\ \A j \in 1 .. m - 2 : r[j] = f[j + 2]
  BY <1>6, <1>7
<1> HIDE DEF r
<1>9. \A j \in 1 .. m - 2 : r[j] = a[j]
  BY <1>1, <1>2, <1>7, <1>8
<1>10. f[1] \in 16 .. 31 /\ (f[1] % 16) * 256 + f[2] = Len(a)
  BY <1>2, <1>4
<1> QED
  BY <1>1, <1>3, <1>8, <1>9, <1>10 DEF r, m, FirstLooks

\* The frames of a long payload behind the first that are put together, without
\* their first bytes.
FrameChunks(g) ==
  LET cfs == Select(Tail(g), {h \in ToSet(Tail(g)) : Pci(h) = 2})
  IN  [i \in DOMAIN cfs |-> Tail(cfs[i])]

\* Up to seven bytes of a payload, those of the k-th frame behind the first.
Chunk(s, a, k) ==
  /\ Len(s) <= 7
  /\ \A j \in 1 .. Len(s) : j \in 1 .. 7 /\ (7 * k + j - 1 <= Len(a) => s[j] = a[7 * k + j - 1])

\* They are bytes of the payload, seven of each frame but the last.
LEMMA ChunksBehind ==
  ASSUME NEW a \in Seq(Bytes), NEW g \in Seq(Seq(Bytes)), g # << >>, NEW k, Behind(g, a, k)
  PROVE  /\ FrameChunks(g) \in Seq(Seq(Bytes)) /\ Len(FrameChunks(g)) = Len(g) - 1
         /\ \A i \in 1 .. Len(FrameChunks(g)) : Chunk(FrameChunks(g)[i], a, k[i])
         /\ \A i \in 1 .. Len(FrameChunks(g)) - 1 : Len(FrameChunks(g)[i]) = 7
<1> DEFINE q == Len(g) - 1
           rest == Tail(g)
           S == {h \in ToSet(rest) : Pci(h) = 2}
           cfs == Select(rest, S)
           B == Seq(Bytes)
           cs == [i \in DOMAIN rest |-> Tail(rest[i])]
<1>1. /\ rest \in Seq(B) /\ Len(rest) = q /\ q \in Nat
      /\ \A i \in 1 .. q : rest[i] = g[i + 1] /\ i + 1 \in 1 .. Len(g)
  <2>1. g \in Seq(B) /\ g # << >>
    OBVIOUS
  <2> HIDE DEF B
  <2>2. Len(g) \in Nat /\ Len(g) # 0
    BY <2>1, LenProperties, EmptySeq
  <2>3. rest \in Seq(B) /\ Len(rest) = Len(g) - 1 /\ \A i \in 1 .. Len(rest) : rest[i] = g[i + 1]
    BY <2>1, HeadTailProperties
  <2> HIDE DEF rest
  <2> QED
    BY <2>2, <2>3
<1>2. ASSUME NEW i \in 1 .. q
      PROVE  /\ rest[i] \in B /\ rest[i] # << >> /\ Pci(rest[i]) = 2
             /\ \E c : Consecutive(c, a, k[i]) /\ Begins(rest[i], c) /\ (i < q => rest[i] = c)
  <2>1. PICK c : Consecutive(c, a, k[i]) /\ Begins(g[i + 1], c) /\ (i < q => g[i + 1] = c)
    BY DEF Behind
  <2>2. g[i + 1] # << >>
    BY DEF Behind
  <2> DEFINE h == rest[i]
  <2>3. h # << >> /\ Begins(h, c) /\ (i < q => h = c)
    BY <1>1, <2>1, <2>2
  <2> HIDE DEF h, rest, q
  <2>4. h \in Seq(Bytes) /\ Len(h) \in Nat /\ Len(h) # 0
    BY <2>3, LenProperties, EmptySeq DEF Begins
  <2>5. h[1] = c[1]
    <3>1. 1 \in 1 .. Len(h)
      BY <2>4
    <3> QED
      BY <2>3, <3>1 DEF Begins
  <2>6. h[1] \in 32 .. 47
    BY <2>1, <2>5 DEF Consecutive
  <2>7. h[1] \div 16 = 2
    <3> DEFINE x == h[1]
    <3>1. x \in 32 .. 47
      BY <2>6
    <3> HIDE DEF x
    <3>2. x \div 16 = 2
      BY <3>1
    <3> QED
      BY <3>2 DEF x
  <2> QED
    BY <2>1, <2>3, <2>4, <2>7 DEF h, Pci
<1> HIDE DEF q
<1>3. DOMAIN rest = 1 .. q
  <2> HIDE DEF B, rest
  <2> QED
    BY <1>1, LenProperties
<1>4. cfs = rest
  <2>1. \A i \in 1 .. Len(rest) : rest[i] \in S
    <3>1. \A i \in 1 .. q : rest[i] \in ToSet(rest)
      <4> HIDE DEF rest
      <4> QED
        BY <1>3 DEF ToSet
    <3> HIDE DEF rest
    <3> QED
      BY <1>1, <1>2, <3>1
  <2>2. rest \in Seq(B)
    BY <1>1
  <2> HIDE DEF rest, S, B
  <2> QED
    BY <2>1, <2>2, SelectAll
<1>5. ASSUME NEW i \in 1 .. q
      PROVE  /\ Tail(rest[i]) \in B /\ Chunk(Tail(rest[i]), a, k[i])
             /\ i < q => Len(Tail(rest[i])) = 7
  <2>1. PICK c : Consecutive(c, a, k[i]) /\ Begins(rest[i], c) /\ (i < q => rest[i] = c)
    BY <1>2
  <2> DEFINE h == rest[i]
             t == Tail(h)
             m == Len(h)
  <2>2. h \in Seq(Bytes) /\ h # << >> /\ Begins(h, c) /\ (i < q => h = c)
    BY <1>2, <2>1
  <2> HIDE DEF rest
  <2>a. Len(c) = 8 /\ \A j \in 1 .. 7 : 7 * k[i] + j - 1 <= Len(a) => c[j + 1] = a[7 * k[i] + j - 1]
    BY <2>1 DEF Consecutive
  <2> HIDE DEF h
  <2>3. m \in Nat /\ m # 0 /\ m <= 8 /\ (i < q => m = 8) /\ \A j \in 1 .. m : h[j] = c[j]
    BY <2>2, <2>a, LenProperties, EmptySeq DEF Begins
  <2>4. t \in Seq(Bytes) /\ Len(t) = m - 1 /\ \A j \in 1 .. Len(t) : t[j] = h[j + 1]
    BY <2>2, HeadTailProperties
  <2> HIDE DEF t, m
  <2>5. ASSUME NEW j \in 1 .. Len(t)
        PROVE  j \in 1 .. 7 /\ t[j] = c[j + 1]
    <3>1. j \in 1 .. 7 /\ j + 1 \in 1 .. m
      BY <2>3, <2>4
    <3> QED
      BY <2>3, <2>4, <3>1
  <2>6. \A j \in 1 .. Len(t) : j \in 1 .. 7 /\ (7 * k[i] + j - 1 <= Len(a) => t[j] = a[7 * k[i] + j - 1])
    BY <2>5, <2>a
  <2>7. Len(t) <= 7 /\ (i < q => Len(t) = 7)
    BY <2>3, <2>4
  <2> QED
    BY <2>4, <2>6, <2>7 DEF t, h, Chunk
<1> HIDE DEF rest
<1>6. cs \in [1 .. q -> B] /\ \A i \in 1 .. q : cs[i] = Tail(rest[i])
  BY <1>3, <1>5
<1>7. cs = FrameChunks(g)
  <2> DEFINE over(x) == [i \in DOMAIN x |-> Tail(x[i])]
  <2>1. FrameChunks(g) = over(cfs)
    BY Zenon DEF FrameChunks, S, rest
  <2>2. cs = over(rest)
    OBVIOUS
  <2> HIDE DEF cs, cfs, over
  <2> QED
    BY <1>4, <2>1, <2>2
<1> HIDE DEF cs
<1>8. cs \in Seq(B) /\ Len(cs) = q
  BY <1>1, <1>6, MapSeq
<1>9. \A i \in 1 .. Len(cs) : Chunk(cs[i], a, k[i])
  BY <1>5, <1>6, <1>8, Zenon
<1>10. \A i \in 1 .. Len(cs) - 1 : Len(cs[i]) = 7
  <2>1. \A i \in 1 .. Len(cs) - 1 : i \in 1 .. q /\ i < q
    BY <1>1, <1>8
  <2> QED
    BY <1>5, <1>6, <2>1
<1> QED
  BY <1>7, <1>8, <1>9, <1>10 DEF q

\* The arithmetic of the length: too few frames give too few bytes.
LEMMA TooFew ==
  ASSUME NEW q \in Nat, NEW n \in Nat, NEW z \in Nat, NEW x \in Nat, NEW y \in Nat, NEW e \in Nat, NEW m \in Nat,
         q < n, m <= 6, x <= 7 * q, y <= z, z = m + x, 7 * n <= e
  PROVE  y < e
<1>1. q <= n - 1
  OBVIOUS
<1>2. 7 * q <= 7 * n - 7
  BY <1>1
<1> QED
  BY <1>2

\* A place behind the first m.
LEMMA PastFirst ==
  ASSUME NEW m \in Nat, NEW x \in Nat, NEW y \in Nat, NEW z, NEW i \in 1 .. y, z = m + x, y <= z, ~(i <= m)
  PROVE  i - m \in 1 .. x /\ i = m + (i - m)
OBVIOUS

\* Bytes behind bytes.
LEMMA JoinedBytes ==
  ASSUME NEW u \in Seq(Bytes), NEW v \in Seq(Bytes)
  PROVE  /\ u \o v \in Seq(Bytes) /\ Len(u \o v) = Len(u) + Len(v) /\ Len(v) \in Nat
         /\ \A i \in 1 .. Len(u) : (u \o v)[i] = u[i]
         /\ \A j \in 1 .. Len(v) : (u \o v)[Len(u) + j] = v[j]
BY Joined

\* What is put together from the beginning of a long payload's first frame and
\* some of the frames behind it is shorter than the payload or the beginning of
\* it, and it is that for sure when none is missing in between.
LEMMA ReassembleLong ==
  ASSUME NEW a \in Seq(Bytes), IsLong(a), NEW g \in Seq(Seq(Bytes)), g # << >>,
         NEW c, First(c, a), Begins(g[1], c), Len(g[1]) >= 2, Len(g) > 1 => g[1] = c,
         NEW k, Behind(g, a, k)
  PROVE  LET d == Reassemble(g)
         IN  /\ d \in Seq(Bytes) /\ (Len(d) < Len(a) \/ Begins(d, a))
             /\ (\A i \in 1 .. Len(g) - 1 : k[i] = i) => Begins(d, a)
<1> DEFINE L == Len(a)
           n == L \div 7
           q == Len(g) - 1
           f == g[1]
           cs == FrameChunks(g)
           fl == FlattenSeq(cs)
           m == Len(f) - 2
           six == SubSeq(f, 3, Len(f))
<1>1. L \in Nat /\ L >= 8 /\ n \in Nat /\ 7 * n <= L
  <2>1. L \in 8 .. 600
    BY Zenon DEF IsLong
  <2> HIDE DEF L
  <2> QED
    BY <2>1
<1>2. q \in Nat /\ Len(g) = q + 1
  <2>1. Len(g) \in Nat /\ Len(g) # 0
    BY LenProperties, EmptySeq
  <2> QED
    BY <2>1
<1>3. /\ f \in Seq(Bytes) /\ Len(f) \in 2 .. 8 /\ f[1] \in 16 .. 31 /\ (f[1] % 16) * 256 + f[2] = L
      /\ six \in Seq(Bytes) /\ Len(six) = m
      /\ \A j \in 1 .. m : six[j] = a[j]
  <2>1. Begins(f, c) /\ Len(f) >= 2
    OBVIOUS
  <2> HIDE DEF f
  <2>2. FirstLooks(f, a)
    BY <2>1, FirstFrame
  <2> QED
    BY <2>2 DEF FirstLooks
<1>4. q > 0 => m = 6
  <2>1. ASSUME q > 0 PROVE f = c
    <3>1. Len(g) > 1
      BY <1>2, <2>1
    <3> QED
      BY <3>1, Zenon
  <2>2. Len(c) = 8
    BY DEF First
  <2>3. q > 0 => Len(f) = 8
    BY <2>1, <2>2, Zenon
  <2> HIDE DEF f, q
  <2> QED
    BY <2>3
<1>5. /\ cs \in Seq(Seq(Bytes)) /\ Len(cs) = q
      /\ \A i \in 1 .. Len(cs) : Chunk(cs[i], a, k[i])
      /\ \A i \in 1 .. Len(cs) - 1 : Len(cs[i]) = 7
  BY ChunksBehind
<1> HIDE DEF cs
<1> DEFINE all == six \o fl
           UpTo(s, x) == SubSeq(s, 1, IF x < Len(s) THEN x ELSE Len(s))
           d == UpTo(all, L)
<1>6. Reassemble(g) = d
  <2>1. f[1] \div 16 = 1
    <3> DEFINE x == f[1]
    <3> HIDE DEF UpTo
    <3>1. x \in 16 .. 31
      BY <1>3
    <3> HIDE DEF x
    <3>2. x \div 16 = 1
      BY <3>1
    <3> QED
      BY <3>2 DEF x
  <2>2. ~(Pci(f) = 0) /\ Pci(f) = 1
    BY <2>1 DEF Pci
  <2> DEFINE h == g[1]
             e == UpTo(SubSeq(h, 3, Len(h)) \o fl, (h[1] % 16) * 256 + h[2])
  <2>3. ~(Pci(h) = 0) /\ Pci(h) = 1 => Reassemble(g) = e
    BY Zenon DEF Reassemble, Where, FrameChunks, cs
  <2>4. Reassemble(g) = e
    BY <2>2, <2>3, Zenon
  <2>5. e = UpTo(all, (f[1] % 16) * 256 + f[2])
    BY Zenon
  <2> HIDE DEF h, e, all, f
  <2> QED
    BY <1>3, <2>4, <2>5
<1> HIDE DEF UpTo, d, all
<1>7. /\ fl \in Seq(Bytes) /\ Len(fl) <= 7 * q
      /\ \A t \in 1 .. Len(fl) :
           \E i \in 1 .. q : \E j \in 1 .. Len(cs[i]) : t = 7 * (i - 1) + j /\ fl[t] = cs[i][j]
  <2> HIDE DEF cs
  <2>1. \A i \in 1 .. Len(cs) : Len(cs[i]) <= 7
    BY <1>5 DEF Chunk
  <2>2. \A i \in 1 .. Len(cs) - 1 : Len(cs[i]) = 7
    BY <1>5
  <2>3. cs \in Seq(Seq(Bytes))
    BY <1>5
  <2>4. /\ FlattenSeq(cs) \in Seq(Bytes) /\ Len(FlattenSeq(cs)) <= 7 * Len(cs)
        /\ (\A i \in 1 .. Len(cs) - 1 : Len(cs[i]) = 7) =>
              \A t \in 1 .. Len(FlattenSeq(cs)) :
                \E i \in 1 .. Len(cs) : \E j \in 1 .. Len(cs[i]) : t = 7 * (i - 1) + j /\ FlattenSeq(cs)[t] = cs[i][j]
    BY <2>1, <2>3, FlattenSevens
  <2> QED
    BY <1>5, <2>2, <2>4
<1> HIDE DEF fl, six, cs
<1>8. /\ all \in Seq(Bytes) /\ Len(all) = m + Len(fl) /\ Len(fl) \in Nat /\ m \in Nat /\ m <= 6
      /\ \A i \in 1 .. m : all[i] = six[i]
      /\ \A j \in 1 .. Len(fl) : all[m + j] = fl[j]
  <2>1. /\ six \o fl \in Seq(Bytes) /\ Len(six \o fl) = Len(six) + Len(fl) /\ Len(fl) \in Nat
        /\ \A i \in 1 .. Len(six) : (six \o fl)[i] = six[i]
        /\ \A j \in 1 .. Len(fl) : (six \o fl)[Len(six) + j] = fl[j]
    <3>1. six \in Seq(Bytes) /\ fl \in Seq(Bytes)
      BY <1>3, <1>7
    <3> QED
      BY <3>1, JoinedBytes
  <2>2. m \in Nat /\ m <= 6
    <3> DEFINE x == Len(f)
    <3>1. x \in 2 .. 8
      BY <1>3
    <3> HIDE DEF x
    <3>2. x - 2 \in Nat /\ x - 2 <= 6
      BY <3>1
    <3> QED
      BY <3>2 DEF x
  <2> HIDE DEF m, f
  <2> QED
    BY <1>3, <2>1, <2>2 DEF all
<1> HIDE DEF m, f
<1>9. Begins(d, all) /\ Len(d) \in Nat /\ Len(d) <= L
  BY <1>1, <1>8, FirstBytes DEF UpTo, d
<1> HIDE DEF L, n
<1>10. q <= n /\ (q = n => \A i \in 1 .. q : k[i] = i)
  <2>1. Rising(k, q, n)
    BY DEF Behind, Rising, n, L
  <2> HIDE DEF q, n
  <2>2. n \in Nat /\ q \in Nat
    BY <1>1, <1>2
  <2> QED
    BY <2>1, <2>2, PlacesWithin
<1> HIDE DEF q
<1>11. q < n => Len(d) < L
  <2> DEFINE x == Len(fl)
             y == Len(d)
             z == Len(all)
  <2>1. x \in Nat /\ x <= 7 * q /\ y \in Nat /\ y <= z /\ z = m + x
    BY <1>7, <1>8, <1>9 DEF Begins
  <2> HIDE DEF x, y, z
  <2>a. m \in Nat /\ m <= 6 /\ n \in Nat /\ L \in Nat /\ q \in Nat /\ 7 * n <= L
    BY <1>1, <1>2, <1>8
  <2>b. z \in Nat
    BY <2>1, <2>a
  <2>2. q < n => y < L
    BY <2>1, <2>a, <2>b, TooFew
  <2> QED
    BY <2>2 DEF y
<1>12. ASSUME \A i \in 1 .. q : k[i] = i
       PROVE  Begins(d, a)
  <2> SUFFICES ASSUME NEW i \in 1 .. Len(d) PROVE d[i] = a[i]
    BY <1>9 DEF Begins, L
  <2> DEFINE x == Len(fl)
             y == Len(d)
             z == Len(all)
  <2>1. y \in Nat /\ x \in Nat /\ y <= z /\ z = m + x /\ y <= L /\ i \in 1 .. y /\ d[i] = all[i]
    BY <1>8, <1>9 DEF Begins
  <2> HIDE DEF x, y, z
  <2>2. CASE i <= m
    <3>1. i \in 1 .. m
      <4>1. m \in Nat /\ y \in Nat /\ i \in 1 .. y
        BY <1>8, <2>1
      <4> QED
        BY <2>2, <4>1
    <3> QED
      BY <1>3, <1>8, <2>1, <3>1
  <2>3. CASE ~(i <= m)
    <3> DEFINE t == i - m
    <3>1. t \in 1 .. x /\ i = m + t
      <4>1. m \in Nat /\ x \in Nat /\ y \in Nat /\ z = m + x /\ y <= z /\ i \in 1 .. y /\ ~(i <= m)
        BY <1>8, <2>1, <2>3
      <4> HIDE DEF t
      <4>2. i - m \in 1 .. x /\ i = m + (i - m)
        BY <4>1, PastFirst
      <4> QED
        BY <4>2 DEF t
    <3> HIDE DEF t
    <3>2. all[i] = fl[t]
      BY <1>8, <3>1 DEF x
    <3>3. PICK u \in 1 .. q : \E j \in 1 .. Len(cs[u]) : t = 7 * (u - 1) + j /\ fl[t] = cs[u][j]
      BY <1>7, <3>1 DEF x
    <3>4. PICK j \in 1 .. Len(cs[u]) : t = 7 * (u - 1) + j /\ fl[t] = cs[u][j]
      BY <3>3
    <3>5. j \in 1 .. 7 /\ (7 * u + j - 1 <= L => cs[u][j] = a[7 * u + j - 1])
      <4>1. Chunk(cs[u], a, k[u]) /\ k[u] = u
        BY <1>5, <1>12, <3>3
      <4> QED
        BY <3>4, <4>1 DEF L, Chunk
    <3>6. m = 6 /\ u \in Nat
      BY <1>2, <1>4, <3>3
    <3>7. 7 * u + j - 1 = i /\ i <= L
      <4>1. j \in 1 .. 7 /\ u \in Nat /\ t = 7 * (u - 1) + j /\ i = 6 + t /\ y \in Nat /\ i \in 1 .. y /\ y <= L /\ L \in Nat
        BY <1>1, <2>1, <3>1, <3>4, <3>5, <3>6
      <4> QED
        BY <4>1
    <3> QED
      BY <2>1, <3>2, <3>4, <3>5, <3>7
  <2> QED
    BY <2>2, <2>3
<1>13. Len(d) < L \/ Begins(d, a)
  <2>1. q < n \/ q = n
    BY <1>1, <1>2, <1>10
  <2> QED
    BY <1>10, <1>11, <1>12, <2>1
<1>14. d \in Seq(Bytes)
  BY <1>9 DEF Begins
<1> QED
  BY <1>6, <1>12, <1>13, <1>14 DEF L, q

-----------------------------------------------------------------------------
(* A printed frame that was cut short.                                     *)

\* A number of three hex digits.
IsSource(src) == src \in Nat /\ src < 4096

\* The digits of an identifier.
Digit(src, i) == (src \div 16^(3 - i)) % 16

\* An identifier is its three digits.
LEMMA SourceOfDigits ==
  ASSUME NEW src \in Nat, src < 4096
  PROVE  Digit(src, 1) * 256 + Digit(src, 2) * 16 + Digit(src, 3) = src
<1>1. 16^(3 - 1) = 256 /\ 16^(3 - 2) = 16 /\ 16^(3 - 3) = 1
  OBVIOUS
<1> DEFINE a == src \div 16
           b == src \div 256
<1>2. src \div 1 = src /\ src = a * 16 + (src % 16) /\ a \in 0 .. 255
  OBVIOUS
<1>3. b = a \div 16 /\ b \in 0 .. 15
  OBVIOUS
<1> HIDE DEF a, b
<1>4. a = b * 16 + (a % 16) /\ b % 16 = b
  BY <1>2, <1>3
<1>5. src = b * 256 + (a % 16) * 16 + (src % 16)
  BY <1>2, <1>3, <1>4
<1>6. Digit(src, 1) = b % 16 /\ Digit(src, 2) = a % 16 /\ Digit(src, 3) = src % 16
  BY <1>1, <1>2 DEF Digit, a, b
<1> QED
  BY <1>4, <1>5, <1>6

\* The places of a byte's two digits.
Hi(i) == 2 * i + 2
Lo(i) == 2 * i + 3

\* The characters of a printed frame.
Printing(p, src, f) ==
  /\ \A i \in 1 .. 3 : p[i] = Digit(src, i)
  /\ \A i \in 1 .. 8 : p[Hi(i)] = f[i] \div 16 /\ p[Lo(i)] = f[i] % 16

\* The digits of a printed frame: those of its source and those of each byte.
LEMMA PrintedDigits ==
  ASSUME NEW src, IsSource(src), NEW f \in Seq(Bytes), Len(f) = 8
  PROVE  Printing(PrintFrame(src, f), src, f)
<1> DEFINE digit(i) == IF i <= 3 THEN (src \div 16^(3 - i)) % 16
                       ELSE IF i % 2 = 0 THEN f[(i - 2) \div 2] \div 16 ELSE f[(i - 3) \div 2] % 16
           L(n) == [i \in 1 .. n |-> digit(i)]
<1>1. PrintFrame(src, f) = L(2 * Len(f) + 3) \o << >>
  BY DEF PrintFrame
<1>2. 2 * Len(f) + 3 = 19
  OBVIOUS
<1>3. ASSUME NEW i \in 1 .. 8 PROVE digit(2 * i + 2) = f[i] \div 16 /\ digit(2 * i + 3) = f[i] % 16
  <2>1. /\ ~(2 * i + 2 <= 3) /\ (2 * i + 2) % 2 = 0 /\ ((2 * i + 2) - 2) \div 2 = i
        /\ ~(2 * i + 3 <= 3) /\ (2 * i + 3) % 2 # 0 /\ ((2 * i + 3) - 3) \div 2 = i
    OBVIOUS
  <2> QED
    BY <2>1
<1>4. \A i \in 1 .. 3 : digit(i) = Digit(src, i)
  BY DEF Digit
<1> HIDE DEF digit
<1>5. L(19) \in [1 .. 19 -> {digit(i) : i \in 1 .. 19}]
  OBVIOUS
<1> DEFINE l == L(19)
<1>6. l \o << >> = l
  <2> HIDE DEF l
  <2> QED
    BY <1>5, MapSeq DEF l
<1>7. \A i \in 1 .. 19 : l[i] = digit(i)
  OBVIOUS
<1> HIDE DEF L
<1>8. PrintFrame(src, f) = L(19) \o << >>
  BY <1>1, <1>2
<1>9. PrintFrame(src, f) = l
  BY <1>6, <1>8
<1> HIDE DEF l
<1>10. \A i \in 1 .. 3 : i \in 1 .. 19
  OBVIOUS
<1>11. \A i \in 1 .. 8 : 2 * i + 2 \in 1 .. 19 /\ 2 * i + 3 \in 1 .. 19
  OBVIOUS
<1>12. \A i \in 1 .. 3 : l[i] = Digit(src, i)
  BY <1>4, <1>7, <1>10
<1>13. \A i \in 1 .. 8 : l[Hi(i)] = f[i] \div 16 /\ l[Lo(i)] = f[i] % 16
  BY <1>3, <1>7, <1>11 DEF Hi, Lo
<1>14. Printing(l, src, f)
  BY <1>12, <1>13, Zenon DEF Printing
<1> QED
  BY <1>9, <1>14

\* A line of m characters has room for some whole bytes.
LEMMA WholeBytes ==
  ASSUME NEW m \in Nat, m >= 4, m % 2 = 1, m <= 19
  PROVE  /\ (m - 3) \div 2 \in 1 .. 8
         /\ \A i \in 1 .. (m - 3) \div 2 : i \in 1 .. 8 /\ Hi(i) \in 1 .. m /\ Lo(i) \in 1 .. m
BY DEF Hi, Lo

\* The beginning of a printed frame, when it still looks like one, has the same
\* source and some of the first bytes, and not none.
LEMMA PrintedBeginning ==
  ASSUME NEW src, IsSource(src), NEW f \in Seq(Bytes), Len(f) = 8,
         NEW l \in Texts, Len(l) <= 19, \A i \in 1 .. Len(l) : l[i] = PrintFrame(src, f)[i], IsFrame(l)
  PROVE  FrameOf(l).src = src /\ FrameOf(l).bytes # << >> /\ Begins(FrameOf(l).bytes, f)
<1> DEFINE p == PrintFrame(src, f)
           m == Len(l)
           n == (m - 3) \div 2
<1>1. m \in Nat /\ m >= 4 /\ m % 2 = 1 /\ m <= 19 /\ \A i \in 1 .. m : l[i] = p[i]
  BY LenProperties DEF IsFrame, Texts
<1>2. Printing(p, src, f)
  BY PrintedDigits
<1> HIDE DEF p
<1>3. FrameOf(l).src = l[1] * 256 + l[2] * 16 + l[3]
  BY DEF FrameOf
<1> DEFINE g == [i \in 1 .. n |-> l[Hi(i)] * 16 + l[Lo(i)]]
<1>4. FrameOf(l).bytes = g \o << >>
  BY DEF FrameOf, Hi, Lo
<1> HIDE DEF m
<1>5. n \in 1 .. 8 /\ \A i \in 1 .. n : i \in 1 .. 8 /\ Hi(i) \in 1 .. m /\ Lo(i) \in 1 .. m
  BY <1>1, WholeBytes
<1> HIDE DEF n
<1>6. 1 \in 1 .. m /\ 2 \in 1 .. m /\ 3 \in 1 .. m /\ 1 \in 1 .. 3 /\ 2 \in 1 .. 3 /\ 3 \in 1 .. 3
  BY <1>1
<1>7. l[1] = Digit(src, 1) /\ l[2] = Digit(src, 2) /\ l[3] = Digit(src, 3)
  BY <1>1, <1>2, <1>6 DEF Printing
<1>8. FrameOf(l).src = src
  BY <1>3, <1>7, SourceOfDigits DEF IsSource
<1>9. f \in [1 .. 8 -> Bytes]
  BY EightBytes
<1>10. ASSUME NEW i \in 1 .. n PROVE l[Hi(i)] * 16 + l[Lo(i)] = f[i] /\ f[i] \in Bytes
  <2> DEFINE y == f[i]
             hi == l[Hi(i)]
             lo == l[Lo(i)]
  <2>1. hi = y \div 16 /\ lo = y % 16 /\ y \in Bytes
    <3>1. i \in 1 .. 8 /\ Hi(i) \in 1 .. m /\ Lo(i) \in 1 .. m
      BY <1>5, Zenon
    <3>2. l[Hi(i)] = p[Hi(i)] /\ l[Lo(i)] = p[Lo(i)]
      BY <1>1, <3>1
    <3>3. p[Hi(i)] = f[i] \div 16 /\ p[Lo(i)] = f[i] % 16 /\ f[i] \in Bytes
      BY <1>2, <1>9, <3>1, Zenon DEF Printing
    <3> QED
      BY <3>2, <3>3
  <2> HIDE DEF y, hi, lo
  <2>2. hi * 16 + lo = y
    BY <2>1, Nibbles
  <2> QED
    BY <2>1, <2>2 DEF y, hi, lo
<1>11. g \in [1 .. n -> Bytes] /\ \A i \in 1 .. n : g[i] = f[i]
  BY <1>10
<1> HIDE DEF g
<1>12. g \o << >> = g /\ g \in Seq(Bytes) /\ Len(g) = n
  <2>1. n \in Nat
    BY <1>5
  <2> QED
    BY <1>11, <2>1, MapSeq
<1>13. g # << >>
  <2>1. n # 0
    BY <1>5
  <2> QED
    BY <1>12, <2>1, EmptySeq
<1>14. Begins(g, f)
  <2>1. Len(g) <= Len(f)
    BY <1>5, <1>12
  <2> QED
    BY <1>11, <1>12, <2>1 DEF Begins
<1> QED
  BY <1>4, <1>8, <1>12, <1>13, <1>14

-----------------------------------------------------------------------------
(* The frames of a read, traced to the ECUs that sent them.                *)

\* A line is the printed frame f of an ECU, or the beginning of it when the read
\* ended there.
IsPrint(l, e, f, final) ==
  /\ l \in Texts /\ Len(l) <= Len(PrintFrame(CanId[e], f))
  /\ \A i \in 1 .. Len(l) : l[i] = PrintFrame(CanId[e], f)[i]
  /\ final \/ l = PrintFrame(CanId[e], f)

\* A frame read is the frame f of an ECU, or the beginning of it.
IsRead(x, e, f, final) ==
  /\ x.src = CanId[e] /\ x.bytes # << >> /\ Begins(x.bytes, f)
  /\ final \/ x.bytes = f

\* Frames of eight bytes, of each of two ECUs.
FramesOk(F) ==
  \A e \in 1 .. 2 : F[e] \in Seq(Seq(Bytes)) /\ \A c \in 1 .. Len(F[e]) : F[e][c] \in Seq(Bytes) /\ Len(F[e][c]) = 8

\* The c-th frame of ECU e.
FrameNo(F, e, c) == F[e][c]

\* Some lines: those that are frames are the frames p[i] of the ECUs w[i], each
\* ECU's in their order; when nothing was lost there is none missing before any.
Traced(raw, F, w, p, clean) ==
  /\ \A i \in 1 .. Len(raw) : IsFrame(raw[i]) =>
       /\ w[i] \in 1 .. 2 /\ p[i] \in 1 .. Len(F[w[i]])
       /\ IsPrint(raw[i], w[i], FrameNo(F, w[i], p[i]), i = Len(raw))
  /\ \A i, j \in 1 .. Len(raw) : IsFrame(raw[i]) /\ IsFrame(raw[j]) /\ i < j /\ w[i] = w[j] => p[i] < p[j]
  /\ clean => \A i \in 1 .. Len(raw) : IsFrame(raw[i]) => \A c \in 1 .. p[i] - 1 :
                \E j \in 1 .. Len(raw) : IsFrame(raw[j]) /\ w[j] = w[i] /\ p[j] = c

\* The same of the frames read.
TracedFrames(fs, F, w, p, clean) ==
  /\ \A i \in 1 .. Len(fs) :
       /\ w[i] \in 1 .. 2 /\ p[i] \in 1 .. Len(F[w[i]])
       /\ IsRead(fs[i], w[i], FrameNo(F, w[i], p[i]), i = Len(fs))
  /\ \A i, j \in 1 .. Len(fs) : i < j /\ w[i] = w[j] => p[i] < p[j]
  /\ clean => \A i \in 1 .. Len(fs) : \A c \in 1 .. p[i] - 1 : \E j \in 1 .. Len(fs) : w[j] = w[i] /\ p[j] = c

\* A printed frame is read as it was sent.
LEMMA PrintIsRead ==
  ASSUME NEW e \in 1 .. 2, NEW f \in Seq(Bytes), Len(f) = 8, NEW final, NEW l, IsPrint(l, e, f, final), IsFrame(l)
  PROVE  IsRead(FrameOf(l), e, f, final)
<1> DEFINE src == CanId[e]
<1>1. src \in Nat /\ src < 4096
  BY EcuIds
<1> HIDE DEF src
<1>2. Len(PrintFrame(src, f)) = 19 /\ FrameOf(PrintFrame(src, f)).bytes = f
  BY <1>1, PrintAndRead
<1>3. /\ l \in Texts /\ Len(l) <= Len(PrintFrame(src, f))
      /\ \A i \in 1 .. Len(l) : l[i] = PrintFrame(src, f)[i]
      /\ final \/ l = PrintFrame(src, f)
  BY Zenon DEF IsPrint, src
<1>4. Len(l) <= 19
  BY <1>2, <1>3
<1>5. IsSource(src)
  BY <1>1 DEF IsSource
<1>6. FrameOf(l).src = src /\ FrameOf(l).bytes # << >> /\ Begins(FrameOf(l).bytes, f)
  BY <1>3, <1>4, <1>5, PrintedBeginning
<1>7. final \/ FrameOf(l).bytes = f
  BY <1>2, <1>3
<1> QED
  BY <1>6, <1>7 DEF IsRead, src

\* What is read of such lines.
LEMMA FramesTraced ==
  ASSUME NEW raw \in Seq(Texts), NEW F, FramesOk(F), NEW w, NEW p, NEW clean, Traced(raw, F, w, p, clean)
  PROVE  /\ \E O : Frames(raw) \in Seq(O)
         /\ \E v, q : TracedFrames(Frames(raw), F, v, q, clean)
<1> DEFINE S == {x \in ToSet(raw) : IsFrame(x)}
           ls == Select(raw, S)
           g == [i \in DOMAIN ls |-> FrameOf(ls[i])]
           n == Len(ls)
           O == {FrameOf(l) : l \in Texts}
<1>1. Frames(raw) = g \o << >>
  BY DEF Frames, Where
<1>2. ls \in Seq(Texts \cap S) /\ n \in Nat
  BY SelectType
<1>3. PICK b : /\ \A k \in 1 .. n : b[k] \in 1 .. Len(raw) /\ raw[b[k]] \in S /\ ls[k] = raw[b[k]]
               /\ \A k, l \in 1 .. n : k < l => b[k] < b[l]
               /\ \A i \in 1 .. Len(raw) : raw[i] \in S => \E k \in 1 .. n : b[k] = i
  <2> HIDE DEF S
  <2>1. \E b :
                /\ \A k \in 1 .. Len(Select(raw, S)) :
                     b[k] \in 1 .. Len(raw) /\ raw[b[k]] \in S /\ Select(raw, S)[k] = raw[b[k]]
                /\ \A k, l \in 1 .. Len(Select(raw, S)) : k < l => b[k] < b[l]
                /\ \A i \in 1 .. Len(raw) : raw[i] \in S => \E k \in 1 .. Len(Select(raw, S)) : b[k] = i
    BY SelectPlaces
  <2> QED
    BY <2>1
<1>4. Len(raw) \in Nat /\ DOMAIN raw = 1 .. Len(raw) /\ \A i \in 1 .. Len(raw) : raw[i] \in Texts
  BY LenProperties
<1>5. \A i \in 1 .. Len(raw) : raw[i] \in S <=> IsFrame(raw[i])
  BY <1>4 DEF ToSet
<1>6. DOMAIN ls = 1 .. n
  BY <1>2, LenProperties
<1> HIDE DEF S, ls
<1>7. \A k \in 1 .. n : b[k] \in 1 .. Len(raw) /\ IsFrame(raw[b[k]]) /\ ls[k] = raw[b[k]]
  BY <1>3, <1>5
<1>8. g \in [1 .. n -> O] /\ \A k \in 1 .. n : g[k] = FrameOf(raw[b[k]])
  BY <1>4, <1>6, <1>7
<1> HIDE DEF g, O, n
<1>9. Frames(raw) = g /\ g \in Seq(O) /\ Len(g) = n
  BY <1>1, <1>2, <1>8, MapSeq
<1> DEFINE v == [k \in 1 .. n |-> w[b[k]]]
           q == [k \in 1 .. n |-> p[b[k]]]
<1>10. \A k \in 1 .. n : v[k] = w[b[k]] /\ q[k] = p[b[k]]
  OBVIOUS
<1> HIDE DEF v, q
<1>11. ASSUME NEW k \in 1 .. n
       PROVE  /\ v[k] \in 1 .. 2 /\ q[k] \in 1 .. Len(F[v[k]])
              /\ IsRead(g[k], v[k], FrameNo(F, v[k], q[k]), k = n)
  <2> DEFINE i == b[k]
  <2>1. i \in 1 .. Len(raw) /\ IsFrame(raw[i])
    BY <1>7
  <2>2. k # n => i # Len(raw)
    <3> SUFFICES ASSUME k # n PROVE i # Len(raw)
      OBVIOUS
    <3>1. n \in 1 .. n /\ k < n
      BY <1>2 DEF n
    <3>2. b[k] < b[n] /\ b[n] \in 1 .. Len(raw)
      BY <1>3, <1>7, <3>1
    <3> QED
      BY <1>4, <2>1, <3>2
  <2>3. v[k] = w[i] /\ q[k] = p[i] /\ g[k] = FrameOf(raw[i])
    BY <1>8, <1>10
  <2> HIDE DEF i
  <2>4. w[i] \in 1 .. 2 /\ p[i] \in 1 .. Len(F[w[i]]) /\ IsPrint(raw[i], w[i], FrameNo(F, w[i], p[i]), i = Len(raw))
    BY <2>1, Zenon DEF Traced
  <2> DEFINE f == FrameNo(F, w[i], p[i])
             e == w[i]
             final == i = Len(raw)
  <2>5. f \in Seq(Bytes) /\ Len(f) = 8
    BY <2>4, Zenon DEF FramesOk, FrameNo
  <2>6. e \in 1 .. 2 /\ IsPrint(raw[i], e, f, final)
    BY <2>4
  <2> HIDE DEF f, e
  <2>7. IsRead(FrameOf(raw[i]), e, f, final)
    <3> HIDE DEF final
    <3> QED
      BY <2>1, <2>5, <2>6, PrintIsRead
  <2>8. IsRead(FrameOf(raw[i]), e, f, k = n)
    BY <2>2, <2>7 DEF IsRead
  <2> QED
    BY <2>3, <2>4, <2>8 DEF f, e
<1>12. ASSUME NEW i \in 1 .. n, NEW j \in 1 .. n, i < j, v[i] = v[j] PROVE q[i] < q[j]
  <2>1. b[i] < b[j] /\ b[i] \in 1 .. Len(raw) /\ b[j] \in 1 .. Len(raw) /\ IsFrame(raw[b[i]]) /\ IsFrame(raw[b[j]])
    BY <1>3, <1>7, <1>12
  <2>2. w[b[i]] = w[b[j]]
    BY <1>10, <1>12
  <2>3. p[b[i]] < p[b[j]]
    BY <2>1, <2>2, Zenon DEF Traced
  <2> QED
    BY <1>10, <2>3
<1>13. ASSUME clean, NEW i \in 1 .. n, NEW c \in 1 .. q[i] - 1 PROVE \E j \in 1 .. n : v[j] = v[i] /\ q[j] = c
  <2>1. b[i] \in 1 .. Len(raw) /\ IsFrame(raw[b[i]]) /\ v[i] = w[b[i]] /\ q[i] = p[b[i]]
    BY <1>7, <1>10
  <2>2. c \in 1 .. p[b[i]] - 1
    BY <2>1
  <2>3. PICK j \in 1 .. Len(raw) : IsFrame(raw[j]) /\ w[j] = w[b[i]] /\ p[j] = c
    BY <1>13, <2>1, <2>2, Zenon DEF Traced
  <2>4. PICK k \in 1 .. n : b[k] = j
    BY <1>3, <1>5, <2>3
  <2>5. v[k] = w[j] /\ q[k] = p[j]
    BY <1>10, <2>4
  <2>6. v[k] = v[i] /\ q[k] = c
    BY <2>1, <2>3, <2>5
  <2> QED
    BY <2>6
<1>14. TracedFrames(g, F, v, q, clean)
  <2>1. \A i \in 1 .. n : v[i] \in 1 .. 2 /\ q[i] \in 1 .. Len(F[v[i]])
                          /\ IsRead(g[i], v[i], FrameNo(F, v[i], q[i]), i = n)
    BY <1>11, Zenon
  <2>2. \A i, j \in 1 .. n : i < j /\ v[i] = v[j] => q[i] < q[j]
    BY <1>12, Zenon
  <2>3. clean => \A i \in 1 .. n : \A c \in 1 .. q[i] - 1 : \E j \in 1 .. n : v[j] = v[i] /\ q[j] = c
    BY <1>13, Zenon
  <2>4. n = Len(g)
    BY <1>9
  <2> HIDE DEF n
  <2> QED
    BY <2>1, <2>2, <2>3, <2>4, Zenon DEF TracedFrames
<1> QED
  BY <1>9, <1>14, Zenon

\* The frames of one source: some of those sent, in their order, of which only the
\* last may be cut; when nothing was lost, all of them up to it.
Group(g, s, m, clean) ==
  /\ g \in Seq(Seq(Bytes)) /\ g # << >>
  /\ \A i \in 1 .. Len(g) : /\ m[i] \in 1 .. Len(s) /\ g[i] # << >> /\ Begins(g[i], s[m[i]])
                            /\ i = Len(g) \/ g[i] = s[m[i]]
  /\ \A i, j \in 1 .. Len(g) : i < j => m[i] < m[j]
  /\ clean => \A i \in 1 .. Len(g) : m[i] = i

\* Those with one source are such a group.
LEMMA OwnFrames ==
  ASSUME NEW O, NEW fs \in Seq(O), NEW F, FramesOk(F), NEW w, NEW p, NEW clean, TracedFrames(fs, F, w, p, clean),
         NEW u \in 1 .. Len(fs)
  PROVE  LET own == Select(fs, {x \in ToSet(fs) : x.src = fs[u].src})
         IN  \E m : Group([i \in DOMAIN own |-> own[i].bytes] \o << >>, F[w[u]], m, clean)
<1> DEFINE e == w[u]
           S == {x \in ToSet(fs) : x.src = fs[u].src}
           own == Select(fs, S)
           g == [i \in DOMAIN own |-> own[i].bytes]
           n == Len(own)
<1>1. Len(fs) \in Nat /\ DOMAIN fs = 1 .. Len(fs) /\ \A i \in 1 .. Len(fs) : fs[i] \in O
  BY LenProperties
<1>2. own \in Seq(O \cap S) /\ n \in Nat
  BY SelectType
<1>3. PICK b : /\ \A k \in 1 .. n : b[k] \in 1 .. Len(fs) /\ fs[b[k]] \in S /\ own[k] = fs[b[k]]
               /\ \A k, l \in 1 .. n : k < l => b[k] < b[l]
               /\ \A i \in 1 .. Len(fs) : fs[i] \in S => \E k \in 1 .. n : b[k] = i
  <2> HIDE DEF S
  <2>1. \E b :
                /\ \A k \in 1 .. Len(Select(fs, S)) :
                     b[k] \in 1 .. Len(fs) /\ fs[b[k]] \in S /\ Select(fs, S)[k] = fs[b[k]]
                /\ \A k, l \in 1 .. Len(Select(fs, S)) : k < l => b[k] < b[l]
                /\ \A i \in 1 .. Len(fs) : fs[i] \in S => \E k \in 1 .. Len(Select(fs, S)) : b[k] = i
    BY SelectPlaces, SMTT(30)
  <2> QED
    BY <2>1
<1>4. \A i \in 1 .. Len(fs) : fs[i] \in S <=> w[i] = e
  <2>1. \A i \in 1 .. Len(fs) : w[i] \in 1 .. 2 /\ fs[i].src = CanId[w[i]]
    BY Zenon DEF TracedFrames, IsRead
  <2>2. CanId[1] # CanId[2]
    BY VehicleAssumption
  <2>3. ASSUME NEW i \in 1 .. Len(fs) PROVE fs[i].src = fs[u].src <=> w[i] = e
    <3>1. w[i] \in 1 .. 2 /\ e \in 1 .. 2 /\ fs[i].src = CanId[w[i]] /\ fs[u].src = CanId[e]
      BY <2>1
    <3> HIDE DEF e
    <3>2. (w[i] = 1 \/ w[i] = 2) /\ (e = 1 \/ e = 2)
      BY <3>1
    <3>3. CanId[w[i]] = CanId[e] <=> w[i] = e
      BY <2>2, <3>2
    <3> QED
      BY <3>1, <3>3
  <2> QED
    BY <1>1, <2>3 DEF ToSet
<1>5. DOMAIN own = 1 .. n
  BY <1>2, LenProperties
<1>6. e \in 1 .. 2 /\ F[e] \in Seq(Seq(Bytes))
  <2>1. w[u] \in 1 .. 2
    BY Zenon DEF TracedFrames
  <2> QED
    BY <2>1 DEF FramesOk
<1> HIDE DEF S, own
<1>7. \A k \in 1 .. n : b[k] \in 1 .. Len(fs) /\ w[b[k]] = e /\ own[k] = fs[b[k]]
  BY <1>3, <1>4
<1> HIDE DEF e, n
<1> DEFINE m == [k \in 1 .. n |-> p[b[k]]]
<1>8. \A k \in 1 .. n : m[k] = p[b[k]]
  OBVIOUS
<1>9. g = [k \in 1 .. n |-> fs[b[k]].bytes]
  BY <1>5, <1>7
<1> HIDE DEF m, g
<1>10. \A k \in 1 .. n : g[k] = fs[b[k]].bytes
  BY <1>9
<1>11. ASSUME NEW k \in 1 .. n
       PROVE  /\ m[k] \in 1 .. Len(F[e]) /\ g[k] # << >> /\ Begins(g[k], F[e][m[k]])
              /\ k = n \/ g[k] = F[e][m[k]]
  <2> DEFINE i == b[k]
  <2>1. i \in 1 .. Len(fs) /\ w[i] = e /\ m[k] = p[i] /\ g[k] = fs[i].bytes
    BY <1>7, <1>8, <1>10
  <2>2. k # n => i # Len(fs)
    <3> SUFFICES ASSUME k # n PROVE i # Len(fs)
      OBVIOUS
    <3>1. n \in 1 .. n /\ k < n
      BY <1>2 DEF n
    <3>2. b[k] < b[n] /\ b[n] \in 1 .. Len(fs)
      BY <1>3, <1>7, <3>1
    <3> QED
      BY <1>1, <2>1, <3>2
  <2> HIDE DEF i
  <2>3. p[i] \in 1 .. Len(F[w[i]]) /\ IsRead(fs[i], w[i], FrameNo(F, w[i], p[i]), i = Len(fs))
    BY <2>1, Zenon DEF TracedFrames
  <2>4. p[i] \in 1 .. Len(F[e]) /\ IsRead(fs[i], e, F[e][p[i]], i = Len(fs))
    BY <2>1, <2>3 DEF FrameNo
  <2> QED
    BY <2>1, <2>2, <2>4 DEF IsRead
<1>12. ASSUME NEW i \in 1 .. n, NEW j \in 1 .. n, i < j PROVE m[i] < m[j]
  <2>1. b[i] < b[j] /\ b[i] \in 1 .. Len(fs) /\ b[j] \in 1 .. Len(fs) /\ w[b[i]] = w[b[j]]
    BY <1>3, <1>7, <1>12
  <2>2. p[b[i]] < p[b[j]]
    BY <2>1, Zenon DEF TracedFrames
  <2> QED
    BY <1>8, <2>2
<1>13. ASSUME clean, NEW i \in 1 .. n, NEW c \in 1 .. m[i] - 1 PROVE \E t \in 1 .. n : m[t] = c
  <2>1. b[i] \in 1 .. Len(fs) /\ w[b[i]] = e /\ m[i] = p[b[i]]
    BY <1>7, <1>8
  <2>2. c \in 1 .. p[b[i]] - 1
    BY <2>1
  <2>3. PICK j \in 1 .. Len(fs) : w[j] = w[b[i]] /\ p[j] = c
    BY <1>13, <2>1, <2>2, Zenon DEF TracedFrames
  <2>4. PICK k \in 1 .. n : b[k] = j
    BY <1>3, <1>4, <2>1, <2>3
  <2>5. m[k] = p[j]
    BY <1>8, <2>4
  <2> QED
    BY <2>3, <2>5
<1>14. clean => \A i \in 1 .. n : m[i] = i
  <2> SUFFICES ASSUME clean PROVE \A i \in 1 .. n : m[i] = i
    OBVIOUS
  <2>1. n \in Nat
    BY <1>2 DEF n
  <2>2. \A i \in 1 .. n : m[i] \in Nat \ {0}
    BY <1>6, <1>11
  <2>3. \A i, j \in 1 .. n : i < j => m[i] < m[j]
    BY <1>12
  <2>4. \A i \in 1 .. n : \A j \in 1 .. m[i] - 1 : \E t \in 1 .. n : m[t] = j
    BY <1>13
  <2> QED
    BY <2>1, <2>2, <2>3, <2>4, PlacesAreFirst
<1>15. g \in [1 .. n -> Seq(Bytes)]
  <2>1. \A k \in 1 .. n : g[k] \in Seq(Bytes)
    BY <1>11 DEF Begins
  <2> QED
    BY <1>9, <2>1
<1>16. g \o << >> = g /\ g \in Seq(Seq(Bytes)) /\ Len(g) = n
  BY <1>2, <1>15, MapSeq DEF n
<1>17. g # << >>
  <2>1. PICK k \in 1 .. n : b[k] = u
    BY <1>3, <1>4 DEF e
  <2>2. n # 0
    BY <2>1
  <2> QED
    BY <1>16, <2>2, EmptySeq
<1>18. Group(g, F[e], m, clean)
  BY <1>11, <1>12, <1>14, <1>16, <1>17, Zenon DEF Group
<1> QED
  BY <1>16, <1>18, Zenon DEF g, own, S, e

\* The bytes of the frames that have the source of the u-th.
Own(fs, u) ==
  LET own == Select(fs, {x \in ToSet(fs) : x.src = fs[u].src}) IN [i \in DOMAIN own |-> own[i].bytes] \o << >>

\* The groups are those of some of the frames.
LEMMA GroupsAreOwn ==
  ASSUME NEW O, NEW fs \in Seq(O)
  PROVE  /\ Len(BySource(fs)) \in Nat /\ DOMAIN BySource(fs) = 1 .. Len(BySource(fs))
         /\ \A k \in 1 .. Len(BySource(fs)) : \E u \in 1 .. Len(fs) : BySource(fs)[k] = Own(fs, u)
<1> DEFINE ids == [i \in DOMAIN fs |-> i]
           S == {i \in ToSet(ids) : \A j \in 1 .. i - 1 : fs[j].src # fs[i].src}
           firsts == Select(ids, S)
           of(k) == {x \in ToSet(fs) : x.src = fs[firsts[k]].src}
           own == [k \in DOMAIN firsts |-> Select(fs, of(k))]
           by == [k \in DOMAIN own |-> [n \in DOMAIN own[k] |-> own[k][n].bytes] \o << >>]
           m == Len(firsts)
<1>1. DOMAIN fs = 1 .. Len(fs) /\ Len(fs) \in Nat /\ \A i \in 1 .. Len(fs) : fs[i] \in O
  BY LenProperties
<1>2. ids \in Seq(1 .. Len(fs))
  BY <1>1, SeqDef
<1> HIDE DEF ids
<1>3. firsts \in Seq(1 .. Len(fs)) /\ m \in Nat
  <2>1. firsts \in Seq((1 .. Len(fs)) \cap S) /\ Len(firsts) \in Nat
    BY <1>2, SelectType
  <2> HIDE DEF firsts
  <2>2. \A j \in 1 .. Len(firsts) : firsts[j] \in 1 .. Len(fs)
    BY <2>1, LenProperties
  <2> QED
    BY <2>1, <2>2, SeqOver
<1> HIDE DEF firsts, S
<1>4. DOMAIN firsts = 1 .. m /\ \A k \in 1 .. m : firsts[k] \in 1 .. Len(fs)
  BY <1>3, LenProperties
<1>5. own \in [1 .. m -> {own[k] : k \in 1 .. m}] /\ own \o << >> = own
  <2>1. own \in [1 .. m -> {own[k] : k \in 1 .. m}]
    BY <1>4
  <2> HIDE DEF own, m
  <2> QED
    BY <1>3, <2>1, MapSeq
<1>6. BySource(fs) = by \o << >>
  <2> DEFINE by2(o) == [k \in DOMAIN o |-> [n \in DOMAIN o[k] |-> o[k][n].bytes] \o << >>]
  <2>1. BySource(fs) = by2(own \o << >>) \o << >>
    BY DEF BySource, Where, firsts, S, ids
  <2> HIDE DEF own, by2
  <2>2. BySource(fs) = by2(own) \o << >>
    BY <1>5, <2>1
  <2> QED
    BY <2>2 DEF by2
<1>7. \A k \in 1 .. m : own[k] = Select(fs, of(k))
  BY <1>4
<1>8. DOMAIN own = 1 .. m
  BY <1>4
<1> HIDE DEF own
<1>9. \A k \in 1 .. m : by[k] = [n \in DOMAIN own[k] |-> own[k][n].bytes] \o << >>
  BY <1>8
<1>10. by \in [1 .. m -> {by[k] : k \in 1 .. m}]
  BY <1>8
<1> HIDE DEF by, m
<1>11. BySource(fs) = by /\ Len(by) = m /\ DOMAIN by = 1 .. m
  BY <1>3, <1>6, <1>10, MapSeq
<1>12. ASSUME NEW k \in 1 .. m PROVE \E u \in 1 .. Len(fs) : by[k] = Own(fs, u)
  <2> DEFINE bytes(o) == [n \in DOMAIN o |-> o[n].bytes] \o << >>
  <2>1. by[k] = bytes(own[k])
    BY <1>9
  <2>2. Own(fs, firsts[k]) = bytes(Select(fs, of(k)))
    BY DEF Own
  <2> HIDE DEF bytes, of
  <2>3. by[k] = Own(fs, firsts[k])
    BY <1>7, <2>1, <2>2
  <2> QED
    BY <1>4, <2>3
<1> QED
  BY <1>3, <1>11, <1>12

\* What is made of such lines is what is made of a group of one ECU's frames.
LEMMA ParsedGroups ==
  ASSUME NEW raw \in Seq(Texts), NEW F, FramesOk(F), NEW w, NEW p, NEW clean, Traced(raw, F, w, p, clean),
         ~ParseRaises(raw), NEW d \in ToSet(ParseElmResponse(raw))
  PROVE  /\ d # << >>
         /\ \E e \in 1 .. 2 : \E g, m : Group(g, F[e], m, clean) /\ ~RaisesIndexError(g) /\ d = Reassemble(g)
<1> DEFINE fs == Frames(raw)
           by == BySource(fs)
           all == [k \in DOMAIN by |-> Reassemble(by[k])]
           S == {x \in ToSet(all) : x # << >>}
           n == Len(by)
<1>1. PICK O : fs \in Seq(O)
  BY FramesTraced
<1>2. PICK v, q : TracedFrames(fs, F, v, q, clean)
  BY FramesTraced
<1>3. \A k \in DOMAIN by : ~RaisesIndexError(by[k])
  BY Zenon DEF ParseRaises
<1>4. ParseElmResponse(raw) = Select(all, S)
  BY DEF ParseElmResponse, Where
<1> HIDE DEF fs
<1>5. /\ n \in Nat /\ DOMAIN by = 1 .. n
      /\ \A k \in 1 .. n : \E u \in 1 .. Len(fs) : by[k] = Own(fs, u)
  BY <1>1, GroupsAreOwn
<1> HIDE DEF by, n
<1> DEFINE V == {Reassemble(by[k]) : k \in 1 .. n}
<1>6. all \in [1 .. n -> V]
  BY <1>5
<1> HIDE DEF all
<1>7. all \in Seq(V)
  <2> HIDE DEF V
  <2> QED
    BY <1>5, <1>6, MapSeq
<1>8. \A x \in ToSet(all) : x \in V
  <2> HIDE DEF V
  <2>1. \A x \in ToSet(all) : \E i \in DOMAIN all : x = all[i]
    BY DEF ToSet
  <2> QED
    BY <1>6, <2>1
<1>9. d \in V /\ d # << >>
  <2>1. Select(all, S) \in Seq(V \cap S)
    <3> HIDE DEF V, S
    <3> QED
      BY <1>7, SelectType
  <2> DEFINE r == Select(all, S)
             W == V \cap S
  <2>2. r \in Seq(W) /\ d \in ToSet(r)
    BY <1>4, <2>1
  <2> HIDE DEF r, W
  <2>3. \E i \in DOMAIN r : d = r[i]
    BY <2>2 DEF ToSet
  <2>4. d \in W
    BY <2>2, <2>3, LenProperties
  <2> QED
    BY <2>4 DEF W
<1>10. PICK k \in 1 .. n : d = Reassemble(by[k])
  BY <1>9
<1>11. PICK u \in 1 .. Len(fs) : by[k] = Own(fs, u)
  BY <1>5
<1>12. \E m : Group(Own(fs, u), F[v[u]], m, clean)
  <2> DEFINE own == Select(fs, {x \in ToSet(fs) : x.src = fs[u].src})
             h == [i \in DOMAIN own |-> own[i].bytes] \o << >>
  <2>1. \E m : Group(h, F[v[u]], m, clean)
    BY <1>1, <1>2, OwnFrames
  <2>2. h = Own(fs, u)
    BY DEF Own
  <2> HIDE DEF h
  <2> QED
    BY <2>1, <2>2
<1>13. v[u] \in 1 .. 2
  BY <1>2, Zenon DEF TracedFrames
<1>14. ~RaisesIndexError(by[k])
  BY <1>3, <1>5
<1>15. \E m : Group(by[k], F[v[u]], m, clean)
  BY <1>11, <1>12
<1> HIDE DEF V
<1> QED
  BY <1>9, <1>10, <1>13, <1>14, <1>15, Zenon

-----------------------------------------------------------------------------
(* What is put together of them.                                           *)

\* A reply that was read fits one that was sent: it is shorter or the beginning
\* of it, and that for sure when nothing was lost.
Fits(d, s, clean) == d \in Seq(Bytes) /\ (Len(d) < Len(s) \/ Begins(d, s)) /\ (clean => Begins(d, s))

\* The first frame of a group.
Leads(g, s, m, clean) ==
  /\ Len(g) \in Nat /\ 1 \in 1 .. Len(g) /\ m[1] \in 1 .. Len(s) /\ g[1] # << >> /\ Begins(g[1], s[m[1]])
  /\ 1 = Len(g) \/ g[1] = s[m[1]]
  /\ clean => m[1] = 1
  /\ g[1] \in Seq(Bytes) /\ Len(g[1]) \in Nat /\ 1 \in 1 .. Len(g[1]) /\ g[1][1] = s[m[1]][1]

\* It is one of those sent, or the beginning of it.
LEMMA FirstOfGroup ==
  ASSUME NEW g, NEW s, NEW m, NEW clean, Group(g, s, m, clean)
  PROVE  Leads(g, s, m, clean)
<1>1. Len(g) \in Nat /\ Len(g) # 0
  BY LenProperties, EmptySeq DEF Group
<1>2. 1 \in 1 .. Len(g)
  BY <1>1
<1>3. /\ m[1] \in 1 .. Len(s) /\ g[1] # << >> /\ Begins(g[1], s[m[1]])
      /\ 1 = Len(g) \/ g[1] = s[m[1]]
      /\ clean => m[1] = 1
  BY <1>2, Zenon DEF Group
<1> DEFINE f == g[1]
<1>4. f \in Seq(Bytes) /\ f # << >> /\ \A i \in 1 .. Len(f) : f[i] = s[m[1]][i]
  BY <1>3 DEF Begins
<1> HIDE DEF f
<1>5. Len(f) \in Nat /\ Len(f) # 0
  BY <1>4, LenProperties, EmptySeq
<1>6. 1 \in 1 .. Len(f)
  BY <1>5
<1>7. f[1] = s[m[1]][1]
  BY <1>4, <1>6
<1>8. f # << >>
  BY <1>4
<1> QED
  BY <1>1, <1>2, <1>3, <1>4, <1>5, <1>6, <1>7 DEF f, Leads

\* A payload that may be sent.
IsPayload(a) == a \in Seq(Bytes) /\ Len(a) <= 600

\* What is put together of the frames of a short reply.
LEMMA ShortAnswer ==
  ASSUME NEW a \in Seq(Bytes), Len(a) \in 0 .. 7, NEW s, s[1] = SingleFrame(a),
         NEW g, NEW m, NEW clean, Group(g, s, m, clean), m[1] = 1
  PROVE  Fits(Reassemble(g), a, clean)
<1>1. g[1] # << >> /\ Begins(g[1], SingleFrame(a))
  <2>1. g[1] # << >> /\ Begins(g[1], s[m[1]])
    BY FirstOfGroup DEF Leads
  <2> QED
    BY <2>1
<1>2. Begins(Reassemble(g), a)
  BY <1>1, ReassembleShort
<1> QED
  BY <1>2 DEF Fits, Begins

\* What is put together of the frames of a long reply that begin with its first.
LEMMA LongAnswer ==
  ASSUME NEW a \in Seq(Bytes), IsLong(a),
         NEW g, NEW m, NEW clean, Group(g, IsoTp(a), m, clean), m[1] = 1, ~RaisesIndexError(g)
  PROVE  Fits(Reassemble(g), a, clean)
<1> DEFINE s == IsoTp(a)
           n == Len(a) \div 7
           q == Len(g) - 1
           k == [i \in 1 .. q |-> m[i + 1] - 1]
           c == s[1]
<1>1. /\ s \in Seq(Seq(Bytes)) /\ Len(s) = 1 + n /\ First(c, a)
      /\ \A i \in 1 .. n : Consecutive(s[1 + i], a, i)
  BY LongFrames
<1>2. n \in Nat
  <2> DEFINE L == Len(a)
  <2>1. L \in 8 .. 600
    BY Zenon DEF IsLong
  <2> HIDE DEF L
  <2>2. L \div 7 \in Nat
    BY <2>1
  <2> QED
    BY <2>2 DEF L
<1> HIDE DEF s, n
<1>3. /\ Len(g) \in Nat /\ 1 \in 1 .. Len(g) /\ g[1] # << >> /\ Begins(g[1], c) /\ (1 = Len(g) \/ g[1] = c)
      /\ g[1] \in Seq(Bytes) /\ Len(g[1]) \in Nat /\ 1 \in 1 .. Len(g[1]) /\ g[1][1] = c[1]
  <2>1. Group(g, s, m, clean)
    BY DEF s
  <2>2. /\ Len(g) \in Nat /\ 1 \in 1 .. Len(g) /\ m[1] \in 1 .. Len(s) /\ g[1] # << >> /\ Begins(g[1], s[m[1]])
        /\ 1 = Len(g) \/ g[1] = s[m[1]]
        /\ g[1] \in Seq(Bytes) /\ Len(g[1]) \in Nat /\ 1 \in 1 .. Len(g[1]) /\ g[1][1] = s[m[1]][1]
    <3>1. Leads(g, s, m, clean)
      BY <2>1, FirstOfGroup
    <3> QED
      BY <3>1, Zenon DEF Leads
  <2> QED
    BY <2>2
<1> HIDE DEF c
<1>4. g \in Seq(Seq(Bytes)) /\ g # << >>
  BY DEF Group
<1>5. Len(g[1]) >= 2
  <2> DEFINE f == g[1]
  <2>1. Len(f) \in Nat /\ 1 \in 1 .. Len(f) /\ f[1] = c[1]
    BY <1>3
  <2>2. ~(f[1] \div 16 = 1 /\ Len(f) = 1)
    BY DEF RaisesIndexError, Pci
  <2> HIDE DEF f
  <2>3. c[1] \in 16 .. 31
    BY <1>1 DEF First
  <2>4. c[1] \div 16 = 1
    <3> DEFINE x == c[1]
    <3>1. x \in 16 .. 31
      BY <2>3
    <3> HIDE DEF x
    <3>2. x \div 16 = 1
      BY <3>1
    <3> QED
      BY <3>2 DEF x
  <2>5. Len(f) # 1
    BY <2>1, <2>2, <2>4
  <2>6. Len(f) >= 2
    <3> DEFINE y == Len(f)
    <3>1. y \in Nat /\ 1 \in 1 .. y /\ y # 1
      BY <2>1, <2>5
    <3> HIDE DEF y
    <3>2. y >= 2
      BY <3>1
    <3> QED
      BY <3>2 DEF y
  <2> QED
    BY <2>6 DEF f
<1>6. Len(g) > 1 => g[1] = c
  <2> DEFINE y == Len(g)
  <2>0. y \in Nat
    BY <1>3
  <2> HIDE DEF y
  <2>a. y > 1 => 1 # y
    BY <2>0
  <2>1. Len(g) > 1 => 1 # Len(g)
    BY <2>a DEF y
  <2> QED
    BY <1>3, <2>1
<1>7. q \in Nat /\ Len(g) = q + 1
  BY <1>3
<1> HIDE DEF q
<1>8. \A i \in 1 .. q : k[i] = m[i + 1] - 1
  OBVIOUS
<1> HIDE DEF k
<1>9. ASSUME NEW i \in 1 .. q
      PROVE  /\ k[i] \in 1 .. n /\ g[i + 1] # << >> /\ Begins(g[i + 1], s[1 + k[i]])
             /\ i < q => g[i + 1] = s[1 + k[i]]
  <2>1. i + 1 \in 1 .. Len(g) /\ 1 < i + 1 /\ (i < q => i + 1 # Len(g))
    BY <1>7
  <2> DEFINE j == i + 1
  <2>a. j \in 1 .. Len(g) /\ 1 < j /\ (i < q => j # Len(g))
    BY <2>1
  <2> HIDE DEF j
  <2>2. /\ m[j] \in 1 .. Len(s) /\ g[j] # << >> /\ Begins(g[j], s[m[j]])
        /\ j = Len(g) \/ g[j] = s[m[j]]
    BY <2>a, Zenon DEF Group, s
  <2>3. m[1] < m[j]
    BY <1>3, <2>a, Zenon DEF Group
  <2>4. m[j] - 1 \in 1 .. n /\ 1 + (m[j] - 1) = m[j]
    <3>1. 1 < m[j] /\ m[j] \in 1 .. 1 + n
      BY <1>1, <2>2, <2>3
    <3> QED
      BY <1>2, <3>1
  <2>5. k[i] = m[j] - 1
    BY <1>8 DEF j
  <2>6. k[i] \in 1 .. n /\ 1 + k[i] = m[j]
    BY <2>4, <2>5
  <2>7. g[j] # << >> /\ Begins(g[j], s[1 + k[i]]) /\ (i < q => g[j] = s[1 + k[i]])
    BY <2>2, <2>6, <2>a
  <2> QED
    BY <2>6, <2>7 DEF j
<1>10. ASSUME NEW i \in 1 .. q, NEW j \in 1 .. q, i < j PROVE k[i] < k[j]
  <2>1. i + 1 \in 1 .. Len(g) /\ j + 1 \in 1 .. Len(g) /\ i + 1 < j + 1
    BY <1>7, <1>10
  <2> DEFINE x == i + 1
             y == j + 1
  <2>a. x \in 1 .. Len(g) /\ y \in 1 .. Len(g) /\ x < y
    BY <2>1
  <2>b. k[i] = m[x] - 1 /\ k[j] = m[y] - 1
    BY <1>8
  <2> HIDE DEF x, y
  <2>2. m[x] < m[y] /\ m[x] \in 1 .. Len(s) /\ m[y] \in 1 .. Len(s)
    BY <2>a, Zenon DEF Group, s
  <2>3. Len(s) \in Nat
    BY <1>1, <1>2
  <2> QED
    BY <2>2, <2>3, <2>b
<1>11. Behind(g, a, k)
  <2>1. \A i \in 1 .. q : /\ k[i] \in 1 .. n /\ g[i + 1] # << >>
                          /\ \E h : Consecutive(h, a, k[i]) /\ Begins(g[i + 1], h) /\ (i < q => g[i + 1] = h)
    BY <1>1, <1>9, Zenon
  <2> QED
    BY <1>10, <2>1, Zenon DEF Behind, q, n
<1>12. LET d == Reassemble(g)
       IN  /\ d \in Seq(Bytes) /\ (Len(d) < Len(a) \/ Begins(d, a))
           /\ (\A i \in 1 .. Len(g) - 1 : k[i] = i) => Begins(d, a)
  BY <1>1, <1>3, <1>4, <1>5, <1>6, <1>11, ReassembleLong
<1>13. clean => \A i \in 1 .. Len(g) - 1 : k[i] = i
  <2> SUFFICES ASSUME clean, NEW i \in 1 .. q PROVE k[i] = i
    BY <1>7
  <2>1. i + 1 \in 1 .. Len(g)
    BY <1>7
  <2> DEFINE x == i + 1
  <2>2. x \in 1 .. Len(g) /\ k[i] = m[x] - 1 /\ x = i + 1
    BY <1>8, <2>1
  <2> HIDE DEF x
  <2>3. m[x] = x
    BY <2>2, Zenon DEF Group
  <2> QED
    BY <2>2, <2>3
<1> QED
  BY <1>12, <1>13, Zenon DEF Fits

\* A group that does not begin with the first frame of a reply is taken for its
\* first frame, which is no reply.
LEMMA LaterFrames ==
  ASSUME NEW a \in Seq(Bytes), IsLong(a),
         NEW g, NEW m, NEW clean, Group(g, IsoTp(a), m, clean), m[1] # 1
  PROVE  Reassemble(g)[1] \in 32 .. 47
<1> DEFINE s == IsoTp(a)
           n == Len(a) \div 7
<1>1. /\ Len(s) = 1 + n /\ \A i \in 1 .. n : Consecutive(s[1 + i], a, i)
  BY LongFrames
<1>2. n \in Nat
  <2> DEFINE L == Len(a)
  <2>1. L \in 8 .. 600
    BY Zenon DEF IsLong
  <2> HIDE DEF L
  <2>2. L \div 7 \in Nat
    BY <2>1
  <2> QED
    BY <2>2 DEF L
<1> HIDE DEF n
<1>3. m[1] \in 1 .. Len(s) /\ g[1][1] = s[m[1]][1]
  <2>1. Group(g, s, m, clean)
    BY DEF s
  <2>2. Leads(g, s, m, clean)
    BY <2>1, FirstOfGroup
  <2> QED
    BY <2>2, Zenon DEF Leads
<1> HIDE DEF s
<1>4. m[1] - 1 \in 1 .. n /\ 1 + (m[1] - 1) = m[1]
  BY <1>1, <1>2, <1>3
<1>5. Consecutive(s[m[1]], a, m[1] - 1)
  BY <1>1, <1>4
<1>6. g[1][1] \in 32 .. 47
  BY <1>3, <1>5 DEF Consecutive
<1>7. g[1][1] \in 32 .. 255
  BY <1>6
<1> QED
  BY <1>6, <1>7, ReassembleOther

\* What is put together of the frames of a reply.
LEMMA OneAnswer ==
  ASSUME NEW a, IsPayload(a),
         NEW g, NEW m, NEW clean, Group(g, IsoTp(a), m, clean), ~RaisesIndexError(g), Reassemble(g)[1] \notin 32 .. 47
  PROVE  Fits(Reassemble(g), a, clean)
<1>0. a \in Seq(Bytes) /\ Len(a) \in Nat /\ Len(a) <= 600
  <2>1. a \in Seq(Bytes) /\ Len(a) <= 600
    BY DEF IsPayload
  <2>2. Len(a) \in Nat
    BY <2>1, LenProperties
  <2> QED
    BY <2>1, <2>2
<1>1. CASE Len(a) <= 7
  <2>1. Len(a) \in 0 .. 7
    <3> DEFINE n == Len(a)
    <3>1. n \in Nat /\ n <= 7
      BY <1>0, <1>1
    <3> HIDE DEF n
    <3>2. n \in 0 .. 7
      BY <3>1
    <3> QED
      BY <3>2 DEF n
  <2> DEFINE f == SingleFrame(a)
             s == <<f>>
  <2>2. IsoTp(a) = s
    BY <1>1 DEF IsoTp, SingleFrame
  <2> HIDE DEF f
  <2>3. Len(s) = 1 /\ s[1] = f
    OBVIOUS
  <2> HIDE DEF s
  <2>4. Group(g, s, m, clean)
    BY <2>2
  <2>5. m[1] \in 1 .. Len(s)
    BY <2>4, FirstOfGroup, Zenon DEF Leads
  <2>6. m[1] = 1
    BY <2>3, <2>5
  <2> QED
    BY <1>0, <2>1, <2>3, <2>4, <2>6, ShortAnswer DEF f
<1>2. CASE ~(Len(a) <= 7)
  <2>1. IsLong(a)
    <3> DEFINE n == Len(a)
    <3>1. n \in Nat /\ n <= 600 /\ ~(n <= 7)
      BY <1>0, <1>2
    <3> HIDE DEF n
    <3>2. n \in 8 .. 600
      BY <3>1
    <3> QED
      BY <3>2, Zenon DEF n, IsLong
  <2>2. m[1] = 1
    BY <1>0, <2>1, LaterFrames
  <2> QED
    BY <1>0, <2>1, <2>2, LongAnswer
<1> QED
  BY <1>1, <1>2

\* The frames of what an ECU sends.
FramesOf(ps) == FlattenSeq([i \in DOMAIN ps |-> IsoTp(ps[i])])

\* A reply, and the word that it will take longer.
IsReply(a) == IsPayload(a) /\ a # << >> /\ IsSid(a[1])
IsWait(p) == p \in Seq(Bytes) /\ Len(p) \in 0 .. 7 /\ p # << >> /\ IsSid(p[1])

\* What an ECU sends: nothing, a reply, or a word that it will take longer and
\* then the reply.
SentOk(ps) ==
  ps = << >> \/ \E a : IsReply(a) /\ (ps = <<a>> \/ \E p : IsWait(p) /\ ps = <<p, a>>)

\* That is what it sends.
LEMMA SentShape ==
  ASSUME CodesInv, NEW e \in 1 .. 2, NEW req, RequestOk(req), NEW accepts \in BOOLEAN
  PROVE  SentOk(Sent(e, req, accepts))
<1>1. EcuAnswer(e, req, accepts) # << >> =>
        Reply(e, EcuAnswer(e, req, accepts)) /\ Len(EcuAnswer(e, req, accepts)) <= 600
  BY EcuReply
<1> DEFINE a == EcuAnswer(e, req, accepts)
           p == <<127, req[1], 120>>
           s == Sent(e, req, accepts)
<1>a. a # << >> => Reply(e, a) /\ Len(a) <= 600
  BY <1>1, Zenon
<1>2. IsWait(p)
  <2> DEFINE y == req[1]
             h == <<127, y, 120>>
  <2>1. y \in Bytes
    BY DEF RequestOk, Bytes
  <2> HIDE DEF y
  <2>2. h \in Seq(Bytes) /\ h # << >> /\ Len(h) \in 0 .. 7 /\ IsSid(h[1])
    BY <2>1 DEF Bytes, IsSid
  <2> QED
    BY <2>2 DEF y, IsWait
<1>3. s = IF a = << >> THEN << >> ELSE IF Pends THEN <<p, a>> ELSE <<a>>
  BY DEF Sent
<1> HIDE DEF a, p, s
<1>4. a # << >> => IsReply(a)
  BY <1>a, Zenon DEF Reply, IsReply, IsPayload
<1> QED
  BY <1>2, <1>3, <1>4 DEF SentOk, s

\* The lines of replies are the frames of them, printed.
LEMMA PrintedFrames ==
  ASSUME NEW e \in 1 .. 2, NEW T, NEW ps \in Seq(T), Sendable(e, ps)
  PROVE  /\ FramesOf(ps) \in Seq(Seq(Bytes)) /\ Printed(e, ps) \in Seq(Texts)
         /\ Len(Printed(e, ps)) = Len(FramesOf(ps))
         /\ \A i \in 1 .. Len(FramesOf(ps)) :
              /\ FramesOf(ps)[i] \in Seq(Bytes) /\ Len(FramesOf(ps)[i]) = 8
              /\ Printed(e, ps)[i] = PrintFrame(CanId[e], FramesOf(ps)[i])
<1> DEFINE q == [i \in DOMAIN ps |-> IsoTp(ps[i])]
           fs == FlattenSeq(q)
           g == [i \in DOMAIN fs |-> PrintFrame(CanId[e], fs[i])]
<1>1. DOMAIN ps = 1 .. Len(ps) /\ Len(ps) \in Nat
  BY LenProperties
<1>2. ASSUME NEW k \in 1 .. Len(ps)
      PROVE  /\ IsoTp(ps[k]) \in Seq(Seq(Bytes))
             /\ \A i \in 1 .. Len(IsoTp(ps[k])) : SentFrame(e, IsoTp(ps[k])[i])
  <2> DEFINE d == ps[k]
  <2>1. Reply(e, d) /\ Len(d) <= 600
    BY DEF Sendable
  <2> HIDE DEF d
  <2>2. IsoTp(d) \in Seq(Seq(Bytes)) /\ \A i \in 1 .. Len(IsoTp(d)) : SentFrame(e, IsoTp(d)[i])
    BY <2>1, IsoTpFrames
  <2> QED
    BY <2>2 DEF d
<1>3. q \in [1 .. Len(ps) -> Seq(Seq(Bytes))]
  BY <1>1, <1>2
<1>4. \A k \in 1 .. Len(ps) : q[k] = IsoTp(ps[k])
  BY <1>1
<1>a. FramesOf(ps) = fs
  BY DEF FramesOf
<1> HIDE DEF q
<1>5. q \in Seq(Seq(Seq(Bytes))) /\ Len(q) = Len(ps)
  BY <1>1, <1>3, MapSeq
<1>6. fs \in Seq(Seq(Bytes))
  BY <1>5, FlattenType
<1>7. ASSUME NEW i \in 1 .. Len(fs)
      PROVE  SentFrame(e, fs[i])
  <2>1. PICK k \in 1 .. Len(q) : \E j \in 1 .. Len(q[k]) : fs[i] = q[k][j]
    BY <1>5, FlattenElements
  <2>2. k \in 1 .. Len(ps) /\ q[k] = IsoTp(ps[k])
    BY <1>4, <1>5, <2>1
  <2> HIDE DEF fs
  <2> QED
    BY <1>2, <2>1, <2>2
<1>8. DOMAIN fs = 1 .. Len(fs) /\ Len(fs) \in Nat
  BY <1>6, LenProperties
<1>9. Printed(e, ps) = g \o << >>
  BY DEF Printed, q
<1> HIDE DEF fs
<1>10. g \in [1 .. Len(fs) -> Texts] /\ \A i \in 1 .. Len(fs) : g[i] = PrintFrame(CanId[e], fs[i])
  BY <1>7, <1>8, PrintedFrame
<1> HIDE DEF g
<1>11. Printed(e, ps) = g /\ g \in Seq(Texts) /\ Len(g) = Len(fs)
  BY <1>8, <1>9, <1>10, MapSeq
<1>12. \A i \in 1 .. Len(fs) : fs[i] \in Seq(Bytes) /\ Len(fs[i]) = 8
  BY <1>7, Zenon DEF SentFrame
<1> QED
  BY <1>6, <1>10, <1>11, <1>12, <1>a

\* The frames of a payload.
LEMMA IsoTpType ==
  ASSUME NEW a, IsPayload(a)
  PROVE  IsoTp(a) \in Seq(Seq(Bytes)) /\ Len(IsoTp(a)) \in Nat
<1>1. a \in Seq(Bytes) /\ Len(a) \in Nat /\ Len(a) <= 600
  <2>1. a \in Seq(Bytes) /\ Len(a) <= 600
    BY DEF IsPayload
  <2>2. Len(a) \in Nat
    BY <2>1, LenProperties
  <2> QED
    BY <2>1, <2>2
<1> DEFINE n == Len(a)
<1>2. n \in Nat /\ n <= 600
  BY <1>1
<1>3. CASE n <= 7
  <2>1. IsoTp(a) = <<SingleFrame(a)>>
    BY <1>3 DEF IsoTp, SingleFrame
  <2>2. n \in 0 .. 7
    <3> HIDE DEF n
    <3> QED
      BY <1>2, <1>3
  <2>3. SingleFrame(a) \in Seq(Bytes)
    BY <1>1, <2>2, SingleFrameBytes
  <2> DEFINE f == SingleFrame(a)
  <2> HIDE DEF f
  <2>4. <<f>> \in Seq(Seq(Bytes)) /\ Len(<<f>>) = 1
    BY <2>3 DEF f
  <2> QED
    BY <2>1, <2>4 DEF f
<1>4. CASE ~(n <= 7)
  <2>1. IsLong(a)
    <3> HIDE DEF n
    <3>1. n \in 8 .. 600
      BY <1>2, <1>4
    <3> QED
      BY <3>1, Zenon DEF n, IsLong
  <2>2. IsoTp(a) \in Seq(Seq(Bytes))
    BY <1>1, <2>1, LongFrames
  <2> QED
    BY <2>2, LenProperties
<1> QED
  BY <1>3, <1>4

\* One element before some others.
LEMMA OneBefore ==
  ASSUME NEW T, NEW x \in T, NEW t \in Seq(T)
  PROVE  /\ Len(t) \in Nat /\ Len(<<x>> \o t) = 1 + Len(t)
         /\ \A i \in 2 .. 1 + Len(t) : (<<x>> \o t)[i] = t[i - 1]
<1> DEFINE h == <<x>>
<1>1. h \in Seq(T) /\ Len(h) = 1 /\ Len(t) \in Nat
  BY LenProperties
<1> HIDE DEF h
<1>2. /\ Len(h \o t) = Len(h) + Len(t)
      /\ \A i \in 1 .. Len(h) + Len(t) : (h \o t)[i] = IF i <= Len(h) THEN h[i] ELSE t[i - Len(h)]
  BY <1>1, ConcatProperties
<1>3. ASSUME NEW i \in 2 .. 1 + Len(t) PROVE (h \o t)[i] = t[i - 1]
  <2>1. i \in 1 .. 1 + Len(t) /\ ~(i <= 1)
    BY <1>1
  <2> QED
    BY <1>1, <1>2, <2>1
<1> QED
  BY <1>1, <1>2, <1>3 DEF h

\* A group of frames that leaves out the first, of those behind it.
LEMMA GroupBehind ==
  ASSUME NEW f \in Seq(Bytes), NEW t \in Seq(Seq(Bytes)), NEW g, NEW m, NEW clean,
         Group(g, <<f>> \o t, m, clean), m[1] # 1
  PROVE  ~clean /\ \E k : Group(g, t, k, FALSE)
<1> DEFINE s == <<f>> \o t
           n == Len(t)
           k == [i \in 1 .. Len(g) |-> m[i] - 1]
<1>1. n \in Nat /\ Len(s) = 1 + n /\ \A i \in 2 .. 1 + n : s[i] = t[i - 1]
  <2> DEFINE S == Seq(Bytes)
  <2>1. f \in S /\ t \in Seq(S)
    OBVIOUS
  <2> HIDE DEF S
  <2> QED
    BY <2>1, OneBefore, Zenon
<1> HIDE DEF s, n
<1>2. Group(g, s, m, clean)
  BY DEF s
<1>3. /\ g \in Seq(Seq(Bytes)) /\ g # << >> /\ Len(g) \in Nat
      /\ \A i \in 1 .. Len(g) : /\ m[i] \in 1 .. Len(s) /\ g[i] # << >> /\ Begins(g[i], s[m[i]])
                                /\ i = Len(g) \/ g[i] = s[m[i]]
      /\ \A i, j \in 1 .. Len(g) : i < j => m[i] < m[j]
      /\ clean => \A i \in 1 .. Len(g) : m[i] = i
      /\ 1 \in 1 .. Len(g)
  <2>1. Leads(g, s, m, clean)
    BY <1>2, FirstOfGroup
  <2> QED
    BY <1>2, <2>1, Zenon DEF Group, Leads
<1>4. ~clean
  BY <1>3
<1>5. ASSUME NEW i \in 1 .. Len(g) PROVE m[i] \in 2 .. 1 + n
  <2>1. m[1] \in 1 .. 1 + n /\ m[i] \in 1 .. 1 + n
    BY <1>1, <1>3
  <2>2. i = 1 \/ 1 < i
    BY <1>3
  <2>3. m[i] >= m[1]
    BY <1>1, <1>3, <2>1, <2>2
  <2> QED
    BY <1>1, <2>1, <2>3
<1>6. \A i \in 1 .. Len(g) : k[i] = m[i] - 1
  OBVIOUS
<1> HIDE DEF k
<1>7. ASSUME NEW i \in 1 .. Len(g)
      PROVE  k[i] \in 1 .. n /\ s[m[i]] = t[k[i]]
  BY <1>1, <1>5, <1>6
<1>8. \A i, j \in 1 .. Len(g) : i < j => k[i] < k[j]
  <2> SUFFICES ASSUME NEW i \in 1 .. Len(g), NEW j \in 1 .. Len(g), i < j PROVE k[i] < k[j]
    OBVIOUS
  <2>1. m[i] < m[j]
    BY <1>3
  <2>2. m[i] \in 2 .. 1 + n /\ m[j] \in 2 .. 1 + n
    BY <1>5
  <2> QED
    BY <1>1, <1>6, <2>1, <2>2
<1>9. \A i \in 1 .. Len(g) : /\ k[i] \in 1 .. n /\ g[i] # << >> /\ Begins(g[i], t[k[i]])
                             /\ i = Len(g) \/ g[i] = t[k[i]]
  BY <1>3, <1>7
<1>10. Group(g, t, k, FALSE)
  BY <1>3, <1>8, <1>9, Zenon DEF Group, n
<1> QED
  BY <1>4, <1>10

\* What is put together of what an ECU sends.
LEMMA Answers ==
  ASSUME NEW ps, SentOk(ps), NEW g, NEW m, NEW clean, Group(g, FramesOf(ps), m, clean),
         ~RaisesIndexError(g), Reassemble(g)[1] \notin 32 .. 47
  PROVE  \E k \in 1 .. Len(ps) : Fits(Reassemble(g), ps[k], clean)
<1> DEFINE s == FramesOf(ps)
<1>1. m[1] \in 1 .. Len(s)
  BY FirstOfGroup, Zenon DEF Leads
<1>2. ps # << >>
  <2> SUFFICES ASSUME ps = << >> PROVE FALSE
    OBVIOUS
  <2>1. [i \in DOMAIN << >> |-> IsoTp(<< >>[i])] = << >>
    OBVIOUS
  <2>2. s = FlattenSeq(<< >>)
    BY <2>1 DEF FramesOf
  <2>3. Len(s) = 0
    BY <2>2, FlattenFew
  <2> QED
    BY <1>1, <2>3
<1>3. PICK a : IsReply(a) /\ (ps = <<a>> \/ \E p : IsWait(p) /\ ps = <<p, a>>)
  BY <1>2, Zenon DEF SentOk
<1>4. IsPayload(a)
  BY <1>3 DEF IsReply
<1>5. CASE ps = <<a>>
  <2>1. [i \in DOMAIN ps |-> IsoTp(ps[i])] = <<IsoTp(a)>>
    BY <1>5
  <2> DEFINE t == IsoTp(a)
  <2>2. s = FlattenSeq(<<t>>)
    BY <2>1 DEF FramesOf
  <2> HIDE DEF t
  <2>3. s = t
    BY <2>2, FlattenFew
  <2>4. Fits(Reassemble(g), a, clean)
    BY <1>4, <2>3, OneAnswer DEF t
  <2>5. 1 \in 1 .. Len(ps) /\ ps[1] = a
    BY <1>5
  <2> QED
    BY <2>4, <2>5
<1>6. CASE \E p : IsWait(p) /\ ps = <<p, a>>
  <2>1. PICK p : IsWait(p) /\ ps = <<p, a>>
    BY <1>6
  <2>2. 1 \in 1 .. Len(ps) /\ ps[1] = p /\ 2 \in 1 .. Len(ps) /\ ps[2] = a
    BY <2>1
  <2> DEFINE f == SingleFrame(p)
             t == IsoTp(a)
  <2>3. p \in Seq(Bytes) /\ Len(p) \in 0 .. 7
    BY <2>1 DEF IsWait
  <2>4. IsoTp(p) = <<f>>
    <3> DEFINE n == Len(p)
    <3>1. n \in 0 .. 7
      BY <2>3
    <3>2. n <= 7
      <4> HIDE DEF n
      <4> QED
        BY <3>1
    <3> QED
      BY <3>2 DEF IsoTp, SingleFrame
  <2>5. s = <<f>> \o t
    <3> HIDE DEF f
    <3>1. [i \in DOMAIN ps |-> IsoTp(ps[i])] = <<<<f>>, t>>
      BY <2>1, <2>4
    <3> HIDE DEF t
    <3>2. s = FlattenSeq(<<<<f>>, t>>)
      BY <3>1 DEF FramesOf
    <3> QED
      BY <3>2, FlattenFew
  <2>6. t \in Seq(Seq(Bytes))
    BY <1>4, IsoTpType
  <2>7. CASE m[1] = 1
    <3>1. s[1] = f
      <4> HIDE DEF f, t
      <4>1. (<<f>> \o t)[1] = f
        BY <2>6
      <4> QED
        BY <2>5, <4>1
    <3>2. Fits(Reassemble(g), p, clean)
      BY <2>3, <2>7, <3>1, ShortAnswer
    <3> QED
      BY <2>2, <3>2
  <2>8. CASE m[1] # 1
    <3>1. Group(g, <<f>> \o t, m, clean)
      BY <2>5
    <3>a. f \in Seq(Bytes)
      BY <2>3, SingleFrameBytes
    <3> HIDE DEF f
    <3>2. ~clean /\ \E k : Group(g, t, k, FALSE)
      BY <2>6, <2>8, <3>1, <3>a, GroupBehind
    <3>3. PICK k : Group(g, t, k, FALSE)
      BY <3>2
    <3>4. Fits(Reassemble(g), a, FALSE)
      BY <1>4, <3>3, OneAnswer
    <3>5. Fits(Reassemble(g), a, clean)
      BY <3>2, <3>4, Zenon DEF Fits
    <3> QED
      BY <2>2, <3>5
  <2> QED
    BY <2>7, <2>8
<1> QED
  BY <1>3, <1>5, <1>6

-----------------------------------------------------------------------------
(* What is read on a line that was clear.                                  *)

\* The line at place b[i] of some others is the i-th, in their order; gapless,
\* when none is left out.
Placed(kept, lines, b, gapless) ==
  /\ \A i \in 1 .. Len(kept) : b[i] \in 1 .. Len(lines) /\ kept[i] = lines[b[i]]
  /\ \A i, j \in 1 .. Len(kept) : i < j => b[i] < b[j]
  /\ gapless => kept = lines /\ \A i \in 1 .. Len(kept) : b[i] = i

\* What is not lost keeps its order.
LEMMA KeptPlaces ==
  ASSUME NEW lines \in Seq(Texts), NEW drop \in 0 .. Len(lines)
  PROVE  Kept(lines, drop) \in Seq(Texts) /\ \E b : Placed(Kept(lines, drop), lines, b, drop = 0)
<1>1. Len(lines) \in Nat
  BY LenProperties
<1>2. CASE drop = 0
  <2> DEFINE b == [i \in 1 .. Len(lines) |-> i]
  <2>1. \A i \in 1 .. Len(lines) : b[i] = i
    OBVIOUS
  <2> HIDE DEF b
  <2>2. Kept(lines, drop) = lines
    BY <1>2 DEF Kept
  <2>3. \A i, j \in 1 .. Len(lines) : i < j => b[i] < b[j]
    BY <2>1
  <2>4. Placed(lines, lines, b, drop = 0)
    BY <2>1, <2>3 DEF Placed
  <2> QED
    BY <2>2, <2>4
<1>3. CASE drop # 0
  <2> DEFINE x == Prefix(lines, drop - 1)
             y == Drop(lines, drop)
             k == x \o y
             n == Len(lines)
             b == [i \in 1 .. n - 1 |-> IF i < drop THEN i ELSE i + 1]
  <2>1. drop \in 1 .. n /\ drop - 1 \in 0 .. n /\ drop \in 0 .. n
    BY <1>1, <1>3
  <2>2. /\ x \in Seq(Texts) /\ Len(x) = drop - 1 /\ \A i \in 1 .. drop - 1 : x[i] = lines[i]
    BY <2>1, PrefixAndDrop
  <2>3. /\ y \in Seq(Texts) /\ Len(y) = n - drop /\ \A i \in 1 .. n - drop : y[i] = lines[drop + i]
    BY <2>1, PrefixAndDrop
  <2>4. Kept(lines, drop) = k
    BY <1>3 DEF Kept
  <2>5. \A i \in 1 .. n - 1 : b[i] = IF i < drop THEN i ELSE i + 1
    OBVIOUS
  <2> HIDE DEF b, x, y, n
  <2>6. n \in Nat
    BY <1>1 DEF n
  <2>7. /\ k \in Seq(Texts) /\ Len(k) = Len(x) + Len(y)
        /\ \A i \in 1 .. Len(x) + Len(y) : k[i] = IF i <= Len(x) THEN x[i] ELSE y[i - Len(x)]
    BY <2>2, <2>3, ConcatProperties
  <2> HIDE DEF k
  <2>8. Len(k) = n - 1
    BY <2>1, <2>2, <2>3, <2>6, <2>7
  <2>9. ASSUME NEW i \in 1 .. n - 1 PROVE b[i] \in 1 .. n /\ k[i] = lines[b[i]]
    <3>1. CASE i < drop
      <4>1. i \in 1 .. drop - 1 /\ i <= Len(x) /\ i \in 1 .. Len(x) + Len(y)
        BY <2>1, <2>2, <2>3, <2>6, <3>1
      <4> QED
        BY <2>1, <2>2, <2>5, <2>6, <2>7, <3>1, <4>1
    <3>2. CASE ~(i < drop)
      <4>1. i - (drop - 1) \in 1 .. n - drop /\ ~(i <= Len(x)) /\ i \in 1 .. Len(x) + Len(y)
            /\ i - Len(x) = i - (drop - 1) /\ drop + (i - (drop - 1)) = i + 1
        BY <2>1, <2>2, <2>3, <2>6, <3>2
      <4>2. k[i] = lines[i + 1]
        BY <2>3, <2>7, <4>1
      <4> QED
        BY <2>1, <2>5, <2>6, <3>2, <4>2
    <3> QED
      BY <3>1, <3>2
  <2>10. \A i, j \in 1 .. n - 1 : i < j => b[i] < b[j]
    BY <2>1, <2>5, <2>6
  <2>11. Placed(k, lines, b, drop = 0)
    BY <1>3, <2>8, <2>9, <2>10 DEF Placed, n
  <2> QED
    BY <2>4, <2>7, <2>11
<1> QED
  BY <1>2, <1>3

\* On a line that was clear, the lines behind what was printed are of one character.
LEMMA BehindThePrint ==
  ASSUME line = << >>, NEW kept \in Seq(Texts)
  PROVE  /\ OnLine(kept) \in Seq(Texts)
         /\ \A i \in 1 .. Len(OnLine(kept)) :
              (i \in 1 .. Len(kept) /\ OnLine(kept)[i] = kept[i]) \/ (i > Len(kept) /\ Len(OnLine(kept)[i]) = 1)
         /\ Len(kept) \in Nat /\ Len(kept) <= Len(OnLine(kept)) /\ Len(OnLine(kept)) \in Nat
<1> DEFINE p == <<PROMPT>>
           o == <<OTHERTEXT>>
<1>1. p \in Texts /\ o \in Texts /\ Len(p) = 1 /\ Len(o) = 1
  BY DEF Texts, PROMPT, OTHERTEXT
<1> HIDE DEF p, o
<1>2. CASE kept = << >>
  <2> DEFINE d == <<o, p>>
  <2>1. d \in Seq(Texts) /\ Len(d) = 2 /\ d[1] = o /\ d[2] = p
    BY <1>1
  <2>2. NoData = d
    BY DEF NoData, o, p
  <2> HIDE DEF d
  <2>3. OnLine(kept) = << >> \o d
    BY <1>2, <2>2 DEF OnLine
  <2>4. OnLine(kept) = d
    BY <2>1, <2>3, ConcatEmptySeq
  <2>5. Len(kept) = 0
    BY <1>2
  <2> DEFINE n == Len(kept)
             q == OnLine(kept)
  <2>6. n = 0 /\ q = d
    BY <2>4, <2>5
  <2> HIDE DEF n, q
  <2>7. \A i \in 1 .. 2 : i > 0 /\ Len(d[i]) = 1
    BY <1>1, <2>1
  <2>8. \A i \in 1 .. Len(q) : i > n /\ Len(q[i]) = 1
    BY <2>1, <2>6, <2>7
  <2>9. n \in Nat /\ n <= Len(q) /\ Len(q) \in Nat /\ q \in Seq(Texts)
    BY <2>1, <2>6
  <2> QED
    BY <2>8, <2>9 DEF n, q
<1>3. CASE kept # << >>
  <2> DEFINE d == Append(kept, p)
             n == Len(kept)
  <2>1. d \in Seq(Texts) /\ Len(d) = n + 1 /\ n \in Nat /\ d[n + 1] = p /\ \A i \in 1 .. n : d[i] = kept[i]
    BY <1>1, AppendProperties, LenProperties
  <2> HIDE DEF d
  <2>2. OnLine(kept) = << >> \o d
    BY <1>3 DEF OnLine, d, p
  <2>3. OnLine(kept) = d
    BY <2>1, <2>2, ConcatEmptySeq
  <2>4. \A i \in 1 .. n + 1 : i \in 1 .. n \/ (i = n + 1 /\ i > n)
    BY <2>1
  <2> QED
    BY <1>1, <2>1, <2>3, <2>4
<1> QED
  BY <1>2, <1>3

\* What is read of some lines: the first of them, the last of those perhaps not
\* to its end.
ReadOf(raw, all) ==
  /\ raw \in Seq(Texts)
  /\ \A i \in 1 .. Len(raw) :
       /\ i \in 1 .. Len(all) /\ Len(raw[i]) <= Len(all[i]) /\ \A j \in 1 .. Len(raw[i]) : raw[i][j] = all[i][j]
       /\ i = Len(raw) \/ raw[i] = all[i]

\* A read that ends after n lines and k characters.
LEMMA CutLines ==
  ASSUME NEW all \in Seq(Texts), NEW n \in 0 .. Len(all), NEW k \in Nat,
         k > 0 => n < Len(all) /\ k < Len(all[n + 1])
  PROVE  ReadOf(Prefix(all, n) \o (IF k = 0 THEN << >> ELSE <<Prefix(all[n + 1], k)>>), all)
<1> DEFINE p == Prefix(all, n)
<1>1. p \in Seq(Texts) /\ Len(p) = n /\ \A i \in 1 .. n : p[i] = all[i]
  BY PrefixAndDrop
<1>2. Len(all) \in Nat /\ n \in Nat /\ \A i \in 1 .. Len(all) : all[i] \in Texts
  BY LenProperties
<1> HIDE DEF p
<1>3. CASE k = 0
  <2>1. p \o << >> = p
    BY <1>1, ConcatEmptySeq
  <2>2. ASSUME NEW i \in 1 .. n
        PROVE  i \in 1 .. Len(all) /\ p[i] = all[i] /\ Len(p[i]) \in Nat
    <3>1. i \in 1 .. Len(all)
      BY <1>2
    <3>2. Len(all[i]) \in Nat
      BY <1>2, <3>1, LenProperties DEF Texts
    <3> QED
      BY <1>1, <3>1, <3>2
  <2>3. ReadOf(p, all)
    BY <1>1, <2>2 DEF ReadOf
  <2> QED
    BY <1>3, <2>1, <2>3 DEF p
<1>4. CASE k # 0
  <2> DEFINE l == all[n + 1]
             c == Prefix(l, k)
             q == p \o <<c>>
  <2>1. k > 0 /\ n + 1 \in 1 .. Len(all)
    BY <1>2, <1>4
  <2>2. l \in Texts /\ Len(l) \in Nat
    BY <1>2, <2>1, LenProperties DEF Texts
  <2> HIDE DEF l
  <2>a. k < Len(l)
    BY <2>1 DEF l
  <2>3. k \in 0 .. Len(l)
    BY <2>2, <2>a
  <2>4. c \in Texts /\ Len(c) = k /\ \A j \in 1 .. k : c[j] = l[j]
    BY <2>2, <2>3, PrefixAndDrop DEF Texts
  <2> HIDE DEF c
  <2>5. q \in Seq(Texts) /\ Len(q) = n + 1 /\ (\A i \in 1 .. n : q[i] = p[i]) /\ q[n + 1] = c
    <3> DEFINE o == <<c>>
    <3>1. o \in Seq(Texts) /\ Len(o) = 1 /\ o[1] = c
      BY <2>4
    <3> HIDE DEF o
    <3>2. /\ p \o o \in Seq(Texts) /\ Len(p \o o) = Len(p) + Len(o)
          /\ \A i \in 1 .. Len(p) + Len(o) : (p \o o)[i] = IF i <= Len(p) THEN p[i] ELSE o[i - Len(p)]
      BY <1>1, <3>1, ConcatProperties
    <3>3. n + 1 \in 1 .. Len(p) + Len(o) /\ ~(n + 1 <= Len(p)) /\ (n + 1) - Len(p) = 1
      BY <1>1, <1>2, <3>1
    <3> QED
      BY <1>1, <1>2, <3>1, <3>2, <3>3 DEF o
  <2> HIDE DEF q
  <2>6. ASSUME NEW i \in 1 .. n + 1
        PROVE  /\ i \in 1 .. Len(all) /\ Len(q[i]) <= Len(all[i]) /\ \A j \in 1 .. Len(q[i]) : q[i][j] = all[i][j]
               /\ i = n + 1 \/ q[i] = all[i]
    <3>1. CASE i = n + 1
      BY <2>1, <2>2, <2>3, <2>4, <2>5, <3>1 DEF l
    <3>2. CASE i # n + 1
      <4>1. i \in 1 .. n /\ i \in 1 .. Len(all)
        BY <1>2, <3>2
      <4>2. Len(all[i]) \in Nat
        BY <1>2, <4>1, LenProperties DEF Texts
      <4>3. q[i] = all[i]
        BY <1>1, <2>5, <4>1
      <4> QED
        BY <4>1, <4>2, <4>3
    <3> QED
      BY <3>1, <3>2
  <2>7. ReadOf(q, all)
    BY <2>5, <2>6 DEF ReadOf
  <2> QED
    BY <1>4, <2>7 DEF p, q, c, l
<1> QED
  BY <1>3, <1>4

\* Lines of which the i-th is the frame p[i] of the ECU w[i]: each ECU's in their
\* order, and none missing before any.
TracedLines(lines, F, w, p) ==
  /\ \A i \in 1 .. Len(lines) : /\ w[i] \in 1 .. 2 /\ p[i] \in 1 .. Len(F[w[i]])
                                /\ lines[i] = PrintFrame(CanId[w[i]], FrameNo(F, w[i], p[i]))
  /\ \A i, j \in 1 .. Len(lines) : i < j /\ w[i] = w[j] => p[i] < p[j]
  /\ \A i \in 1 .. Len(lines) : \A c \in 1 .. p[i] - 1 : \E t \in 1 .. Len(lines) : w[t] = w[i] /\ p[t] = c

\* The lines l are the frames fs of ECU e.
PrintsOf(l, e, fs) == Len(l) = Len(fs) /\ \A i \in 1 .. Len(fs) : l[i] = PrintFrame(CanId[e], fs[i])

\* A merge of the lines of two ECUs is traced to their frames.
LEMMA MergedFrames ==
  ASSUME NEW F, FramesOk(F), NEW a, PrintsOf(a, 1, F[1]), NEW b, PrintsOf(b, 2, F[2]),
         NEW m, Len(m) \in Nat, NEW w, NEW p, Interleaves(m, a, b, w, p)
  PROVE  TracedLines(m, F, w, p)
<1>1. Len(a) = Len(F[1]) /\ \A i \in 1 .. Len(F[1]) : a[i] = PrintFrame(CanId[1], F[1][i])
  BY Zenon DEF PrintsOf
<1>2. Len(b) = Len(F[2]) /\ \A i \in 1 .. Len(F[2]) : b[i] = PrintFrame(CanId[2], F[2][i])
  BY Zenon DEF PrintsOf
<1>3. /\ \A i \in 1 .. Len(m) : \/ w[i] = 1 /\ p[i] \in 1 .. Len(a) /\ m[i] = a[p[i]]
                                \/ w[i] = 2 /\ p[i] \in 1 .. Len(b) /\ m[i] = b[p[i]]
      /\ \A i, j \in 1 .. Len(m) : i < j /\ w[i] = w[j] => p[i] < p[j]
      /\ \A c \in 1 .. Len(a) : \E i \in 1 .. Len(m) : w[i] = 1 /\ p[i] = c
      /\ \A c \in 1 .. Len(b) : \E i \in 1 .. Len(m) : w[i] = 2 /\ p[i] = c
  BY Zenon DEF Interleaves
<1>4. Len(F[1]) \in Nat /\ Len(F[2]) \in Nat
  <2>1. F[1] \in Seq(Seq(Bytes)) /\ F[2] \in Seq(Seq(Bytes))
    BY DEF FramesOk
  <2> QED
    BY <2>1, LenProperties
<1>5. ASSUME NEW i \in 1 .. Len(m)
      PROVE  /\ w[i] \in 1 .. 2 /\ p[i] \in 1 .. Len(F[w[i]])
             /\ m[i] = PrintFrame(CanId[w[i]], FrameNo(F, w[i], p[i]))
             /\ \A c \in 1 .. p[i] - 1 : \E t \in 1 .. Len(m) : w[t] = w[i] /\ p[t] = c
  <2>1. CASE w[i] = 1 /\ p[i] \in 1 .. Len(a) /\ m[i] = a[p[i]]
    <3>1. m[i] = PrintFrame(CanId[1], F[1][p[i]]) /\ p[i] \in 1 .. Len(F[1])
      BY <1>1, <2>1
    <3>2. \A c \in 1 .. p[i] - 1 : c \in 1 .. Len(a)
      BY <1>1, <1>4, <2>1
    <3>3. \A c \in 1 .. p[i] - 1 : \E t \in 1 .. Len(m) : w[t] = 1 /\ p[t] = c
      BY <1>3, <3>2
    <3>4. m[i] = PrintFrame(CanId[w[i]], FrameNo(F, w[i], p[i]))
      BY <2>1, <3>1, Zenon DEF FrameNo
    <3> QED
      BY <2>1, <3>1, <3>3, <3>4
  <2>2. CASE w[i] = 2 /\ p[i] \in 1 .. Len(b) /\ m[i] = b[p[i]]
    <3>1. m[i] = PrintFrame(CanId[2], F[2][p[i]]) /\ p[i] \in 1 .. Len(F[2])
      BY <1>2, <2>2
    <3>2. \A c \in 1 .. p[i] - 1 : c \in 1 .. Len(b)
      BY <1>2, <1>4, <2>2
    <3>3. \A c \in 1 .. p[i] - 1 : \E t \in 1 .. Len(m) : w[t] = 2 /\ p[t] = c
      BY <1>3, <3>2
    <3>4. m[i] = PrintFrame(CanId[w[i]], FrameNo(F, w[i], p[i]))
      BY <2>2, <3>1, Zenon DEF FrameNo
    <3> QED
      BY <2>2, <3>1, <3>3, <3>4
  <2> QED
    BY <1>3, <2>1, <2>2
<1> QED
  BY <1>3, <1>5, Zenon DEF TracedLines

\* What is read on a line that was clear is traced to the frames too, but for the
\* gaps of what was lost.
LEMMA ReadIsTraced ==
  ASSUME NEW F, FramesOk(F), NEW lines, Len(lines) \in Nat, NEW w, NEW p, TracedLines(lines, F, w, p),
         NEW kept, Len(kept) \in Nat, NEW b, NEW clean, Placed(kept, lines, b, clean),
         NEW all, NEW raw, ReadOf(raw, all),
         \A i \in 1 .. Len(all) : (i \in 1 .. Len(kept) /\ all[i] = kept[i]) \/ (i > Len(kept) /\ Len(all[i]) = 1)
  PROVE  raw \in Seq(Texts) /\ \E v, q : Traced(raw, F, v, q, clean)
<1> DEFINE v == [i \in 1 .. Len(raw) |-> w[b[i]]]
           q == [i \in 1 .. Len(raw) |-> p[b[i]]]
<1>1. /\ \A i \in 1 .. Len(lines) : /\ w[i] \in 1 .. 2 /\ p[i] \in 1 .. Len(F[w[i]])
                                    /\ lines[i] = PrintFrame(CanId[w[i]], FrameNo(F, w[i], p[i]))
      /\ \A i, j \in 1 .. Len(lines) : i < j /\ w[i] = w[j] => p[i] < p[j]
      /\ \A i \in 1 .. Len(lines) : \A c \in 1 .. p[i] - 1 : \E t \in 1 .. Len(lines) : w[t] = w[i] /\ p[t] = c
  BY Zenon DEF TracedLines
<1>2. /\ \A i \in 1 .. Len(kept) : b[i] \in 1 .. Len(lines) /\ kept[i] = lines[b[i]]
      /\ \A i, j \in 1 .. Len(kept) : i < j => b[i] < b[j]
      /\ clean => kept = lines /\ \A i \in 1 .. Len(kept) : b[i] = i
  BY Zenon DEF Placed
<1>3. /\ raw \in Seq(Texts)
      /\ \A i \in 1 .. Len(raw) :
           /\ i \in 1 .. Len(all) /\ Len(raw[i]) <= Len(all[i]) /\ \A j \in 1 .. Len(raw[i]) : raw[i][j] = all[i][j]
           /\ i = Len(raw) \/ raw[i] = all[i]
  BY Zenon DEF ReadOf
<1>4. Len(raw) \in Nat /\ \A i \in 1 .. Len(raw) : raw[i] \in Texts /\ Len(raw[i]) \in Nat
  BY <1>3, LenProperties DEF Texts
<1>5. \A i \in 1 .. Len(raw) : v[i] = w[b[i]] /\ q[i] = p[b[i]]
  OBVIOUS
<1> HIDE DEF v, q
<1>6. \A e \in 1 .. 2 : \A c \in 1 .. Len(F[e]) : FrameNo(F, e, c) \in Seq(Bytes) /\ Len(FrameNo(F, e, c)) = 8
  BY Zenon DEF FramesOk, FrameNo
<1>7. ASSUME NEW i \in 1 .. Len(raw), IsFrame(raw[i])
      PROVE  /\ i \in 1 .. Len(kept) /\ b[i] \in 1 .. Len(lines) /\ all[i] = lines[b[i]]
             /\ v[i] \in 1 .. 2 /\ q[i] \in 1 .. Len(F[v[i]])
             /\ IsPrint(raw[i], v[i], FrameNo(F, v[i], q[i]), i = Len(raw))
  <2> DEFINE l == raw[i]
             h == all[i]
             y == PrintFrame(CanId[v[i]], FrameNo(F, v[i], q[i]))
  <2>1. Len(l) >= 4
    BY <1>7 DEF IsFrame
  <2>2. Len(l) <= Len(h) /\ Len(l) \in Nat /\ i \in 1 .. Len(all) /\ l \in Texts
        /\ (\A j \in 1 .. Len(l) : l[j] = h[j]) /\ (i = Len(raw) \/ l = h)
    BY <1>3, <1>4
  <2>3. Len(h) # 1
    <3> HIDE DEF l, h
    <3> QED
      BY <2>1, <2>2
  <2>4. i \in 1 .. Len(kept) /\ h = kept[i]
    BY <2>2, <2>3
  <2>5. b[i] \in 1 .. Len(lines) /\ h = lines[b[i]]
    BY <1>2, <2>4
  <2>6. v[i] \in 1 .. 2 /\ q[i] \in 1 .. Len(F[v[i]]) /\ h = y
    BY <1>1, <1>5, <2>5
  <2> HIDE DEF l, h
  <2>7. Len(l) <= Len(y) /\ (\A j \in 1 .. Len(l) : l[j] = y[j]) /\ (i = Len(raw) \/ l = y) /\ l \in Texts
    BY <2>2, <2>6
  <2> DEFINE z == FrameNo(F, v[i], q[i])
  <2> HIDE DEF z
  <2>8. y = PrintFrame(CanId[v[i]], z)
    BY DEF z
  <2> HIDE DEF y
  <2>9. IsPrint(l, v[i], z, i = Len(raw))
    BY <2>7, <2>8, Zenon DEF IsPrint
  <2> QED
    BY <2>4, <2>5, <2>6, <2>9 DEF l, h, z
<1>8. \A i, j \in 1 .. Len(raw) : IsFrame(raw[i]) /\ IsFrame(raw[j]) /\ i < j /\ v[i] = v[j] => q[i] < q[j]
  <2> SUFFICES ASSUME NEW i \in 1 .. Len(raw), NEW j \in 1 .. Len(raw), IsFrame(raw[i]), IsFrame(raw[j]), i < j, v[i] = v[j]
               PROVE  q[i] < q[j]
    OBVIOUS
  <2>1. /\ i \in 1 .. Len(kept) /\ b[i] \in 1 .. Len(lines)
        /\ j \in 1 .. Len(kept) /\ b[j] \in 1 .. Len(lines)
    BY <1>7
  <2>2. b[i] < b[j]
    BY <1>2, <2>1
  <2>3. p[b[i]] < p[b[j]]
    BY <1>1, <1>5, <2>1, <2>2, SMTT(30)
  <2> QED
    BY <1>5, <2>3
<1>9. ASSUME clean, NEW i \in 1 .. Len(raw), IsFrame(raw[i]), NEW c \in 1 .. q[i] - 1
      PROVE  \E j \in 1 .. Len(raw) : IsFrame(raw[j]) /\ v[j] = v[i] /\ q[j] = c
  <2>1. kept = lines /\ i \in 1 .. Len(lines) /\ b[i] = i /\ \A j \in 1 .. Len(lines) : b[j] = j
    <3>1. kept = lines /\ \A j \in 1 .. Len(kept) : b[j] = j
      BY <1>2, <1>9
    <3>2. i \in 1 .. Len(kept)
      BY <1>7, <1>9
    <3> QED
      BY <3>1, <3>2
  <2>2. v[i] = w[i] /\ q[i] = p[i]
    BY <1>5, <2>1
  <2>3. PICK t \in 1 .. Len(lines) : w[t] = w[i] /\ p[t] = c
    BY <1>1, <1>9, <2>1, <2>2
  <2>4. t < i
    <3>0. p[i] \in Nat
      <4>1. w[i] \in 1 .. 2 /\ p[i] \in 1 .. Len(F[w[i]])
        BY <1>1, <2>1
      <4> QED
        BY <4>1
    <3>1. c < p[i]
      BY <1>9, <2>2, <3>0
    <3>2. CASE t = i
      BY <2>3, <3>0, <3>1, <3>2
    <3>3. CASE i < t
      <4>1. p[i] < p[t]
        BY <1>1, <2>1, <2>3, <3>3
      <4> QED
        BY <1>9, <2>3, <3>0, <3>1, <4>1
    <3> QED
      BY <2>1, <3>2, <3>3
  <2>5. t \in 1 .. Len(raw) /\ t # Len(raw)
    BY <1>4, <2>4
  <2>6. raw[t] = all[t] /\ t \in 1 .. Len(all)
    BY <1>3, <2>5
  <2>7. all[t] = lines[t]
    <3>1. ~(t > Len(kept))
      BY <2>1
    <3> QED
      BY <2>1, <2>6, <3>1
  <2>8. /\ w[t] \in 1 .. 2 /\ p[t] \in 1 .. Len(F[w[t]])
        /\ raw[t] = PrintFrame(CanId[w[t]], FrameNo(F, w[t], p[t]))
    BY <1>1, <2>6, <2>7
  <2>9. IsFrame(raw[t])
    <3> DEFINE src == CanId[w[t]]
               z == FrameNo(F, w[t], p[t])
    <3>1. src \in Nat /\ src < 4096
      BY <2>8, EcuIds
    <3>2. z \in Seq(Bytes) /\ Len(z) = 8
      BY <1>6, <2>8
    <3> HIDE DEF src, z
    <3>3. IsFrame(PrintFrame(src, z))
      BY <3>1, <3>2, PrintAndRead
    <3> QED
      BY <2>8, <3>3 DEF src, z
  <2>10. v[t] = w[t] /\ q[t] = p[t]
    BY <1>5, <2>1, <2>5
  <2> QED
    BY <2>2, <2>3, <2>5, <2>9, <2>10
<1>10. Traced(raw, F, v, q, clean)
  BY <1>7, <1>8, <1>9, Zenon DEF Traced
<1> QED
  BY <1>3, <1>10

\* What an ECU sends, its lines and its frames.
LEMMA SentAndPrinted ==
  ASSUME CodesInv, NEW e \in 1 .. 2, NEW req, RequestOk(req), NEW who
  PROVE  LET s == SentBy(e, req, who)
         IN  /\ SentOk(s) /\ Printed(e, s) \in Seq(Texts)
             /\ FramesOf(s) \in Seq(Seq(Bytes))
             /\ \A c \in 1 .. Len(FramesOf(s)) : FramesOf(s)[c] \in Seq(Bytes) /\ Len(FramesOf(s)[c]) = 8
             /\ PrintsOf(Printed(e, s), e, FramesOf(s))
<1> DEFINE y == e \in who
           s == Sent(e, req, y)
<1>1. y \in BOOLEAN
  OBVIOUS
<1> HIDE DEF y
<1>2. SentOk(s) /\ s \in Seq(Seq(Bytes)) /\ Sendable(e, s)
  BY <1>1, SentShape, SentReplies
<1> HIDE DEF s
<1> DEFINE S == Seq(Bytes)
<1>3. s \in Seq(S)
  BY <1>2
<1> HIDE DEF S
<1>4. /\ FramesOf(s) \in Seq(Seq(Bytes)) /\ Printed(e, s) \in Seq(Texts)
      /\ Len(Printed(e, s)) = Len(FramesOf(s))
      /\ \A i \in 1 .. Len(FramesOf(s)) :
           /\ FramesOf(s)[i] \in Seq(Bytes) /\ Len(FramesOf(s)[i]) = 8
           /\ Printed(e, s)[i] = PrintFrame(CanId[e], FramesOf(s)[i])
  BY <1>2, <1>3, PrintedFrames
<1>5. PrintsOf(Printed(e, s), e, FramesOf(s))
  BY <1>4 DEF PrintsOf
<1>6. SentBy(e, req, who) = s
  BY DEF SentBy, s, y
<1> QED
  BY <1>2, <1>4, <1>5, <1>6

\* What is taken for a reply on a line that was clear fits one that was sent.
LEMMA ReadFits ==
  ASSUME CodesInv, line = << >>, NEW req, RequestOk(req), NEW who,
         NEW lines \in Merges(Printed(1, SentBy(1, req, who)), Printed(2, SentBy(2, req, who))),
         NEW drop \in 0 .. Len(lines),
         NEW raw, ReadOf(raw, OnLine(Kept(lines, drop))), ~ParseRaises(raw),
         NEW d \in ToSet(ParseElmResponse(raw)), d[1] \notin 32 .. 47
  PROVE  \E e \in 1 .. 2 : \E j \in 1 .. Len(SentBy(e, req, who)) : Fits(d, SentBy(e, req, who)[j], drop = 0)
<1> DEFINE F == [e \in 1 .. 2 |-> FramesOf(SentBy(e, req, who))]
           a == Printed(1, SentBy(1, req, who))
           b == Printed(2, SentBy(2, req, who))
           kept == Kept(lines, drop)
           clean == drop = 0
<1>1. ASSUME NEW e \in 1 .. 2
      PROVE  /\ SentOk(SentBy(e, req, who)) /\ Printed(e, SentBy(e, req, who)) \in Seq(Texts)
             /\ F[e] = FramesOf(SentBy(e, req, who)) /\ F[e] \in Seq(Seq(Bytes))
             /\ \A c \in 1 .. Len(F[e]) : F[e][c] \in Seq(Bytes) /\ Len(F[e][c]) = 8
             /\ PrintsOf(Printed(e, SentBy(e, req, who)), e, F[e])
  BY SentAndPrinted
<1>2. F[1] = FramesOf(SentBy(1, req, who)) /\ F[2] = FramesOf(SentBy(2, req, who)) /\ 1 \in 1 .. 2 /\ 2 \in 1 .. 2
  OBVIOUS
<1> HIDE DEF F
<1>3. FramesOk(F)
  BY <1>1 DEF FramesOk
<1>4. a \in Seq(Texts) /\ b \in Seq(Texts) /\ PrintsOf(a, 1, F[1]) /\ PrintsOf(b, 2, F[2])
  BY <1>1, <1>2, Zenon
<1>5. lines \in Merges(a, b)
  OBVIOUS
<1> HIDE DEF a, b
<1>6. lines \in Seq(Texts) /\ \E w, p : Interleaves(lines, a, b, w, p)
  BY <1>4, <1>5, MergePlaces
<1>7. Len(lines) \in Nat
  BY <1>6, LenProperties
<1>8. PICK w, p : Interleaves(lines, a, b, w, p)
  BY <1>6
<1>9. TracedLines(lines, F, w, p)
  BY <1>3, <1>4, <1>7, <1>8, MergedFrames
<1>10. kept \in Seq(Texts) /\ \E x : Placed(kept, lines, x, clean)
  BY <1>6, KeptPlaces
<1>11. PICK x : Placed(kept, lines, x, clean)
  BY <1>10
<1>12. ReadOf(raw, OnLine(kept))
  OBVIOUS
<1> HIDE DEF kept
<1>13. /\ \A i \in 1 .. Len(OnLine(kept)) :
             (i \in 1 .. Len(kept) /\ OnLine(kept)[i] = kept[i]) \/ (i > Len(kept) /\ Len(OnLine(kept)[i]) = 1)
       /\ Len(kept) \in Nat
  BY <1>10, BehindThePrint
<1> DEFINE all == OnLine(kept)
<1>14. /\ ReadOf(raw, all)
       /\ \A i \in 1 .. Len(all) : (i \in 1 .. Len(kept) /\ all[i] = kept[i]) \/ (i > Len(kept) /\ Len(all[i]) = 1)
  BY <1>12, <1>13
<1> HIDE DEF all, clean
<1>15. raw \in Seq(Texts) /\ \E v, q : Traced(raw, F, v, q, clean)
  BY <1>3, <1>7, <1>9, <1>11, <1>13, <1>14, ReadIsTraced
<1>16. PICK v, q : Traced(raw, F, v, q, clean)
  BY <1>15
<1>17. \E e \in 1 .. 2 : \E g, m : Group(g, F[e], m, clean) /\ ~RaisesIndexError(g) /\ d = Reassemble(g)
  BY <1>3, <1>15, <1>16, ParsedGroups
<1>18. PICK e \in 1 .. 2 : \E g, m : Group(g, F[e], m, clean) /\ ~RaisesIndexError(g) /\ d = Reassemble(g)
  BY <1>17
<1>19. PICK g, m : Group(g, F[e], m, clean) /\ ~RaisesIndexError(g) /\ d = Reassemble(g)
  BY <1>18
<1> DEFINE s == SentBy(e, req, who)
<1>20. SentOk(s) /\ F[e] = FramesOf(s)
  BY <1>1
<1> HIDE DEF s
<1>21. \E j \in 1 .. Len(s) : Fits(Reassemble(g), s[j], clean)
  <2>1. Group(g, FramesOf(s), m, clean) /\ ~RaisesIndexError(g) /\ Reassemble(g)[1] \notin 32 .. 47
    BY <1>19, <1>20
  <2> QED
    BY <1>20, <2>1, Answers
<1> QED
  BY <1>19, <1>21 DEF s, clean

-----------------------------------------------------------------------------
(* An exchange takes the whole of a reply or less.                         *)

\* A reply that was read is the whole of one sent, or shorter; and the beginning
\* of it if nothing was lost.
LEMMA FitsOrShort ==
  ASSUME NEW d, NEW s, s \in Seq(Bytes), NEW clean, Fits(d, s, clean)
  PROVE  d = s \/ (Len(d) < Len(s) /\ (clean => IsPrefix(d, s)))
<1>1. /\ d \in Seq(Bytes) /\ (Len(d) < Len(s) \/ Begins(d, s)) /\ (clean => Begins(d, s))
      /\ Len(d) \in Nat /\ Len(s) \in Nat
  BY LenProperties DEF Fits
<1>2. ASSUME Begins(d, s) PROVE d = s \/ (Len(d) < Len(s) /\ IsPrefix(d, s))
  <2> DEFINE n == Len(d)
             m == Len(s)
  <2>1. n \in Nat /\ m \in Nat /\ n <= m /\ \A i \in 1 .. n : d[i] = s[i]
    BY <1>1, <1>2 DEF Begins
  <2> HIDE DEF n, m
  <2>2. CASE n = m
    <3>1. d = s
      BY <1>1, <2>1, <2>2, SeqEqual DEF n, m
    <3> QED
      BY <3>1
  <2>3. CASE n # m
    <3>1. n < m
      BY <2>1, <2>3
    <3> DEFINE x == SubSeq(d, 1, n)
               y == SubSeq(s, 1, n)
    <3>2. x \in Seq(Bytes) /\ Len(x) = n /\ \A i \in 1 .. n : x[i] = d[i]
      <4>1. n \in 0 .. Len(d)
        BY <2>1 DEF n
      <4>2. Prefix(d, n) \in Seq(Bytes) /\ Len(Prefix(d, n)) = n /\ \A i \in 1 .. n : Prefix(d, n)[i] = d[i]
        BY <1>1, <4>1, PrefixAndDrop
      <4> QED
        BY <4>2 DEF Prefix
    <3>3. y \in Seq(Bytes) /\ Len(y) = n /\ \A i \in 1 .. n : y[i] = s[i]
      <4>1. n \in 0 .. Len(s)
        BY <2>1 DEF m
      <4>2. Prefix(s, n) \in Seq(Bytes) /\ Len(Prefix(s, n)) = n /\ \A i \in 1 .. n : Prefix(s, n)[i] = s[i]
        BY <1>1, <4>1, PrefixAndDrop
      <4> QED
        BY <4>2 DEF Prefix
    <3> HIDE DEF x, y
    <3>4. x = y
      BY <2>1, <3>2, <3>3, SeqEqual
    <3>5. IsPrefix(d, s)
      BY <2>1, <3>4 DEF IsPrefix, x, y, n, m
    <3> QED
      BY <3>1, <3>5 DEF n, m
  <2> QED
    BY <2>2, <2>3
<1> QED
  BY <1>1, <1>2

\* Every reply sent is a sequence of bytes that begins as one.
LEMMA SentSids ==
  ASSUME NEW ps, SentOk(ps), NEW j \in 1 .. Len(ps)
  PROVE  ps[j] \in Seq(Bytes) /\ IsSid(ps[j][1])
<1>1. CASE ps = << >>
  BY <1>1
<1>2. CASE \E a : IsReply(a) /\ (ps = <<a>> \/ \E p : IsWait(p) /\ ps = <<p, a>>)
  <2>1. PICK a : IsReply(a) /\ (ps = <<a>> \/ \E p : IsWait(p) /\ ps = <<p, a>>)
    BY <1>2
  <2>2. a \in Seq(Bytes) /\ IsSid(a[1])
    BY <2>1, Zenon DEF IsReply, IsPayload
  <2>3. CASE ps = <<a>>
    <3>1. ps[j] = a
      BY <2>3
    <3> QED
      BY <2>2, <3>1
  <2>4. CASE \E p : IsWait(p) /\ ps = <<p, a>>
    <3>1. PICK p : IsWait(p) /\ ps = <<p, a>>
      BY <2>4
    <3>2. p \in Seq(Bytes) /\ IsSid(p[1])
      BY <3>1, Zenon DEF IsWait
    <3>3. ps[j] = p \/ ps[j] = a
      BY <3>1
    <3> QED
      BY <2>2, <3>2, <3>3
  <2> QED
    BY <2>1, <2>3, <2>4
<1> QED
  BY <1>1, <1>2, Zenon DEF SentOk

\* What an exchange with the adapter leaves in last.
ReadInto(l, raw, drop, sent) ==
  /\ l.sent = Flat(sent) /\ l.fresh = (line = << >>)
  /\ l.got = IF ParseRaises(raw) THEN << >> ELSE ParseElmResponse(raw)
  /\ l.harm = "cut" => drop = 0

\* That is what it reads.
LEMMA LastRead ==
  ASSUME NEW all \in Seq(Texts), NEW n \in 0 .. Len(all), NEW k \in Nat,
         k > 0 => n < Len(all) /\ k < Len(all[n + 1]),
         NEW who, NEW sent, NEW drop, drop \in Nat, ElmReads(sent, who, drop, all, <<n, k>>)
  PROVE  \E raw : ReadOf(raw, all) /\ ReadInto(last', raw, drop, sent)
<1> DEFINE cut == <<n, k>>
           raw == Prefix(all, n) \o (IF k = 0 THEN << >> ELSE <<Prefix(all[n + 1], k)>>)
           rs == IF ParseRaises(raw) THEN << >> ELSE ParseElmResponse(raw)
           whole == n = FirstPrompt(all)
           harm == IF drop > 0 THEN "lost" ELSE IF whole THEN "none" ELSE "cut"
<1>1. cut[1] = n /\ cut[2] = k
  OBVIOUS
<1>2. last' = [sent |-> Flat(sent), got |-> rs, fresh |-> line = << >>, harm |-> harm]
  BY <1>1, Zenon DEF ElmReads
<1>3. ReadOf(raw, all)
  BY CutLines
<1>4. harm = "cut" => drop = 0
  BY DEF harm
<1>5. last'.sent = Flat(sent) /\ last'.fresh = (line = << >>) /\ last'.got = rs /\ last'.harm = harm
  <2> DEFINE f == line = << >>
             x == Flat(sent)
  <2> HIDE DEF f, x, rs, harm
  <2>1. last' = [sent |-> x, got |-> rs, fresh |-> f, harm |-> harm]
    BY <1>2 DEF f, x
  <2>2. last'.sent = x /\ last'.fresh = f /\ last'.got = rs /\ last'.harm = harm
    BY <2>1
  <2> QED
    BY <2>2, Zenon DEF f, x
<1> HIDE DEF raw, harm
<1>6. ReadInto(last', raw, drop, sent)
  BY <1>4, <1>5, Zenon DEF ReadInto, rs
<1> QED
  BY <1>3, <1>6

\* An exchange with the adapter takes for a reply what is one, or shorter.
LEMMA ElmWholeOrShort ==
  ASSUME CodesInv, line \in Seq(Texts), RequestOk(Request(call)), ElmExchange
  PROVE  WholeOrShort'
<1> DEFINE req == Request(call)
<1>1. PICK who, lines, drop, n, k, sent : ElmReading(req, who, lines, drop, n, k, sent)
  BY ElmUnfolds
<1>2. RequestOk(req)
  OBVIOUS
<1> HIDE DEF req
<1> DEFINE s1 == SentBy(1, req, who)
           s2 == SentBy(2, req, who)
           all == OnLine(Kept(lines, drop))
<1>3. /\ sent = <<s1, s2>> /\ lines \in Merges(Printed(1, s1), Printed(2, s2)) /\ drop \in 0 .. Len(lines)
      /\ n \in 0 .. Len(all) /\ k \in Nat /\ (k > 0 => n < Len(all) /\ k < Len(all[n + 1]))
      /\ ElmReads(sent, who, drop, all, <<n, k>>)
  BY <1>1, Zenon DEF ElmReading
<1> SUFFICES ASSUME last'.fresh, NEW d \in ToSet(last'.got), d[1] \in {s[1] : s \in ToSet(last'.sent)}
             PROVE  \E s \in ToSet(last'.sent) :
                      d = s \/ (Len(d) < Len(s) /\ (last'.harm = "cut" => IsPrefix(d, s)))
  BY Zenon DEF WholeOrShort
<1>4. ASSUME NEW e \in 1 .. 2
      PROVE  SentOk(SentBy(e, req, who)) /\ Printed(e, SentBy(e, req, who)) \in Seq(Texts)
  BY <1>2, SentAndPrinted
<1>5. SentOk(s1) /\ SentOk(s2) /\ Printed(1, s1) \in Seq(Texts) /\ Printed(2, s2) \in Seq(Texts)
  <2>1. 1 \in 1 .. 2 /\ 2 \in 1 .. 2
    OBVIOUS
  <2> QED
    BY <1>4, <2>1
<1>6. lines \in Seq(Texts)
  <2> DEFINE a == Printed(1, s1)
             b == Printed(2, s2)
  <2> HIDE DEF a, b
  <2>1. a \in Seq(Texts) /\ b \in Seq(Texts) /\ lines \in Merges(a, b)
    BY <1>3, <1>5 DEF a, b
  <2> QED
    BY <2>1, MergeOf
<1>7. Kept(lines, drop) \in Seq(Texts) /\ drop \in Nat
  <2>1. Len(lines) \in Nat
    BY <1>6, LenProperties
  <2> QED
    BY <1>3, <1>6, <2>1, KeptPlaces
<1>8. all \in Seq(Texts)
  <2> DEFINE kept == Kept(lines, drop)
  <2>1. kept \in Seq(Texts)
    BY <1>7
  <2> HIDE DEF kept
  <2>2. line \o (IF kept = << >> THEN NoData ELSE Append(kept, <<PROMPT>>)) \in Seq(Texts)
    <3>1. NoData \in Seq(Texts) /\ <<PROMPT>> \in Texts
      BY OtherLines
    <3> DEFINE p == <<PROMPT>>
               x == NoData
    <3> HIDE DEF p, x
    <3>2. x \in Seq(Texts) /\ Append(kept, p) \in Seq(Texts)
      BY <2>1, <3>1, AppendProperties DEF x, p
    <3> DEFINE new == IF kept = << >> THEN x ELSE Append(kept, p)
    <3>3. new \in Seq(Texts)
      BY <3>2
    <3> HIDE DEF new
    <3>4. line \o new \in Seq(Texts)
      BY <3>3, ConcatProperties
    <3> QED
      BY <3>4 DEF new, x, p
  <2> QED
    BY <2>2 DEF OnLine, kept
<1>9. PICK raw : ReadOf(raw, all) /\ ReadInto(last', raw, drop, sent)
  BY <1>3, <1>7, <1>8, LastRead
<1> HIDE DEF all
<1>10. /\ last'.sent = Flat(sent) /\ line = << >>
       /\ last'.got = IF ParseRaises(raw) THEN << >> ELSE ParseElmResponse(raw)
       /\ last'.harm = "cut" => drop = 0
  BY <1>9, Zenon DEF ReadInto
<1>11. ~ParseRaises(raw) /\ d \in ToSet(ParseElmResponse(raw))
  <2>1. ToSet(<< >>) = {}
    BY DEF ToSet
  <2>2. CASE ParseRaises(raw)
    <3>1. last'.got = << >>
      BY <1>10, <2>2
    <3> QED
      BY <2>1, <3>1
  <2>3. CASE ~ParseRaises(raw)
    <3>1. last'.got = ParseElmResponse(raw)
      BY <1>10, <2>3
    <3> QED
      BY <2>3, <3>1
  <2> QED
    BY <2>2, <2>3
<1>12. /\ last'.sent = s1 \o s2
       /\ \A j \in 1 .. Len(s1) : s1[j] \in ToSet(last'.sent)
       /\ \A j \in 1 .. Len(s2) : s2[j] \in ToSet(last'.sent)
       /\ \A s \in ToSet(last'.sent) : s \in Seq(Bytes) /\ IsSid(s[1])
  <2> DEFINE S == Seq(Bytes)
             x == s1
             y == s2
  <2>1. x \in Seq(S) /\ y \in Seq(S)
    <3>1. SentOk(x) /\ SentOk(y)
      BY <1>5
    <3> HIDE DEF x, y
    <3>2. ASSUME NEW ps, SentOk(ps) PROVE ps \in Seq(S)
      <4>1. CASE ps = << >>
        BY <4>1
      <4>2. CASE \E a : IsReply(a) /\ (ps = <<a>> \/ \E p : IsWait(p) /\ ps = <<p, a>>)
        <5>1. PICK a : IsReply(a) /\ (ps = <<a>> \/ \E p : IsWait(p) /\ ps = <<p, a>>)
          BY <4>2
        <5>2. a \in S
          BY <5>1, Zenon DEF IsReply, IsPayload
        <5>3. CASE ps = <<a>>
          <6> HIDE DEF S
          <6> QED
            BY <5>2, <5>3
        <5>4. CASE \E p : IsWait(p) /\ ps = <<p, a>>
          <6>1. PICK p : IsWait(p) /\ ps = <<p, a>>
            BY <5>4
          <6>2. p \in S
            BY <6>1, Zenon DEF IsWait
          <6> HIDE DEF S
          <6> QED
            BY <5>2, <6>1, <6>2
        <5> QED
          BY <5>1, <5>3, <5>4
      <4> QED
        BY <3>2, <4>1, <4>2, Zenon DEF SentOk
    <3> QED
      BY <3>1, <3>2
  <2>2. last'.sent = x \o y
    <3>1. last'.sent = FlattenSeq(<<x, y>>)
      BY <1>3, <1>10 DEF Flat
    <3> HIDE DEF x, y
    <3> QED
      BY <3>1, FlattenFew
  <2>3. SentOk(x) /\ SentOk(y)
    BY <1>5
  <2> HIDE DEF x, y, S
  <2>4. /\ x \o y \in Seq(S) /\ Len(x \o y) = Len(x) + Len(y) /\ Len(x) \in Nat /\ Len(y) \in Nat
        /\ \A i \in 1 .. Len(x) : (x \o y)[i] = x[i]
        /\ \A j \in 1 .. Len(y) : (x \o y)[Len(x) + j] = y[j]
        /\ \A i \in 1 .. Len(x \o y) : i \in 1 .. Len(x) \/ (i - Len(x) \in 1 .. Len(y) /\ i = Len(x) + (i - Len(x)))
    BY <2>1, Joined
  <2> DEFINE z == x \o y
  <2>5. /\ DOMAIN z = 1 .. Len(x) + Len(y)
    BY <2>4
  <2> HIDE DEF z
  <2>6. /\ \A j \in 1 .. Len(x) : j \in DOMAIN z /\ z[j] = x[j]
        /\ \A j \in 1 .. Len(y) : Len(x) + j \in DOMAIN z /\ z[Len(x) + j] = y[j]
    BY <2>4, <2>5 DEF z
  <2>7. (\A j \in 1 .. Len(x) : x[j] \in ToSet(z)) /\ (\A j \in 1 .. Len(y) : y[j] \in ToSet(z))
    BY <2>6 DEF ToSet
  <2>8. ASSUME NEW s \in ToSet(z) PROVE s \in Seq(Bytes) /\ IsSid(s[1])
    <3>1. PICK i \in DOMAIN z : s = z[i]
      BY DEF ToSet
    <3>2. (\E j \in 1 .. Len(x) : s = x[j]) \/ (\E j \in 1 .. Len(y) : s = y[j])
      <4>1. CASE i \in 1 .. Len(x)
        BY <2>6, <3>1, <4>1
      <4>2. CASE i \notin 1 .. Len(x)
        <5> DEFINE j == i - Len(x)
        <5>1. j \in 1 .. Len(y) /\ i = Len(x) + j
          BY <2>4, <2>5, <3>1, <4>2
        <5> HIDE DEF j
        <5> QED
          BY <2>6, <3>1, <5>1
      <4> QED
        BY <4>1, <4>2
    <3> QED
      BY <2>3, <3>2, SentSids
  <2> QED
    BY <2>2, <2>7, <2>8 DEF x, y, z
<1>13. d[1] \notin 32 .. 47
  <2> DEFINE x == d[1]
  <2>1. IsSid(x)
    BY <1>12
  <2> HIDE DEF x
  <2>2. x \notin 32 .. 47
    BY <2>1 DEF IsSid
  <2> QED
    BY <2>2 DEF x
<1>14. \E e \in 1 .. 2 : \E j \in 1 .. Len(SentBy(e, req, who)) : Fits(d, SentBy(e, req, who)[j], drop = 0)
  <2>1. ReadOf(raw, OnLine(Kept(lines, drop)))
    BY <1>9 DEF all
  <2> QED
    BY <1>2, <1>3, <1>10, <1>11, <1>13, <2>1, ReadFits
<1>15. \E s \in ToSet(last'.sent) : Fits(d, s, drop = 0)
  <2>1. PICK e \in 1 .. 2 : \E j \in 1 .. Len(SentBy(e, req, who)) : Fits(d, SentBy(e, req, who)[j], drop = 0)
    BY <1>14
  <2>2. CASE e = 1
    BY <1>12, <2>1, <2>2, Zenon
  <2>3. CASE e = 2
    BY <1>12, <2>1, <2>3, Zenon
  <2>4. e = 1 \/ e = 2
    OBVIOUS
  <2> QED
    BY <2>2, <2>3, <2>4
<1>16. PICK s \in ToSet(last'.sent) : Fits(d, s, drop = 0)
  BY <1>15
<1> DEFINE clean == drop = 0
<1>17. d = s \/ (Len(d) < Len(s) /\ (clean => IsPrefix(d, s)))
  <2>1. s \in Seq(Bytes) /\ Fits(d, s, clean)
    BY <1>12, <1>16
  <2> HIDE DEF clean
  <2> QED
    BY <2>1, FitsOrShort
<1> QED
  BY <1>10, <1>16, <1>17, Zenon

\* Over the socket a reply is taken whole; on an empty queue it is the one sent.
LEMMA CanWholeOrShort ==
  ASSUME CodesInv, RequestOk(Request(call)), CanExchange
  PROVE  WholeOrShort'
<1> DEFINE req == Request(call)
<1>1. PICK accepts \in BOOLEAN, lost \in BOOLEAN, late \in BOOLEAN :
         LET sent == Sent(1, req, accepts)
             all == rxq \o (IF lost THEN << >> ELSE sent)
             rs == IF late \/ all = << >> THEN << >> ELSE <<Head(all)>>
             ok == rxq = << >> /\ ~lost /\ ~late
         IN  /\ accepts => req[1] = Modes.clearDtcs
             /\ late => rxq = << >> /\ count.cuts < MaxCuts
             /\ lost => sent # << >> /\ count.lost < MaxLost
             /\ rxq' = Drop(all, Len(rs))
             /\ codes' = [codes EXCEPT ![1] = IF accepts THEN << >> ELSE @]
             /\ last' = [sent |-> sent, got |-> rs, fresh |-> rxq = << >>,
                         harm |-> IF lost THEN "lost" ELSE IF late THEN "cut" ELSE "none"]
             /\ count' = [count EXCEPT !.cuts = IF late THEN @ + 1 ELSE @,
                                       !.lost = IF lost THEN @ + 1 ELSE @,
                                       !.acks = IF accepts THEN @ + 1 ELSE @,
                                       !.trues = IF call.op = "clear_dtcs" /\ ClearDtcs(rs) THEN @ + 1 ELSE @]
             /\ GoOn([call EXCEPT !.clean = @ /\ ok], rs)
  BY DEF CanExchange
<1> DEFINE sent == Sent(1, req, accepts)
           new == IF lost THEN << >> ELSE sent
           all == rxq \o new
           rs == IF late \/ all = << >> THEN << >> ELSE <<Head(all)>>
<1>2. sent \in Seq(Seq(Bytes))
  <2>1. 1 \in 1 .. 2 /\ RequestOk(req)
    OBVIOUS
  <2> HIDE DEF req
  <2> QED
    BY <2>1, SentReplies
<1> DEFINE harm == IF lost THEN "lost" ELSE IF late THEN "cut" ELSE "none"
           fresh == rxq = << >>
<1>3. last' = [sent |-> sent, got |-> rs, fresh |-> fresh, harm |-> harm]
  BY <1>1, Zenon
<1> HIDE DEF harm, sent
<1>4. last'.sent = sent /\ last'.got = rs /\ last'.fresh = fresh
  <2> HIDE DEF rs, fresh
  <2> QED
    BY <1>3
<1>5. ASSUME fresh, NEW d \in ToSet(rs) PROVE d \in ToSet(sent)
  <2>1. new \in Seq(Seq(Bytes)) /\ (new = << >> \/ new = sent)
    <3>1. << >> \in Seq(Seq(Bytes))
      OBVIOUS
    <3> QED
      BY <1>2, <3>1
  <2> HIDE DEF new
  <2>2. all = new
    <3>1. all = << >> \o new
      BY <1>5
    <3> QED
      BY <2>1, <3>1, ConcatEmptySeq
  <2> HIDE DEF all
  <2>3. CASE all = << >> \/ late
    <3>1. rs = << >>
      BY <2>3
    <3>2. ToSet(<< >>) = {}
      BY DEF ToSet
    <3> QED
      BY <1>5, <3>1, <3>2
  <2>4. CASE ~(all = << >> \/ late)
    <3>1. rs = <<Head(all)>>
      BY <2>4
    <3>2. d = Head(all)
      <4> DEFINE h == Head(all)
      <4> HIDE DEF h
      <4>1. rs = <<h>>
        BY <3>1 DEF h
      <4>2. d = h
        BY <1>5, <4>1 DEF ToSet
      <4> QED
        BY <4>2 DEF h
    <3>3. all = sent /\ sent # << >>
      BY <2>1, <2>2, <2>4
    <3>4. d = sent[1]
      BY <1>2, <3>2, <3>3
    <3>5. 1 \in DOMAIN sent
      <4>1. DOMAIN sent = 1 .. Len(sent) /\ Len(sent) \in Nat /\ Len(sent) # 0
        BY <1>2, <3>3, LenProperties, EmptySeq
      <4> QED
        BY <4>1
    <3> QED
      BY <3>4, <3>5 DEF ToSet
  <2> QED
    BY <2>3, <2>4
<1> HIDE DEF rs, fresh
<1>6. last'.fresh => \A d \in ToSet(last'.got) : \E s \in ToSet(last'.sent) : d = s
  BY <1>4, <1>5, Zenon
<1> QED
  BY <1>6, Zenon DEF WholeOrShort

\* The other steps leave the last exchange as it was, or forget it.
LEMMA WholeOrShortStep ==
  ASSUME SessionInv, WholeOrShort, [Next]_vars
  PROVE  WholeOrShort'
<1>1. CodesInv /\ line \in Seq(Texts) /\ (call # NoCall => RequestOk(Request(call)))
  BY RequestsAreWhole DEF SessionInv, WireInv
<1>2. CASE ElmExchange
  <2>1. call # NoCall
    BY <1>2, Zenon DEF ElmExchange
  <2> QED
    BY <1>1, <1>2, <2>1, ElmWholeOrShort
<1>3. CASE CanExchange
  <2>1. call # NoCall
    BY <1>3, Zenon DEF CanExchange
  <2> QED
    BY <1>1, <1>3, <2>1, CanWholeOrShort
<1>4. ASSUME last' = last PROVE WholeOrShort'
  BY <1>4 DEF WholeOrShort
<1>5. ASSUME last' = NoLast PROVE WholeOrShort'
  BY <1>5 DEF NoLast, WholeOrShort
<1>6. CASE UNCHANGED vars
  <2>1. last' = last
    BY <1>6 DEF vars
  <2> QED
    BY <1>4, <2>1
<1>7. CASE (\E late \in BOOLEAN : Open(late)) \/ (\E sent \in 0 .. Len(INIT_COMMANDS) - 1 : OpenFails(sent))
           \/ (\E raises \in BOOLEAN : Close(raises))
  <2>1. last' = last
    BY <1>7, Zenon DEF Open, OpenFails, Close
  <2> QED
    BY <1>4, <2>1
<1>8. CASE \E o \in Ops : Begin(o[1], o[2])
  <2>1. last' = NoLast
    BY <1>8, Zenon DEF Begin
  <2> QED
    BY <1>5, <2>1
<1> QED
  BY <1>2, <1>3, <1>6, <1>7, <1>8, Zenon DEF Next

\* Whatever is lost or cut short: on a line that was clear the tool takes for an
\* answer the whole of a reply that an ECU sent or less than it, and never a
\* longer one or another of the same length.
THEOREM WholeAnswersOrShorter == Spec => []WholeOrShort
<1>1. Init => SessionInv /\ WholeOrShort
  <2> SUFFICES ASSUME Init PROVE SessionInv /\ WholeOrShort
    OBVIOUS
  <2>1. SessionInv
    BY WiresBegin
  <2>2. last = NoLast
    BY DEF Init
  <2>3. WholeOrShort
    BY <2>2 DEF NoLast, WholeOrShort
  <2> QED
    BY <2>1, <2>3
<1>2. SessionInv /\ WholeOrShort /\ [Next]_vars => SessionInv' /\ WholeOrShort'
  BY SessionKeeps, WholeOrShortStep
<1>3. SessionInv /\ WholeOrShort => WholeOrShort
  OBVIOUS
<1> QED
  BY <1>1, <1>2, PTL DEF Spec
=============================================================================
