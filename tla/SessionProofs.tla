---------------------------- MODULE SessionProofs ---------------------------
(***************************************************************************)
(* Proofs about ObdSession: an open session has a port that was set up, an *)
(* operation of several requests comes to its end, an acknowledgement is   *)
(* reported once, and a value that read_pid returns is of its PID.         *)
(*                                                                         *)
(* The last two follow a payload from the ECU to the operation: through    *)
(* the frames of ISO-TP, the lines that the adapter prints, the merge of   *)
(* what two ECUs print, a line lost, a read that ends too early, and the   *)
(* parser of the output.                                                   *)
(***************************************************************************)
EXTENDS ObdSession, DataLemmas

-----------------------------------------------------------------------------
(* The walk over the PIDs and the scan that follows it.                    *)

\* In a set of numbers among n successive ones each place up to its size is
\* taken: some element has just so many smaller ones.
Ranked(n) ==
  \A a \in Nat : \A S \in SUBSET (a .. a + n - 1) : \A i \in 1 .. Cardinality(S) :
    \E x \in S : Cardinality({y \in S : y < x}) = i - 1

\* The sets of bytes are finite, and so is what is smaller than a bound in one.
LEMMA SmallSets ==
  ASSUME NEW a \in Nat, NEW n \in Nat, NEW S \in SUBSET (a .. a + n - 1)
  PROVE  /\ IsFiniteSet(S) /\ Cardinality(S) \in Nat
         /\ \A b : IsFiniteSet({y \in S : y < b})
<1>1. IsFiniteSet(a .. a + n - 1)
  BY FS_Interval
<1>2. IsFiniteSet(S)
  BY <1>1, FS_Subset
<1>3. \A b : {y \in S : y < b} \subseteq S
  OBVIOUS
<1>4. \A b : IsFiniteSet({y \in S : y < b})
  BY <1>2, <1>3, FS_Subset
<1> QED
  BY <1>2, <1>4, FS_CardinalityType

\* One number has the first place.
LEMMA RankedOne == Ranked(1)
<1> SUFFICES ASSUME NEW a \in Nat, NEW S \in SUBSET (a .. a), NEW i \in 1 .. Cardinality(S)
             PROVE  \E x \in S : Cardinality({y \in S : y < x}) = i - 1
  BY DEF Ranked
<1>1. \A x \in S : x = a
  OBVIOUS
<1>2. S # {}
  BY FS_EmptySet
<1>3. S = {a}
  BY <1>1, <1>2
<1>4. Cardinality(S) = 1
  BY <1>3, FS_Singleton
<1>5. i = 1
  BY <1>4
<1>6. {y \in S : y < a} = {}
  BY <1>3
<1> QED
  BY <1>3, <1>5, <1>6, FS_EmptySet

\* Twice as many numbers: the places of the lower half come first.
LEMMA RankedTwice ==
  ASSUME NEW n \in Nat \ {0}, Ranked(n)
  PROVE  Ranked(2 * n)
<1> SUFFICES ASSUME NEW a \in Nat, NEW S \in SUBSET (a .. a + 2 * n - 1), NEW i \in 1 .. Cardinality(S)
             PROVE  \E x \in S : Cardinality({y \in S : y < x}) = i - 1
  BY DEF Ranked
<1> DEFINE L == {y \in S : y < a + n}
           U == {y \in S : y >= a + n}
<1>a. S \subseteq Int /\ a + n \in Nat /\ n \in Nat
  OBVIOUS
<1>d. \A y \in S : /\ y \in Int /\ a <= y /\ y <= a + 2 * n - 1
                   /\ y < a + n \/ y >= a + n
                   /\ ~(y < a + n /\ y >= a + n)
                   /\ y < a + n => y \in a .. a + n - 1
                   /\ y >= a + n => y \in (a + n) .. (a + n) + n - 1
  BY <1>a
<1>b. L \in SUBSET (a .. a + n - 1) /\ U \in SUBSET ((a + n) .. (a + n) + n - 1)
  BY <1>d
<1>c. S = L \cup U /\ L \cap U = {}
  BY <1>d, Zenon
<1>1. /\ L \in SUBSET (a .. a + n - 1) /\ U \in SUBSET ((a + n) .. (a + n) + n - 1)
      /\ S = L \cup U /\ L \cap U = {} /\ a + n \in Nat
  BY <1>a, <1>b, <1>c
<1>2. IsFiniteSet(L) /\ Cardinality(L) \in Nat /\ IsFiniteSet(U) /\ Cardinality(U) \in Nat
  BY <1>1, SmallSets
<1>3. Cardinality(S) = Cardinality(L) + Cardinality(U)
  BY <1>1, <1>2, FS_Union, FS_EmptySet
<1>4. CASE i \in 1 .. Cardinality(L)
  <2>1. PICK x \in L : Cardinality({y \in L : y < x}) = i - 1
    BY <1>1, <1>4 DEF Ranked
  <2>2. {y \in S : y < x} = {y \in L : y < x}
    BY <1>1
  <2> QED
    BY <2>1, <2>2
<1>5. CASE i \notin 1 .. Cardinality(L)
  <2>1. i - Cardinality(L) \in 1 .. Cardinality(U)
    BY <1>2, <1>3, <1>5
  <2>2. PICK x \in U : Cardinality({y \in U : y < x}) = i - Cardinality(L) - 1
    BY <1>1, <2>1 DEF Ranked
  <2> DEFINE V == {y \in U : y < x}
  <2>3. {y \in S : y < x} = L \cup V /\ L \cap V = {}
    BY <1>1
  <2>4. IsFiniteSet(V) /\ Cardinality(V) \in Nat
    BY <1>1, <2>2, SmallSets
  <2>5. Cardinality(L \cup V) = Cardinality(L) + Cardinality(V) - Cardinality(L \cap V)
    BY <1>2, <2>4, FS_Union
  <2>6. Cardinality(L \cap V) = 0
    BY <2>3, FS_EmptySet
  <2>7. Cardinality({y \in S : y < x}) = Cardinality(L) + Cardinality(V)
    <3> DEFINE W == {y \in S : y < x}
    <3>1. W = L \cup V
      BY <2>3
    <3> HIDE DEF L, V, W
    <3>2. Cardinality(W) = Cardinality(L) + Cardinality(V)
      BY <1>2, <2>4, <2>5, <2>6, <3>1
    <3> QED
      BY <3>2 DEF W
  <2>8. Cardinality({y \in S : y < x}) = i - 1
    BY <1>2, <2>2, <2>7
  <2> QED
    BY <1>1, <2>8
<1> QED
  BY <1>4, <1>5

\* Hence for bytes.
LEMMA RankedBytes == Ranked(256)
<1>1. Ranked(2) BY RankedOne, RankedTwice
<1>2. Ranked(4) BY <1>1, RankedTwice
<1>3. Ranked(8) BY <1>2, RankedTwice
<1>4. Ranked(16) BY <1>3, RankedTwice
<1>5. Ranked(32) BY <1>4, RankedTwice
<1>6. Ranked(64) BY <1>5, RankedTwice
<1>7. Ranked(128) BY <1>6, RankedTwice
<1> QED BY <1>7, RankedTwice

\* Every PID of the table is a byte.
LEMMA PidsAreBytes == Pids \subseteq 0 .. 255
  BY DEF Pids, TwoBytePids

\* A set of bytes in ascending order is a sequence of bytes.
LEMMA AscendingBytes ==
  ASSUME NEW S \in SUBSET (0 .. 255)
  PROVE  Ascending(S) \in Seq(0 .. 255) /\ Len(Ascending(S)) <= 256
<1>1. \A i \in 1 .. Cardinality(S) : \E x \in S : Cardinality({y \in S : y < x}) = i - 1
  <2>1. S \in SUBSET (0 .. 0 + 256 - 1)
    OBVIOUS
  <2> QED
    BY <2>1, RankedBytes DEF Ranked
<1>2. \A i \in 1 .. Cardinality(S) :
        (CHOOSE x \in S : Cardinality({y \in S : y < x}) = i - 1) \in S
  BY <1>1
<1>3. IsFiniteSet(0 .. 255) /\ Cardinality(0 .. 255) = 256
  <2>1. 0 \in Int /\ 255 \in Int
    OBVIOUS
  <2>2. IsFiniteSet(0 .. 255) /\ Cardinality(0 .. 255) = IF 0 > 255 THEN 0 ELSE 255 - 0 + 1
    BY <2>1, FS_Interval, Zenon
  <2> QED
    BY <2>2
<1>4. Cardinality(S) \in Nat /\ Cardinality(S) <= 256
  <2>1. IsFiniteSet(S) /\ Cardinality(S) <= Cardinality(0 .. 255)
    BY <1>3, FS_Subset, ZenonT(40)
  <2> QED
    BY <1>3, <2>1, FS_CardinalityType
<1>5. Ascending(S) \in [1 .. Cardinality(S) -> S]
  BY <1>2 DEF Ascending
<1>6. Ascending(S) \in [1 .. Cardinality(S) -> 0 .. 255]
  BY <1>5
<1> DEFINE k == Ascending(S)
           n == Cardinality(S)
<1>7. k \in [1 .. n -> 0 .. 255] /\ n \in Nat /\ n <= 256
  BY <1>4, <1>6
<1> HIDE DEF k, n
<1>8. k \in Seq(0 .. 255)
  BY <1>7, SeqDef
<1>9. Len(k) = n
  BY <1>7
<1>10. Len(k) <= 256
  BY <1>7, <1>9
<1> QED
  BY <1>8, <1>10, Zenon DEF k

\* So the PIDs of a scan are bytes, whatever the bitmaps said.
LEMMA KnownPids ==
  ASSUME NEW R
  PROVE  Ascending(R \cap Pids) \in Seq(0 .. 255) /\ Len(Ascending(R \cap Pids)) <= 256
<1>1. R \cap Pids \in SUBSET (0 .. 255)
  BY PidsAreBytes
<1> QED
  BY <1>1, AscendingBytes, Zenon

-----------------------------------------------------------------------------
(* The session: its flag, its port and the operation in progress.          *)

\* Does the operation walk over the bitmaps, or read PID after PID?
Walks(c) == c.op = "supported_pids" \/ (c.op = "live_data" /\ c.arg = << >>)
Scans(c) == c.op = "live_data" /\ c.arg # << >>

\* A socket belongs to an open session, and so does a port that was not set up
\* to a closed one; an operation is in progress on a port.
PortInv ==
  /\ kind \in {"elm", "can"} /\ open \in BOOLEAN /\ port \in BOOLEAN
  /\ kind = "can" /\ port => open
  /\ OpenMeansReady
  /\ call # NoCall => port

\* The operation in progress is a record; the base that a walk has come to and
\* the PIDs that a scan has left are bytes.
TodoInv ==
  call # NoCall =>
    /\ call = [op |-> call.op, arg |-> call.arg, todo |-> call.todo, found |-> call.found, clean |-> call.clean]
    /\ Walks(call) => \E base \in 0 .. 255 : call.todo = <<base>>
    /\ Scans(call) => call.todo \in Seq(0 .. 255) /\ call.todo # << >>

\* What an exchange makes of the operation in progress: it is over, or it goes
\* on with the replies.
Continues == call' = NoCall \/ (\E b, rs : GoOn([call EXCEPT !.clean = b], rs))

\* Both exchanges do that, and neither opens or closes anything.
LEMMA ExchangeEffect ==
  ASSUME ElmExchange \/ CanExchange
  PROVE  call # NoCall /\ Continues /\ UNCHANGED <<kind, open, port, setup>>
<1>1. CASE ElmExchange
  <2>1. \E sent, who, drop, all, cut : ElmReads(sent, who, drop, all, cut)
    <3> SUFFICES ASSUME \A sent, who, drop, all, cut : ~ElmReads(sent, who, drop, all, cut)
                 PROVE  FALSE
      OBVIOUS
    <3> QED
      BY <1>1 DEF ElmExchange
  <2>2. ASSUME NEW sent, NEW who, NEW drop, NEW all, NEW cut, ElmReads(sent, who, drop, all, cut)
        PROVE  Continues
    BY <2>2, Zenon DEF ElmReads, Continues
  <2>3. call # NoCall /\ UNCHANGED <<kind, open, port, setup>>
    BY <1>1, Zenon DEF ElmExchange
  <2> QED
    BY <2>1, <2>2, <2>3
<1>2. CASE CanExchange
  BY <1>2, ZenonT(40) DEF CanExchange, Continues
<1> QED
  BY <1>1, <1>2

\* A walk that goes on is at the next base, below 0x100, or has become a scan of
\* PIDs that the table knows.
LEMMA WalkGoesOn ==
  ASSUME NEW c, NEW rs, WalkOn(c, rs), call' # NoCall, Walks(c),
         c = [op |-> c.op, arg |-> c.arg, todo |-> c.todo, found |-> c.found, clean |-> c.clean],
         NEW base \in 0 .. 255, c.todo = <<base>>
  PROVE  /\ call' = [op |-> call'.op, arg |-> call'.arg, todo |-> call'.todo,
                     found |-> call'.found, clean |-> call'.clean]
         /\ call'.op = c.op
         /\ \/ call'.arg = c.arg /\ base + 32 \in 0 .. 255 /\ call'.todo = <<base + 32>>
            \/ /\ Scans(call') /\ call'.todo \in Seq(0 .. 255)
               /\ call'.todo # << >> /\ Len(call'.todo) <= 256
<1> DEFINE map == Bitmap(rs, base)
           pids == IF map = << >> THEN {} ELSE BitmapPids(base, map)
           all == c.found \cup pids
           known == Ascending(all \cap Pids)
<1>1. \/ WalksOn(base, map) /\ call' = [c EXCEPT !.todo = <<base + 32>>, !.found = all]
      \/ c.op = "live_data" /\ known # << >> /\ call' = [c EXCEPT !.todo = known, !.found = {}, !.arg = <<"values">>]
  <2>1. c.todo[1] = base
    OBVIOUS
  <2> QED
    BY <2>1, Zenon DEF WalkOn, Return
<1>2. known \in Seq(0 .. 255) /\ Len(known) <= 256
  BY KnownPids, Zenon
<1> HIDE DEF map, pids, all, known
<1>3. CASE WalksOn(base, map) /\ call' = [c EXCEPT !.todo = <<base + 32>>, !.found = all]
  <2>1. base + 32 <= 224
    BY <1>3 DEF WalksOn
  <2>2. base + 32 \in 0 .. 255
    BY <2>1
  <2> QED
    BY <1>3, <2>2
<1>4. CASE c.op = "live_data" /\ known # << >> /\ call' = [c EXCEPT !.todo = known, !.found = {}, !.arg = <<"values">>]
  <2>1. <<"values">> # << >>
    OBVIOUS
  <2> QED
    BY <1>2, <1>4, <2>1 DEF Scans
<1> QED
  BY <1>1, <1>3, <1>4

\* A scan that goes on has one PID less to read.
LEMMA ScanGoesOn ==
  ASSUME NEW c, NEW rs, ScanOn(c, rs), call' # NoCall, Scans(c),
         c = [op |-> c.op, arg |-> c.arg, todo |-> c.todo, found |-> c.found, clean |-> c.clean],
         c.todo \in Seq(0 .. 255), c.todo # << >>
  PROVE  /\ call' = [op |-> call'.op, arg |-> call'.arg, todo |-> call'.todo,
                     found |-> call'.found, clean |-> call'.clean]
         /\ call'.op = c.op /\ call'.arg = c.arg
         /\ call'.todo \in Seq(0 .. 255) /\ call'.todo # << >> /\ Len(call'.todo) = Len(c.todo) - 1
<1> DEFINE v == ReadPid(rs, c.todo[1])
           vals == c.found \cup (IF v = << >> THEN {} ELSE {<<c.todo[1], v[1]>>})
<1>1. Len(c.todo) > 1 /\ call' = [c EXCEPT !.todo = Tail(@), !.found = vals]
  BY Zenon DEF ScanOn, Return
<1> HIDE DEF v, vals
<1>2. Tail(c.todo) \in Seq(0 .. 255) /\ Len(Tail(c.todo)) = Len(c.todo) - 1 /\ Tail(c.todo) # << >>
  <2> DEFINE t == c.todo
  <2> HIDE DEF t
  <2>1. t \in Seq(0 .. 255) /\ t # << >> /\ Len(t) > 1
    BY <1>1 DEF t
  <2>2. Tail(t) \in Seq(0 .. 255) /\ Len(Tail(t)) = Len(t) - 1
    BY <2>1, HeadTailProperties
  <2>3. Len(t) \in Nat
    BY <2>1
  <2>4. Len(Tail(t)) # 0
    <3> DEFINE n == Len(t)
               m == Len(Tail(t))
    <3>1. n \in Nat /\ n > 1 /\ m = n - 1
      BY <2>1, <2>2, <2>3
    <3> HIDE DEF n, m
    <3>2. m # 0
      BY <3>1
    <3> QED
      BY <3>2 DEF m
  <2> QED
    BY <2>2, <2>4, EmptySeq DEF t
<1> QED
  BY <1>1, <1>2

\* The first of some bytes is a byte.
LEMMA FirstByte ==
  ASSUME NEW t \in Seq(0 .. 255), t # << >>
  PROVE  t[1] < 256 /\ Len(t) \in Nat
<1>1. Len(t) \in Nat /\ Len(t) # 0 /\ t \in [1 .. Len(t) -> 0 .. 255]
  BY EmptySeq, LenProperties, ZenonT(40)
<1>2. 1 \in 1 .. Len(t)
  BY <1>1
<1>3. t[1] \in 0 .. 255
  BY <1>1, <1>2
<1>4. \A x \in 0 .. 255 : x < 256
  OBVIOUS
<1> QED
  BY <1>1, <1>3, <1>4, Zenon

\* One exchange of an operation that is not over then: the walk or the scan has
\* come nearer to its end.
LEMMA ExchangeAdvances ==
  ASSUME TodoInv, call # NoCall, Continues, call' # NoCall
  PROVE  /\ TodoInv'
         /\ ExchangesLeft(call') < ExchangesLeft(call)
         /\ call'.todo[1] < 256
         /\ call'.op = call.op /\ (Walks(call') \/ Scans(call'))
<1>1. PICK b, rs : GoOn([call EXCEPT !.clean = b], rs)
  BY DEF Continues
<1> DEFINE c == [call EXCEPT !.clean = b]
<1>2. /\ c = [op |-> c.op, arg |-> c.arg, todo |-> c.todo, found |-> c.found, clean |-> c.clean]
      /\ c.op = call.op /\ c.arg = call.arg /\ c.todo = call.todo
  BY DEF TodoInv
<1>3. /\ Walks(c) = Walks(call) /\ Scans(c) = Scans(call)
      /\ ~(Walks(c) /\ Scans(c))
  BY <1>2 DEF Walks, Scans
<1>4. GoOn(c, rs)
  BY <1>1
<1> HIDE DEF c
<1>5. \/ Walks(c) /\ WalkOn(c, rs)
      \/ Scans(c) /\ ScanOn(c, rs)
      \/ Return(c, Answer(c, rs))
  BY <1>4, Zenon DEF GoOn, Walks, Scans
<1>6. CASE Walks(c) /\ WalkOn(c, rs)
  <2>1. PICK base \in 0 .. 255 : call.todo = <<base>>
    BY <1>3, <1>6 DEF TodoInv
  <2>2. /\ call' = [op |-> call'.op, arg |-> call'.arg, todo |-> call'.todo,
                    found |-> call'.found, clean |-> call'.clean]
        /\ call'.op = c.op
        /\ \/ call'.arg = c.arg /\ base + 32 \in 0 .. 255 /\ call'.todo = <<base + 32>>
           \/ /\ Scans(call') /\ call'.todo \in Seq(0 .. 255)
              /\ call'.todo # << >> /\ Len(call'.todo) <= 256
    BY <1>2, <1>6, <2>1, WalkGoesOn
  <2>3. ExchangesLeft(call) = 1000 - base
    BY <1>3, <1>6, <2>1 DEF ExchangesLeft, Walks
  <2>4. CASE call'.arg = c.arg /\ base + 32 \in 0 .. 255 /\ call'.todo = <<base + 32>>
    <3>1. Walks(call') /\ ~Scans(call')
      BY <1>6, <2>2, <2>4 DEF Walks, Scans
    <3>2. ExchangesLeft(call') = 1000 - (base + 32)
      BY <2>4, <3>1 DEF ExchangesLeft, Scans
    <3>3. TodoInv'
      BY <2>2, <2>4, <3>1 DEF TodoInv, Walks, Scans
    <3> QED
      BY <1>2, <2>2, <2>3, <2>4, <3>1, <3>2, <3>3
  <2>5. CASE /\ Scans(call') /\ call'.todo \in Seq(0 .. 255)
             /\ call'.todo # << >> /\ Len(call'.todo) <= 256
    <3>1. ~Walks(call')
      BY <2>5 DEF Walks, Scans
    <3>2. ExchangesLeft(call') = Len(call'.todo)
      BY <2>5 DEF ExchangesLeft, Scans
    <3>3. call'.todo[1] < 256 /\ Len(call'.todo) \in Nat
      BY <2>5, FirstByte
    <3>4. TodoInv'
      BY <2>2, <2>5, <3>1 DEF TodoInv, Walks, Scans
    <3>5. ExchangesLeft(call') < ExchangesLeft(call)
      BY <2>3, <2>5, <3>2, <3>3
    <3> QED
      BY <1>2, <2>2, <2>5, <3>3, <3>4, <3>5
  <2> QED
    BY <2>2, <2>4, <2>5
<1>7. CASE Scans(c) /\ ScanOn(c, rs)
  <2>1. c.todo \in Seq(0 .. 255) /\ c.todo # << >>
    BY <1>2, <1>3, <1>7 DEF TodoInv
  <2>2. /\ call' = [op |-> call'.op, arg |-> call'.arg, todo |-> call'.todo,
                    found |-> call'.found, clean |-> call'.clean]
        /\ call'.op = c.op /\ call'.arg = c.arg
        /\ call'.todo \in Seq(0 .. 255) /\ call'.todo # << >> /\ Len(call'.todo) = Len(c.todo) - 1
    BY <1>2, <1>7, <2>1, ScanGoesOn
  <2>3. Scans(call') /\ ~Walks(call')
    BY <1>7, <2>2 DEF Walks, Scans
  <2>4. ExchangesLeft(call') = Len(call'.todo) /\ ExchangesLeft(call) = Len(c.todo)
    BY <1>2, <1>3, <1>7, <2>3 DEF ExchangesLeft, Scans
  <2>5. call'.todo[1] < 256
    BY <2>2, FirstByte
  <2>6. TodoInv'
    BY <2>2, <2>3 DEF TodoInv, Walks, Scans
  <2>7. Len(c.todo) \in Nat
    BY <2>1
  <2>8. ExchangesLeft(call') < ExchangesLeft(call)
    BY <2>2, <2>4, <2>7
  <2> QED
    BY <1>2, <2>2, <2>3, <2>5, <2>6, <2>8
<1>8. CASE Return(c, Answer(c, rs))
  BY <1>8 DEF Return
<1> QED
  BY <1>5, <1>6, <1>7, <1>8

\* Both parts hold at first.
LEMMA SessionBegins ==
  ASSUME Init
  PROVE  PortInv /\ TodoInv
BY DEF Init, PortInv, TodoInv, OpenMeansReady

\* Each step keeps both.
LEMMA SessionStep ==
  ASSUME PortInv, TodoInv, [Next]_vars
  PROVE  PortInv' /\ TodoInv'
<1>1. CASE UNCHANGED vars
  BY <1>1 DEF vars, PortInv, TodoInv, OpenMeansReady, Walks, Scans
<1>2. ASSUME NEW late \in BOOLEAN, Open(late)
      PROVE  PortInv' /\ TodoInv'
  <2>1. call' = call /\ call = NoCall /\ kind' = kind
    BY <1>2 DEF Open
  <2>2. TodoInv'
    BY <2>1 DEF TodoInv
  <2>3. open' = TRUE
    BY <1>2 DEF Open
  <2>4. CASE open
    <3>1. port' = port /\ setup' = setup
      BY <1>2, <2>4 DEF Open
    <3> QED
      BY <2>1, <2>2, <2>3, <2>4, <3>1 DEF PortInv, OpenMeansReady
  <2>5. CASE ~open
    <3>1. port' = TRUE /\ (kind = "elm" => setup' = Len(INIT_COMMANDS))
      BY <1>2, <2>5 DEF Open
    <3> QED
      BY <2>1, <2>2, <2>3, <3>1 DEF PortInv, OpenMeansReady
  <2> QED
    BY <2>4, <2>5
<1>3. ASSUME NEW sent \in 0 .. Len(INIT_COMMANDS) - 1, OpenFails(sent)
      PROVE  PortInv' /\ TodoInv'
  <2>1. call' = call /\ call = NoCall /\ kind' = kind /\ open' = open /\ ~open /\ port' = KeepsPort
    BY <1>3 DEF OpenFails
  <2> QED
    BY <2>1 DEF PortInv, TodoInv, OpenMeansReady, KeepsPort
<1>4. ASSUME NEW raises \in BOOLEAN, Close(raises)
      PROVE  PortInv' /\ TodoInv'
  <2>1. call' = call /\ call = NoCall /\ kind' = kind /\ port' = FALSE /\ open' = (raises /\ port)
    BY <1>4 DEF Close
  <2> QED
    BY <2>1 DEF PortInv, TodoInv, OpenMeansReady
<1>5. ASSUME NEW o \in Ops, Begin(o[1], o[2])
      PROVE  PortInv' /\ TodoInv'
  <2>1. UNCHANGED <<kind, open, port, setup>>
    BY <1>5 DEF Begin
  <2>2. \/ call' = NoCall
        \/ port /\ call' = [op |-> o[1], arg |-> o[2], found |-> {}, clean |-> TRUE,
                            todo |-> IF o[1] = "read_pid" THEN o[2] ELSE <<0>>]
    BY <1>5 DEF Begin
  <2>3. TodoInv'
    <3>1. CASE call' = NoCall
      BY <3>1 DEF TodoInv
    <3>2. CASE call' # NoCall
      <4>1. /\ call' = [op |-> call'.op, arg |-> call'.arg, todo |-> call'.todo,
                        found |-> call'.found, clean |-> call'.clean]
            /\ call'.op # "read_pid" => call'.todo = <<0>>
        BY <2>2, <3>2
      <4>2. 0 \in 0 .. 255 /\ <<0>> \in Seq(0 .. 255) /\ <<0>> # << >>
        OBVIOUS
      <4> QED
        BY <4>1, <4>2 DEF TodoInv, Walks, Scans
    <3> QED
      BY <3>1, <3>2
  <2> QED
    BY <2>1, <2>2, <2>3 DEF PortInv, OpenMeansReady
<1>6. CASE ElmExchange \/ CanExchange
  <2>1. call # NoCall /\ Continues /\ UNCHANGED <<kind, open, port, setup>>
    BY <1>6, ExchangeEffect
  <2>2. PortInv'
    BY <2>1 DEF PortInv, OpenMeansReady
  <2>3. TodoInv'
    <3>1. CASE call' = NoCall
      BY <3>1 DEF TodoInv
    <3>2. CASE call' # NoCall
      BY <2>1, <3>2, ExchangeAdvances
    <3> QED
      BY <3>1, <3>2
  <2> QED
    BY <2>2, <2>3
<1> QED
  BY <1>1, <1>2, <1>3, <1>4, <1>5, <1>6 DEF Next

\* The adapter of an open session was sent every set up command on the port that
\* the session has, whatever openings and closings failed before (obd/session.py
\* and transport/elm327.py).
THEOREM OpenSessionsAreReady == Spec => []OpenMeansReady
<1>1. Init => PortInv /\ TodoInv
  BY SessionBegins
<1>2. PortInv /\ TodoInv /\ [Next]_vars => (PortInv /\ TodoInv)'
  BY SessionStep
<1>3. PortInv => OpenMeansReady
  BY DEF PortInv
<1> QED
  BY <1>1, <1>2, <1>3, PTL DEF Spec

\* No operation goes on for ever: each exchange of read_supported_pids and of
\* live_data brings it nearer to its end, whatever the ECUs reply, and never asks
\* for a PID above a byte (protocol/obd2.py).
THEOREM OperationsEnd == Spec => EveryExchangeAdvances
<1>1. Init => PortInv /\ TodoInv
  BY SessionBegins
<1>2. PortInv /\ TodoInv /\ [Next]_vars => (PortInv /\ TodoInv)'
  BY SessionStep
<1>3. TodoInv /\ [Next]_vars =>
        [call # NoCall /\ call' # NoCall =>
           ExchangesLeft(call') < ExchangesLeft(call) /\ call'.todo[1] < 256]_call
  <2> SUFFICES ASSUME TodoInv, [Next]_vars, call # NoCall, call' # NoCall, call' # call
               PROVE  ExchangesLeft(call') < ExchangesLeft(call) /\ call'.todo[1] < 256
    BY Zenon
  <2>1. ElmExchange \/ CanExchange
    BY Zenon DEF Next, vars, Open, OpenFails, Close, Begin
  <2> QED
    BY <2>1, ExchangeEffect, ExchangeAdvances
<1> QED
  BY <1>1, <1>2, <1>3, PTL DEF Spec, EveryExchangeAdvances

-----------------------------------------------------------------------------
(* Bytes, hex digits and the frames of ISO-TP.                             *)

\* The bytes of a CAN frame or a payload.
Bytes == 0 .. 255

\* A byte is its two hex digits.
LEMMA Nibbles == \A x \in Bytes : x \div 16 \in 0 .. 15 /\ x % 16 \in 0 .. 15 /\ (x \div 16) * 16 + (x % 16) = x
<1> SUFFICES ASSUME NEW x \in 0 .. 255
             PROVE  x \div 16 \in 0 .. 15 /\ x % 16 \in 0 .. 15 /\ (x \div 16) * 16 + (x % 16) = x
  BY DEF Bytes
<1>1. x \div 16 \in 0 .. 15
  OBVIOUS
<1>2. x % 16 \in 0 .. 15
  OBVIOUS
<1>3. (x \div 16) * 16 + (x % 16) = x
  OBVIOUS
<1> QED
  BY <1>1, <1>2, <1>3

\* The three digits of an identifier are hex digits.
LEMMA SourceDigits ==
  ASSUME NEW src \in Nat, src < 4096, NEW i \in 1 .. 3
  PROVE  (src \div 16^(3 - i)) % 16 \in 0 .. 15
<1>1. i = 1 \/ i = 2 \/ i = 3
  OBVIOUS
<1>2. CASE i = 1
  <2>1. 16^(3 - i) = 256
    BY <1>2
  <2>2. (src \div 256) % 16 \in 0 .. 15
    OBVIOUS
  <2> QED
    BY <2>1, <2>2
<1>3. CASE i = 2
  <2>1. 16^(3 - i) = 16
    BY <1>3
  <2>2. (src \div 16) % 16 \in 0 .. 15
    OBVIOUS
  <2> QED
    BY <2>1, <2>2
<1>4. CASE i = 3
  <2>1. 16^(3 - i) = 1
    BY <1>4
  <2>2. (src \div 1) % 16 \in 0 .. 15
    OBVIOUS
  <2> QED
    BY <2>1, <2>2
<1> QED
  BY <1>1, <1>2, <1>3, <1>4

\* A frame is a function on its eight places.
LEMMA EightBytes ==
  ASSUME NEW f \in Seq(Bytes), Len(f) = 8
  PROVE  f \in [1 .. 8 -> Bytes]
  BY LenProperties, ZenonT(40) DEF Bytes

\* A printed frame of eight bytes is a line of nineteen hex digits, and is read
\* as the bytes it was made of.
LEMMA PrintAndRead ==
  ASSUME NEW src \in Nat, src < 4096, NEW f \in Seq(Bytes), Len(f) = 8
  PROVE  /\ PrintFrame(src, f) \in Seq(0 .. 15) /\ Len(PrintFrame(src, f)) = 19
         /\ IsFrame(PrintFrame(src, f))
         /\ FrameOf(PrintFrame(src, f)).bytes = f
<1> DEFINE digit(i) == IF i <= 3 THEN (src \div 16^(3 - i)) % 16
                       ELSE IF i % 2 = 0 THEN f[(i - 2) \div 2] \div 16 ELSE f[(i - 3) \div 2] % 16
           l == [i \in 1 .. 19 |-> digit(i)]
<1>1. f \in [1 .. 8 -> Bytes]
  BY EightBytes
<1>2. ASSUME NEW i \in 1 .. 19 PROVE digit(i) \in 0 .. 15
  <2>1. CASE i <= 3
    <3>1. (src \div 16^(3 - i)) % 16 \in 0 .. 15
      BY <2>1, SourceDigits
    <3> QED
      BY <2>1, <3>1
  <2>2. CASE i > 3 /\ i % 2 = 0
    <3>1. (i - 2) \div 2 \in 1 .. 8
      BY <2>2
    <3> QED
      BY <1>1, <2>2, <3>1, Nibbles
  <2>3. CASE i > 3 /\ i % 2 # 0
    <3>1. (i - 3) \div 2 \in 1 .. 8
      BY <2>3
    <3> QED
      BY <1>1, <2>3, <3>1, Nibbles
  <2> QED
    BY <2>1, <2>2, <2>3
<1>3. ASSUME NEW i \in 1 .. 8 PROVE digit(2 * i + 2) = f[i] \div 16 /\ digit(2 * i + 3) = f[i] % 16
  <2>1. /\ ~(2 * i + 2 <= 3) /\ (2 * i + 2) % 2 = 0 /\ ((2 * i + 2) - 2) \div 2 = i
        /\ ~(2 * i + 3 <= 3) /\ (2 * i + 3) % 2 # 0 /\ ((2 * i + 3) - 3) \div 2 = i
    OBVIOUS
  <2> QED
    BY <2>1
<1> HIDE DEF digit
<1>4. l \in [1 .. 19 -> 0 .. 15] /\ l \in Seq(0 .. 15) /\ Len(l) = 19
  <2>1. l \in [1 .. 19 -> 0 .. 15]
    BY <1>2
  <2> QED
    BY <2>1, SeqDef
<1>5. PrintFrame(src, f) = l
  <2>1. 2 * Len(f) + 3 = 19
    OBVIOUS
  <2> DEFINE L(n) == [i \in 1 .. n |-> digit(i)]
  <2>2. PrintFrame(src, f) = L(2 * Len(f) + 3) \o << >>
    BY DEF PrintFrame, digit
  <2> HIDE DEF L
  <2>3. PrintFrame(src, f) = L(19) \o << >>
    BY <2>1, <2>2
  <2>4. L(19) = l
    BY DEF L
  <2> HIDE DEF l
  <2> QED
    BY <1>4, <2>3, <2>4, ConcatEmptySeq
<1>6. IsFrame(l)
  <2>1. \A i \in 1 .. 19 : l[i] < 16
    BY <1>4, SMTT(30)
  <2> HIDE DEF l
  <2>2. DOMAIN l = 1 .. 19
    BY <1>4
  <2> QED
    BY <1>4, <2>1, <2>2 DEF IsFrame
<1>7. \A i \in 1 .. 8 : l[2 * i + 2] = f[i] \div 16 /\ l[2 * i + 3] = f[i] % 16
  <2>1. \A i \in 1 .. 8 : 2 * i + 2 \in 1 .. 19 /\ 2 * i + 3 \in 1 .. 19
    OBVIOUS
  <2> QED
    BY <1>3, <2>1, SMTT(30)
<1> HIDE DEF l
<1>8. FrameOf(l).bytes = f
  <2> DEFINE b == [i \in 1 .. 8 |-> l[2 * i + 2] * 16 + l[2 * i + 3]]
  <2>1. (Len(l) - 3) \div 2 = 8
    BY <1>4
  <2>2. FrameOf(l).bytes = b \o << >>
    <3> DEFINE B(n) == [i \in 1 .. n |-> l[2 * i + 2] * 16 + l[2 * i + 3]]
    <3>1. FrameOf(l).bytes = B((Len(l) - 3) \div 2) \o << >>
      BY DEF FrameOf
    <3> HIDE DEF B
    <3>2. FrameOf(l).bytes = B(8) \o << >>
      BY <2>1, <3>1
    <3> QED
      BY <3>2 DEF B
  <2>3. \A i \in 1 .. 8 : l[2 * i + 2] * 16 + l[2 * i + 3] = f[i]
    <3> SUFFICES ASSUME NEW i \in 1 .. 8 PROVE l[2 * i + 2] * 16 + l[2 * i + 3] = f[i]
      BY SMTT(30)
    <3>1. f[i] \in Bytes
      BY <1>1
    <3> DEFINE y == f[i]
               hi == l[2 * i + 2]
               lo == l[2 * i + 3]
    <3>2. hi = y \div 16 /\ lo = y % 16 /\ y \in Bytes
      BY <1>7, <3>1, SMTT(30)
    <3> HIDE DEF y, hi, lo
    <3>3. hi * 16 + lo = y
      BY <3>2, Nibbles
    <3> QED
      BY <3>3 DEF y, hi, lo
  <2>4. b = f
    BY <1>1, <2>3
  <2> QED
    BY <2>2, <2>4, ConcatEmptySeq
<1> QED
  BY <1>4, <1>5, <1>6, <1>8

-----------------------------------------------------------------------------
(* What the adapter's output is parsed to.                                 *)

\* The frames of some lines are those of the lines that are frames.
LEMMA FramesType ==
  ASSUME NEW T, NEW raw \in Seq(T)
  PROVE  Frames(raw) \in Seq({FrameOf(l) : l \in {raw[i] : i \in {j \in 1 .. Len(raw) : IsFrame(raw[j])}}})
<1> DEFINE F == {x \in ToSet(raw) : IsFrame(x)}
           L == {raw[i] : i \in {j \in 1 .. Len(raw) : IsFrame(raw[j])}}
           O == {FrameOf(l) : l \in L}
           ls == Select(raw, F)
           g == [i \in DOMAIN ls |-> FrameOf(ls[i])]
<1>1. F \subseteq L
  <2>1. DOMAIN raw = 1 .. Len(raw)
    BY LenProperties
  <2> QED
    BY <2>1 DEF ToSet
<1>2. ls \in Seq(T \cap F) /\ Len(ls) \in Nat
  BY SelectType
<1>3. \A i \in 1 .. Len(ls) : ls[i] \in L
  <2> HIDE DEF ls, F, L
  <2>1. \A i \in 1 .. Len(ls) : ls[i] \in T \cap F
    BY <1>2, LenProperties
  <2> QED
    BY <1>1, <2>1
<1>4. DOMAIN ls = 1 .. Len(ls)
  BY <1>2, LenProperties
<1>5. Frames(raw) = g \o << >>
  BY DEF Frames, Where
<1> HIDE DEF ls, L, F
<1>6. g \in [1 .. Len(ls) -> O]
  BY <1>3, <1>4
<1> HIDE DEF g, O
<1>7. Frames(raw) \in Seq(O)
  BY <1>2, <1>5, <1>6, MapSeq
<1> QED
  BY <1>7 DEF O, L

\* The frames of each source: some of the bytes of the frames, and not none.
LEMMA BySourceType ==
  ASSUME NEW O, NEW fs \in Seq(O)
  PROVE  BySource(fs) \in Seq(Seq({x.bytes : x \in O}) \ {<< >>})
<1> DEFINE B == {x.bytes : x \in O}
           ids == [i \in DOMAIN fs |-> i]
           S == {i \in ToSet(ids) : \A j \in 1 .. i - 1 : fs[j].src # fs[i].src}
           firsts == Select(ids, S)
           of(k) == {x \in ToSet(fs) : x.src = fs[firsts[k]].src}
           own == [k \in DOMAIN firsts |-> Select(fs, of(k))]
           by == [k \in DOMAIN own |-> [n \in DOMAIN own[k] |-> own[k][n].bytes] \o << >>]
<1>1. DOMAIN fs = 1 .. Len(fs) /\ Len(fs) \in Nat /\ \A i \in 1 .. Len(fs) : fs[i] \in O
  BY LenProperties
<1>2. ids \in Seq(1 .. Len(fs))
  BY <1>1, SeqDef
<1> HIDE DEF ids
<1>3. firsts \in Seq(1 .. Len(fs)) /\ Len(firsts) \in Nat
  <2>1. firsts \in Seq((1 .. Len(fs)) \cap S) /\ Len(firsts) \in Nat
    BY <1>2, SelectType
  <2> HIDE DEF firsts
  <2>2. \A j \in 1 .. Len(firsts) : firsts[j] \in 1 .. Len(fs)
    BY <2>1, LenProperties
  <2> QED
    BY <2>1, <2>2, SeqOver
<1> HIDE DEF firsts, S
<1>4. DOMAIN firsts = 1 .. Len(firsts) /\ \A k \in 1 .. Len(firsts) : firsts[k] \in 1 .. Len(fs)
  BY <1>3, LenProperties
<1>5. ASSUME NEW k \in 1 .. Len(firsts)
      PROVE  Select(fs, of(k)) \in Seq(O) \ {<< >>}
  <2>1. Select(fs, of(k)) \in Seq(O \cap of(k)) /\ Len(Select(fs, of(k))) \in Nat
    BY SelectType
  <2>2. fs[firsts[k]] \in of(k)
    BY <1>1, <1>4 DEF ToSet
  <2>3. \E n \in 1 .. Len(Select(fs, of(k))) : Select(fs, of(k))[n] = fs[firsts[k]]
    <3> DEFINE U == of(k)
               i == firsts[k]
    <3>1. i \in 1 .. Len(fs) /\ fs[i] \in U
      BY <1>4, <2>2
    <3> HIDE DEF U, i
    <3>2. \E n \in 1 .. Len(Select(fs, U)) : Select(fs, U)[n] = fs[i]
      BY <3>1, SelectKeeps
    <3> QED
      BY <3>2 DEF U, i
  <2> DEFINE q == Select(fs, of(k))
             U == of(k)
  <2>4. q \in Seq(O \cap U) /\ \E n \in 1 .. Len(q) : TRUE
    BY <2>1, <2>3
  <2> HIDE DEF q, U
  <2>5. \A n \in 1 .. Len(q) : q[n] \in O
    BY <2>4, LenProperties
  <2>6. q \in Seq(O)
    BY <2>4, <2>5, SeqOver
  <2>7. q # << >>
    BY <2>4, EmptySeq
  <2> QED
    BY <2>6, <2>7 DEF q
<1> HIDE DEF of
<1>6. own \in [1 .. Len(firsts) -> Seq(O) \ {<< >>}] /\ own \o << >> = own
  <2>1. own \in [1 .. Len(firsts) -> Seq(O) \ {<< >>}]
    BY <1>4, <1>5
  <2> HIDE DEF own
  <2> QED
    BY <1>3, <2>1, MapSeq
<1>7. BySource(fs) = by \o << >>
  <2> DEFINE by2(o) == [k \in DOMAIN o |-> [n \in DOMAIN o[k] |-> o[k][n].bytes] \o << >>]
  <2>1. BySource(fs) = by2(own \o << >>) \o << >>
    BY DEF BySource, Where, firsts, S, ids, of
  <2> HIDE DEF own, by2
  <2>2. BySource(fs) = by2(own) \o << >>
    BY <1>6, <2>1
  <2> QED
    BY <2>2 DEF by2
<1> HIDE DEF own
<1>8. ASSUME NEW k \in 1 .. Len(firsts)
      PROVE  [n \in DOMAIN own[k] |-> own[k][n].bytes] \o << >> \in Seq(B) \ {<< >>}
  <2> DEFINE q == own[k]
             r == [n \in DOMAIN q |-> q[n].bytes]
  <2>1. q \in Seq(O) /\ q # << >>
    BY <1>6
  <2> HIDE DEF q
  <2>2. DOMAIN q = 1 .. Len(q) /\ Len(q) \in Nat /\ Len(q) # 0 /\ \A n \in 1 .. Len(q) : q[n] \in O
    BY <2>1, LenProperties, EmptySeq
  <2>3. r \in [1 .. Len(q) -> B]
    BY <2>2
  <2> HIDE DEF r, B
  <2>4. r \o << >> = r /\ r \in Seq(B) /\ Len(r) = Len(q)
    BY <2>2, <2>3, MapSeq
  <2>5. r # << >>
    BY <2>2, <2>4, EmptySeq
  <2> QED
    BY <2>4, <2>5 DEF r, q
<1>9. by \in [1 .. Len(firsts) -> Seq(B) \ {<< >>}]
  <2>1. DOMAIN own = 1 .. Len(firsts)
    BY <1>6
  <2> HIDE DEF B
  <2> QED
    BY <1>8, <2>1
<1> HIDE DEF by, B
<1>10. BySource(fs) \in Seq(Seq(B) \ {<< >>})
  BY <1>3, <1>7, <1>9, MapSeq
<1> QED
  BY <1>10 DEF B

-----------------------------------------------------------------------------
(* What an ECU may have sent, and what is read of it.                      *)

\* The first byte of a reply; none of a frame of a long payload behind its first
\* has this value.
IsSid(x) == x \in 65 .. 127

\* A payload an ECU may have sent: an acknowledgement of a clear is one byte,
\* and the reply to a request for a PID is the PID and its bytes.
Reply(e, d) ==
  /\ d \in Seq(Bytes) /\ d # << >> /\ IsSid(d[1])
  /\ d[1] = 68 => d = <<68>>
  /\ d[1] = 65 => /\ Len(d) \in 2 .. 6
                  /\ d[2] % 32 = 0 \/ (d[2] \in DOMAIN PidData[e] /\ d = <<65, d[2]>> \o PidData[e][d[2]])

\* The frame of a payload that fits in one.
SingleFrame(d) == PadTo8(<<Len(d)>> \o d)

\* A frame an ECU may have sent: that of a short reply, or one of a long reply,
\* whose first one does not look like an acknowledgement or a PID's reply.
SentFrame(e, f) ==
  /\ f \in Seq(Bytes) /\ Len(f) = 8
  /\ \/ \E d : Reply(e, d) /\ Len(d) \in 1 .. 7 /\ f = SingleFrame(d)
     \/ f[1] \in 16 .. 31 /\ f[3] \notin {65, 68}
     \/ f[1] \in 32 .. 47

\* A line that an adapter may have printed.
SentLine(l) ==
  \/ l = <<PROMPT>> \/ l = <<OTHERTEXT>>
  \/ \E e \in 1 .. 2 : \E f : SentFrame(e, f) /\ l = PrintFrame(CanId[e], f)

\* The lines that are read as the frame of a given payload.
LinesOf(d) == {PrintFrame(CanId[e], SingleFrame(d)) : e \in 1 .. 2}

\* A single frame has eight bytes, the first of them the length.
LEMMA SingleFrameBytes ==
  ASSUME NEW d \in Seq(Bytes), Len(d) \in 0 .. 7
  PROVE  /\ SingleFrame(d) \in Seq(Bytes) /\ Len(SingleFrame(d)) = 8
         /\ SingleFrame(d)[1] = Len(d)
         /\ \A i \in 1 .. Len(d) : SingleFrame(d)[i + 1] = d[i]
<1> DEFINE n == Len(d)
           h == <<n>> \o d
           pad == [i \in 1 .. 8 - Len(h) |-> 170]
<1>1. n \in Nat /\ n <= 7 /\ n \in Bytes /\ 170 \in Bytes
  <2>1. n \in 0 .. 7
    OBVIOUS
  <2> HIDE DEF n
  <2> QED
    BY <2>1 DEF Bytes
<1>2. <<n>> \in Seq(Bytes) /\ Len(<<n>>) = 1
  BY <1>1
<1>3. /\ h \in Seq(Bytes) /\ Len(h) = 1 + n
      /\ h[1] = n /\ \A i \in 1 .. n : h[i + 1] = d[i]
  <2>1. h \in Seq(Bytes) /\ Len(h) = 1 + n
    BY <1>2, ConcatProperties
  <2>2. \A i \in 1 .. 1 + n : h[i] = IF i <= 1 THEN <<n>>[i] ELSE d[i - 1]
    BY <1>2, ConcatProperties
  <2> QED
    BY <1>1, <2>1, <2>2
<1> HIDE DEF h, n
<1>4. 8 - Len(h) \in Nat
  BY <1>1, <1>3
<1>5. pad \in [1 .. 8 - Len(h) -> Bytes]
  BY <1>1
<1> HIDE DEF pad
<1>6. pad \in Seq(Bytes) /\ Len(pad) = 8 - Len(h)
  BY <1>4, <1>5, MapSeq
<1>7. /\ h \o pad \in Seq(Bytes) /\ Len(h \o pad) = Len(h) + Len(pad)
      /\ \A i \in 1 .. Len(h) : (h \o pad)[i] = h[i]
  BY <1>3, <1>6, ConcatProperties
<1>8. SingleFrame(d) = h \o pad
  BY DEF SingleFrame, PadTo8, h, n, pad
<1>9. Len(h) + Len(pad) = 8 /\ 1 \in 1 .. Len(h) /\ \A i \in 1 .. n : i + 1 \in 1 .. Len(h)
  BY <1>1, <1>3, <1>6
<1>10. (h \o pad)[1] = n /\ \A i \in 1 .. n : (h \o pad)[i + 1] = d[i]
  BY <1>3, <1>7, <1>9
<1> QED
  BY <1>7, <1>8, <1>9, <1>10 DEF n

\* What is put together from the frame of a short reply is the reply.
LEMMA ReassembleSingle ==
  ASSUME NEW d \in Seq(Bytes), Len(d) \in 0 .. 7, NEW g, g[1] = SingleFrame(d)
  PROVE  Reassemble(g) = d
<1> DEFINE f == SingleFrame(d)
           n == Len(d)
           t == Tail(f)
<1>1. /\ f \in Seq(Bytes) /\ Len(f) = 8 /\ f[1] = n /\ n \in Nat /\ n <= 7
      /\ \A i \in 1 .. n : f[i + 1] = d[i]
  <2>1. f \in Seq(Bytes) /\ Len(f) = 8 /\ f[1] = n /\ \A i \in 1 .. n : f[i + 1] = d[i]
    BY SingleFrameBytes
  <2>2. n \in 0 .. 7
    OBVIOUS
  <2> HIDE DEF f, n
  <2> QED
    BY <2>1, <2>2
<1> HIDE DEF f, n
<1>2. n \div 16 = 0 /\ n % 16 = n
  <2>1. n \in 0 .. 7
    BY <1>1
  <2> QED
    BY <2>1
<1>3. Reassemble(g) = SubSeq(t, 1, IF n < Len(t) THEN n ELSE Len(t))
  <2>1. g[1] = f /\ Pci(f) = 0 /\ ~(Pci(f) = 1) /\ f[1] % 16 = n
    BY <1>1, <1>2 DEF Pci, f
  <2> DEFINE h == g[1]
             UpTo(s, k) == SubSeq(s, 1, IF k < Len(s) THEN k ELSE Len(s))
  <2>2. Pci(h) = 0 /\ ~(Pci(h) = 1) => Reassemble(g) = UpTo(Tail(h), h[1] % 16)
    BY Zenon DEF Reassemble
  <2>3. h = f
    BY <2>1
  <2> HIDE DEF h, UpTo
  <2>4. Reassemble(g) = UpTo(t, n)
    BY <2>1, <2>2, <2>3
  <2> QED
    BY <2>4 DEF UpTo
<1>4. t \in Seq(Bytes) /\ Len(t) = 7 /\ \A i \in 1 .. 7 : t[i] = f[i + 1]
  <2>1. f # << >>
    BY <1>1
  <2>2. t \in Seq(Bytes) /\ Len(t) = Len(f) - 1 /\ \A i \in 1 .. Len(t) : t[i] = f[i + 1]
    BY <1>1, <2>1, HeadTailProperties
  <2> HIDE DEF t
  <2>3. Len(t) = 7
    BY <1>1, <2>2
  <2> QED
    BY <2>2, <2>3
<1> HIDE DEF t
<1>5. (IF n < Len(t) THEN n ELSE Len(t)) = n
  BY <1>1, <1>4
<1> DEFINE r == SubSeq(t, 1, n)
<1>6. r \in Seq(Bytes) /\ Len(r) = n /\ \A i \in 1 .. n : r[i] = t[i]
  <2>1. \A i \in 1 .. n : t[i] \in Bytes
    <3>1. \A i \in 1 .. n : i \in 1 .. Len(t)
      BY <1>1, <1>4
    <3> QED
      BY <1>4, <3>1, ElementOfSeq
  <2>2. /\ SubSeq(t, 1, n) \in Seq(Bytes)
        /\ Len(SubSeq(t, 1, n)) = IF 1 <= n THEN n - 1 + 1 ELSE 0
        /\ \A i \in 1 .. n - 1 + 1 : SubSeq(t, 1, n)[i] = t[1 + i - 1]
    BY <1>1, <2>1, SubSeqProperties
  <2> HIDE DEF r
  <2>3. n - 1 + 1 = n /\ (n = 0 \/ 1 <= n) /\ \A i \in 1 .. n : 1 + i - 1 = i
    BY <1>1
  <2>4. r \in Seq(Bytes) /\ Len(r) = (IF 1 <= n THEN n - 1 + 1 ELSE 0) /\ \A i \in 1 .. n - 1 + 1 : r[i] = t[1 + i - 1]
    BY <2>2 DEF r
  <2>5. Len(r) = n
    BY <1>1, <2>3, <2>4
  <2> QED
    BY <2>3, <2>4, <2>5
<1>7. \A i \in 1 .. n : r[i] = d[i]
  <2>1. \A i \in 1 .. n : i \in 1 .. 7
    BY <1>1
  <2> QED
    BY <1>1, <1>4, <1>6, <2>1
<1> HIDE DEF r
<1>8. r = d
  BY <1>1, <1>6, <1>7, SeqEqual DEF n
<1> QED
  BY <1>3, <1>5, <1>8 DEF r

\* What is put together behind a first frame begins with its third byte.
LEMMA ReassembleFirst ==
  ASSUME NEW g \in Seq(Seq(Bytes)), g # << >>, Len(g[1]) = 8, g[1][1] \in 16 .. 31,
         \A i \in 1 .. Len(g) : g[i] # << >>, Reassemble(g) # << >>
  PROVE  Reassemble(g)[1] = g[1][3]
<1> DEFINE f == g[1]
           s == Tail(g)
           S == {x \in ToSet(s) : Pci(x) = 2}
           cfs == Select(s, S)
           q == [i \in DOMAIN cfs |-> Tail(cfs[i])]
           rest == FlattenSeq(q)
           six == SubSeq(f, 3, Len(f))
           body == six \o rest
           k == (f[1] % 16) * 256 + f[2]
           m == IF k < Len(body) THEN k ELSE Len(body)
<1>1. 1 \in 1 .. Len(g) /\ f \in Seq(Bytes) /\ Len(f) = 8 /\ \A i \in 1 .. 8 : f[i] \in Bytes
  <2>1. Len(g) \in Nat \ {0}
    BY EmptySeq
  <2>2. 1 \in 1 .. Len(g)
    BY <2>1
  <2>3. f \in Seq(Bytes)
    BY <2>2, ElementOfSeq
  <2> HIDE DEF f
  <2>4. f \in [1 .. 8 -> Bytes]
    BY <2>3, EightBytes DEF f
  <2> QED
    BY <2>2, <2>3, <2>4 DEF f
<1>2. Reassemble(g) = SubSeq(body, 1, m)
  <2>1. Pci(f) = 1 /\ ~(Pci(f) = 0)
    <3>1. f[1] \in 16 .. 31
      OBVIOUS
    <3> HIDE DEF f
    <3>2. f[1] \div 16 = 1
      BY <3>1, SMTT(30)
    <3> QED
      BY <3>2 DEF Pci
  <2> DEFINE UpTo(x, n) == SubSeq(x, 1, IF n < Len(x) THEN n ELSE Len(x))
  <2>2. Pci(f) = 1 /\ ~(Pci(f) = 0) => Reassemble(g) = UpTo(body, k)
    BY Zenon DEF Reassemble, Where
  <2> HIDE DEF f, s, cfs, q, rest, body, k, UpTo
  <2>3. Reassemble(g) = UpTo(body, k)
    BY <2>1, <2>2
  <2> QED
    BY <2>3 DEF UpTo
<1> HIDE DEF m, k
<1>3. s \in Seq(Seq(Bytes) \ {<< >>})
  <2>1. s \in Seq(Seq(Bytes)) /\ Len(s) = Len(g) - 1 /\ \A i \in 1 .. Len(s) : s[i] = g[i + 1]
    BY HeadTailProperties
  <2> HIDE DEF s
  <2>2. Len(s) \in Nat /\ Len(g) \in Nat
    BY <2>1
  <2>3. \A i \in 1 .. Len(s) : i + 1 \in 1 .. Len(g)
    BY <2>1, <2>2
  <2>4. \A i \in 1 .. Len(s) : s[i] \in Seq(Bytes) \ {<< >>}
    BY <2>1, <2>3, ElementOfSeq, SMTT(30)
  <2> QED
    BY <2>1, <2>4, SeqOver
<1> HIDE DEF s
<1>4. cfs \in Seq((Seq(Bytes) \ {<< >>}) \cap S) /\ Len(cfs) \in Nat
  BY <1>3, SelectType
<1> HIDE DEF cfs, S
<1>5. q \in Seq(Seq(Bytes))
  <2>1. DOMAIN cfs = 1 .. Len(cfs) /\ \A i \in 1 .. Len(cfs) : cfs[i] \in Seq(Bytes) /\ cfs[i] # << >>
    BY <1>4, LenProperties
  <2>2. \A i \in 1 .. Len(cfs) : Tail(cfs[i]) \in Seq(Bytes)
    BY <2>1, HeadTailProperties
  <2>3. q \in [1 .. Len(cfs) -> Seq(Bytes)]
    BY <2>1, <2>2
  <2> QED
    BY <1>4, <2>3, SeqDef
<1> HIDE DEF q
<1>6. rest \in Seq(Bytes)
  BY <1>5, FlattenType
<1> HIDE DEF rest
<1>7. six \in Seq(Bytes) /\ Len(six) = 6 /\ six[1] = f[3]
  <2>1. Len(f) = 8 /\ \A i \in 3 .. 8 : f[i] \in Bytes
    BY <1>1
  <2> HIDE DEF f
  <2>2. /\ SubSeq(f, 3, 8) \in Seq(Bytes)
        /\ Len(SubSeq(f, 3, 8)) = IF 3 <= 8 THEN 8 - 3 + 1 ELSE 0
        /\ \A i \in 1 .. 8 - 3 + 1 : SubSeq(f, 3, 8)[i] = f[3 + i - 1]
    BY <2>1, SubSeqProperties
  <2>3. 1 \in 1 .. 8 - 3 + 1 /\ 3 + 1 - 1 = 3
    OBVIOUS
  <2>4. six = SubSeq(f, 3, 8)
    BY <2>1
  <2> HIDE DEF six
  <2>5. six[1] = f[3]
    BY <2>2, <2>3, <2>4
  <2> QED
    BY <2>2, <2>4, <2>5
<1> HIDE DEF six
<1>8. body \in Seq(Bytes) /\ Len(body) \in Nat /\ Len(body) >= 6 /\ body[1] = f[3]
  <2>1. /\ body \in Seq(Bytes) /\ Len(body) = Len(six) + Len(rest)
        /\ \A i \in 1 .. Len(six) + Len(rest) : body[i] = IF i <= Len(six) THEN six[i] ELSE rest[i - Len(six)]
    BY <1>6, <1>7, ConcatProperties
  <2>2. Len(rest) \in Nat
    BY <1>6
  <2> HIDE DEF body, f
  <2>3. 1 \in 1 .. Len(six) + Len(rest) /\ 1 <= Len(six)
    BY <1>7, <2>2
  <2> QED
    BY <1>7, <2>1, <2>2, <2>3
<1> HIDE DEF body, f
<1>9. m \in Int /\ m <= Len(body)
  <2>1. f[1] \in 16 .. 31 /\ f[2] \in 0 .. 255
    BY <1>1 DEF Bytes, f
  <2> DEFINE u == f[1]
             v == f[2]
  <2>2. k = (u % 16) * 256 + v
    BY DEF k
  <2>3. u \in 16 .. 31 /\ v \in 0 .. 255
    BY <2>1
  <2> HIDE DEF u, v
  <2>4. k \in Int
    <3>1. u % 16 \in 0 .. 15
      BY <2>3
    <3> QED
      BY <2>2, <2>3, <3>1
  <2> QED
    BY <1>8, <2>4 DEF m
<1>10. 1 <= m
  <2> SUFFICES ASSUME m < 1 PROVE FALSE
    BY <1>9
  <2>1. SubSeq(body, 1, m) = << >>
    BY <1>9, SubSeqEmpty
  <2> QED
    BY <1>2, <2>1
<1>11. SubSeq(body, 1, m)[1] = body[1]
  <2>1. \A i \in 1 .. m : body[i] \in Bytes
    BY <1>8, <1>9, ElementOfSeq
  <2>2. \A i \in 1 .. m - 1 + 1 : SubSeq(body, 1, m)[i] = body[1 + i - 1]
    BY <1>9, <2>1, SubSeqProperties
  <2>3. 1 \in 1 .. m - 1 + 1 /\ 1 + 1 - 1 = 1
    BY <1>9, <1>10
  <2> QED
    BY <2>2, <2>3
<1> QED
  BY <1>2, <1>8, <1>11 DEF f

\* A frame that is neither is taken as it is.
LEMMA ReassembleOther ==
  ASSUME NEW g, g[1][1] \in 32 .. 255
  PROVE  Reassemble(g) = g[1]
<1> DEFINE f == g[1]
<1>1. ~(Pci(f) = 0) /\ ~(Pci(f) = 1)
  <2>1. f[1] \in 32 .. 255
    OBVIOUS
  <2> HIDE DEF f
  <2>2. f[1] \div 16 # 0 /\ f[1] \div 16 # 1
    BY <2>1
  <2> QED
    BY <2>2 DEF Pci
<1> QED
  BY <1>1, Zenon DEF Reassemble

\* Behind the lines of an adapter that are frames there is a frame that an ECU
\* sent.
LEMMA FrameOfSentLine ==
  ASSUME NEW l, SentLine(l), IsFrame(l)
  PROVE  \E e \in 1 .. 2 : \E f : SentFrame(e, f) /\ l = PrintFrame(CanId[e], f) /\ FrameOf(l).bytes = f
<1>1. l # <<PROMPT>> /\ l # <<OTHERTEXT>>
  <2>1. Len(<<PROMPT>>) = 1 /\ Len(<<OTHERTEXT>>) = 1
    OBVIOUS
  <2>2. Len(l) >= 4
    BY DEF IsFrame
  <2>3. ~(1 >= 4)
    OBVIOUS
  <2> QED
    BY <2>1, <2>2, <2>3
<1>a. PICK e \in 1 .. 2 : \E f : SentFrame(e, f) /\ l = PrintFrame(CanId[e], f)
  BY <1>1 DEF SentLine
<1>2. PICK f : SentFrame(e, f) /\ l = PrintFrame(CanId[e], f)
  BY <1>a
<1>3. CanId[e] \in Nat /\ CanId[e] < 4096
  <2>1. CanId[e] \in Nat /\ CanId[e] < 2048
    BY VehicleAssumption, SMTT(30) DEF IsEcu
  <2> QED
    BY <2>1
<1>4. f \in Seq(Bytes) /\ Len(f) = 8
  BY <1>2 DEF SentFrame
<1>5. FrameOf(PrintFrame(CanId[e], f)).bytes = f
  <2> DEFINE src == CanId[e]
  <2>1. src \in Nat /\ src < 4096
    BY <1>3
  <2> HIDE DEF src
  <2>2. f \in Seq(Bytes) /\ Len(f) = 8 /\ src \in Nat /\ src < 4096
    BY <1>4, <2>1
  <2>3. FrameOf(PrintFrame(src, f)).bytes = f
    BY <2>2, PrintAndRead
  <2> QED
    BY <2>3 DEF src
<1> QED
  BY <1>2, <1>5

\* What is read as a PID's reply or an acknowledgement on lines that an adapter
\* printed is one, and one of the lines is its frame.
LEMMA ElmReplies ==
  ASSUME NEW T, NEW raw \in Seq(T), \A i \in 1 .. Len(raw) : SentLine(raw[i]),
         NEW j \in 1 .. Len(ParseElmResponse(raw)),
         ParseElmResponse(raw)[j][1] \in {65, 68}
  PROVE  \E e \in 1 .. 2 : \E d :
           /\ d = ParseElmResponse(raw)[j] /\ Reply(e, d) /\ Len(d) \in 1 .. 7
           /\ \E i \in 1 .. Len(raw) : raw[i] \in LinesOf(d)
<1> DEFINE fs == Frames(raw)
           O == {FrameOf(l) : l \in {raw[i] : i \in {k \in 1 .. Len(raw) : IsFrame(raw[k])}}}
           B == {x.bytes : x \in O}
           by == BySource(fs)
           put == [k \in DOMAIN by |-> Reassemble(by[k])]
           S == {d \in ToSet(put) : d # << >>}
           ds == Select(put, S)
           d == ds[j]
<1>1. by \in Seq(Seq(B) \ {<< >>})
  <2>1. fs \in Seq(O)
    BY FramesType
  <2> HIDE DEF fs, O
  <2> QED
    BY <2>1, BySourceType
<1>2. ASSUME NEW f \in B
      PROVE  \E e \in 1 .. 2 : \E i \in 1 .. Len(raw) : SentFrame(e, f) /\ raw[i] = PrintFrame(CanId[e], f)
  <2>1. PICK i \in 1 .. Len(raw) : IsFrame(raw[i]) /\ f = FrameOf(raw[i]).bytes
    OBVIOUS
  <2>2. SentLine(raw[i])
    OBVIOUS
  <2> QED
    BY <2>1, <2>2, FrameOfSentLine
<1>3. ds = ParseElmResponse(raw)
  BY DEF ParseElmResponse, Where
<1> HIDE DEF by, B, O, fs
<1>4. DOMAIN by = 1 .. Len(by) /\ Len(by) \in Nat /\ \A k \in 1 .. Len(by) : by[k] \in Seq(B) /\ by[k] # << >>
  <2>1. \A k \in 1 .. Len(by) : by[k] \in Seq(B) \ {<< >>}
    BY <1>1, ElementOfSeq
  <2> QED
    BY <1>1, <2>1, LenProperties
<1>5. put \in Seq({Reassemble(by[k]) : k \in 1 .. Len(by)})
  <2>1. put \in [1 .. Len(by) -> {Reassemble(by[k]) : k \in 1 .. Len(by)}]
    BY <1>4
  <2> QED
    BY <1>4, <2>1, SeqDef
<1> HIDE DEF put
<1>6. d \in {Reassemble(by[k]) : k \in 1 .. Len(by)} \cap S
  <2> DEFINE R == {Reassemble(by[k]) : k \in 1 .. Len(by)}
  <2>1. put \in Seq(R)
    BY <1>5
  <2> HIDE DEF R, S
  <2>2. ds \in Seq(R \cap S)
    BY <2>1, SelectType
  <2>3. j \in 1 .. Len(ds)
    BY <1>3
  <2> HIDE DEF ds
  <2>4. ds[j] \in R \cap S
    BY <2>2, <2>3, ElementOfSeq
  <2> QED
    BY <2>4 DEF R
<1>7. d = ParseElmResponse(raw)[j]
  BY <1>3
<1> HIDE DEF ds, d
<1>8. PICK k \in 1 .. Len(by) : d = Reassemble(by[k])
  BY <1>6
<1>9. d # << >> /\ d[1] \in {65, 68}
  BY <1>6, <1>7
<1> DEFINE g == by[k]
<1>10. g \in Seq(B) /\ g # << >>
  BY <1>4
<1>11. d = Reassemble(g)
  BY <1>8
<1> HIDE DEF g
<1>12. 1 \in 1 .. Len(g) /\ \A i \in 1 .. Len(g) : g[i] \in B
  <2>1. Len(g) \in Nat /\ Len(g) # 0
    BY <1>10, EmptySeq
  <2> QED
    BY <1>10, <2>1, ElementOfSeq
<1>13. PICK e \in 1 .. 2, i \in 1 .. Len(raw) : SentFrame(e, g[1]) /\ raw[i] = PrintFrame(CanId[e], g[1])
  BY <1>2, <1>12
<1>14. \A f \in B : f \in Seq(Bytes) /\ Len(f) = 8
  BY <1>2 DEF SentFrame
<1>15. CASE \E p : Reply(e, p) /\ Len(p) \in 1 .. 7 /\ g[1] = SingleFrame(p)
  <2>1. PICK p : Reply(e, p) /\ Len(p) \in 1 .. 7 /\ g[1] = SingleFrame(p)
    BY <1>15
  <2>2. p \in Seq(Bytes) /\ Len(p) \in 0 .. 7
    BY <2>1 DEF Reply
  <2>3. d = p
    BY <1>11, <2>1, <2>2, ReassembleSingle
  <2>4. raw[i] \in LinesOf(d)
    BY <1>13, <2>1, <2>3 DEF LinesOf
  <2> QED
    BY <1>7, <2>1, <2>3, <2>4
<1>16. CASE g[1][1] \in 16 .. 31 /\ g[1][3] \notin {65, 68}
  <2>1. g \in Seq(Seq(Bytes))
    <3>1. \A n \in 1 .. Len(g) : g[n] \in Seq(Bytes)
      BY <1>12, <1>14
    <3> QED
      BY <1>10, <3>1, SeqOver
  <2>2. \A n \in 1 .. Len(g) : g[n] # << >>
    <3>1. \A f \in B : f # << >>
      <4>1. Len(<< >>) = 0 /\ 0 # 8
        BY EmptySeq
      <4> QED
        BY <1>14, <4>1
    <3> QED
      BY <1>12, <3>1
  <2>3. Len(g[1]) = 8
    BY <1>12, <1>14
  <2>4. d[1] = g[1][3]
    BY <1>9, <1>10, <1>11, <1>16, <2>1, <2>2, <2>3, ReassembleFirst
  <2> QED
    BY <1>9, <1>16, <2>4
<1>17. CASE g[1][1] \in 32 .. 47
  <2>1. g[1][1] \in 32 .. 255
    BY <1>17
  <2>2. d = g[1]
    BY <1>11, <2>1, ReassembleOther
  <2>3. d[1] \in 32 .. 47
    BY <1>17, <2>2
  <2> DEFINE x == d[1]
  <2>4. x \in 32 .. 47 /\ x \in {65, 68}
    BY <1>9, <2>3
  <2> HIDE DEF x
  <2> QED
    BY <2>4
<1> QED
  BY <1>13, <1>15, <1>16, <1>17 DEF SentFrame

-----------------------------------------------------------------------------
(* The replies of the ECUs.                                                *)

\* The sum of eight bits of falling weight is a byte.
LEMMA BitsOfByte ==
  ASSUME NEW f, f \in [0 .. 7 -> Int],
         f[0] \in {0, 128}, f[1] \in {0, 64}, f[2] \in {0, 32}, f[3] \in {0, 16},
         f[4] \in {0, 8}, f[5] \in {0, 4}, f[6] \in {0, 2}, f[7] \in {0, 1}
  PROVE  SumFunction(f) \in Bytes
<1>1. SumFunction(f) = f[0] + f[0 + 1] + f[0 + 2] + f[0 + 3] + f[0 + 4] + f[0 + 5] + f[0 + 6] + f[0 + 7]
  <2>1. 0 \in Int /\ f \in [0 .. 0 + 7 -> Int]
    OBVIOUS
  <2> QED
    BY <2>1, SumOfEight, ZenonT(40)
<1> DEFINE x0 == f[0]
           x1 == f[1]
           x2 == f[2]
           x3 == f[3]
           x4 == f[4]
           x5 == f[5]
           x6 == f[6]
           x7 == f[7]
<1>2. SumFunction(f) = x0 + x1 + x2 + x3 + x4 + x5 + x6 + x7
  <2>1. 0 + 1 = 1 /\ 0 + 2 = 2 /\ 0 + 3 = 3 /\ 0 + 4 = 4 /\ 0 + 5 = 5 /\ 0 + 6 = 6 /\ 0 + 7 = 7
    OBVIOUS
  <2> QED
    BY <1>1, <2>1, Zenon
<1>3. /\ x0 \in {0, 128} /\ x1 \in {0, 64} /\ x2 \in {0, 32} /\ x3 \in {0, 16}
      /\ x4 \in {0, 8} /\ x5 \in {0, 4} /\ x6 \in {0, 2} /\ x7 \in {0, 1}
  OBVIOUS
<1> HIDE DEF x0, x1, x2, x3, x4, x5, x6, x7
<1>4. x0 + x1 + x2 + x3 + x4 + x5 + x6 + x7 \in 0 .. 255
  <2>1. /\ x0 \in Int /\ 0 <= x0 /\ x0 <= 128 /\ x1 \in Int /\ 0 <= x1 /\ x1 <= 64
        /\ x2 \in Int /\ 0 <= x2 /\ x2 <= 32 /\ x3 \in Int /\ 0 <= x3 /\ x3 <= 16
        /\ x4 \in Int /\ 0 <= x4 /\ x4 <= 8 /\ x5 \in Int /\ 0 <= x5 /\ x5 <= 4
        /\ x6 \in Int /\ 0 <= x6 /\ x6 <= 2 /\ x7 \in Int /\ 0 <= x7 /\ x7 <= 1
    BY <1>3
  <2> QED
    BY <2>1
<1> QED
  BY <1>2, <1>4 DEF Bytes

\* The bitmap of the PIDs supported is four bytes.
LEMMA BitmapBytes ==
  ASSUME NEW pids, NEW base
  PROVE  SupportBitmap(pids, base) \in Seq(Bytes) /\ Len(SupportBitmap(pids, base)) = 4
<1> DEFINE bit(i, j) == \E p \in pids : p = base + (i - 1) * 8 + j + 1 \/ (i = 4 /\ j = 7 /\ p > base + 32)
           f(i) == [j \in 0 .. 7 |-> IF bit(i, j) THEN 2^(7 - j) ELSE 0]
           byte(i) == SumFunction(f(i))
<1>1. ASSUME NEW i \in 1 .. 4 PROVE byte(i) \in Bytes
  <2> HIDE DEF bit
  <2>1. /\ 2^(7 - 0) = 128 /\ 2^(7 - 1) = 64 /\ 2^(7 - 2) = 32 /\ 2^(7 - 3) = 16
        /\ 2^(7 - 4) = 8 /\ 2^(7 - 5) = 4 /\ 2^(7 - 6) = 2 /\ 2^(7 - 7) = 1
    OBVIOUS
  <2> DEFINE g == f(i)
  <2>2. /\ g[0] \in {0, 128} /\ g[1] \in {0, 64} /\ g[2] \in {0, 32} /\ g[3] \in {0, 16}
        /\ g[4] \in {0, 8} /\ g[5] \in {0, 4} /\ g[6] \in {0, 2} /\ g[7] \in {0, 1}
    BY <2>1
  <2>3. g = [j \in 0 .. 7 |-> g[j]]
    OBVIOUS
  <2> HIDE DEF g, f
  <2>4. \A j \in 0 .. 7 : g[j] \in Int
    <3>1. \A j \in 0 .. 7 : j = 0 \/ j = 1 \/ j = 2 \/ j = 3 \/ j = 4 \/ j = 5 \/ j = 6 \/ j = 7
      OBVIOUS
    <3> QED
      BY <2>2, <3>1
  <2>5. g \in [0 .. 7 -> Int]
    BY <2>3, <2>4
  <2>6. SumFunction(g) \in Bytes
    BY <2>2, <2>5, BitsOfByte
  <2> QED
    BY <2>6 DEF g
<1> DEFINE q == [i \in 1 .. 4 |-> byte(i)]
<1>2. SupportBitmap(pids, base) = q
  BY DEF SupportBitmap
<1> HIDE DEF byte
<1>3. q \in [1 .. 4 -> Bytes]
  BY <1>1
<1> HIDE DEF q
<1>4. q \in Seq(Bytes) /\ Len(q) = 4
  <2> DEFINE n == 4
  <2>1. n \in Nat /\ q \in [1 .. n -> Bytes]
    BY <1>3
  <2> HIDE DEF n
  <2>2. q \in Seq(Bytes) /\ Len(q) = n
    BY <2>1, MapSeq
  <2> QED
    BY <2>2 DEF n
<1> QED
  BY <1>2, <1>4

\* A request of the client: a service, and for most of them what it is about.
RequestOk(r) ==
  /\ r \in Seq(Bytes) /\ r # << >> /\ r[1] \in {1, 2, 3, 4, 6, 7, 8, 9, 10}
  /\ r[1] \in {1, 2, 6, 8, 9} => Len(r) >= 2
  /\ r[1] = 2 => Len(r) >= 3

\* Codes are erased or as they were.
CodesInv == DOMAIN codes = 1 .. 2 /\ \A e \in 1 .. 2 : codes[e] \in {<< >>, Stored[e]}

\* A payload of two bytes and then some more.
LEMMA HeadedBy ==
  ASSUME NEW x \in Bytes, NEW y \in Bytes, NEW t \in Seq(Bytes)
  PROVE  /\ <<x, y>> \o t \in Seq(Bytes) /\ Len(<<x, y>> \o t) = 2 + Len(t) /\ Len(t) \in Nat
         /\ (<<x, y>> \o t)[1] = x /\ (<<x, y>> \o t)[2] = y /\ <<x, y>> \o t # << >>
<1> DEFINE h == <<x, y>>
<1>1. h \in Seq(Bytes) /\ Len(h) = 2 /\ h[1] = x /\ h[2] = y
  OBVIOUS
<1> HIDE DEF h
<1>2. /\ h \o t \in Seq(Bytes) /\ Len(h \o t) = Len(h) + Len(t)
      /\ \A i \in 1 .. Len(h) + Len(t) : (h \o t)[i] = IF i <= Len(h) THEN h[i] ELSE t[i - Len(h)]
  BY <1>1, ConcatProperties
<1>3. Len(t) \in Nat
  OBVIOUS
<1>4. Len(h \o t) = 2 + Len(t) /\ 1 \in 1 .. Len(h) + Len(t) /\ 2 \in 1 .. Len(h) + Len(t) /\ 1 <= Len(h) /\ 2 <= Len(h)
  BY <1>1, <1>2, <1>3
<1>5. Len(h \o t) # 0
  BY <1>3, <1>4
<1>6. h \o t # << >>
  BY <1>5, EmptySeq
<1> QED
  BY <1>1, <1>2, <1>3, <1>4, <1>6 DEF h

\* Three bytes and then some more.
LEMMA HeadedByThree ==
  ASSUME NEW x \in Bytes, NEW y \in Bytes, NEW z \in Bytes, NEW t \in Seq(Bytes)
  PROVE  /\ <<x, y, z>> \o t \in Seq(Bytes) /\ Len(<<x, y, z>> \o t) = 3 + Len(t) /\ Len(t) \in Nat
         /\ (<<x, y, z>> \o t)[1] = x /\ (<<x, y, z>> \o t)[3] = z /\ <<x, y, z>> \o t # << >>
<1> DEFINE h == <<x, y, z>>
<1>1. h \in Seq(Bytes) /\ Len(h) = 3 /\ h[1] = x /\ h[3] = z
  OBVIOUS
<1> HIDE DEF h
<1>2. /\ h \o t \in Seq(Bytes) /\ Len(h \o t) = Len(h) + Len(t)
      /\ \A i \in 1 .. Len(h) + Len(t) : (h \o t)[i] = IF i <= Len(h) THEN h[i] ELSE t[i - Len(h)]
  BY <1>1, ConcatProperties
<1>3. Len(t) \in Nat
  OBVIOUS
<1>4. Len(h \o t) = 3 + Len(t) /\ 1 \in 1 .. Len(h) + Len(t) /\ 3 \in 1 .. Len(h) + Len(t) /\ 1 <= Len(h) /\ 3 <= Len(h)
  BY <1>1, <1>2, <1>3
<1>5. Len(h \o t) # 0
  BY <1>3, <1>4
<1>6. h \o t # << >>
  BY <1>5, EmptySeq
<1> QED
  BY <1>1, <1>2, <1>3, <1>4, <1>6 DEF h

\* What the vehicle's data are, ECU by ECU.
LEMMA EcuData ==
  ASSUME NEW e \in 1 .. 2
  PROVE  /\ CanId[e] \in Nat /\ CanId[e] < 2048
         /\ DOMAIN PidData[e] \subseteq Bytes
         /\ \A p \in DOMAIN PidData[e] : PidData[e][p] \in Seq(Bytes) /\ Len(PidData[e][p]) \in 1 .. 4
         /\ Stored[e] \in Seq(Seq(Bytes)) /\ Len(Stored[e]) \in 1 .. 255
         /\ \A i \in 1 .. Len(Stored[e]) : Len(Stored[e][i]) = 2
<1>1. IsEcu(e)
  BY VehicleAssumption
<1> QED
  BY <1>1, Zenon DEF IsEcu, Bytes

\* The codes of an ECU, one pair after the other.
LEMMA CodesFlat ==
  ASSUME CodesInv, NEW e \in 1 .. 2
  PROVE  /\ Flat(codes[e]) \in Seq(Bytes) /\ Len(Flat(codes[e])) <= 510
         /\ Len(codes[e]) \in Bytes
<1>1. CASE codes[e] = << >>
  <2>1. Flat(codes[e]) = << >>
    BY <1>1, FlattenFew DEF Flat
  <2>2. << >> \in Seq(Bytes) /\ Len(<< >>) = 0
    BY EmptySeq
  <2>3. Len(codes[e]) = 0 /\ Flat(codes[e]) \in Seq(Bytes) /\ Len(Flat(codes[e])) = 0
    BY <1>1, <2>1, <2>2, Zenon
  <2>4. 0 \in Bytes /\ 0 <= 510
    BY DEF Bytes
  <2> QED
    BY <2>3, <2>4, Zenon
<1>2. CASE codes[e] = Stored[e]
  <2> DEFINE s == Stored[e]
  <2>1. s \in Seq(Seq(Bytes)) /\ Len(s) \in 1 .. 255 /\ \A i \in 1 .. Len(s) : Len(s[i]) = 2
    BY EcuData, SMTT(30)
  <2> HIDE DEF s
  <2>2. FlattenSeq(s) \in Seq(Bytes) /\ Len(FlattenSeq(s)) = 2 * Len(s)
    BY <2>1, FlattenPairs
  <2>3. 2 * Len(s) <= 510 /\ Len(s) \in Bytes
    <3> DEFINE n == Len(s)
    <3>1. n \in 1 .. 255
      BY <2>1
    <3> HIDE DEF n
    <3>2. 2 * n <= 510 /\ n \in Bytes
      BY <3>1 DEF Bytes
    <3> QED
      BY <3>2 DEF n
  <2> QED
    BY <1>2, <2>2, <2>3 DEF Flat, s
<1> QED
  BY <1>1, <1>2 DEF CodesInv

\* A payload that begins like neither is a reply, and no acknowledgement.
LEMMA OtherReply ==
  ASSUME NEW e, NEW d \in Seq(Bytes), d # << >>, IsSid(d[1]), d[1] \notin {65, 68}
  PROVE  Reply(e, d) /\ d # <<68>>
<1>1. <<68>>[1] = 68
  OBVIOUS
<1>2. d[1] # 68 /\ d[1] # 65
  OBVIOUS
<1>3. Reply(e, d)
  BY <1>2, Zenon DEF Reply
<1> QED
  BY <1>1, <1>2, <1>3

\* A reply to Mode 01: the PID and what belongs to it.
LEMMA PidReply ==
  ASSUME NEW e, NEW y \in Bytes, NEW t \in Seq(Bytes), Len(t) \in 1 .. 4,
         y % 32 = 0 \/ (y \in DOMAIN PidData[e] /\ t = PidData[e][y])
  PROVE  Reply(e, <<65, y>> \o t) /\ Len(<<65, y>> \o t) <= 600 /\ <<65, y>> \o t # <<68>>
<1> DEFINE d == <<65, y>> \o t
<1>1. 65 \in Bytes
  BY DEF Bytes
<1>2. d \in Seq(Bytes) /\ Len(d) = 2 + Len(t) /\ d[1] = 65 /\ d[2] = y /\ d # << >>
  BY <1>1, HeadedBy
<1>3. d[2] % 32 = 0 \/ (d[2] \in DOMAIN PidData[e] /\ d = <<65, d[2]>> \o PidData[e][d[2]])
  BY <1>2
<1> HIDE DEF d
<1>4. Len(d) \in 2 .. 6 /\ Len(d) <= 600
  <2> DEFINE n == Len(t)
             m == Len(d)
  <2>1. n \in 1 .. 4 /\ m = 2 + n
    BY <1>2
  <2> HIDE DEF n, m
  <2>2. m \in 2 .. 6 /\ m <= 600
    BY <2>1
  <2> QED
    BY <2>2 DEF m
<1>5. <<68>>[1] = 68 /\ 65 # 68 /\ IsSid(65)
  BY DEF IsSid
<1>6. Reply(e, d)
  BY <1>2, <1>3, <1>4, <1>5, Zenon DEF Reply
<1>7. d # <<68>>
  BY <1>2, <1>5
<1> QED
  BY <1>4, <1>6, <1>7 DEF d

\* Another reply of two bytes and then some more.
LEMMA LongReply ==
  ASSUME NEW e, NEW x \in Bytes, NEW y \in Bytes, NEW t \in Seq(Bytes), IsSid(x), x # 65, x # 68, Len(t) <= 510
  PROVE  Reply(e, <<x, y>> \o t) /\ Len(<<x, y>> \o t) <= 600 /\ <<x, y>> \o t # <<68>>
<1> DEFINE a == <<x, y>> \o t
<1>1. a \in Seq(Bytes) /\ a # << >> /\ a[1] = x /\ Len(a) = 2 + Len(t) /\ Len(t) \in Nat
  BY HeadedBy
<1> HIDE DEF a
<1>2. Len(a) <= 600 /\ a[1] \notin {65, 68} /\ IsSid(a[1])
  BY <1>1
<1>3. Reply(e, a) /\ a # <<68>>
  BY <1>1, <1>2, OtherReply
<1> QED
  BY <1>2, <1>3 DEF a

\* What an ECU answers: a reply, and an acknowledgement only for a clear that it
\* accepted.
LEMMA EcuReply ==
  ASSUME CodesInv, NEW e \in 1 .. 2, NEW req, RequestOk(req), NEW accepts \in BOOLEAN,
         EcuAnswer(e, req, accepts) # << >>
  PROVE  /\ Reply(e, EcuAnswer(e, req, accepts)) /\ Len(EcuAnswer(e, req, accepts)) <= 600
         /\ EcuAnswer(e, req, accepts) = <<68>> => req[1] = 4 /\ accepts
<1> DEFINE a == EcuAnswer(e, req, accepts)
           sid == req[1]
           has == Len(req) > 1 /\ req[2] \in DOMAIN PidData[e]
<1>1. /\ Len(req) \in Nat /\ Len(req) >= 1 /\ \A i \in 1 .. Len(req) : req[i] \in Bytes
      /\ sid \in {1, 2, 3, 4, 6, 7, 8, 9, 10}
  <2>1. req \in Seq(Bytes) /\ req # << >>
    BY DEF RequestOk
  <2>2. Len(req) \in Nat /\ Len(req) # 0 /\ \A i \in 1 .. Len(req) : req[i] \in Bytes
    BY <2>1, LenProperties, EmptySeq
  <2>3. Len(req) >= 1
    BY <2>2
  <2> QED
    BY <2>2, <2>3 DEF RequestOk
<1>2. sid \in {1, 2, 6, 8, 9} => req[2] \in Bytes
  <2>1. sid \in {1, 2, 6, 8, 9} => 2 \in 1 .. Len(req)
    BY <1>1 DEF RequestOk
  <2> QED
    BY <1>1, <2>1
<1>3. sid = 2 => req[3] \in Bytes
  <2>1. sid = 2 => 3 \in 1 .. Len(req)
    BY <1>1 DEF RequestOk
  <2> QED
    BY <1>1, <2>1
<1>5. CASE sid = 1 /\ req[2] % 32 = 0
  <2>1. a = <<65, req[2]>> \o SupportBitmap(DOMAIN PidData[e], req[2])
    BY <1>5 DEF EcuAnswer
  <2> DEFINE t == SupportBitmap(DOMAIN PidData[e], req[2])
             y == req[2]
  <2>2. t \in Seq(Bytes) /\ Len(t) = 4
    BY BitmapBytes
  <2>3. y \in Bytes /\ y % 32 = 0 /\ Len(t) \in 1 .. 4
    BY <1>2, <1>5, <2>2
  <2>4. a = <<65, y>> \o t
    BY <2>1
  <2> HIDE DEF t, y, a
  <2> QED
    BY <2>2, <2>3, <2>4, PidReply, ZenonT(40) DEF a
<1>6. CASE sid = 1 /\ req[2] % 32 # 0
  <2>1. has /\ a = <<65, req[2]>> \o PidData[e][req[2]]
    BY <1>6 DEF EcuAnswer
  <2> DEFINE y == req[2]
             t == PidData[e][y]
  <2>2. y \in DOMAIN PidData[e] /\ y \in Bytes
    BY <1>2, <1>6, <2>1
  <2>3. t \in Seq(Bytes) /\ Len(t) \in 1 .. 4
    BY <2>2, EcuData
  <2>4. a = <<65, y>> \o t
    BY <2>1
  <2> HIDE DEF y, a
  <2> QED
    BY <2>2, <2>3, <2>4, PidReply DEF a
<1>7. CASE sid = 2
  <2>1. has /\ a = <<66, req[2], req[3]>> \o PidData[e][req[2]]
    BY <1>7 DEF EcuAnswer
  <2> DEFINE t == PidData[e][req[2]]
  <2>2. t \in Seq(Bytes) /\ Len(t) \in 1 .. 4
    <3>1. req[2] \in DOMAIN PidData[e]
      BY <2>1
    <3>2. \A p \in DOMAIN PidData[e] : PidData[e][p] \in Seq(Bytes) /\ Len(PidData[e][p]) \in 1 .. 4
      BY EcuData
    <3> QED
      BY <3>1, <3>2, Zenon
  <2>3. 66 \in Bytes
    BY DEF Bytes
  <2> HIDE DEF t
  <2>4. a \in Seq(Bytes) /\ a # << >> /\ a[1] = 66 /\ Len(a) = 3 + Len(t)
    BY <1>2, <1>3, <1>7, <2>1, <2>2, <2>3, HeadedByThree DEF t
  <2> HIDE DEF a, has
  <2>5. Len(a) <= 600 /\ a[1] \notin {65, 68} /\ IsSid(a[1])
    <3> DEFINE n == Len(t)
               m == Len(a)
    <3>1. n \in 1 .. 4 /\ m = 3 + n
      BY <2>2, <2>4
    <3> HIDE DEF n, m
    <3>2. m <= 600
      BY <3>1
    <3> QED
      BY <2>4, <3>2 DEF m, IsSid
  <2>6. Reply(e, a) /\ a # <<68>>
    BY <2>4, <2>5, OtherReply
  <2> QED
    BY <2>5, <2>6 DEF a
<1>8. CASE sid = 3
  <2>1. a = <<67, Len(codes[e])>> \o Flat(codes[e])
    BY <1>8 DEF EcuAnswer
  <2>2. 67 \in Bytes /\ 67 # 65 /\ 67 # 68 /\ IsSid(67)
    BY DEF Bytes, IsSid
  <2>3. Flat(codes[e]) \in Seq(Bytes) /\ Len(Flat(codes[e])) <= 510 /\ Len(codes[e]) \in Bytes
    BY CodesFlat
  <2> DEFINE t == Flat(codes[e])
             y == Len(codes[e])
  <2> HIDE DEF t, y
  <2>4. Reply(e, <<67, y>> \o t) /\ Len(<<67, y>> \o t) <= 600 /\ <<67, y>> \o t # <<68>>
    BY <2>2, <2>3, LongReply DEF t, y
  <2> HIDE DEF a, has
  <2>5. a = <<67, y>> \o t
    BY <2>1 DEF t, y
  <2> QED
    BY <2>4, <2>5 DEF a
<1>9. CASE sid \in {7, 10}
  <2>1. a = <<sid + 64, 1>> \o Stored[e][1]
    <3>1. sid # 1 /\ sid # 2 /\ sid # 3 /\ sid # 4 /\ sid # 8 /\ sid # 6 /\ sid # 9
      BY <1>9
    <3> HIDE DEF has
    <3> QED
      BY <1>9, <3>1, Zenon DEF EcuAnswer
  <2>2. sid + 64 \in Bytes /\ sid + 64 # 65 /\ sid + 64 # 68 /\ 1 \in Bytes /\ IsSid(sid + 64)
    BY <1>9 DEF Bytes, IsSid
  <2>3. Stored[e][1] \in Seq(Bytes) /\ Len(Stored[e][1]) <= 510
    <3> DEFINE s == Stored[e]
    <3>1. s \in Seq(Seq(Bytes)) /\ Len(s) \in 1 .. 255 /\ \A i \in 1 .. Len(s) : Len(s[i]) = 2
      BY EcuData, SMTT(30)
    <3> HIDE DEF s
    <3>2. 1 \in 1 .. Len(s)
      <4> DEFINE n == Len(s)
      <4>1. n \in 1 .. 255
        BY <3>1
      <4> HIDE DEF n
      <4>2. 1 \in 1 .. n
        BY <4>1
      <4> QED
        BY <4>2 DEF n
    <3>3. s[1] \in Seq(Bytes) /\ Len(s[1]) = 2
      BY <3>1, <3>2, ElementOfSeq
    <3> QED
      BY <3>3 DEF s
  <2> DEFINE t == Stored[e][1]
             x == sid + 64
  <2> HIDE DEF t, x, sid, a, has
  <2>4. Reply(e, <<x, 1>> \o t) /\ Len(<<x, 1>> \o t) <= 600 /\ <<x, 1>> \o t # <<68>>
    BY <2>2, <2>3, LongReply, ZenonT(40) DEF t, x
  <2>5. a = <<x, 1>> \o t
    BY <2>1 DEF t, x
  <2> QED
    BY <2>4, <2>5 DEF a
<1>10. CASE sid = 4
  <2>1. a = IF accepts THEN <<68>> ELSE <<127, 4, 34>>
    BY <1>10 DEF EcuAnswer
  <2>2. CASE accepts
    <3>1. a = <<68>>
      BY <2>1, <2>2
    <3>2. <<68>> \in Seq(Bytes) /\ Len(<<68>>) = 1 /\ <<68>>[1] = 68 /\ <<68>> # << >> /\ 68 # 65 /\ 1 <= 600
         /\ IsSid(68)
      BY DEF Bytes, IsSid
    <3> HIDE DEF a, sid, has
    <3>3. Reply(e, a)
      BY <3>1, <3>2, Zenon DEF Reply
    <3>4. Len(a) <= 600
      BY <3>1, <3>2, Zenon
    <3> QED
      BY <1>10, <2>2, <3>3, <3>4 DEF a, sid
  <2>3. CASE ~accepts
    <3>1. a = <<127, 4, 34>>
      BY <2>1, <2>3
    <3>2. <<127, 4, 34>> \in Seq(Bytes) /\ Len(<<127, 4, 34>>) <= 600 /\ <<127, 4, 34>>[1] \notin {65, 68} /\ <<127, 4, 34>> # << >>
         /\ IsSid(<<127, 4, 34>>[1])
      BY DEF Bytes, IsSid
    <3> HIDE DEF a, sid, has
    <3>3. Reply(e, a) /\ a # <<68>> /\ Len(a) <= 600
      BY <3>1, <3>2, OtherReply
    <3> QED
      BY <3>3 DEF a
  <2> QED
    BY <2>2, <2>3
<1>11. CASE sid = 8
  <2>1. a = <<72, req[2], 7>>
    BY <1>11 DEF EcuAnswer
  <2>2. req[2] \in Bytes
    BY <1>2, <1>11
  <2> DEFINE y == req[2]
  <2> HIDE DEF y
  <2>3. <<72, y, 7>> \in Seq(Bytes) /\ Len(<<72, y, 7>>) <= 600 /\ <<72, y, 7>>[1] \notin {65, 68} /\ <<72, y, 7>> # << >>
       /\ IsSid(<<72, y, 7>>[1])
    BY <2>2 DEF Bytes, y, IsSid
  <2>4. a = <<72, y, 7>>
    BY <2>1 DEF y
  <2> HIDE DEF a, sid, has
  <2>5. Reply(e, a) /\ a # <<68>> /\ Len(a) <= 600
    BY <2>3, <2>4, OtherReply
  <2> QED
    BY <2>5 DEF a
<1>12. CASE sid = 6
  <2>1. a = <<70, req[2], 1, 10, 1, 2, 0, 0, 255, 255>>
    BY <1>12 DEF EcuAnswer
  <2>2. req[2] \in Bytes
    BY <1>2, <1>12
  <2> DEFINE y == req[2]
             p == <<70, y, 1, 10, 1, 2, 0, 0, 255, 255>>
  <2> HIDE DEF y
  <2>3. p \in Seq(Bytes) /\ Len(p) <= 600 /\ p[1] \notin {65, 68} /\ p # << >> /\ IsSid(p[1])
    BY <2>2 DEF Bytes, y, IsSid
  <2>4. a = p
    BY <2>1 DEF y
  <2> HIDE DEF a, sid, p, has
  <2>5. Reply(e, a) /\ a # <<68>> /\ Len(a) <= 600
    BY <2>3, <2>4, OtherReply
  <2> QED
    BY <2>5 DEF a
<1>13. CASE sid = 9
  <2>1. a = <<73, req[2], 1, 0, 65, 32, 66>>
    BY <1>13 DEF EcuAnswer
  <2>2. req[2] \in Bytes
    BY <1>2, <1>13
  <2> DEFINE y == req[2]
             p == <<73, y, 1, 0, 65, 32, 66>>
  <2> HIDE DEF y
  <2>3. p \in Seq(Bytes) /\ Len(p) <= 600 /\ p[1] \notin {65, 68} /\ p # << >> /\ IsSid(p[1])
    BY <2>2 DEF Bytes, y, IsSid
  <2>4. a = p
    BY <2>1 DEF y
  <2> HIDE DEF a, sid, p, has
  <2>5. Reply(e, a) /\ a # <<68>> /\ Len(a) <= 600
    BY <2>3, <2>4, OtherReply
  <2> QED
    BY <2>5 DEF a
<1> QED
  <2> HIDE DEF a, has
  <2>1. Reply(e, a) /\ Len(a) <= 600 /\ (a = <<68>> => sid = 4 /\ accepts)
    BY <1>1, <1>5, <1>6, <1>7, <1>8, <1>9, <1>10, <1>11, <1>12, <1>13 DEF a
  <2> QED
    BY <2>1 DEF a

-----------------------------------------------------------------------------
(* Their frames, and the lines that the adapter prints.                    *)

\* A frame is filled up to eight bytes.
LEMMA PadBytes ==
  ASSUME NEW h \in Seq(Bytes), Len(h) \in 1 .. 8
  PROVE  /\ PadTo8(h) \in Seq(Bytes) /\ Len(PadTo8(h)) = 8
         /\ \A i \in 1 .. Len(h) : PadTo8(h)[i] = h[i]
<1> DEFINE n == Len(h)
           pad == [i \in 1 .. 8 - Len(h) |-> 170]
           m == 8 - n
<1>1. n \in Nat /\ n \in 1 .. 8 /\ m \in Nat /\ 170 \in Bytes
  <2>1. n \in 1 .. 8
    OBVIOUS
  <2> HIDE DEF n
  <2> QED
    BY <2>1 DEF Bytes
<1>2. pad \in [1 .. m -> Bytes]
  BY <1>1
<1> HIDE DEF m
<1>3. pad \in Seq(Bytes) /\ Len(pad) = m
  BY <1>1, <1>2, MapSeq, ZenonT(40)
<1> HIDE DEF pad
<1>4. /\ h \o pad \in Seq(Bytes) /\ Len(h \o pad) = Len(h) + Len(pad)
      /\ \A i \in 1 .. Len(h) + Len(pad) : (h \o pad)[i] = IF i <= Len(h) THEN h[i] ELSE pad[i - Len(h)]
  BY <1>3, ConcatProperties
<1>5. PadTo8(h) = h \o pad
  BY DEF PadTo8, pad
<1>6. n + m = 8
  BY <1>1 DEF m
<1>7. Len(h \o pad) = 8
  BY <1>3, <1>4, <1>6 DEF n
<1>8. ASSUME NEW i \in 1 .. n PROVE (h \o pad)[i] = h[i]
  <2>1. i \in 1 .. n + m /\ i <= n
    BY <1>1
  <2> QED
    BY <1>3, <1>4, <2>1 DEF n
<1> QED
  BY <1>4, <1>5, <1>7, <1>8 DEF n

\* The acknowledgement of a clear is one frame, and no other frame looks like it.
LEMMA AckFrame ==
  ASSUME NEW e, NEW d, Reply(e, d), Len(d) \in 1 .. 7, SingleFrame(d) = SingleFrame(<< 68 >>)
  PROVE  d = <<68>>
<1>1. d \in Seq(Bytes) /\ Len(d) \in 0 .. 7
  BY DEF Reply
<1>2. <<68>> \in Seq(Bytes) /\ Len(<<68>>) = 1 /\ Len(<<68>>) \in 0 .. 7 /\ <<68>>[1] = 68
  BY DEF Bytes
<1>3. SingleFrame(d)[1] = Len(d) /\ \A i \in 1 .. Len(d) : SingleFrame(d)[i + 1] = d[i]
  BY <1>1, SingleFrameBytes
<1>4. SingleFrame(<<68>>)[1] = 1 /\ SingleFrame(<<68>>)[1 + 1] = 68
  <2> DEFINE c == <<68>>
  <2>1. c \in Seq(Bytes) /\ Len(c) \in 0 .. 7 /\ 1 \in 1 .. Len(c) /\ Len(c) = 1 /\ c[1] = 68
    BY <1>2
  <2> HIDE DEF c
  <2>2. SingleFrame(c)[1] = Len(c) /\ \A i \in 1 .. Len(c) : SingleFrame(c)[i + 1] = c[i]
    BY <2>1, SingleFrameBytes
  <2>3. SingleFrame(c)[1] = 1 /\ SingleFrame(c)[1 + 1] = 68
    BY <2>1, <2>2
  <2> QED
    BY <2>3 DEF c
<1>5. Len(d) = 1
  BY <1>3, <1>4
<1>6. 1 \in 1 .. Len(d)
  BY <1>5
<1>7. d[1] = 68
  BY <1>3, <1>4, <1>6
<1> QED
  BY <1>7 DEF Reply

\* The frames of a reply are frames that its ECU sends; one that looks like the
\* acknowledgement of a clear is one.
LEMMA IsoTpFrames ==
  ASSUME NEW e \in 1 .. 2, NEW d, Reply(e, d), Len(d) <= 600
  PROVE  /\ IsoTp(d) \in Seq(Seq(Bytes))
         /\ \A i \in 1 .. Len(IsoTp(d)) :
              /\ SentFrame(e, IsoTp(d)[i])
              /\ IsoTp(d)[i] = SingleFrame(<<68>>) => d = <<68>>
         /\ Len(d) <= 7 => IsoTp(d) = <<SingleFrame(d)>>
<1>1. d \in Seq(Bytes) /\ d # << >> /\ Len(d) \in Nat /\ Len(d) # 0
  <2>1. d \in Seq(Bytes) /\ d # << >>
    BY DEF Reply
  <2> QED
    BY <2>1, EmptySeq, LenProperties
<1>2. CASE Len(d) <= 7
  <2>1. IsoTp(d) = <<SingleFrame(d)>>
    BY <1>2 DEF IsoTp, SingleFrame
  <2>2. Len(d) \in 1 .. 7 /\ Len(d) \in 0 .. 7
    <3> DEFINE m == Len(d)
    <3>1. m \in Nat /\ m # 0 /\ m <= 7
      BY <1>1, <1>2
    <3> HIDE DEF m
    <3>2. m \in 1 .. 7 /\ m \in 0 .. 7
      BY <3>1
    <3> QED
      BY <3>2 DEF m
  <2>3. SingleFrame(d) \in Seq(Bytes) /\ Len(SingleFrame(d)) = 8
    BY <1>1, <2>2, SingleFrameBytes
  <2>4. SentFrame(e, SingleFrame(d))
    BY <2>2, <2>3 DEF SentFrame
  <2>5. SingleFrame(d) = SingleFrame(<<68>>) => d = <<68>>
    BY <2>2, AckFrame
  <2> DEFINE f == SingleFrame(d)
             c == SingleFrame(<<68>>)
  <2> HIDE DEF f, c
  <2>6. <<f>> \in Seq(Seq(Bytes)) /\ \A i \in 1 .. Len(<<f>>) : <<f>>[i] = f
    BY <2>3 DEF f
  <2> QED
    BY <2>1, <2>4, <2>5, <2>6 DEF f, c
<1>3. CASE ~(Len(d) <= 7)
  <2> DEFINE L == Len(d)
             n == (L - 6 + 6) \div 7
             head == <<16 + (L \div 256), L % 256>>
             first == head \o SubSeq(d, 1, 6)
             end(k) == IF 7 * k + 6 < L THEN 7 * k + 6 ELSE L
             rest == [k \in 1 .. n |-> PadTo8(<<32 + (k % 16)>> \o SubSeq(d, 7 * k, end(k)))]
  <2>1. IsoTp(d) = <<first>> \o rest
    BY <1>3, SMTT(30) DEF IsoTp
  <2>2. L \in Nat /\ L >= 8 /\ L <= 600
    BY <1>1, <1>3
  <2>3. \A i \in 1 .. L : d[i] \in Bytes
    BY <1>1, ElementOfSeq
  <2>4. d[1] \notin {65, 68}
    <3>1. d[1] # 68
      <4>1. <<68>> \in Seq(Bytes) /\ Len(<<68>>) = 1
        BY DEF Bytes
      <4> QED
        BY <2>2, <4>1 DEF Reply
    <3>2. d[1] # 65
      <4>1. d[1] = 65 => L \in 2 .. 6
        BY DEF Reply
      <4> HIDE DEF L
      <4> QED
        BY <2>2, <4>1
    <3> QED
      BY <3>1, <3>2
  <2> HIDE DEF L
  <2>5. 16 + (L \div 256) \in 16 .. 18 /\ L % 256 \in 0 .. 255 /\ n \in Nat /\ 7 * n <= L
    BY <2>2
  <2>6. first \in Seq(Bytes) /\ Len(first) = 8 /\ first[1] \in 16 .. 31 /\ first[3] = d[1]
    <3>1. head \in Seq(Bytes) /\ Len(head) = 2 /\ head[1] = 16 + (L \div 256)
      <4> DEFINE x == 16 + (L \div 256)
                 y == L % 256
      <4>1. x \in Bytes /\ y \in Bytes
        BY <2>5 DEF Bytes
      <4> HIDE DEF x, y
      <4>2. <<x, y>> \in Seq(Bytes) /\ Len(<<x, y>>) = 2 /\ <<x, y>>[1] = x
        BY <4>1
      <4> QED
        BY <4>2 DEF x, y
    <3> DEFINE six == SubSeq(d, 1, 6)
    <3>2. six \in Seq(Bytes) /\ Len(six) = 6 /\ six[1] = d[1]
      <4>1. 1 \in Int /\ 6 \in Int /\ \A i \in 1 .. 6 : d[i] \in Bytes
        BY <2>2, <2>3
      <4>2. /\ SubSeq(d, 1, 6) \in Seq(Bytes)
            /\ Len(SubSeq(d, 1, 6)) = IF 1 <= 6 THEN 6 - 1 + 1 ELSE 0
            /\ \A i \in 1 .. 6 - 1 + 1 : SubSeq(d, 1, 6)[i] = d[1 + i - 1]
        BY <1>1, <4>1, SubSeqProperties
      <4>3. 6 - 1 + 1 = 6 /\ 1 \in 1 .. 6 /\ 1 + 1 - 1 = 1
        OBVIOUS
      <4> QED
        BY <4>2, <4>3
    <3> HIDE DEF six, head
    <3>3. head \in Seq(Bytes) /\ six \in Seq(Bytes)
      BY <3>1, <3>2
    <3>4. /\ head \o six \in Seq(Bytes) /\ Len(head \o six) = Len(head) + Len(six)
          /\ \A x \in 1 .. Len(head) : (head \o six)[x] = head[x]
          /\ \A x \in 1 .. Len(six) : (head \o six)[Len(head) + x] = six[x]
      BY <3>3, Joined
    <3>5. Len(head) + Len(six) = 8 /\ (head \o six)[1] = head[1] /\ (head \o six)[3] = six[1]
      <4>1. 2 + 6 = 8 /\ 1 \in 1 .. 2 /\ 1 \in 1 .. 6 /\ 2 + 1 = 3
        OBVIOUS
      <4> QED
        BY <3>1, <3>2, <3>4, <4>1, SMTT(30)
    <3>6. head[1] \in 16 .. 31
      BY <2>5, <3>1
    <3> QED
      BY <3>2, <3>4, <3>5, <3>6, Zenon DEF six
  <2>7. ASSUME NEW k \in 1 .. n
        PROVE  /\ rest[k] \in Seq(Bytes) /\ Len(rest[k]) = 8 /\ rest[k][1] \in 32 .. 47
    <3> DEFINE x == 32 + (k % 16)
               part == SubSeq(d, 7 * k, end(k))
    <3>1. k \in Nat /\ k >= 1 /\ 7 * k <= L
      BY <2>2, <2>5
    <3>2. x \in 32 .. 47 /\ x \in Bytes
      BY <3>1 DEF Bytes
    <3>3. 7 * k \in Int /\ end(k) \in Int /\ 7 * k <= end(k) /\ end(k) <= 7 * k + 6 /\ end(k) <= L
      BY <2>2, <3>1
    <3>4. part \in Seq(Bytes) /\ Len(part) \in 1 .. 7
      <4> DEFINE a == 7 * k
                 b == end(k)
      <4>1. a \in Int /\ b \in Int /\ a <= b /\ b <= a + 6 /\ a >= 1 /\ b <= L
        <5>1. 7 * k >= 1
          BY <3>1
        <5> HIDE DEF end
        <5> QED
          BY <3>3, <5>1
      <4> HIDE DEF a, b
      <4>2. \A i \in a .. b : d[i] \in Bytes
        BY <2>2, <2>3, <4>1
      <4>3. /\ SubSeq(d, a, b) \in Seq(Bytes)
            /\ Len(SubSeq(d, a, b)) = IF a <= b THEN b - a + 1 ELSE 0
        BY <1>1, <4>1, <4>2, SubSeqProperties
      <4>4. b - a + 1 \in 1 .. 7
        BY <4>1
      <4> QED
        BY <4>1, <4>3, <4>4 DEF a, b
    <3>5. rest[k] = PadTo8(<<x>> \o part)
      OBVIOUS
    <3> HIDE DEF x, part, end, rest
    <3>6. <<x>> \in Seq(Bytes) /\ Len(<<x>>) = 1 /\ <<x>>[1] = x
      BY <3>2
    <3> DEFINE h == <<x>>
    <3> HIDE DEF h
    <3>7. /\ h \o part \in Seq(Bytes) /\ Len(h \o part) = Len(h) + Len(part)
          /\ \A i \in 1 .. Len(h) + Len(part) : (h \o part)[i] = IF i <= Len(h) THEN h[i] ELSE part[i - Len(h)]
      BY <3>4, <3>6, ConcatProperties DEF h
    <3>8. Len(h) = 1 /\ h[1] = x
      BY <3>6 DEF h
    <3>9. Len(h \o part) \in 1 .. 8 /\ 1 \in 1 .. Len(h \o part) /\ 1 \in 1 .. Len(h) + Len(part) /\ 1 <= Len(h)
      <4> DEFINE p == Len(part)
      <4>1. p \in 1 .. 7 /\ Len(h \o part) = 1 + p
        BY <3>4, <3>7, <3>8
      <4> HIDE DEF p
      <4>2. 1 + p \in 1 .. 8 /\ 1 \in 1 .. 1 + p /\ 1 <= 1
        BY <4>1
      <4> QED
        BY <3>7, <3>8, <4>1, <4>2
    <3>10. (h \o part)[1] = x
      BY <3>7, <3>8, <3>9
    <3> DEFINE hp == h \o part
    <3>11. hp \in Seq(Bytes) /\ Len(hp) \in 1 .. 8 /\ 1 \in 1 .. Len(hp) /\ hp[1] = x
      BY <3>7, <3>9, <3>10
    <3> HIDE DEF hp
    <3>12. PadTo8(hp) \in Seq(Bytes) /\ Len(PadTo8(hp)) = 8 /\ PadTo8(hp)[1] = x
      BY <3>11, PadBytes
    <3> QED
      BY <3>2, <3>5, <3>12 DEF hp, h
  <2> HIDE DEF first, head, end
  <2>8. rest \in [1 .. n -> Seq(Bytes)]
    BY <2>7
  <2> HIDE DEF rest, n
  <2>9. rest \in Seq(Seq(Bytes)) /\ Len(rest) = n
    BY <2>5, <2>8, MapSeq
  <2> DEFINE one == <<first>>
  <2>10. one \in Seq(Seq(Bytes)) /\ Len(one) = 1 /\ one[1] = first
    BY <2>6
  <2> HIDE DEF one
  <2>11. /\ one \o rest \in Seq(Seq(Bytes))
         /\ \A i \in 1 .. Len(one) : (one \o rest)[i] = one[i]
         /\ \A k \in 1 .. Len(rest) : (one \o rest)[Len(one) + k] = rest[k]
         /\ \A i \in 1 .. Len(one \o rest) :
              i \in 1 .. Len(one) \/ (i - Len(one) \in 1 .. Len(rest) /\ i = Len(one) + (i - Len(one)))
    <3>1. one \in Seq(Seq(Bytes)) /\ rest \in Seq(Seq(Bytes))
      BY <2>9, <2>10
    <3> QED
      BY <3>1, Joined
  <2>12. ASSUME NEW i \in 1 .. Len(one \o rest)
         PROVE  (one \o rest)[i] = first \/ \E k \in 1 .. n : (one \o rest)[i] = rest[k]
    <3>1. CASE i \in 1 .. Len(one)
      <4>1. i = 1
        BY <2>10, <3>1
      <4> QED
        BY <2>10, <2>11, <3>1, <4>1
    <3>2. CASE i - Len(one) \in 1 .. Len(rest) /\ i = Len(one) + (i - Len(one))
      BY <2>9, <2>11, <3>2
    <3> QED
      BY <2>11, <3>1, <3>2
  <2>13. ASSUME NEW f, f[1] \in 16 .. 47
         PROVE  f # SingleFrame(<<68>>)
    <3> DEFINE c == <<68>>
    <3>1. c \in Seq(Bytes) /\ Len(c) \in 0 .. 7 /\ Len(c) = 1
      BY DEF Bytes
    <3> HIDE DEF c
    <3>2. SingleFrame(c)[1] = 1
      BY <3>1, SingleFrameBytes
    <3>3. \A x \in 16 .. 47 : x # 1
      OBVIOUS
    <3> QED
      BY <2>13, <3>2, <3>3, Zenon DEF c
  <2>14. SentFrame(e, first) /\ first # SingleFrame(<<68>>)
    <3>1. first[1] \in 16 .. 47
      BY <2>6
    <3> QED
      BY <2>4, <2>6, <2>13, <3>1 DEF SentFrame
  <2>15. \A k \in 1 .. n : SentFrame(e, rest[k]) /\ rest[k] # SingleFrame(<<68>>)
    <3>1. \A k \in 1 .. n : rest[k][1] \in 16 .. 47
      BY <2>7
    <3> QED
      BY <2>7, <2>13, <3>1 DEF SentFrame
  <2>16. IsoTp(d) = one \o rest
    BY <2>1 DEF one
  <2>17. ~(Len(d) <= 7)
    BY <1>3
  <2> DEFINE all == one \o rest
             c == SingleFrame(<<68>>)
  <2>18. all \in Seq(Seq(Bytes)) /\ \A i \in 1 .. Len(all) : SentFrame(e, all[i]) /\ all[i] # c
    <3>1. all \in Seq(Seq(Bytes))
      BY <2>11
    <3>2. \A i \in 1 .. Len(all) : all[i] = first \/ \E k \in 1 .. n : all[i] = rest[k]
      BY <2>12
    <3> HIDE DEF all
    <3> QED
      BY <2>14, <2>15, <3>1, <3>2, Zenon
  <2> HIDE DEF all, c
  <2> QED
    BY <2>16, <2>17, <2>18 DEF all, c
<1> QED
  BY <1>2, <1>3

\* A beginning and what is left after it are the sequence.
LEMMA PrefixAndDrop ==
  ASSUME NEW T, NEW s \in Seq(T), NEW n \in 0 .. Len(s)
  PROVE  /\ Prefix(s, n) \in Seq(T) /\ Len(Prefix(s, n)) = n
         /\ \A i \in 1 .. n : Prefix(s, n)[i] = s[i]
         /\ Drop(s, n) \in Seq(T) /\ Len(Drop(s, n)) = Len(s) - n
         /\ \A i \in 1 .. Len(s) - n : Drop(s, n)[i] = s[n + i]
         /\ Prefix(s, n) \o Drop(s, n) = s
<1>1. n \in Nat /\ Len(s) \in Nat /\ n <= Len(s) /\ \A i \in 1 .. Len(s) : s[i] \in T
  BY ElementOfSeq
<1> DEFINE p == Prefix(s, n)
           d == Drop(s, n)
<1>2. p \in Seq(T) /\ Len(p) = n /\ \A i \in 1 .. n : p[i] = s[i]
  <2>1. 1 \in Int /\ n \in Int /\ \A i \in 1 .. n : s[i] \in T
    BY <1>1
  <2>2. /\ p \in Seq(T) /\ Len(p) = IF 1 <= n THEN n - 1 + 1 ELSE 0
        /\ \A i \in 1 .. n - 1 + 1 : p[i] = s[1 + i - 1]
    BY <2>1, SubSeqProperties DEF Prefix
  <2> HIDE DEF p
  <2>3. n - 1 + 1 = n /\ (\A i \in 1 .. n : 1 + i - 1 = i) /\ (IF 1 <= n THEN n - 1 + 1 ELSE 0) = n
    BY <1>1
  <2> QED
    BY <2>2, <2>3
<1>3. d \in Seq(T) /\ Len(d) = Len(s) - n /\ \A i \in 1 .. Len(s) - n : d[i] = s[n + i]
  <2>1. n + 1 \in Int /\ Len(s) \in Int /\ \A i \in n + 1 .. Len(s) : s[i] \in T
    BY <1>1
  <2>2. /\ d \in Seq(T) /\ Len(d) = IF n + 1 <= Len(s) THEN Len(s) - (n + 1) + 1 ELSE 0
        /\ \A i \in 1 .. Len(s) - (n + 1) + 1 : d[i] = s[(n + 1) + i - 1]
    BY <2>1, SubSeqProperties DEF Drop
  <2> DEFINE m == Len(s)
  <2> HIDE DEF d, m
  <2>3. /\ m - (n + 1) + 1 = m - n /\ (\A i \in 1 .. m - n : (n + 1) + i - 1 = n + i)
        /\ (IF n + 1 <= m THEN m - (n + 1) + 1 ELSE 0) = m - n
    BY <1>1 DEF m
  <2> QED
    BY <2>2, <2>3 DEF m
<1> HIDE DEF p, d
<1>4. /\ p \o d \in Seq(T) /\ Len(p \o d) = Len(s)
      /\ \A i \in 1 .. Len(s) : (p \o d)[i] = s[i]
  <2>1. /\ p \o d \in Seq(T) /\ Len(p \o d) = Len(p) + Len(d)
        /\ \A i \in 1 .. Len(p) : (p \o d)[i] = p[i]
        /\ \A j \in 1 .. Len(d) : (p \o d)[Len(p) + j] = d[j]
        /\ \A i \in 1 .. Len(p \o d) : i \in 1 .. Len(p) \/ (i - Len(p) \in 1 .. Len(d) /\ i = Len(p) + (i - Len(p)))
    BY <1>2, <1>3, Joined
  <2>2. Len(p \o d) = Len(s)
    BY <1>1, <1>2, <1>3, <2>1
  <2>3. ASSUME NEW i \in 1 .. Len(s) PROVE (p \o d)[i] = s[i]
    <3>1. CASE i \in 1 .. Len(p)
      BY <1>2, <2>1, <3>1
    <3>2. CASE i - Len(p) \in 1 .. Len(d) /\ i = Len(p) + (i - Len(p))
      BY <1>2, <1>3, <2>1, <3>2, ZenonT(40)
    <3> QED
      BY <2>1, <2>2, <3>1, <3>2
  <2> QED
    BY <2>1, <2>2, <2>3
<1>5. p \o d = s
  BY <1>4, SeqEqual
<1> QED
  BY <1>2, <1>3, <1>5 DEF p, d

\* So their counts add up.
LEMMA CountParts ==
  ASSUME NEW T, NEW s \in Seq(T), NEW n \in 0 .. Len(s), NEW A
  PROVE  Count(s, A) = Count(Prefix(s, n), A) + Count(Drop(s, n), A)
<1> DEFINE p == Prefix(s, n)
           d == Drop(s, n)
<1>1. p \in Seq(T) /\ d \in Seq(T) /\ p \o d = s
  BY PrefixAndDrop
<1> HIDE DEF p, d
<1>2. Count(p \o d, A) = Count(p, A) + Count(d, A)
  BY <1>1, CountJoined
<1> QED
  BY <1>1, <1>2 DEF p, d

\* Without one of its elements a sequence has no more to count.
LEMMA CountDropped ==
  ASSUME NEW T, NEW s \in Seq(T), NEW k \in 1 .. Len(s), NEW A
  PROVE  /\ Prefix(s, k - 1) \o Drop(s, k) \in Seq(T)
         /\ \A i \in 1 .. Len(Prefix(s, k - 1) \o Drop(s, k)) :
              \E j \in 1 .. Len(s) : (Prefix(s, k - 1) \o Drop(s, k))[i] = s[j]
         /\ Count(Prefix(s, k - 1) \o Drop(s, k), A) <= Count(s, A)
<1>1. Len(s) \in Nat /\ k \in Nat /\ 1 <= k /\ k <= Len(s) /\ k - 1 \in 0 .. Len(s) /\ k \in 0 .. Len(s)
  OBVIOUS
<1> DEFINE p == Prefix(s, k - 1)
           d == Drop(s, k)
           q == p \o d
<1>2. p \in Seq(T) /\ Len(p) = k - 1 /\ \A i \in 1 .. k - 1 : p[i] = s[i]
  BY <1>1, PrefixAndDrop
<1>3. d \in Seq(T) /\ Len(d) = Len(s) - k /\ \A i \in 1 .. Len(s) - k : d[i] = s[k + i]
  BY <1>1, PrefixAndDrop
<1> HIDE DEF p, d
<1>4. /\ q \in Seq(T) /\ Len(q) = Len(p) + Len(d)
      /\ \A i \in 1 .. Len(p) : q[i] = p[i]
      /\ \A j \in 1 .. Len(d) : q[Len(p) + j] = d[j]
  <2>1. p \in Seq(T) /\ d \in Seq(T)
    BY <1>2, <1>3
  <2> QED
    BY <2>1, Joined
<1> HIDE DEF q
<1>5. Len(q) = Len(s) - 1
  BY <1>1, <1>2, <1>3, <1>4
<1> DEFINE g == [i \in 1 .. Len(q) |-> IF i < k THEN i ELSE i + 1]
<1>6. \A i \in 1 .. Len(q) : q[i] = s[g[i]] /\ g[i] \in 1 .. Len(s)
  <2> SUFFICES ASSUME NEW i \in 1 .. Len(q) PROVE q[i] = s[g[i]] /\ g[i] \in 1 .. Len(s)
    OBVIOUS
  <2>1. CASE i < k
    <3>1. i \in 1 .. k - 1 /\ i \in 1 .. Len(s)
      BY <1>1, <1>5, <2>1
    <3>2. q[i] = s[i]
      BY <1>2, <1>4, <3>1
    <3>3. g[i] = i
      BY <2>1
    <3> QED
      BY <3>1, <3>2, <3>3
  <2>2. CASE ~(i < k)
    <3> DEFINE j == i - (k - 1)
    <3>1. j \in 1 .. Len(s) - k /\ (k - 1) + j = i /\ k + j = i + 1 /\ i + 1 \in 1 .. Len(s)
      BY <1>1, <1>5, <2>2
    <3> HIDE DEF j
    <3>2. q[(k - 1) + j] = d[j] /\ d[j] = s[k + j]
      BY <1>2, <1>3, <1>4, <3>1
    <3>3. g[i] = i + 1
      BY <2>2
    <3> QED
      BY <3>1, <3>2, <3>3
  <2> QED
    BY <2>1, <2>2
<1>7. g \in [1 .. Len(q) -> 1 .. Len(s)]
  BY <1>6
<1>8. \A i, j \in 1 .. Len(q) : g[i] = g[j] => i = j
  BY <1>1
<1>9. Len(q) \in Nat
  BY <1>4, LenProperties
<1> HIDE DEF g
<1>10. Count(q, A) <= Count(s, A)
  BY <1>1, <1>6, <1>7, <1>8, <1>9, CountInto
<1> QED
  BY <1>4, <1>6, <1>10 DEF q, p, d

\* Every element of a merge is one of the two sequences, each in its own place.
LEMMA MergeOf ==
  ASSUME NEW T, NEW a \in Seq(T), NEW b \in Seq(T), NEW m \in Merges(a, b), NEW A
  PROVE  /\ m \in Seq(T)
         /\ \A i \in 1 .. Len(m) : (\E j \in 1 .. Len(a) : m[i] = a[j]) \/ (\E j \in 1 .. Len(b) : m[i] = b[j])
         /\ Count(m, A) <= Count(a, A) + Count(b, A)
<1> DEFINE n == Len(a) + Len(b)
<1>1. Len(a) \in Nat /\ Len(b) \in Nat /\ n \in Nat
      /\ (\A i \in 1 .. Len(a) : a[i] \in T) /\ (\A i \in 1 .. Len(b) : b[i] \in T)
  BY LenProperties
<1>2. PICK S \in SUBSET (1 .. n) :
        /\ Cardinality(S) = Len(a)
        /\ m = [i \in 1 .. n |-> IF i \in S THEN a[Cardinality({j \in S : j <= i})]
                                 ELSE b[Cardinality({j \in 1 .. i : j \notin S})]] \o << >>
  BY DEF Merges
<1> DEFINE V == (1 .. n) \ S
           r(i) == Cardinality({j \in S : j <= i})
           u(i) == Cardinality({j \in V : j <= i})
           g == [i \in 1 .. n |-> IF i \in S THEN a[r(i)] ELSE b[u(i)]]
<1>3. Cardinality(V) = Len(b)
  <2>1. 1 \in Int /\ n \in Int /\ (n > 0 \/ n = 0) /\ (IF 1 > n THEN 0 ELSE n - 1 + 1) = n
    BY <1>1
  <2>2. IsFiniteSet(1 .. n) /\ Cardinality(1 .. n) = n
    <3> HIDE DEF n
    <3> QED
      BY <2>1, FS_Interval
  <2>3. (1 .. n) \cap S = S
    OBVIOUS
  <2>4. Cardinality(V) = Cardinality(1 .. n) - Cardinality(S)
    <3> HIDE DEF n
    <3> QED
      BY <2>2, <2>3, FS_Difference, ZenonT(40)
  <2> QED
    BY <1>1, <1>2, <2>2, <2>4
<1>4. m = g \o << >>
  <2>1. ASSUME NEW i \in 1 .. n PROVE {j \in 1 .. i : j \notin S} = {j \in V : j <= i}
    <3>1. \A j : j \in 1 .. i <=> j \in 1 .. n /\ j <= i
      BY <1>1
    <3> QED
      BY <3>1
  <2> DEFINE w(i) == {j \in 1 .. i : j \notin S}
             v(i) == {j \in V : j <= i}
  <2>2. \A i \in 1 .. n : w(i) = v(i)
    BY <2>1
  <2>3. m = [i \in 1 .. n |-> IF i \in S THEN a[r(i)] ELSE b[Cardinality(w(i))]] \o << >>
    BY <1>2
  <2>4. g = [i \in 1 .. n |-> IF i \in S THEN a[r(i)] ELSE b[Cardinality(v(i))]]
    OBVIOUS
  <2> HIDE DEF w, v, n, g, r
  <2> QED
    BY <2>2, <2>3, <2>4
<1>5. /\ \A i \in S : r(i) \in 1 .. Len(a)
      /\ \A i, k \in S : r(i) = r(k) => i = k
  <2> HIDE DEF n
  <2>1. /\ \A i \in S : Cardinality({j \in S : j <= i}) \in 1 .. Cardinality(S)
        /\ \A i, k \in S : Cardinality({j \in S : j <= i}) = Cardinality({j \in S : j <= k}) => i = k
    BY <1>1, Ranks
  <2> QED
    BY <1>2, <2>1
<1>6. /\ \A i \in V : u(i) \in 1 .. Len(b)
      /\ \A i, k \in V : u(i) = u(k) => i = k
  <2>1. V \in SUBSET (1 .. n)
    OBVIOUS
  <2> HIDE DEF n, V
  <2>2. /\ \A i \in V : Cardinality({j \in V : j <= i}) \in 1 .. Cardinality(V)
        /\ \A i, k \in V : Cardinality({j \in V : j <= i}) = Cardinality({j \in V : j <= k}) => i = k
    BY <1>1, <2>1, Ranks
  <2> QED
    BY <1>3, <2>2
<1>7. \A i \in 1 .. n : i \in S \/ i \in V
  OBVIOUS
<1> HIDE DEF r, u, V
<1>8. g \in [1 .. n -> T]
  BY <1>1, <1>5, <1>6, <1>7
<1>9. m = g /\ m \in Seq(T) /\ Len(m) = n
  <2> HIDE DEF g, n
  <2> QED
    BY <1>1, <1>4, <1>8, MapSeq
<1>10. \A i \in 1 .. n : (\E j \in 1 .. Len(a) : m[i] = a[j]) \/ (\E j \in 1 .. Len(b) : m[i] = b[j])
  BY <1>5, <1>6, <1>7, <1>9
<1> DEFINE q == a \o b
           h == [i \in 1 .. n |-> IF i \in S THEN r(i) ELSE Len(a) + u(i)]
<1>11. /\ q \in Seq(T) /\ Len(q) = n
       /\ \A i \in 1 .. Len(a) : q[i] = a[i]
       /\ \A j \in 1 .. Len(b) : q[Len(a) + j] = b[j]
  BY Joined
<1>12. \A i \in 1 .. n : m[i] = q[h[i]] /\ h[i] \in 1 .. n
  <2> SUFFICES ASSUME NEW i \in 1 .. n PROVE m[i] = q[h[i]] /\ h[i] \in 1 .. n
    OBVIOUS
  <2>1. CASE i \in S
    <3>1. h[i] = r(i) /\ m[i] = a[r(i)] /\ r(i) \in 1 .. Len(a)
      BY <1>5, <1>9, <2>1
    <3>2. r(i) \in 1 .. n
      BY <1>1, <3>1
    <3> HIDE DEF h, q, g
    <3> QED
      BY <1>11, <3>1, <3>2
  <2>2. CASE i \notin S
    <3>1. h[i] = Len(a) + u(i) /\ m[i] = b[u(i)] /\ u(i) \in 1 .. Len(b)
      BY <1>6, <1>7, <1>9, <2>2
    <3>2. Len(a) + u(i) \in 1 .. n
      BY <1>1, <3>1
    <3> HIDE DEF h, q, g
    <3> QED
      BY <1>11, <3>1, <3>2
  <2> QED
    BY <2>1, <2>2
<1>13. \A i, k \in 1 .. n : h[i] = h[k] => i = k
  <2> SUFFICES ASSUME NEW i \in 1 .. n, NEW k \in 1 .. n, h[i] = h[k] PROVE i = k
    OBVIOUS
  <2>1. \A x \in S : h[x] = r(x) /\ r(x) \in 1 .. Len(a)
    BY <1>5
  <2>2. \A x \in 1 .. n : x \notin S => h[x] = Len(a) + u(x) /\ u(x) \in 1 .. Len(b) /\ x \in V
    BY <1>6, <1>7
  <2> HIDE DEF h, n
  <2>3. CASE i \in S /\ k \in S
    BY <1>5, <2>1, <2>3
  <2>4. CASE i \notin S /\ k \notin S
    <3>1. u(i) = u(k)
      BY <1>1, <2>2, <2>4
    <3> QED
      BY <1>6, <2>2, <2>4, <3>1
  <2>5. CASE i \in S /\ k \notin S
    BY <1>1, <2>1, <2>2, <2>5
  <2>6. CASE i \notin S /\ k \in S
    BY <1>1, <2>1, <2>2, <2>6
  <2> QED
    BY <2>3, <2>4, <2>5, <2>6
<1>14. Count(m, A) <= Count(q, A)
  <2>1. h \in [1 .. n -> 1 .. n]
    BY <1>12
  <2> HIDE DEF h, q, g, n
  <2>2. Len(m) = n /\ Len(q) = n /\ Len(m) \in Nat /\ Len(q) \in Nat
    BY <1>1, <1>9, <1>11
  <2>3. /\ h \in [1 .. Len(m) -> 1 .. Len(q)]
        /\ \A i, j \in 1 .. Len(m) : h[i] = h[j] => i = j
        /\ \A i \in 1 .. Len(m) : m[i] = q[h[i]]
    BY <1>12, <1>13, <2>1, <2>2
  <2> QED
    BY <2>2, <2>3, CountInto
<1>15. Count(q, A) = Count(a, A) + Count(b, A)
  BY CountJoined
<1> QED
  <2> HIDE DEF q, g
  <2> QED
    BY <1>9, <1>10, <1>14, <1>15

\* The lines of an adapter, and those that are read as the acknowledgement of a
\* clear.
Texts == Seq(0 .. OTHERTEXT)

\* Those of an acknowledgement of a clear.
AckLines == LinesOf(<<68>>)

\* Some of the digits are characters.
LEMMA DigitsAreText ==
  ASSUME NEW s \in Seq(0 .. 15)
  PROVE  s \in Texts
<1>1. \A i \in 1 .. Len(s) : s[i] \in 0 .. OTHERTEXT
  <2>1. \A i \in 1 .. Len(s) : s[i] \in 0 .. 15
    BY LenProperties
  <2>2. \A x \in 0 .. 15 : x \in 0 .. OTHERTEXT
    BY DEF OTHERTEXT
  <2> QED
    BY <2>1, <2>2
<1> DEFINE U == 0 .. OTHERTEXT
<1> HIDE DEF U
<1>2. s \in Seq(U)
  BY <1>1, SeqOver DEF U
<1> QED
  BY <1>2 DEF U, Texts

\* An identifier has three digits.
LEMMA EcuIds == \A e \in 1 .. 2 : CanId[e] \in Nat /\ CanId[e] < 4096
<1>1. \A e \in 1 .. 2 : CanId[e] \in Nat /\ CanId[e] < 2048
  BY VehicleAssumption DEF IsEcu
<1> QED
  BY <1>1

\* A frame is printed as a line; one that is read as an acknowledgement was made
\* of one.
LEMMA PrintedFrame ==
  ASSUME NEW e \in 1 .. 2, NEW f, SentFrame(e, f)
  PROVE  /\ PrintFrame(CanId[e], f) \in Texts
         /\ SentLine(PrintFrame(CanId[e], f))
         /\ PrintFrame(CanId[e], f) \in AckLines => f = SingleFrame(<<68>>)
<1>1. \A k \in 1 .. 2 : CanId[k] \in Nat /\ CanId[k] < 4096
  BY EcuIds
<1>2. f \in Seq(Bytes) /\ Len(f) = 8
  BY DEF SentFrame
<1>3. ASSUME NEW k \in 1 .. 2, NEW h \in Seq(Bytes), Len(h) = 8
      PROVE  PrintFrame(CanId[k], h) \in Seq(0 .. 15) /\ FrameOf(PrintFrame(CanId[k], h)).bytes = h
  <2> DEFINE src == CanId[k]
  <2>1. src \in Nat /\ src < 4096
    BY <1>1
  <2> HIDE DEF src
  <2>2. PrintFrame(src, h) \in Seq(0 .. 15) /\ FrameOf(PrintFrame(src, h)).bytes = h
    BY <1>3, <2>1, PrintAndRead
  <2> QED
    BY <2>2 DEF src
<1>4. PrintFrame(CanId[e], f) \in Texts
  BY <1>2, <1>3, DigitsAreText
<1>5. SentLine(PrintFrame(CanId[e], f))
  BY DEF SentLine
<1>6. ASSUME PrintFrame(CanId[e], f) \in AckLines PROVE f = SingleFrame(<<68>>)
  <2> DEFINE c == SingleFrame(<<68>>)
  <2>1. c \in Seq(Bytes) /\ Len(c) = 8
    <3> DEFINE d == <<68>>
    <3>1. d \in Seq(Bytes) /\ Len(d) \in 0 .. 7
      BY DEF Bytes
    <3> HIDE DEF d
    <3>2. SingleFrame(d) \in Seq(Bytes) /\ Len(SingleFrame(d)) = 8
      BY <3>1, SingleFrameBytes
    <3> QED
      BY <3>2 DEF d
  <2>2. PICK k \in 1 .. 2 : PrintFrame(CanId[e], f) = PrintFrame(CanId[k], c)
    BY <1>6 DEF AckLines, LinesOf
  <2> HIDE DEF c
  <2>3. FrameOf(PrintFrame(CanId[e], f)).bytes = f /\ FrameOf(PrintFrame(CanId[k], c)).bytes = c
    BY <1>2, <1>3, <2>1
  <2>4. f = c
    BY <2>2, <2>3
  <2> QED
    BY <2>4 DEF c
<1> QED
  BY <1>4, <1>5, <1>6

\* The prompt and NO DATA are no acknowledgements.
LEMMA OtherLines ==
  /\ <<PROMPT>> \in Texts /\ SentLine(<<PROMPT>>) /\ <<PROMPT>> \notin AckLines
  /\ NoData \in Seq(Texts) /\ (\A i \in 1 .. Len(NoData) : SentLine(NoData[i]) /\ NoData[i] \notin AckLines)
  /\ Len(NoData) \in Nat /\ \E i \in 1 .. Len(NoData) : NoData[i] = <<PROMPT>>
<1>1. <<PROMPT>> \in Texts /\ <<OTHERTEXT>> \in Texts
  BY DEF Texts, PROMPT, OTHERTEXT
<1>2. SentLine(<<PROMPT>>) /\ SentLine(<<OTHERTEXT>>)
  BY DEF SentLine
<1>3. ASSUME NEW x PROVE <<x>> \notin AckLines
  <2> DEFINE c == SingleFrame(<<68>>)
  <2>1. c \in Seq(Bytes) /\ Len(c) = 8
    <3> DEFINE d == <<68>>
    <3>1. d \in Seq(Bytes) /\ Len(d) \in 0 .. 7
      BY DEF Bytes
    <3> HIDE DEF d
    <3>2. SingleFrame(d) \in Seq(Bytes) /\ Len(SingleFrame(d)) = 8
      BY <3>1, SingleFrameBytes
    <3> QED
      BY <3>2 DEF d
  <2>2. ASSUME NEW k \in 1 .. 2 PROVE Len(PrintFrame(CanId[k], c)) = 19
    <3> DEFINE src == CanId[k]
    <3>1. src \in Nat /\ src < 4096
      BY EcuIds
    <3> HIDE DEF src, c
    <3>2. Len(PrintFrame(src, c)) = 19
      BY <2>1, <3>1, PrintAndRead
    <3> QED
      BY <3>2 DEF src
  <2>3. Len(<<x>>) = 1
    OBVIOUS
  <2> HIDE DEF c
  <2>4. <<x>> \notin {PrintFrame(CanId[k], c) : k \in 1 .. 2}
    BY <2>2, <2>3
  <2> QED
    BY <2>4 DEF AckLines, LinesOf, c
<1> DEFINE p == <<PROMPT>>
           o == <<OTHERTEXT>>
<1>4. NoData = <<o, p>>
  BY DEF NoData
<1>5. p \notin AckLines /\ o \notin AckLines
  BY <1>3
<1> HIDE DEF p, o
<1>6. p \in Texts /\ o \in Texts /\ SentLine(p) /\ SentLine(o)
  BY <1>1, <1>2 DEF p, o
<1>7. <<o, p>> \in Seq(Texts) /\ Len(<<o, p>>) = 2 /\ <<o, p>>[1] = o /\ <<o, p>>[2] = p
  BY <1>6
<1>8. \A i \in 1 .. 2 : i = 1 \/ i = 2
  OBVIOUS
<1>9. 2 \in 1 .. Len(NoData) /\ NoData[2] = p
  BY <1>4, <1>7
<1>10. NoData \in Seq(Texts) /\ Len(NoData) \in Nat /\ \A i \in 1 .. Len(NoData) : SentLine(NoData[i]) /\ NoData[i] \notin AckLines
  BY <1>4, <1>5, <1>6, <1>7, <1>8
<1> QED
  BY <1>5, <1>6, <1>9, <1>10 DEF p

\* Replies that an ECU may send one after the other.
Sendable(e, ps) == \A k \in 1 .. Len(ps) : Reply(e, ps[k]) /\ Len(ps[k]) <= 600

\* The lines of some replies; one that is read as an acknowledgement means that
\* there is one among them.
LEMMA PrintedLines ==
  ASSUME NEW e \in 1 .. 2, NEW T, NEW ps \in Seq(T), Sendable(e, ps)
  PROVE  /\ Printed(e, ps) \in Seq(Texts)
         /\ \A i \in 1 .. Len(Printed(e, ps)) :
              /\ SentLine(Printed(e, ps)[i])
              /\ Printed(e, ps)[i] \in AckLines => \E k \in 1 .. Len(ps) : ps[k] = <<68>>
<1> DEFINE q == [i \in DOMAIN ps |-> IsoTp(ps[i])]
           fs == FlattenSeq(q)
           g == [i \in DOMAIN fs |-> PrintFrame(CanId[e], fs[i])]
<1>1. DOMAIN ps = 1 .. Len(ps) /\ Len(ps) \in Nat
  BY LenProperties
<1>2. ASSUME NEW k \in 1 .. Len(ps)
      PROVE  /\ IsoTp(ps[k]) \in Seq(Seq(Bytes))
             /\ \A i \in 1 .. Len(IsoTp(ps[k])) :
                  /\ SentFrame(e, IsoTp(ps[k])[i])
                  /\ IsoTp(ps[k])[i] = SingleFrame(<<68>>) => ps[k] = <<68>>
  <2> DEFINE d == ps[k]
  <2>1. Reply(e, d) /\ Len(d) <= 600
    BY DEF Sendable
  <2> HIDE DEF d
  <2>2. /\ IsoTp(d) \in Seq(Seq(Bytes))
        /\ \A i \in 1 .. Len(IsoTp(d)) :
              /\ SentFrame(e, IsoTp(d)[i])
              /\ IsoTp(d)[i] = SingleFrame(<<68>>) => d = <<68>>
    BY <2>1, IsoTpFrames
  <2> QED
    BY <2>2 DEF d
<1>3. q \in [1 .. Len(ps) -> Seq(Seq(Bytes))]
  BY <1>1, <1>2
<1>4. \A k \in 1 .. Len(ps) : q[k] = IsoTp(ps[k])
  BY <1>1
<1> HIDE DEF q
<1>5. q \in Seq(Seq(Seq(Bytes))) /\ Len(q) = Len(ps)
  BY <1>1, <1>3, MapSeq
<1>6. fs \in Seq(Seq(Bytes))
  BY <1>5, FlattenType
<1>7. ASSUME NEW i \in 1 .. Len(fs)
      PROVE  SentFrame(e, fs[i]) /\ (fs[i] = SingleFrame(<<68>>) => \E k \in 1 .. Len(ps) : ps[k] = <<68>>)
  <2>1. PICK k \in 1 .. Len(q) : \E j \in 1 .. Len(q[k]) : fs[i] = q[k][j]
    BY <1>5, FlattenElements
  <2>2. k \in 1 .. Len(ps) /\ q[k] = IsoTp(ps[k])
    BY <1>4, <1>5, <2>1
  <2> HIDE DEF fs
  <2> QED
    BY <1>2, <2>1, <2>2
<1>8. DOMAIN fs = 1 .. Len(fs) /\ Len(fs) \in Nat
  BY <1>6, LenProperties
<1>9. Printed(e, ps) = g \o << >>
  BY DEF Printed, q
<1> HIDE DEF fs
<1>10. g \in [1 .. Len(fs) -> Texts] /\ \A i \in 1 .. Len(fs) : g[i] = PrintFrame(CanId[e], fs[i])
  BY <1>7, <1>8, PrintedFrame
<1> HIDE DEF g
<1>11. Printed(e, ps) = g /\ g \in Seq(Texts) /\ Len(g) = Len(fs)
  BY <1>8, <1>9, <1>10, MapSeq
<1>12. ASSUME NEW i \in 1 .. Len(g)
       PROVE  SentLine(g[i]) /\ (g[i] \in AckLines => \E k \in 1 .. Len(ps) : ps[k] = <<68>>)
  <2>1. i \in 1 .. Len(fs) /\ g[i] = PrintFrame(CanId[e], fs[i])
    BY <1>10, <1>11
  <2>2. SentFrame(e, fs[i])
    BY <1>7, <2>1
  <2>3. SentLine(g[i]) /\ (g[i] \in AckLines => fs[i] = SingleFrame(<<68>>))
    BY <2>1, <2>2, PrintedFrame
  <2> QED
    BY <1>7, <2>1, <2>3
<1> QED
  BY <1>11, <1>12

\* What an ECU sends that accepts a clear.
ClearReplies(ps) == ps = <<<<68>>>> \/ ps = <<<<127, 4, 120>>, <<68>>>>

\* What an ECU sends: nothing, its answer, or 0x78 and its answer; an
\* acknowledgement only for a clear that it accepted, and then nothing else.
LEMMA SentReplies ==
  ASSUME CodesInv, NEW e \in 1 .. 2, NEW req, RequestOk(req), NEW accepts \in BOOLEAN
  PROVE  /\ Sent(e, req, accepts) \in Seq(Seq(Bytes))
         /\ Sendable(e, Sent(e, req, accepts))
         /\ (\E k \in 1 .. Len(Sent(e, req, accepts)) : Sent(e, req, accepts)[k] = <<68>>) => req[1] = 4 /\ accepts
         /\ Len(Sent(e, req, accepts)) \in 0 .. 2
         /\ req[1] = 4 /\ accepts => ClearReplies(Sent(e, req, accepts))
<1> DEFINE a == EcuAnswer(e, req, accepts)
           p == <<127, req[1], 120>>
           s == Sent(e, req, accepts)
<1>1. a # << >> => Reply(e, a) /\ Len(a) <= 600 /\ (a = <<68>> => req[1] = 4 /\ accepts)
  BY EcuReply, ZenonT(40)
<1>2. req[1] \in Bytes
  BY DEF RequestOk, Bytes
<1>3. p \in Seq(Bytes) /\ p # << >> /\ Len(p) <= 600 /\ p[1] \notin {65, 68} /\ IsSid(p[1])
  <2> DEFINE y == req[1]
             h == <<127, y, 120>>
  <2> HIDE DEF y
  <2>1. h \in Seq(Bytes) /\ h # << >> /\ Len(h) <= 600 /\ h[1] \notin {65, 68} /\ IsSid(h[1])
    BY <1>2 DEF Bytes, y, IsSid
  <2> QED
    BY <2>1 DEF y
<1>4. s = IF a = << >> THEN << >> ELSE IF Pends THEN <<p, a>> ELSE <<a>>
  BY DEF Sent
<1>5. req[1] = 4 /\ accepts => a = <<68>> /\ p = <<127, 4, 120>>
  BY DEF EcuAnswer
<1>6. a # << >> => a \in Seq(Bytes)
  BY <1>1 DEF Reply
<1>7. <<68>> # << >>
  OBVIOUS
<1> HIDE DEF a, p, s
<1>8. Reply(e, p) /\ p # <<68>>
  BY <1>3, OtherReply
<1> DEFINE c == <<68>>
           z == <<127, 4, 120>>
           S == Seq(Bytes)
<1>9. c # << >> /\ p # c /\ (req[1] = 4 /\ accepts => a = c /\ p = z)
      /\ (a # << >> => Reply(e, a) /\ Len(a) <= 600 /\ a \in S /\ (a = c => req[1] = 4 /\ accepts))
      /\ Reply(e, p) /\ p \in S /\ Len(p) <= 600
  BY <1>1, <1>3, <1>5, <1>6, <1>7, <1>8
<1> HIDE DEF c, z, S
<1>10. /\ s \in Seq(S)
       /\ \A k \in 1 .. Len(s) : Reply(e, s[k]) /\ Len(s[k]) <= 600
       /\ (\E k \in 1 .. Len(s) : s[k] = c) => req[1] = 4 /\ accepts
       /\ Len(s) \in 0 .. 2
       /\ req[1] = 4 /\ accepts => s = <<c>> \/ s = <<z, c>>
  <2>1. CASE a = << >>
    <3>1. s = << >> /\ s \in Seq(S) /\ Len(s) = 0
      BY <1>4, <2>1, EmptySeq
    <3>2. \A k \in 1 .. Len(s) : FALSE
      BY <3>1
    <3> QED
      BY <1>9, <2>1, <3>1, <3>2
  <2>2. CASE a # << >> /\ Pends
    <3>1. s = <<p, a>>
      BY <1>4, <2>2
    <3>2. s \in Seq(S) /\ Len(s) = 2 /\ s[1] = p /\ s[2] = a
      BY <1>9, <2>2, <3>1
    <3>3. \A k \in 1 .. 2 : k = 1 \/ k = 2
      OBVIOUS
    <3> QED
      BY <1>9, <2>2, <3>1, <3>2, <3>3
  <2>3. CASE a # << >> /\ ~Pends
    <3>1. s = <<a>>
      BY <1>4, <2>3
    <3>2. s \in Seq(S) /\ Len(s) = 1 /\ s[1] = a
      BY <1>9, <2>3, <3>1
    <3>3. \A k \in 1 .. 1 : k = 1
      OBVIOUS
    <3> QED
      BY <1>9, <2>3, <3>1, <3>2, <3>3
  <2> QED
    BY <2>1, <2>2, <2>3
<1> QED
  BY <1>10 DEF ClearReplies, Sendable, s, c, z, S

\* The lines of what an ECU sends: an acknowledgement is printed at most once, and
\* only for a clear that the ECU accepted.
LEMMA PrintedAcks ==
  ASSUME CodesInv, NEW e \in 1 .. 2, NEW req, RequestOk(req), NEW accepts \in BOOLEAN
  PROVE  /\ Printed(e, Sent(e, req, accepts)) \in Seq(Texts)
         /\ \A i \in 1 .. Len(Printed(e, Sent(e, req, accepts))) : SentLine(Printed(e, Sent(e, req, accepts))[i])
         /\ Count(Printed(e, Sent(e, req, accepts)), AckLines) <= IF accepts THEN 1 ELSE 0
<1> DEFINE ps == Sent(e, req, accepts)
           l == Printed(e, ps)
<1>1. /\ ps \in Seq(Seq(Bytes))
      /\ Sendable(e, ps)
      /\ (\E k \in 1 .. Len(ps) : ps[k] = <<68>>) => req[1] = 4 /\ accepts
      /\ req[1] = 4 /\ accepts => ClearReplies(ps)
  BY SentReplies
<1> HIDE DEF ps
<1>2. /\ l \in Seq(Texts)
      /\ \A i \in 1 .. Len(l) : /\ SentLine(l[i])
                                /\ l[i] \in AckLines => \E k \in 1 .. Len(ps) : ps[k] = <<68>>
  BY <1>1, PrintedLines
<1>3. Len(l) \in Nat
  BY <1>2, LenProperties
<1>4. CASE ~(req[1] = 4 /\ accepts)
  <2>1. \A i \in 1 .. Len(l) : l[i] \notin AckLines
    BY <1>1, <1>2, <1>4
  <2>2. Count(l, AckLines) = 0
    BY <1>3, <2>1, CountType
  <2>3. 0 <= (IF accepts THEN 1 ELSE 0)
    OBVIOUS
  <2> QED
    BY <1>2, <2>2, <2>3 DEF ps
<1>5. CASE req[1] = 4 /\ accepts
  <2> DEFINE c == <<68>>
             z == <<127, 4, 120>>
  <2>1. /\ c \in Seq(Bytes) /\ c # << >> /\ Len(c) <= 7 /\ Len(c) <= 600
        /\ z \in Seq(Bytes) /\ z # << >> /\ Len(z) <= 7 /\ Len(z) <= 600 /\ z[1] \notin {65, 68}
        /\ c[1] = 68 /\ Len(c) \in 0 .. 7 /\ Len(z) \in 0 .. 7 /\ Len(z) \in 1 .. 7
        /\ IsSid(c[1]) /\ IsSid(z[1])
    BY DEF Bytes, IsSid
  <2>2. ps = <<c>> \/ ps = <<z, c>>
    BY <1>1, <1>5 DEF ClearReplies
  <2>3. Reply(e, c)
    BY <2>1 DEF Reply
  <2> HIDE DEF z
  <2>4. Reply(e, z) /\ z # c
    BY <2>1, OtherReply
  <2>5. SingleFrame(z) # SingleFrame(c) /\ SentFrame(e, SingleFrame(z))
    <3>1. SingleFrame(z) # SingleFrame(c)
      BY <2>1, <2>4, AckFrame
    <3>2. SingleFrame(z) \in Seq(Bytes) /\ Len(SingleFrame(z)) = 8
      BY <2>1, SingleFrameBytes
    <3> QED
      BY <2>1, <2>4, <3>1, <3>2 DEF SentFrame
  <2> DEFINE fc == SingleFrame(c)
             fz == SingleFrame(z)
  <2>6. PrintFrame(CanId[e], fz) \notin AckLines
    BY <2>5, PrintedFrame
  <2> HIDE DEF c
  <2>7. IsoTp(c) = <<fc>> /\ IsoTp(z) = <<fz>>
    BY <2>1, <2>3, <2>4, IsoTpFrames
  <2> HIDE DEF fc, fz
  <2>8. CASE ps = <<c>>
    <3>1. [i \in DOMAIN ps |-> IsoTp(ps[i])] = <<<<fc>>>>
      BY <2>7, <2>8
    <3>2. FlattenSeq(<<<<fc>>>>) = <<fc>>
      BY FlattenFew
    <3>3. l = [i \in DOMAIN <<fc>> |-> PrintFrame(CanId[e], <<fc>>[i])] \o << >>
      BY <3>1, <3>2 DEF Printed
    <3>4. Len(l) = 1
      <4> DEFINE t == <<fc>>
      <4>1. t \in Seq({fc}) /\ Len(t) = 1 /\ DOMAIN t = 1 .. 1 /\ 1 \in Nat
        OBVIOUS
      <4> DEFINE g == [i \in DOMAIN t |-> PrintFrame(CanId[e], t[i])]
                 U == {PrintFrame(CanId[e], t[i]) : i \in 1 .. 1}
                 n == 1
      <4>2. n \in Nat /\ g \in [1 .. n -> U]
        BY <4>1
      <4>3. l = g \o << >>
        BY <3>3
      <4> HIDE DEF g, U, t, n
      <4>4. l = g /\ Len(g) = n
        BY <4>2, <4>3, MapSeq
      <4> QED
        BY <4>4 DEF n
    <3>5. Count(l, AckLines) <= Len(l)
      <4>1. {i \in 1 .. Len(l) : l[i] \in AckLines} \in SUBSET (1 .. Len(l))
        OBVIOUS
      <4>2. 1 \in Int /\ Len(l) \in Int /\ (IF 1 > Len(l) THEN 0 ELSE Len(l) - 1 + 1) = Len(l)
        BY <1>3
      <4>3. IsFiniteSet(1 .. Len(l)) /\ Cardinality(1 .. Len(l)) = Len(l)
        BY <4>2, FS_Interval
      <4> QED
        BY <4>1, <4>3, FS_Subset DEF Count
    <3> QED
      BY <1>2, <1>5, <3>4, <3>5 DEF ps
  <2>9. CASE ps = <<z, c>>
    <3>1. [i \in DOMAIN ps |-> IsoTp(ps[i])] = <<<<fz>>, <<fc>>>>
      BY <2>7, <2>9
    <3>2. FlattenSeq(<<<<fz>>, <<fc>>>>) = <<fz, fc>>
      <4>1. FlattenSeq(<<<<fz>>, <<fc>>>>) = <<fz>> \o <<fc>>
        BY FlattenFew
      <4> DEFINE t == <<fz>>
                 U == {fz, fc}
      <4>2. Append(t, fc) = <<fz, fc>> /\ t \in Seq(U) /\ fc \in U
        <5>1. fz \in U /\ fc \in U
          OBVIOUS
        <5> HIDE DEF U
        <5>2. t \in Seq(U)
          BY <5>1
        <5>3. Append(t, fc) = <<fz, fc>>
          <6> DEFINE v == Append(t, fc)
                     w == <<fz, fc>>
          <6>1. t \in Seq(U) /\ Len(t) = 1 /\ t[1] = fz
            BY <5>1
          <6>2. w \in Seq(U) /\ Len(w) = 2 /\ w[1] = fz /\ w[2] = fc
            BY <5>1
          <6> HIDE DEF t, w
          <6>3. /\ v \in Seq(U) /\ Len(v) = Len(t) + 1 /\ (\A i \in 1 .. Len(t) : v[i] = t[i]) /\ v[Len(t) + 1] = fc
            <7>1. t \in Seq(U) /\ fc \in U
              BY <5>1, <6>1
            <7> QED
              BY <7>1, AppendProperties
          <6>4. 1 \in 1 .. 1 /\ 1 + 1 = 2 /\ \A i \in 1 .. 2 : i = 1 \/ i = 2
            OBVIOUS
          <6> HIDE DEF v
          <6>5. v \in Seq(U) /\ Len(v) = 2 /\ v[1] = fz /\ v[2] = fc
            BY <6>1, <6>3, <6>4
          <6>6. Len(v) = Len(w) /\ \A i \in 1 .. Len(v) : v[i] = w[i]
            BY <6>2, <6>4, <6>5
          <6>7. v = w
            BY <6>2, <6>5, <6>6, SeqEqual
          <6> QED
            BY <6>7 DEF v, w
        <5> QED
          BY <5>1, <5>2, <5>3
      <4> HIDE DEF t, U
      <4>3. Append(t, fc) = t \o <<fc>>
        BY <4>2, AppendIsConcat
      <4> QED
        BY <4>1, <4>2, <4>3 DEF t
    <3>3. l = [i \in DOMAIN <<fz, fc>> |-> PrintFrame(CanId[e], <<fz, fc>>[i])] \o << >>
      BY <3>1, <3>2 DEF Printed
    <3>4. Len(l) = 2 /\ l[1] = PrintFrame(CanId[e], fz)
      <4> DEFINE t == <<fz, fc>>
      <4>1. Len(t) = 2 /\ DOMAIN t = 1 .. 2 /\ t[1] = fz /\ 1 \in 1 .. 2
        OBVIOUS
      <4> DEFINE g == [i \in DOMAIN t |-> PrintFrame(CanId[e], t[i])]
                 U == {PrintFrame(CanId[e], t[i]) : i \in 1 .. 2}
                 n == 2
      <4>2. n \in Nat /\ g \in [1 .. n -> U] /\ g[1] = PrintFrame(CanId[e], fz)
        BY <4>1
      <4>3. l = g \o << >>
        BY <3>3
      <4> HIDE DEF g, U, t, n
      <4>4. l = g /\ Len(g) = n
        BY <4>2, <4>3, MapSeq
      <4> QED
        BY <4>2, <4>4 DEF n
    <3>5. {i \in 1 .. Len(l) : l[i] \in AckLines} \in SUBSET {2}
      BY <2>6, <3>4
    <3>6. IsFiniteSet({2}) /\ Cardinality({2}) = 1
      BY FS_Singleton
    <3>7. Count(l, AckLines) <= 1
      BY <3>5, <3>6, FS_Subset DEF Count
    <3> QED
      BY <1>2, <1>5, <3>7 DEF ps
  <2> QED
    BY <2>2, <2>8, <2>9
<1> QED
  BY <1>4, <1>5

\* Was every line of the adapter printed whole?
AllSent(s) == \A i \in 1 .. Len(s) : SentLine(s[i])

\* What is not lost of the lines printed.
Kept(lines, drop) == IF drop = 0 THEN lines ELSE Prefix(lines, drop - 1) \o Drop(lines, drop)

\* The lines that a read may find: those of before and the new ones up to the
\* prompt, or NO DATA.
OnLine(kept) == line \o (IF kept = << >> THEN NoData ELSE Append(kept, <<PROMPT>>))

\* One for each ECU that accepted.
LEMMA WhoAccepts ==
  ASSUME NEW who \in SUBSET (1 .. 2)
  PROVE  /\ Cardinality(who) \in Nat
         /\ (IF 1 \in who THEN 1 ELSE 0) + (IF 2 \in who THEN 1 ELSE 0) = Cardinality(who)
<1>1. who = {} \/ who = {1} \/ who = {2} \/ who = {1, 2}
  <2>1. \A e \in who : e = 1 \/ e = 2
    OBVIOUS
  <2> QED
    BY <2>1
<1>2. CASE who = {}
  BY <1>2, FS_EmptySet
<1>3. CASE who = {1}
  <2>1. Cardinality({1}) = 1
    BY FS_Singleton
  <2>2. 1 \in who /\ 2 \notin who
    BY <1>3
  <2> QED
    BY <1>3, <2>1, <2>2
<1>4. CASE who = {2}
  <2>1. Cardinality({2}) = 1
    BY FS_Singleton
  <2>2. 2 \in who /\ 1 \notin who
    BY <1>4
  <2> QED
    BY <1>4, <2>1, <2>2
<1>5. CASE who = {1, 2}
  <2>1. Cardinality({1}) = 1 /\ IsFiniteSet({1})
    BY FS_Singleton
  <2>2. Cardinality({1} \cup {2}) = 1 + 1
    BY <2>1, FS_AddElement
  <2>3. {1, 2} = {1} \cup {2}
    OBVIOUS
  <2> QED
    BY <1>5, <2>2, <2>3
<1> QED
  BY <1>1, <1>2, <1>3, <1>4, <1>5

\* What the ECUs print after a request, merged and one line lost.
LEMMA KeptLines ==
  ASSUME CodesInv, NEW req, RequestOk(req), NEW who \in SUBSET (1 .. 2),
         NEW lines \in Merges(Printed(1, Sent(1, req, 1 \in who)), Printed(2, Sent(2, req, 2 \in who))),
         NEW drop \in 0 .. Len(lines)
  PROVE  /\ Kept(lines, drop) \in Seq(Texts) /\ AllSent(Kept(lines, drop))
         /\ Count(Kept(lines, drop), AckLines) <= Cardinality(who)
<1> DEFINE a == Printed(1, Sent(1, req, 1 \in who))
           b == Printed(2, Sent(2, req, 2 \in who))
<1>1. 1 \in 1 .. 2 /\ 2 \in 1 .. 2 /\ (1 \in who) \in BOOLEAN /\ (2 \in who) \in BOOLEAN
  OBVIOUS
<1>2. a \in Seq(Texts) /\ AllSent(a) /\ Count(a, AckLines) <= IF 1 \in who THEN 1 ELSE 0
  <2> DEFINE y == 1 \in who
  <2>1. y \in BOOLEAN
    OBVIOUS
  <2> HIDE DEF y
  <2>2. /\ Printed(1, Sent(1, req, y)) \in Seq(Texts)
        /\ \A i \in 1 .. Len(Printed(1, Sent(1, req, y))) : SentLine(Printed(1, Sent(1, req, y))[i])
        /\ Count(Printed(1, Sent(1, req, y)), AckLines) <= IF y THEN 1 ELSE 0
    BY <1>1, <2>1, PrintedAcks
  <2> QED
    BY <2>2 DEF y, AllSent
<1>3. b \in Seq(Texts) /\ AllSent(b) /\ Count(b, AckLines) <= IF 2 \in who THEN 1 ELSE 0
  <2> DEFINE y == 2 \in who
  <2>1. y \in BOOLEAN
    OBVIOUS
  <2> HIDE DEF y
  <2>2. /\ Printed(2, Sent(2, req, y)) \in Seq(Texts)
        /\ \A i \in 1 .. Len(Printed(2, Sent(2, req, y))) : SentLine(Printed(2, Sent(2, req, y))[i])
        /\ Count(Printed(2, Sent(2, req, y)), AckLines) <= IF y THEN 1 ELSE 0
    BY <1>1, <2>1, PrintedAcks
  <2> QED
    BY <2>2 DEF y, AllSent
<1>4. lines \in Merges(a, b)
  OBVIOUS
<1> HIDE DEF a, b
<1>5. /\ lines \in Seq(Texts)
      /\ \A i \in 1 .. Len(lines) : (\E j \in 1 .. Len(a) : lines[i] = a[j]) \/ (\E j \in 1 .. Len(b) : lines[i] = b[j])
      /\ Count(lines, AckLines) <= Count(a, AckLines) + Count(b, AckLines)
  <2>1. a \in Seq(Texts) /\ b \in Seq(Texts)
    BY <1>2, <1>3
  <2> QED
    BY <1>4, <2>1, MergeOf
<1>6. AllSent(lines)
  BY <1>2, <1>3, <1>5 DEF AllSent
<1>7. Count(lines, AckLines) <= Cardinality(who)
  <2>1. Len(a) \in Nat /\ Len(b) \in Nat /\ Len(lines) \in Nat
    BY <1>2, <1>3, <1>5, LenProperties
  <2>2. Count(a, AckLines) \in Nat /\ Count(b, AckLines) \in Nat /\ Count(lines, AckLines) \in Nat
    BY <2>1, CountType
  <2>3. /\ Cardinality(who) \in Nat
        /\ (IF 1 \in who THEN 1 ELSE 0) + (IF 2 \in who THEN 1 ELSE 0) = Cardinality(who)
    BY WhoAccepts
  <2> DEFINE x == IF 1 \in who THEN 1 ELSE 0
             y == IF 2 \in who THEN 1 ELSE 0
  <2>4. x \in Nat /\ y \in Nat /\ x + y = Cardinality(who) /\ Count(a, AckLines) <= x /\ Count(b, AckLines) <= y
    BY <1>2, <1>3, <2>3
  <2> HIDE DEF x, y
  <2> QED
    BY <1>5, <2>2, <2>3, <2>4
<1>8. CASE drop = 0
  BY <1>5, <1>6, <1>7, <1>8 DEF Kept
<1>9. CASE drop # 0
  <2>1. drop \in 1 .. Len(lines)
    BY <1>9
  <2> DEFINE k == Prefix(lines, drop - 1) \o Drop(lines, drop)
  <2>2. /\ k \in Seq(Texts)
        /\ \A i \in 1 .. Len(k) : \E j \in 1 .. Len(lines) : k[i] = lines[j]
        /\ Count(k, AckLines) <= Count(lines, AckLines)
    <3>1. lines \in Seq(Texts)
      BY <1>5
    <3> QED
      BY <2>1, <3>1, CountDropped
  <2>3. Kept(lines, drop) = k
    BY <1>9 DEF Kept
  <2> HIDE DEF k
  <2>4. AllSent(k)
    BY <1>6, <2>2 DEF AllSent
  <2>5. Count(k, AckLines) \in Nat /\ Count(lines, AckLines) \in Nat /\ Cardinality(who) \in Nat
    <3>1. Len(k) \in Nat /\ Len(lines) \in Nat
      BY <1>5, <2>2, LenProperties
    <3> QED
      BY <3>1, CountType, WhoAccepts
  <2>6. Count(k, AckLines) <= Cardinality(who)
    BY <1>7, <2>2, <2>5
  <2> QED
    BY <2>2, <2>3, <2>4, <2>6
<1> QED
  BY <1>8, <1>9

\* With the lines of before: whole if those were, with no more acknowledgements
\* than there were and ECUs that accepted, and up to a prompt.
LEMMA LinesOnLine ==
  ASSUME line \in Seq(Texts), NEW kept \in Seq(Texts), AllSent(kept)
  PROVE  /\ OnLine(kept) \in Seq(Texts) /\ Len(OnLine(kept)) \in Nat
         /\ AllSent(line) => AllSent(OnLine(kept))
         /\ Count(OnLine(kept), AckLines) <= Count(line, AckLines) + Count(kept, AckLines)
         /\ \E i \in 1 .. Len(OnLine(kept)) : OnLine(kept)[i] = <<PROMPT>>
<1> DEFINE new == IF kept = << >> THEN NoData ELSE Append(kept, <<PROMPT>>)
           p == <<PROMPT>>
<1>1. p \in Texts /\ SentLine(p) /\ p \notin AckLines
  BY OtherLines
<1>2. Len(kept) \in Nat
  BY LenProperties
<1>3. /\ new \in Seq(Texts) /\ AllSent(new) /\ Count(new, AckLines) = Count(kept, AckLines)
      /\ \E i \in 1 .. Len(new) : new[i] = p
  <2>1. CASE kept = << >>
    <3>1. new = NoData
      BY <2>1
    <3>2. new \in Seq(Texts) /\ (\A i \in 1 .. Len(new) : SentLine(new[i]) /\ new[i] \notin AckLines) /\ Len(new) \in Nat
      BY <3>1, OtherLines
    <3>3. Count(new, AckLines) = 0
      BY <3>2, CountType
    <3>4. Count(kept, AckLines) = 0
      <4>1. \A i \in 1 .. Len(kept) : FALSE
        BY <2>1
      <4> QED
        BY <1>2, <4>1, CountType
    <3>5. \E i \in 1 .. Len(new) : new[i] = p
      BY <3>1, OtherLines
    <3> QED
      BY <3>2, <3>3, <3>4, <3>5 DEF AllSent
  <2>2. CASE kept # << >>
    <3> DEFINE one == <<p>>
    <3>1. one \in Seq(Texts) /\ Len(one) = 1 /\ one[1] = p
      BY <1>1
    <3>2. new = kept \o one
      <4>1. new = Append(kept, p)
        BY <2>2
      <4> HIDE DEF p
      <4>2. Append(kept, p) = kept \o <<p>>
        BY <1>1, AppendIsConcat
      <4> QED
        BY <4>1, <4>2
    <3> HIDE DEF one, new, p
    <3>3. /\ kept \o one \in Seq(Texts) /\ Len(kept \o one) = Len(kept) + Len(one)
          /\ \A i \in 1 .. Len(kept) : (kept \o one)[i] = kept[i]
          /\ \A j \in 1 .. Len(one) : (kept \o one)[Len(kept) + j] = one[j]
          /\ \A i \in 1 .. Len(kept \o one) : i \in 1 .. Len(kept) \/ (i - Len(kept) \in 1 .. Len(one) /\ i = Len(kept) + (i - Len(kept)))
      <4>1. one \in Seq(Texts)
        BY <3>1
      <4> QED
        BY <4>1, Joined
    <3>4. AllSent(new)
      <4> SUFFICES ASSUME NEW i \in 1 .. Len(kept \o one) PROVE SentLine((kept \o one)[i])
        BY <3>2 DEF AllSent
      <4>1. CASE i \in 1 .. Len(kept)
        BY <3>3, <4>1 DEF AllSent
      <4>2. CASE i - Len(kept) \in 1 .. Len(one) /\ i = Len(kept) + (i - Len(kept))
        <5> DEFINE j == i - Len(kept)
        <5>1. j \in 1 .. Len(one) /\ i = Len(kept) + j
          BY <4>2
        <5> HIDE DEF j
        <5>2. j = 1
          BY <3>1, <5>1
        <5>3. (kept \o one)[i] = one[j]
          BY <3>3, <5>1
        <5> QED
          BY <1>1, <3>1, <5>2, <5>3
      <4> QED
        BY <3>3, <4>1, <4>2
    <3>5. Count(one, AckLines) = 0
      <4>1. Len(one) \in Nat /\ \A i \in 1 .. Len(one) : one[i] \notin AckLines
        <5>1. \A i \in 1 .. 1 : i = 1
          OBVIOUS
        <5> QED
          BY <1>1, <3>1, <5>1
      <4> QED
        BY <4>1, CountType
    <3>6. Count(new, AckLines) = Count(kept, AckLines)
      <4>1. Count(kept \o one, AckLines) = Count(kept, AckLines) + Count(one, AckLines)
        <5>1. one \in Seq(Texts)
          BY <3>1
        <5> QED
          BY <5>1, CountJoined
      <4>2. Count(kept, AckLines) \in Nat
        BY <1>2, CountType
      <4> QED
        BY <3>2, <3>5, <4>1, <4>2
    <3>7. Len(kept) + 1 \in 1 .. Len(new) /\ new[Len(kept) + 1] = p
      <4>1. 1 \in 1 .. Len(one) /\ Len(new) = Len(kept) + 1
        BY <3>1, <3>2, <3>3
      <4> QED
        BY <1>2, <3>1, <3>2, <3>3, <4>1
    <3> QED
      BY <3>2, <3>3, <3>4, <3>6, <3>7
  <2> QED
    BY <2>1, <2>2
<1>4. OnLine(kept) = line \o new
  BY DEF OnLine
<1> HIDE DEF new, p
<1> DEFINE all == line \o new
<1>5. /\ all \in Seq(Texts) /\ Len(all) = Len(line) + Len(new) /\ Len(line) \in Nat /\ Len(new) \in Nat
      /\ \A i \in 1 .. Len(line) : all[i] = line[i]
      /\ \A j \in 1 .. Len(new) : all[Len(line) + j] = new[j]
      /\ \A i \in 1 .. Len(all) : i \in 1 .. Len(line) \/ (i - Len(line) \in 1 .. Len(new) /\ i = Len(line) + (i - Len(line)))
  <2>1. new \in Seq(Texts)
    BY <1>3
  <2> QED
    BY <2>1, Joined
<1>6. Count(all, AckLines) = Count(line, AckLines) + Count(new, AckLines)
  <2>1. new \in Seq(Texts)
    BY <1>3
  <2> QED
    BY <2>1, CountJoined
<1> HIDE DEF all
<1>7. AllSent(line) => AllSent(all)
  <2> SUFFICES ASSUME AllSent(line), NEW i \in 1 .. Len(all) PROVE SentLine(all[i])
    BY DEF AllSent
  <2>1. CASE i \in 1 .. Len(line)
    BY <1>5, <2>1 DEF AllSent
  <2>2. CASE i - Len(line) \in 1 .. Len(new) /\ i = Len(line) + (i - Len(line))
    <3> DEFINE j == i - Len(line)
    <3>1. j \in 1 .. Len(new) /\ i = Len(line) + j
      BY <2>2
    <3> HIDE DEF j
    <3>2. all[i] = new[j]
      BY <1>5, <3>1
    <3> QED
      BY <1>3, <3>1, <3>2 DEF AllSent
  <2> QED
    BY <1>5, <2>1, <2>2
<1>8. Count(all, AckLines) <= Count(line, AckLines) + Count(kept, AckLines)
  <2>1. Count(line, AckLines) \in Nat /\ Count(kept, AckLines) \in Nat
    BY <1>2, <1>5, CountType
  <2> QED
    BY <1>3, <1>6, <2>1
<1>9. \E i \in 1 .. Len(all) : all[i] = p
  <2>1. PICK j \in 1 .. Len(new) : new[j] = p
    BY <1>3
  <2>2. Len(line) + j \in 1 .. Len(all) /\ all[Len(line) + j] = p
    BY <1>5, <2>1
  <2> QED
    BY <2>2
<1>10. Len(all) \in Nat
  BY <1>5
<1> QED
  BY <1>4, <1>5, <1>7, <1>8, <1>9, <1>10 DEF all, p

-----------------------------------------------------------------------------
(* One request and its read.                                               *)

\* The read that goes to a prompt ends after it.
LEMMA PromptIsThere ==
  ASSUME NEW all \in Seq(Texts), \E i \in 1 .. Len(all) : all[i] = <<PROMPT>>
  PROVE  FirstPrompt(all) \in 1 .. Len(all)
<1> DEFINE S == {i \in DOMAIN all : all[i] = <<PROMPT>>}
<1>1. DOMAIN all = 1 .. Len(all) /\ Len(all) \in Nat
  BY LenProperties
<1>2. S \in SUBSET Nat /\ S # {} /\ S \subseteq 1 .. Len(all)
  BY <1>1
<1> HIDE DEF S
<1>3. \E n \in S : \A m \in S : n <= m
  BY <1>2, LeastNatural
<1>4. Min(S) \in S
  BY <1>3 DEF Min
<1> QED
  BY <1>2, <1>4 DEF FirstPrompt, S

\* A read ends after n lines and k characters of the next, if there is one.
LEMMA CutPlaces ==
  ASSUME NEW all \in Seq(Texts), \E i \in 1 .. Len(all) : all[i] = <<PROMPT>>,
         NEW cut, cut = <<FirstPrompt(all), 0>> \/ cut \in Cuts(all)
  PROVE  \E n \in 0 .. Len(all) : \E k \in Nat : cut = <<n, k>> /\ (k > 0 => n < Len(all) /\ k < Len(all[n + 1]))
<1>1. Len(all) \in Nat /\ \A i \in 1 .. Len(all) : Len(all[i]) \in Nat
  BY LenProperties DEF Texts
<1>2. CASE cut = <<FirstPrompt(all), 0>>
  <2>1. FirstPrompt(all) \in 1 .. Len(all)
    BY PromptIsThere
  <2> DEFINE n == FirstPrompt(all)
  <2>2. n \in 0 .. Len(all) /\ cut = <<n, 0>>
    BY <1>1, <1>2, <2>1
  <2> HIDE DEF n
  <2> QED
    BY <2>2
<1>3. CASE cut \in Cuts(all)
  <2>1. PICK n \in 0 .. Len(all) - 1 : cut \in {<<n, k>> : k \in 0 .. Len(all[n + 1]) - 1}
    BY <1>3 DEF Cuts
  <2>2. PICK k \in 0 .. Len(all[n + 1]) - 1 : cut = <<n, k>>
    BY <2>1
  <2>3. n \in 0 .. Len(all) /\ n < Len(all) /\ n + 1 \in 1 .. Len(all)
    BY <1>1, <2>1
  <2> DEFINE m == Len(all[n + 1])
  <2>4. m \in Nat /\ k \in 0 .. m - 1
    BY <1>1, <2>2, <2>3
  <2> HIDE DEF m
  <2>5. k \in Nat /\ k < m
    BY <2>4
  <2> QED
    BY <2>2, <2>3, <2>5 DEF m
<1> QED
  BY <1>2, <1>3

\* What is left of the line when a read ends between two lines.
LEMMA LinesLeft ==
  ASSUME NEW all \in Seq(Texts), NEW n \in 0 .. Len(all)
  PROVE  (IF n = Len(all) THEN << >> ELSE <<Drop(all[n + 1], 0)>> \o Drop(all, n + 1)) = Drop(all, n)
<1>1. Len(all) \in Nat
  BY LenProperties
<1>2. CASE n = Len(all)
  <2>1. Drop(all, n) \in Seq(Texts) /\ Len(Drop(all, n)) = 0
    BY <1>1, <1>2, PrefixAndDrop
  <2> QED
    BY <1>2, <2>1, EmptySeq
<1>3. CASE n # Len(all)
  <2> DEFINE l == all[n + 1]
  <2>1. n + 1 \in 1 .. Len(all) /\ n + 1 \in 0 .. Len(all)
    BY <1>1, <1>3
  <2>2. l \in Texts
    BY <2>1, LenProperties
  <2>3. Drop(l, 0) = l
    <3> HIDE DEF l
    <3>1. l \in Seq(0 .. OTHERTEXT)
      BY <2>2 DEF Texts
    <3>2. Len(l) \in Nat /\ SubSeq(l, 1, Len(l)) = l
      BY <3>1, LenProperties, SubSeqFull
    <3> QED
      BY <3>2 DEF Drop
  <2> DEFINE s == <<l>> \o Drop(all, n + 1)
             t == Drop(all, n)
  <2>4. /\ Drop(all, n + 1) \in Seq(Texts) /\ Len(Drop(all, n + 1)) = Len(all) - (n + 1)
        /\ \A i \in 1 .. Len(all) - (n + 1) : Drop(all, n + 1)[i] = all[n + 1 + i]
    BY <2>1, PrefixAndDrop
  <2>5. t \in Seq(Texts) /\ Len(t) = Len(all) - n /\ \A i \in 1 .. Len(all) - n : t[i] = all[n + i]
    BY PrefixAndDrop
  <2> DEFINE one == <<l>>
             r == Drop(all, n + 1)
  <2>6. one \in Seq(Texts) /\ Len(one) = 1 /\ one[1] = l
    BY <2>2
  <2> HIDE DEF one, r
  <2>7. /\ one \o r \in Seq(Texts) /\ Len(one \o r) = Len(one) + Len(r)
        /\ \A i \in 1 .. Len(one) : (one \o r)[i] = one[i]
        /\ \A j \in 1 .. Len(r) : (one \o r)[Len(one) + j] = r[j]
        /\ \A i \in 1 .. Len(one \o r) : i \in 1 .. Len(one) \/ (i - Len(one) \in 1 .. Len(r) /\ i = Len(one) + (i - Len(one)))
    <3>1. one \in Seq(Texts) /\ r \in Seq(Texts)
      BY <2>4, <2>6 DEF r
    <3> QED
      BY <3>1, Joined
  <2>8. s = one \o r
    BY DEF one, r
  <2> HIDE DEF s, t, l
  <2>9. Len(s) = Len(t) /\ s \in Seq(Texts)
    <3>1. Len(s) = Len(one) + Len(r) /\ s \in Seq(Texts)
      BY <2>7, <2>8
    <3>2. Len(one) = 1 /\ Len(r) = Len(all) - (n + 1) /\ Len(t) = Len(all) - n
      BY <2>4, <2>5, <2>6 DEF r
    <3> QED
      BY <1>1, <3>1, <3>2
  <2>10. ASSUME NEW i \in 1 .. Len(s) PROVE s[i] = t[i]
    <3>1. i \in 1 .. Len(all) - n
      BY <2>5, <2>9
    <3>2. t[i] = all[n + i]
      BY <2>5, <3>1
    <3>3. CASE i = 1
      <4>1. s[1] = l
        BY <2>6, <2>7, <2>8
      <4> QED
        BY <3>2, <3>3, <4>1 DEF l
    <3>4. CASE i # 1
      <4> DEFINE j == i - 1
      <4>1. j \in 1 .. Len(all) - (n + 1) /\ i = 1 + j /\ n + 1 + j = n + i
        BY <1>1, <3>1, <3>4
      <4> HIDE DEF j
      <4>2. s[i] = r[j]
        BY <2>4, <2>6, <2>7, <2>8, <4>1 DEF r
      <4>3. r[j] = all[n + 1 + j]
        BY <2>4, <4>1 DEF r
      <4> QED
        BY <3>2, <4>1, <4>2, <4>3
    <3> QED
      BY <3>3, <3>4
  <2>11. s = t
    <3>1. DOMAIN s = DOMAIN t /\ s = [i \in 1 .. Len(s) |-> s[i]] /\ t = [i \in 1 .. Len(s) |-> t[i]]
      BY <2>5, <2>9, LenProperties
    <3> QED
      BY <2>10, <3>1
  <2> QED
    BY <1>3, <2>3, <2>11 DEF s, t, l
<1> QED
  BY <1>2, <1>3

\* And when it ends inside one, there are lines left all the same.
LEMMA RestIsLines ==
  ASSUME NEW all \in Seq(Texts), NEW n \in 0 .. Len(all), NEW k \in Nat
  PROVE  (IF n = Len(all) THEN << >> ELSE <<Drop(all[n + 1], k)>> \o Drop(all, n + 1)) \in Seq(Texts)
<1>1. Len(all) \in Nat
  BY LenProperties
<1>2. CASE n = Len(all)
  <2>1. << >> \in Seq(Texts)
    OBVIOUS
  <2> QED
    BY <1>2, <2>1
<1>3. CASE n # Len(all)
  <2> DEFINE l == all[n + 1]
  <2>1. n + 1 \in 1 .. Len(all) /\ n + 1 \in 0 .. Len(all)
    BY <1>1, <1>3
  <2>2. l \in Texts
    BY <2>1, LenProperties
  <2> HIDE DEF l
  <2>3. Drop(l, k) \in Texts
    <3>1. l \in Seq(0 .. OTHERTEXT) /\ Len(l) \in Nat /\ \A i \in 1 .. Len(l) : l[i] \in 0 .. OTHERTEXT
      BY <2>2, LenProperties DEF Texts
    <3> DEFINE m == Len(l)
    <3>2. \A i \in k + 1 .. m : l[i] \in 0 .. OTHERTEXT
      BY <3>1
    <3>3. m \in Nat /\ m = Len(l)
      BY <3>1
    <3> HIDE DEF m
    <3>4. SubSeq(l, k + 1, m) \in Seq(0 .. OTHERTEXT)
      BY <3>2, <3>3, SubSeqProperties
    <3> QED
      BY <3>3, <3>4 DEF Drop, Texts
  <2>4. Drop(all, n + 1) \in Seq(Texts)
    BY <2>1, PrefixAndDrop
  <2> DEFINE r == Drop(all, n + 1)
             x == Drop(l, k)
  <2>5. r \in Seq(Texts) /\ x \in Texts
    BY <2>3, <2>4
  <2> HIDE DEF r, x
  <2>6. <<x>> \o r \in Seq(Texts)
    BY <2>5
  <2> QED
    BY <1>3, <2>6 DEF r, x, l
<1> QED
  BY <1>2, <1>3

\* The counters.
Counts == [calls : Nat, opens : Nat, cuts : Nat, torn : Nat, lost : Nat, acks : Nat, trues : Nat]

\* The operation in progress makes something of the replies, or has failed.
Handles(rs) ==
  \/ call' = NoCall /\ result' = [NoResult EXCEPT !.op = "IndexError"]
  \/ \E b : GoOn([call EXCEPT !.clean = b], rs)

\* The counters of acknowledgements: those of who, and True when clear_dtcs found one.
Counted(rs, who) ==
  /\ count' \in Counts /\ count'.acks = count.acks + Cardinality(who)
  /\ count'.trues = count.trues \/ (count'.trues = count.trues + 1 /\ ClearDtcs(rs))

\* What a read does that ends after n lines of all and k characters of the next.
ReadStep(all, n, k, who, rs) ==
  /\ line' \in Seq(Texts) /\ (k = 0 => line' = Drop(all, n) /\ rs \in {<< >>, ParseElmResponse(Prefix(all, n))})
  /\ codes' = [e \in DOMAIN codes |-> IF e \in who THEN << >> ELSE codes[e]]
  /\ Counted(rs, who)
  /\ count'.torn = 0 => k = 0 /\ count.torn = 0
  /\ Handles(rs)

\* That is what ElmReads does.
LEMMA ReadEffect ==
  ASSUME count \in Counts, NEW all \in Seq(Texts), NEW n \in 0 .. Len(all), NEW k \in Nat, k > 0 => n < Len(all),
         NEW who \in SUBSET (1 .. 2), NEW sent, NEW drop, ElmReads(sent, who, drop, all, <<n, k>>)
  PROVE  \E rs : ReadStep(all, n, k, who, rs)
<1> DEFINE cut == <<n, k>>
           fresh == line = << >>
           whole == n = FirstPrompt(all)
           raw == Prefix(all, n) \o (IF k = 0 THEN << >> ELSE <<Prefix(all[n + 1], k)>>)
           raises == ParseRaises(raw)
           rs == IF raises THEN << >> ELSE ParseElmResponse(raw)
           cuts == IF whole THEN count.cuts ELSE count.cuts + 1
           torn == IF k > 0 THEN count.torn + 1 ELSE count.torn
           lost == IF drop > 0 THEN count.lost + 1 ELSE count.lost
           trues == IF call.op = "clear_dtcs" /\ ClearDtcs(rs) THEN count.trues + 1 ELSE count.trues
           b == call.clean /\ fresh /\ drop = 0 /\ whole
<1>1. cut[1] = n /\ cut[2] = k
  OBVIOUS
<1>2. /\ line' = IF n = Len(all) THEN << >> ELSE <<Drop(all[n + 1], k)>> \o Drop(all, n + 1)
      /\ codes' = [e \in DOMAIN codes |-> IF e \in who THEN << >> ELSE codes[e]]
      /\ count' = [count EXCEPT !.cuts = cuts, !.torn = torn, !.lost = lost,
                                !.acks = count.acks + Cardinality(who), !.trues = trues]
      /\ IF raises THEN call' = NoCall /\ result' = [NoResult EXCEPT !.op = "IndexError"]
         ELSE GoOn([call EXCEPT !.clean = b], rs)
  BY <1>1, Zenon DEF ElmReads
<1>3. k = 0 => raw = Prefix(all, n)
  <2> SUFFICES ASSUME k = 0 PROVE Prefix(all, n) \o << >> = Prefix(all, n)
    BY Zenon
  <2>1. Prefix(all, n) \in Seq(Texts)
    BY PrefixAndDrop
  <2> DEFINE p == Prefix(all, n)
  <2> HIDE DEF p
  <2>2. p \in Seq(Texts)
    BY <2>1 DEF p
  <2>3. p \o << >> = p
    BY <2>2, ConcatEmptySeq
  <2> QED
    BY <2>3 DEF p
<1>4. k = 0 => rs \in {<< >>, ParseElmResponse(Prefix(all, n))}
  <2> DEFINE p == Prefix(all, n)
             q == raw
  <2>1. k = 0 => q = p
    BY <1>3
  <2>2. rs = IF ParseRaises(q) THEN << >> ELSE ParseElmResponse(q)
    OBVIOUS
  <2> HIDE DEF p, q, rs
  <2>3. k = 0 => rs \in {<< >>, ParseElmResponse(p)}
    BY <2>1, <2>2
  <2> QED
    BY <2>3 DEF p
<1>5. Handles(rs)
  BY <1>2, Zenon DEF Handles
<1> HIDE DEF raw, raises, rs, b, fresh
<1>6. line' \in Seq(Texts)
  BY <1>2, RestIsLines
<1>7. k = 0 => line' = Drop(all, n)
  <2>1. k = 0 => line' = IF n = Len(all) THEN << >> ELSE <<Drop(all[n + 1], 0)>> \o Drop(all, n + 1)
    BY <1>2, Zenon
  <2> QED
    BY <2>1, LinesLeft
<1>8. Cardinality(who) \in Nat
  BY WhoAccepts
<1>9. /\ cuts \in Nat /\ torn \in Nat /\ lost \in Nat /\ trues \in Nat /\ count.acks + Cardinality(who) \in Nat
      /\ torn = 0 => k = 0 /\ count.torn = 0
      /\ trues = count.trues \/ (trues = count.trues + 1 /\ ClearDtcs(rs))
  <2>1. count.cuts \in Nat /\ count.torn \in Nat /\ count.lost \in Nat /\ count.trues \in Nat /\ count.acks \in Nat
    BY DEF Counts
  <2> DEFINE acks == count.acks + Cardinality(who)
             c == ClearDtcs(rs)
  <2>2. acks \in Nat
    BY <1>8, <2>1
  <2>3. cuts \in Nat /\ lost \in Nat
    BY <2>1
  <2>4. torn \in Nat /\ (torn = 0 => k = 0 /\ count.torn = 0)
    BY <2>1
  <2>a. trues = IF call.op = "clear_dtcs" /\ c THEN count.trues + 1 ELSE count.trues
    OBVIOUS
  <2> HIDE DEF c, trues
  <2>5. trues \in Nat /\ (trues = count.trues \/ (trues = count.trues + 1 /\ c))
    BY <2>1, <2>a
  <2> QED
    BY <2>2, <2>3, <2>4, <2>5 DEF c
<1> HIDE DEF cuts, torn, lost, trues
<1>10. Counted(rs, who) /\ (count'.torn = 0 => k = 0 /\ count.torn = 0)
  <2> DEFINE acks == count.acks + Cardinality(who)
  <2>1. acks \in Nat
    BY <1>9
  <2>2. count' = [count EXCEPT !.cuts = cuts, !.torn = torn, !.lost = lost, !.acks = acks, !.trues = trues]
    BY <1>2, Zenon
  <2> HIDE DEF acks
  <2>3. count' \in Counts /\ count'.torn = torn /\ count'.acks = acks /\ count'.trues = trues
    BY <1>9, <2>1, <2>2 DEF Counts
  <2> QED
    BY <1>9, <2>3 DEF Counted, acks
<1> QED
  BY <1>2, <1>4, <1>5, <1>6, <1>7, <1>10, Zenon DEF ReadStep

\* What ECU e sends after a request, the ECUs of who accepting it.
SentBy(e, req, who) == Sent(e, req, e \in who)

\* One request to the adapter: what the ECUs send after it, their lines in some
\* order, what is lost of them, and where the read ends.
ElmReading(req, who, lines, drop, n, k, sent) ==
  /\ who \in SUBSET (1 .. 2)
  /\ sent = <<SentBy(1, req, who), SentBy(2, req, who)>>
  /\ lines \in Merges(Printed(1, SentBy(1, req, who)), Printed(2, SentBy(2, req, who)))
  /\ drop \in 0 .. Len(lines)
  /\ n \in 0 .. Len(OnLine(Kept(lines, drop))) /\ k \in Nat
  /\ k > 0 => n < Len(OnLine(Kept(lines, drop))) /\ k < Len(OnLine(Kept(lines, drop))[n + 1])
  /\ ElmReads(sent, who, drop, OnLine(Kept(lines, drop)), <<n, k>>)

\* Every request to the adapter has these.
LEMMA ElmUnfolds ==
  ASSUME CodesInv, line \in Seq(Texts), RequestOk(Request(call)), ElmExchange
  PROVE  \E who, lines, drop, n, k, sent : ElmReading(Request(call), who, lines, drop, n, k, sent)
<1> DEFINE req == Request(call)
<1>1. DOMAIN Ecus = 1 .. 2
  BY VehicleAssumption
<1>2. PICK who \in IF req[1] = Modes.clearDtcs THEN SUBSET DOMAIN Ecus ELSE {{}} :
        LET sent == [e \in DOMAIN Ecus |-> Sent(e, Request(call), e \in who)] \o << >>
            of(e) == Printed(e, sent[e])
        IN \E lines \in Merges(of(1), of(2)) :
           \E drop \in 0 .. (IF count.lost < MaxLost THEN Len(lines) ELSE 0) :
           LET kept == IF drop = 0 THEN lines ELSE Prefix(lines, drop - 1) \o Drop(lines, drop)
               all == line \o (IF kept = << >> THEN NoData ELSE Append(kept, <<PROMPT>>))
               end == FirstPrompt(all)
           IN \E cut \in {<<end, 0>>} \cup (IF count.cuts < MaxCuts /\ end = Len(all) THEN Cuts(all) ELSE {}) :
              ElmReads(sent, who, drop, all, cut)
  BY Zenon DEF ElmExchange
<1>3. who \in SUBSET (1 .. 2)
  <2>1. CASE req[1] = Modes.clearDtcs
    BY <1>1, <2>1
  <2>2. CASE req[1] # Modes.clearDtcs
    <3>1. who \in {{}}
      BY <2>2, Zenon
    <3> QED
      BY <3>1
  <2> QED
    BY <2>1, <2>2
<1> DEFINE g == [e \in DOMAIN Ecus |-> Sent(e, req, e \in who)]
           sent == g \o << >>
           of(e) == Printed(e, sent[e])
<1>4. /\ sent[1] = Sent(1, req, 1 \in who) /\ sent[2] = Sent(2, req, 2 \in who)
  <2> DEFINE n == 2
             f == g
  <2>0. 1 \in 1 .. 2 /\ 2 \in 1 .. 2
    OBVIOUS
  <2>1. n \in Nat /\ f \in [1 .. n -> {f[e] : e \in 1 .. n}]
    BY <1>1
  <2>2. f[1] = Sent(1, req, 1 \in who) /\ f[2] = Sent(2, req, 2 \in who)
    BY <1>1, <2>0, Zenon
  <2> HIDE DEF n, f
  <2>3. f \o << >> = f
    BY <2>1, MapSeq
  <2> QED
    BY <2>2, <2>3 DEF f
<1>4a. sent = <<Sent(1, req, 1 \in who), Sent(2, req, 2 \in who)>>
  <2> DEFINE f == g
             x == Sent(1, req, 1 \in who)
             y == Sent(2, req, 2 \in who)
  <2>1. f[1] = x /\ f[2] = y /\ f \in [1 .. 2 -> {x, y}]
    <3>1. \A e \in 1 .. 2 : e = 1 \/ e = 2
      OBVIOUS
    <3>2. f = [e \in 1 .. 2 |-> Sent(e, req, e \in who)] /\ 1 \in 1 .. 2 /\ 2 \in 1 .. 2
      BY <1>1
    <3> QED
      BY <3>1, <3>2
  <2> HIDE DEF x, y, f
  <2> DEFINE n == 2
  <2>2. f \in [1 .. n -> {x, y}] /\ n \in Nat
    BY <2>1
  <2> HIDE DEF n
  <2>3. f \o << >> = f
    BY <2>2, MapSeq
  <2>4. f = <<x, y>>
    BY <2>1
  <2> QED
    BY <2>3, <2>4 DEF f, x, y
<1>5. PICK lines \in Merges(of(1), of(2)) :
        \E drop \in 0 .. (IF count.lost < MaxLost THEN Len(lines) ELSE 0) :
          LET kept == IF drop = 0 THEN lines ELSE Prefix(lines, drop - 1) \o Drop(lines, drop)
              all == line \o (IF kept = << >> THEN NoData ELSE Append(kept, <<PROMPT>>))
              end == FirstPrompt(all)
          IN \E cut \in {<<end, 0>>} \cup (IF count.cuts < MaxCuts /\ end = Len(all) THEN Cuts(all) ELSE {}) :
             ElmReads(sent, who, drop, all, cut)
  BY <1>2, Zenon
<1>6. lines \in Merges(Printed(1, Sent(1, req, 1 \in who)), Printed(2, Sent(2, req, 2 \in who)))
  BY <1>4, <1>5, Zenon
<1>7. PICK drop \in 0 .. (IF count.lost < MaxLost THEN Len(lines) ELSE 0) :
         \E cut \in {<<FirstPrompt(OnLine(Kept(lines, drop))), 0>>}
                    \cup (IF count.cuts < MaxCuts /\ FirstPrompt(OnLine(Kept(lines, drop))) = Len(OnLine(Kept(lines, drop)))
                          THEN Cuts(OnLine(Kept(lines, drop))) ELSE {}) :
            ElmReads(sent, who, drop, OnLine(Kept(lines, drop)), cut)
  BY <1>5, Zenon DEF Kept, OnLine
<1> HIDE DEF g, sent, of
<1> DEFINE kept == Kept(lines, drop)
           all == OnLine(kept)
<1>8. PICK cut : /\ cut = <<FirstPrompt(all), 0>> \/ cut \in Cuts(all)
                 /\ ElmReads(sent, who, drop, all, cut)
  <2>1. PICK x \in {<<FirstPrompt(all), 0>>}
                   \cup (IF count.cuts < MaxCuts /\ FirstPrompt(all) = Len(all) THEN Cuts(all) ELSE {}) :
                ElmReads(sent, who, drop, all, x)
    BY <1>7, Zenon
  <2> HIDE DEF all
  <2>2. x = <<FirstPrompt(all), 0>> \/ x \in Cuts(all)
    BY <2>1
  <2> QED
    BY <2>1, <2>2
<1>9. drop \in 0 .. Len(lines)
  <2>1. Len(lines) \in Nat
    <3>1. Printed(1, Sent(1, req, 1 \in who)) \in Seq(Texts) /\ Printed(2, Sent(2, req, 2 \in who)) \in Seq(Texts)
      <4>1. ASSUME NEW e \in 1 .. 2, NEW y \in BOOLEAN PROVE Printed(e, Sent(e, req, y)) \in Seq(Texts)
        BY PrintedAcks
      <4>2. (1 \in who) \in BOOLEAN /\ (2 \in who) \in BOOLEAN /\ 1 \in 1 .. 2 /\ 2 \in 1 .. 2
        OBVIOUS
      <4> QED
        BY <4>1, <4>2, Zenon
    <3> DEFINE a == Printed(1, Sent(1, req, 1 \in who))
               b == Printed(2, Sent(2, req, 2 \in who))
    <3> HIDE DEF a, b
    <3>2. a \in Seq(Texts) /\ b \in Seq(Texts) /\ lines \in Merges(a, b)
      BY <1>6, <3>1 DEF a, b
    <3>3. lines \in Seq(Texts)
      BY <3>2, MergeOf
    <3> QED
      BY <3>3, LenProperties
  <2> DEFINE m == IF count.lost < MaxLost THEN Len(lines) ELSE 0
  <2>2. m \in 0 .. Len(lines) /\ drop \in 0 .. m
    BY <2>1
  <2> HIDE DEF m
  <2> QED
    BY <2>1, <2>2
<1> HIDE DEF req
<1>10. RequestOk(req)
  BY DEF req
<1>11. kept \in Seq(Texts) /\ AllSent(kept)
  BY <1>3, <1>6, <1>9, <1>10, KeptLines
<1> HIDE DEF kept
<1>12. all \in Seq(Texts) /\ \E i \in 1 .. Len(all) : all[i] = <<PROMPT>>
  BY <1>11, LinesOnLine
<1> HIDE DEF all
<1>13. PICK n \in 0 .. Len(all) :
         \E k \in Nat : cut = <<n, k>> /\ (k > 0 => n < Len(all) /\ k < Len(all[n + 1]))
  BY <1>8, <1>12, CutPlaces
<1>14. PICK k \in Nat : cut = <<n, k>> /\ (k > 0 => n < Len(all) /\ k < Len(all[n + 1]))
  BY <1>13
<1>15. ElmReads(sent, who, drop, all, <<n, k>>)
  BY <1>8, <1>14
<1>16. sent = <<SentBy(1, req, who), SentBy(2, req, who)>>
  BY <1>4a DEF SentBy
<1>17. lines \in Merges(Printed(1, SentBy(1, req, who)), Printed(2, SentBy(2, req, who)))
  BY <1>6, Zenon DEF SentBy
<1>18. ElmReading(req, who, lines, drop, n, k, sent)
  BY <1>3, <1>9, <1>13, <1>14, <1>15, <1>16, <1>17, Zenon DEF ElmReading, all, kept
<1> QED
  BY <1>18 DEF req

\* One request to the adapter: its read is of the line with what was printed, of
\* which what an ECU prints is whole, and acknowledges no more than it accepts.
ElmStep(all, n, k, who, rs) ==
  /\ all \in Seq(Texts) /\ n \in 0 .. Len(all) /\ k \in Nat /\ who \in SUBSET (1 .. 2)
  /\ AllSent(line) => AllSent(all)
  /\ Count(all, AckLines) <= Count(line, AckLines) + Cardinality(who)
  /\ ReadStep(all, n, k, who, rs)

\* Every request to the adapter is such a step.
LEMMA ElmEffect ==
  ASSUME CodesInv, line \in Seq(Texts), count \in Counts, RequestOk(Request(call)), ElmExchange
  PROVE  \E all, n, k, who, rs : ElmStep(all, n, k, who, rs)
<1> DEFINE req == Request(call)
<1>1. PICK who, lines, drop, n, k, sent : ElmReading(req, who, lines, drop, n, k, sent)
  BY ElmUnfolds
<1>2. RequestOk(req)
  OBVIOUS
<1> HIDE DEF req
<1> DEFINE kept == Kept(lines, drop)
           all == OnLine(kept)
<1>3. /\ who \in SUBSET (1 .. 2) /\ drop \in 0 .. Len(lines)
      /\ lines \in Merges(Printed(1, Sent(1, req, 1 \in who)), Printed(2, Sent(2, req, 2 \in who)))
      /\ n \in 0 .. Len(all) /\ k \in Nat /\ (k > 0 => n < Len(all))
      /\ ElmReads(sent, who, drop, all, <<n, k>>)
  BY <1>1, Zenon DEF ElmReading, SentBy
<1>4. /\ kept \in Seq(Texts) /\ AllSent(kept)
      /\ Count(kept, AckLines) <= Cardinality(who)
  BY <1>2, <1>3, KeptLines
<1> HIDE DEF kept
<1>5. /\ all \in Seq(Texts) /\ Len(all) \in Nat
      /\ AllSent(line) => AllSent(all)
      /\ Count(all, AckLines) <= Count(line, AckLines) + Count(kept, AckLines)
  BY <1>4, LinesOnLine
<1> HIDE DEF all
<1>6. PICK rs : ReadStep(all, n, k, who, rs)
  BY <1>3, <1>5, ReadEffect
<1>7. Count(all, AckLines) <= Count(line, AckLines) + Cardinality(who)
  <2>1. Len(all) \in Nat /\ Len(kept) \in Nat /\ Len(line) \in Nat
    BY <1>4, <1>5, LenProperties
  <2>2. Count(all, AckLines) \in Nat /\ Count(kept, AckLines) \in Nat /\ Count(line, AckLines) \in Nat
    BY <2>1, CountType
  <2>3. Cardinality(who) \in Nat
    BY <1>3, WhoAccepts
  <2> QED
    BY <1>4, <1>5, <2>2, <2>3
<1> QED
  BY <1>3, <1>5, <1>6, <1>7, Zenon DEF ElmStep

\* Replies that an ECU may send, in a queue.
Replies(q) == \A i \in 1 .. Len(q) : Reply(1, q[i])

\* One request over the socket: n replies are taken, of those waiting and those
\* the ECU sends, and it acknowledges no more than it accepts.
CanStep(all, n, who, rs) ==
  /\ all \in Seq(Seq(Bytes)) /\ n \in 0 .. Len(all) /\ who \in SUBSET (1 .. 2)
  /\ Replies(rxq) => Replies(all)
  /\ Count(all, {<<68>>}) <= Count(rxq, {<<68>>}) + Cardinality(who)
  /\ rxq' = Drop(all, n) /\ rs = Prefix(all, n)
  /\ CodesInv' /\ Counted(rs, who) /\ count'.torn = count.torn
  /\ Handles(rs)

\* What an ECU sends after a request: its replies, an acknowledgement at most and
\* only when it accepts.
LEMMA SentAcks ==
  ASSUME CodesInv, NEW req, RequestOk(req), NEW accepts \in BOOLEAN, accepts => req[1] = 4,
         NEW who, who = IF accepts THEN {1} ELSE {}
  PROVE  /\ Sent(1, req, accepts) \in Seq(Seq(Bytes)) /\ Replies(Sent(1, req, accepts))
         /\ Count(Sent(1, req, accepts), {<<68>>}) <= Cardinality(who)
<1> DEFINE q == Sent(1, req, accepts)
<1>1. /\ q \in Seq(Seq(Bytes))
      /\ Sendable(1, q)
      /\ (\E k \in 1 .. Len(q) : q[k] = <<68>>) => req[1] = 4 /\ accepts
      /\ Len(q) \in 0 .. 2
      /\ req[1] = 4 /\ accepts => ClearReplies(q)
  <2>1. 1 \in 1 .. 2
    OBVIOUS
  <2> QED
    BY <2>1, SentReplies
<1> HIDE DEF q
<1>2. Replies(q)
  BY <1>1, Zenon DEF Sendable, Replies
<1>3. Len(q) \in Nat
  BY <1>1
<1>4. CASE ~accepts
  <2>1. \A k \in 1 .. Len(q) : q[k] \notin {<<68>>}
    BY <1>1, <1>4
  <2>2. Count(q, {<<68>>}) = 0
    BY <1>3, <2>1, CountType
  <2>3. Cardinality(who) = 0
    BY <1>4, FS_EmptySet
  <2> QED
    BY <1>1, <1>2, <2>2, <2>3 DEF q
<1>5. CASE accepts
  <2>1. Cardinality(who) = 1
    BY <1>5, FS_Singleton
  <2>2. q = <<<<68>>>> \/ q = <<<<127, 4, 120>>, <<68>>>>
    BY <1>1, <1>5 DEF ClearReplies
  <2>3. PICK m \in 1 .. 2 : \A i \in 1 .. Len(q) : q[i] \in {<<68>>} => i = m
    <3>1. CASE q = <<<<68>>>>
      <4>1. 1 \in 1 .. 2 /\ \A i \in 1 .. Len(q) : i = 1
        BY <3>1
      <4> QED
        BY <4>1
    <3>2. CASE q = <<<<127, 4, 120>>, <<68>>>>
      <4>1. <<127, 4, 120>> # <<68>>
        OBVIOUS
      <4>2. 2 \in 1 .. 2 /\ \A i \in 1 .. Len(q) : i = 1 \/ i = 2
        BY <3>2
      <4>3. \A i \in 1 .. Len(q) : q[i] \in {<<68>>} => i = 2
        BY <3>2, <4>1, <4>2
      <4> QED
        BY <4>2, <4>3
    <3> QED
      BY <2>2, <3>1, <3>2
  <2> DEFINE S == {i \in 1 .. Len(q) : q[i] \in {<<68>>}}
  <2>4. S \subseteq {m}
    BY <2>3
  <2> HIDE DEF S
  <2>5. IsFiniteSet({m}) /\ Cardinality({m}) = 1
    BY FS_Singleton
  <2>6. Cardinality(S) <= 1
    BY <2>4, <2>5, FS_Subset
  <2> QED
    BY <1>1, <1>2, <2>1, <2>6 DEF q, S, Count
<1> QED
  BY <1>4, <1>5

\* Every request over the socket is such a step.
LEMMA CanEffect ==
  ASSUME CodesInv, rxq \in Seq(Seq(Bytes)), count \in Counts, RequestOk(Request(call)), CanExchange
  PROVE  \E all, n, who, rs : CanStep(all, n, who, rs)
<1> DEFINE req == Request(call)
<1>1. PICK accepts \in BOOLEAN, lost \in BOOLEAN, late \in BOOLEAN :
         LET sent == Sent(1, req, accepts)
             all == rxq \o (IF lost THEN << >> ELSE sent)
             rs == IF late \/ all = << >> THEN << >> ELSE <<Head(all)>>
             ok == rxq = << >> /\ ~lost /\ ~late
         IN  /\ accepts => req[1] = Modes.clearDtcs
             /\ late => rxq = << >> /\ count.cuts < MaxCuts
             /\ lost => sent # << >> /\ count.lost < MaxLost
             /\ rxq' = Drop(all, Len(rs))
             /\ codes' = [codes EXCEPT ![1] = IF accepts THEN << >> ELSE @]
             /\ last' = [sent |-> sent, got |-> rs, fresh |-> rxq = << >>,
                         harm |-> IF lost THEN "lost" ELSE IF late THEN "cut" ELSE "none"]
             /\ count' = [count EXCEPT !.cuts = IF late THEN @ + 1 ELSE @,
                                       !.lost = IF lost THEN @ + 1 ELSE @,
                                       !.acks = IF accepts THEN @ + 1 ELSE @,
                                       !.trues = IF call.op = "clear_dtcs" /\ ClearDtcs(rs) THEN @ + 1 ELSE @]
             /\ GoOn([call EXCEPT !.clean = @ /\ ok], rs)
  BY DEF CanExchange
<1> DEFINE sent == Sent(1, req, accepts)
           new == IF lost THEN << >> ELSE sent
           all == rxq \o new
           rs == IF late \/ all = << >> THEN << >> ELSE <<Head(all)>>
           who == IF accepts THEN {1} ELSE {}
           b == call.clean /\ rxq = << >> /\ ~lost /\ ~late
           cuts == IF late THEN count.cuts + 1 ELSE count.cuts
           lose == IF lost THEN count.lost + 1 ELSE count.lost
           acks == IF accepts THEN count.acks + 1 ELSE count.acks
           trues == IF call.op = "clear_dtcs" /\ ClearDtcs(rs) THEN count.trues + 1 ELSE count.trues
<1>2. /\ accepts => req[1] = Modes.clearDtcs
      /\ rxq' = Drop(all, Len(rs))
      /\ codes' = [codes EXCEPT ![1] = IF accepts THEN << >> ELSE codes[1]]
      /\ count' = [count EXCEPT !.cuts = cuts, !.lost = lose, !.acks = acks, !.trues = trues]
      /\ Handles(rs)
  BY <1>1, Zenon DEF Handles
<1>3. accepts => req[1] = 4
  BY <1>2 DEF Modes
<1> HIDE DEF req
<1>4. /\ sent \in Seq(Seq(Bytes)) /\ Replies(sent)
      /\ Count(sent, {<<68>>}) <= Cardinality(who)
  <2>1. RequestOk(req)
    BY DEF req
  <2> QED
    BY <1>3, <2>1, SentAcks
<1> HIDE DEF sent
<1>5. who \in SUBSET (1 .. 2) /\ Cardinality(who) \in Nat /\ acks = count.acks + Cardinality(who)
  <2>1. CASE accepts
    <3>1. who = {1} /\ Cardinality({1}) = 1
      BY <2>1, FS_Singleton
    <3> QED
      BY <2>1, <3>1
  <2>2. CASE ~accepts
    <3>1. who = {} /\ Cardinality({}) = 0
      BY <2>2, FS_EmptySet
    <3>2. count.acks \in Nat
      BY DEF Counts
    <3> QED
      BY <2>2, <3>1, <3>2
  <2> QED
    BY <2>1, <2>2
<1>6. /\ new \in Seq(Seq(Bytes)) /\ Replies(new)
      /\ Count(new, {<<68>>}) <= Cardinality(who)
  <2>1. CASE lost
    <3> DEFINE e == << >>
    <3>1. e \in Seq(Seq(Bytes)) /\ Len(e) = 0 /\ \A i \in 1 .. Len(e) : FALSE
      OBVIOUS
    <3>2. new = e
      BY <2>1
    <3> HIDE DEF e
    <3>3. Len(e) \in Nat /\ \A i \in 1 .. Len(e) : e[i] \notin {<<68>>}
      BY <3>1
    <3>4. Count(e, {<<68>>}) = 0
      BY <3>3, CountType
    <3> HIDE DEF new, who
    <3>5. Replies(e)
      BY <3>1 DEF Replies
    <3> QED
      BY <1>5, <3>1, <3>2, <3>4, <3>5
  <2>2. CASE ~lost
    BY <1>4, <2>2
  <2> QED
    BY <2>1, <2>2
<1> HIDE DEF new, who
<1>7. /\ all \in Seq(Seq(Bytes)) /\ Len(all) = Len(rxq) + Len(new) /\ Len(rxq) \in Nat /\ Len(new) \in Nat
      /\ \A i \in 1 .. Len(rxq) : all[i] = rxq[i]
      /\ \A j \in 1 .. Len(new) : all[Len(rxq) + j] = new[j]
      /\ \A i \in 1 .. Len(all) : i \in 1 .. Len(rxq) \/ (i - Len(rxq) \in 1 .. Len(new) /\ i = Len(rxq) + (i - Len(rxq)))
  <2>1. new \in Seq(Seq(Bytes))
    BY <1>6
  <2> QED
    BY <2>1, Joined
<1>8. Count(all, {<<68>>}) = Count(rxq, {<<68>>}) + Count(new, {<<68>>})
  <2>1. new \in Seq(Seq(Bytes))
    BY <1>6
  <2> DEFINE A == {<<68>>}
  <2> HIDE DEF A
  <2>2. Count(rxq \o new, A) = Count(rxq, A) + Count(new, A)
    BY <2>1, CountJoined
  <2> QED
    BY <2>2 DEF A
<1>9. PICK n \in 0 .. Len(all) : n = Len(rs) /\ rs = Prefix(all, n)
  <2> DEFINE a == all
  <2>1. a \in Seq(Seq(Bytes))
    BY <1>7
  <2>2. rs = IF late \/ a = << >> THEN << >> ELSE <<Head(a)>>
    OBVIOUS
  <2> HIDE DEF a, rs
  <2>3. Len(a) \in Nat
    BY <2>1, LenProperties
  <2>4. CASE late \/ a = << >>
    <3>1. rs = << >> /\ Len(<< >>) = 0
      BY <2>2, <2>4
    <3>2. 0 \in 0 .. Len(a)
      BY <2>3
    <3>3. Prefix(a, 0) \in Seq(Seq(Bytes)) /\ Len(Prefix(a, 0)) = 0
      BY <2>1, <3>2, PrefixAndDrop
    <3>4. Prefix(a, 0) = << >>
      BY <3>3, EmptySeq
    <3> QED
      BY <3>1, <3>2, <3>4 DEF a
  <2>5. CASE ~(late \/ a = << >>)
    <3>1. Len(a) # 0
      BY <2>1, <2>5, EmptySeq
    <3>2. 1 \in 0 .. Len(a) /\ 1 \in 1 .. Len(a)
      BY <2>3, <3>1
    <3>3. /\ Prefix(a, 1) \in Seq(Seq(Bytes)) /\ Len(Prefix(a, 1)) = 1
          /\ \A i \in 1 .. 1 : Prefix(a, 1)[i] = a[i]
      BY <2>1, <3>2, PrefixAndDrop
    <3>4. Head(a) = a[1]
      BY <2>1, <2>5
    <3>5. rs = <<a[1]>>
      BY <2>2, <2>5, <3>4
    <3> DEFINE p == Prefix(a, 1)
    <3> HIDE DEF p
    <3>6. p \in Seq(Seq(Bytes)) /\ Len(p) = 1 /\ p[1] = a[1]
      BY <3>3 DEF p
    <3>7. p = <<a[1]>>
      <4>1. p = [i \in 1 .. 1 |-> p[i]]
        BY <3>6, LenProperties
      <4>2. \A i \in 1 .. 1 : p[i] = a[1]
        BY <3>6
      <4> QED
        BY <4>1, <4>2
    <3> QED
      BY <3>2, <3>5, <3>7 DEF a, p
  <2> QED
    BY <2>4, <2>5
<1>10. Replies(rxq) => Replies(all)
  <2> SUFFICES ASSUME Replies(rxq), NEW i \in 1 .. Len(all) PROVE Reply(1, all[i])
    BY Zenon DEF Replies
  <2> HIDE DEF all
  <2>1. CASE i \in 1 .. Len(rxq)
    BY <1>7, <2>1 DEF Replies
  <2>2. CASE i - Len(rxq) \in 1 .. Len(new) /\ i = Len(rxq) + (i - Len(rxq))
    <3> DEFINE j == i - Len(rxq)
    <3>1. j \in 1 .. Len(new) /\ i = Len(rxq) + j
      BY <2>2
    <3> HIDE DEF j
    <3>2. all[i] = new[j]
      BY <1>7, <3>1
    <3> QED
      BY <1>6, <3>1, <3>2 DEF Replies
  <2> QED
    BY <1>7, <2>1, <2>2
<1>11. Count(all, {<<68>>}) <= Count(rxq, {<<68>>}) + Cardinality(who)
  <2> DEFINE x == Count(rxq, {<<68>>})
             y == Count(new, {<<68>>})
  <2>1. x \in Nat /\ y \in Nat
    BY <1>7, CountType
  <2>2. y <= Cardinality(who)
    BY <1>6
  <2>3. Count(all, {<<68>>}) = x + y
    BY <1>8
  <2> HIDE DEF x, y
  <2>4. Count(all, {<<68>>}) <= x + Cardinality(who)
    BY <1>5, <2>1, <2>2, <2>3
  <2> QED
    BY <2>4 DEF x
<1>12. CodesInv'
  <2>1. CASE accepts
    <3>1. codes' = [codes EXCEPT ![1] = << >>]
      BY <1>2, <2>1
    <3> QED
      BY <3>1 DEF CodesInv
  <2>2. CASE ~accepts
    <3>1. codes' = [codes EXCEPT ![1] = codes[1]]
      BY <1>2, <2>2
    <3> QED
      BY <3>1 DEF CodesInv
  <2> QED
    BY <2>1, <2>2
<1> HIDE DEF rs, all
<1>13. Counted(rs, who) /\ count'.torn = count.torn
  <2>1. count.cuts \in Nat /\ count.torn \in Nat /\ count.lost \in Nat /\ count.trues \in Nat /\ count.acks \in Nat
    BY DEF Counts
  <2> DEFINE c == ClearDtcs(rs)
  <2>2. trues = IF call.op = "clear_dtcs" /\ c THEN count.trues + 1 ELSE count.trues
    OBVIOUS
  <2>3. cuts \in Nat /\ lose \in Nat /\ acks \in Nat
    BY <2>1
  <2> HIDE DEF c, trues
  <2>4. trues \in Nat /\ (trues = count.trues \/ (trues = count.trues + 1 /\ c))
    BY <2>1, <2>2
  <2> HIDE DEF cuts, lose, acks
  <2>5. count' \in Counts /\ count'.torn = count.torn /\ count'.acks = acks /\ count'.trues = trues
    BY <1>2, <2>3, <2>4 DEF Counts
  <2> QED
    BY <1>5, <2>4, <2>5 DEF Counted, c
<1>14. rxq' = Drop(all, n) /\ Handles(rs)
  BY <1>2, <1>9
<1>15. all \in Seq(Seq(Bytes))
  BY <1>7
<1> HIDE DEF acks, cuts, lose, trues
<1> QED
  BY <1>5, <1>9, <1>10, <1>11, <1>12, <1>13, <1>14, <1>15, Zenon DEF CanStep

-----------------------------------------------------------------------------
(* What the operations make of the replies.                                *)

\* A reply that read_dtcs and the others take as an answer to a mode is one of
\* the replies, and starts with that mode's byte.
LEMMA PositiveReplies ==
  ASSUME NEW T, NEW rs \in Seq(T), NEW sid \in Nat
  PROVE  /\ Positive(rs, sid) \in Seq({rs[i] : i \in {j \in 1 .. Len(rs) : rs[j][1] = sid + 64}})
         /\ Len(Positive(rs, sid)) \in Nat
<1> DEFINE S == {d \in ToSet(rs) : Len(d) >= 1 /\ d[1] = sid + 64}
           p == Select(rs, S)
           U == {rs[i] : i \in {j \in 1 .. Len(rs) : rs[j][1] = sid + 64}}
<1>1. Positive(rs, sid) = p
  BY DEF Positive, Where
<1>2. S \subseteq U
  <2>1. DOMAIN rs = 1 .. Len(rs)
    BY LenProperties
  <2> SUFFICES ASSUME NEW d \in S PROVE d \in U
    OBVIOUS
  <2>2. PICK j \in DOMAIN rs : d = rs[j]
    BY DEF ToSet
  <2> QED
    BY <2>1, <2>2
<1> HIDE DEF S, U
<1>3. p \in Seq(T \cap S)
  BY SelectType
<1> HIDE DEF p
<1>4. \A j \in 1 .. Len(p) : p[j] \in U
  BY <1>2, <1>3, LenProperties
<1>5. p \in Seq(U)
  BY <1>3, <1>4, SeqOver
<1> QED
  BY <1>1, <1>5, LenProperties DEF U

\* clear_dtcs returns True only when some reply starts with the byte of its mode.
LEMMA ClearFound ==
  ASSUME NEW T, NEW rs \in Seq(T), ClearDtcs(rs)
  PROVE  \E j \in 1 .. Len(rs) : rs[j][1] = 68
<1> DEFINE p == Positive(rs, 4)
           U == {rs[i] : i \in {j \in 1 .. Len(rs) : rs[j][1] = 68}}
<1>1. p \in Seq(U) /\ Len(p) \in Nat
  <2>1. 4 \in Nat /\ 4 + 64 = 68
    OBVIOUS
  <2> DEFINE f == 4
  <2>2. f \in Nat /\ f + 64 = 68
    BY <2>1
  <2> HIDE DEF f
  <2>3. Positive(rs, f) \in Seq({rs[i] : i \in {j \in 1 .. Len(rs) : rs[j][1] = f + 64}}) /\ Len(Positive(rs, f)) \in Nat
    BY <2>2, PositiveReplies
  <2>4. Positive(rs, f) \in Seq({rs[i] : i \in {j \in 1 .. Len(rs) : rs[j][1] = 68}}) /\ Len(Positive(rs, f)) \in Nat
    BY <2>2, <2>3
  <2> QED
    BY <2>4 DEF f
<1>2. p # << >>
  BY DEF ClearDtcs, Modes
<1> HIDE DEF p, U
<1>3. p[1] \in U
  <2>1. Len(p) # 0
    BY <1>1, <1>2, EmptySeq
  <2>2. 1 \in 1 .. Len(p)
    BY <1>1, <2>1
  <2> QED
    BY <1>1, <2>2, LenProperties
<1> QED
  BY <1>3 DEF U

\* The value that read_pid returns is decoded from one of the replies, and that
\* echoes the PID.
LEMMA PidFound ==
  ASSUME NEW T, NEW rs \in Seq(T), NEW pid, ReadPid(rs, pid) # << >>
  PROVE  \E j \in 1 .. Len(rs) :
           rs[j][1] = 65 /\ rs[j][2] = pid /\ ReadPid(rs, pid) = DecodePid(pid, Drop(rs[j], 2))
<1> DEFINE U == {rs[i] : i \in {j \in 1 .. Len(rs) : rs[j][1] = 65}}
           p == Positive(rs, 1)
           E == {d \in ToSet(p) : Len(d) >= 2 /\ d[2] = pid}
           ds == Select(p, E)
           V == {DecodePid(pid, Drop(d, 2)) : d \in U \cap E}
           as == [i \in DOMAIN ds |-> DecodePid(pid, Drop(ds[i], 2))]
           F == {a \in ToSet(as) : a # << >>}
           found == Select(as, F)
<1>1. ReadPid(rs, pid) = IF found = << >> THEN << >> ELSE found[1]
  <2>1. Modes.currentData = 1
    BY DEF Modes
  <2> QED
    BY <2>1, Zenon DEF ReadPid, FirstOf, Echoing, Where
<1>2. p \in Seq(U)
  <2> DEFINE f == 1
  <2>2. f \in Nat /\ f + 64 = 65
    OBVIOUS
  <2> HIDE DEF f
  <2>3. Positive(rs, f) \in Seq({rs[i] : i \in {j \in 1 .. Len(rs) : rs[j][1] = f + 64}}) /\ Len(Positive(rs, f)) \in Nat
    BY <2>2, PositiveReplies
  <2>4. Positive(rs, f) \in Seq({rs[i] : i \in {j \in 1 .. Len(rs) : rs[j][1] = 65}}) /\ Len(Positive(rs, f)) \in Nat
    BY <2>2, <2>3
  <2> QED
    BY <2>4 DEF f
<1> HIDE DEF p
<1>3. \A d \in E : d[2] = pid
  OBVIOUS
<1> HIDE DEF E, U
<1>4. ds \in Seq(U \cap E) /\ Len(ds) \in Nat
  BY <1>2, SelectType
<1> HIDE DEF ds
<1>5. as \in Seq(V)
  <2>1. DOMAIN ds = 1 .. Len(ds) /\ \A i \in 1 .. Len(ds) : ds[i] \in U \cap E
    BY <1>4, LenProperties
  <2>2. as \in [1 .. Len(ds) -> V]
    BY <2>1
  <2> DEFINE n == Len(ds)
  <2>3. n \in Nat /\ as \in [1 .. n -> V]
    BY <1>4, <2>2
  <2> HIDE DEF as, V, n
  <2>4. as \o << >> = as /\ as \in Seq(V)
    BY <2>3, MapSeq
  <2> QED
    BY <2>4
<1> HIDE DEF as, V, F
<1>6. found \in Seq(V \cap F) /\ Len(found) \in Nat
  BY <1>5, SelectType
<1> HIDE DEF found
<1>7. found # << >> /\ ReadPid(rs, pid) = found[1]
  BY <1>1, Zenon
<1>8. found[1] \in V
  <2>1. Len(found) # 0
    BY <1>6, <1>7, EmptySeq
  <2>2. 1 \in 1 .. Len(found)
    BY <1>6, <2>1
  <2> QED
    BY <1>6, <2>2, LenProperties
<1>9. PICK d \in U \cap E : found[1] = DecodePid(pid, Drop(d, 2))
  BY <1>8 DEF V
<1>10. PICK j \in 1 .. Len(rs) : rs[j][1] = 65 /\ d = rs[j]
  BY <1>9 DEF U
<1> QED
  BY <1>3, <1>7, <1>9, <1>10

\* An exchange leaves the result of before, or it is over: with what read_pid
\* finds in the replies, or with the result of another operation.
LEMMA ResultOf ==
  ASSUME NEW rs, Handles(rs)
  PROVE  \/ result' = result
         \/ result'.op # "read_pid"
         \/ result'.answer = ReadPid(rs, result'.arg[1])
<1>1. CASE call' = NoCall /\ result' = [NoResult EXCEPT !.op = "IndexError"]
  BY <1>1 DEF NoResult
<1>2. CASE \E b : GoOn([call EXCEPT !.clean = b], rs)
  <2>1. PICK b : GoOn([call EXCEPT !.clean = b], rs)
    BY <1>2
  <2> DEFINE c == [call EXCEPT !.clean = b]
  <2>2. GoOn(c, rs)
    BY <2>1
  <2> HIDE DEF c
  <2>3. \/ Walks(c) /\ WalkOn(c, rs)
        \/ Scans(c) /\ ScanOn(c, rs)
        \/ Return(c, Answer(c, rs))
    BY <2>2, Zenon DEF GoOn, Walks, Scans
  <2>4. ASSUME NEW x, Return(c, x) PROVE result'.op = c.op /\ result'.arg = c.arg /\ result'.answer = x
    BY <2>4 DEF Return
  <2>5. CASE Walks(c) /\ WalkOn(c, rs)
    <3>1. result' = result \/ \E x : Return(c, x)
      BY <2>5, Zenon DEF WalkOn
    <3> QED
      BY <2>4, <2>5, <3>1 DEF Walks
  <2>6. CASE Scans(c) /\ ScanOn(c, rs)
    <3>1. result' = result \/ \E x : Return(c, x)
      BY <2>6, Zenon DEF ScanOn
    <3> QED
      BY <2>4, <2>6, <3>1 DEF Scans
  <2>7. CASE Return(c, Answer(c, rs))
    <3>1. result'.op = c.op /\ result'.arg = c.arg /\ result'.answer = Answer(c, rs)
      BY <2>4, <2>7
    <3>2. CASE c.op = "read_pid"
      <4>1. Answer(c, rs) = ReadPid(rs, c.arg[1])
        BY <3>2 DEF Answer
      <4> QED
        BY <3>1, <4>1
    <3> QED
      BY <3>1, <3>2
  <2> QED
    BY <2>3, <2>5, <2>6, <2>7
<1> QED
  BY <1>1, <1>2 DEF Handles

\* A clear that finds its acknowledgement in what is read takes it off the line,
\* and no more are added than ECUs accept.
LEMMA TakenFromLine ==
  ASSUME NEW T, NEW all \in Seq(T), NEW n \in 0 .. Len(all), NEW A, NEW before \in Nat, NEW w \in Nat,
         Count(all, A) <= before + w,
         NEW trues \in Nat, NEW acks \in Nat, trues + before <= acks,
         NEW more, more = trues \/ (more = trues + 1 /\ Count(Prefix(all, n), A) >= 1)
  PROVE  more + Count(Drop(all, n), A) <= acks + w
<1>1. Count(all, A) = Count(Prefix(all, n), A) + Count(Drop(all, n), A)
  BY CountParts
<1>2. Count(Prefix(all, n), A) \in Nat /\ Count(Drop(all, n), A) \in Nat
  <2>1. Prefix(all, n) \in Seq(T) /\ Drop(all, n) \in Seq(T)
    BY PrefixAndDrop
  <2> DEFINE p == Prefix(all, n)
             d == Drop(all, n)
  <2> HIDE DEF p, d
  <2>2. Len(p) \in Nat /\ Len(d) \in Nat
    BY <2>1, LenProperties DEF p, d
  <2>3. Count(p, A) \in Nat /\ Count(d, A) \in Nat
    BY <2>2, CountType
  <2> QED
    BY <2>3 DEF p, d
<1> DEFINE x == Count(Prefix(all, n), A)
           y == Count(Drop(all, n), A)
<1>3. x \in Nat /\ y \in Nat /\ x + y <= before + w /\ (more = trues \/ (more = trues + 1 /\ x >= 1))
  BY <1>1, <1>2
<1> HIDE DEF x, y
<1>4. more + y <= acks + w
  BY <1>3
<1> QED
  BY <1>4 DEF y

-----------------------------------------------------------------------------
(* The invariant of the session.                                           *)

\* The operation in progress is one that was called, a walk or a scan.
OpInv ==
  call # NoCall =>
    \/ Walks(call) \/ Scans(call)
    \/ /\ \E o \in Ops : call.op = o[1] /\ call.arg = o[2]
       /\ call.op = "read_pid" => call.todo = call.arg

\* What is on the serial line and in the socket's queue was sent by ECUs, and
\* whole unless a read ended inside a line.
WireInv ==
  /\ line \in Seq(Texts) /\ rxq \in Seq(Seq(Bytes)) /\ Replies(rxq)
  /\ CodesInv /\ count \in Counts
  /\ count.torn = 0 => AllSent(line)

\* Acknowledgements that clear_dtcs has reported, and those still to be read, are
\* no more than the clears that were accepted.
AckInv ==
  /\ kind = "elm" /\ count.torn = 0 => count.trues + Count(line, AckLines) <= count.acks
  /\ kind = "can" => count.trues + Count(rxq, {<<68>>}) <= count.acks

\* The request of the operation in progress has the bytes that an ECU looks at.
LEMMA RequestsAreWhole ==
  ASSUME OpInv, TodoInv, call # NoCall
  PROVE  RequestOk(Request(call))
<1> DEFINE o1 == call.op
           arg == call.arg
           todo == call.todo
<1>1. Modes.currentData = 1 /\ Modes.freezeFrame = 2 /\ Modes.storedDtcs = 3 /\ Modes.clearDtcs = 4 /\ Modes.monitor = 6
      /\ Modes.pendingDtcs = 7 /\ Modes.control = 8 /\ Modes.vehicleInfo = 9 /\ Modes.permanentDtcs = 10
  BY DEF Modes
<1>2. ASSUME NEW x \in {3, 4, 7, 10} PROVE RequestOk(<<x>>)
  BY DEF RequestOk, Bytes
<1>3. ASSUME NEW x \in {1, 9}, NEW y \in Bytes PROVE RequestOk(<<x, y>>)
  BY DEF RequestOk, Bytes
<1>4. ASSUME NEW x \in {6, 8, 2}, NEW t \in Seq(Bytes), Len(t) >= 1, x = 2 => Len(t) >= 2
      PROVE  RequestOk(<<x>> \o t)
  <2> DEFINE one == <<x>>
  <2>1. one \in Seq(Bytes) /\ Len(one) = 1 /\ one[1] = x
    BY DEF Bytes
  <2> HIDE DEF one
  <2>2. /\ one \o t \in Seq(Bytes) /\ Len(one \o t) = Len(one) + Len(t) /\ Len(t) \in Nat
        /\ \A i \in 1 .. Len(one) : (one \o t)[i] = one[i]
    <3>1. one \in Seq(Bytes) /\ t \in Seq(Bytes)
      BY <2>1
    <3> QED
      BY <3>1, Joined
  <2>3. (one \o t)[1] = x
    BY <2>1, <2>2
  <2>4. Len(one \o t) >= 2 /\ (x = 2 => Len(one \o t) >= 3)
    <3> DEFINE n == Len(t)
               m == Len(one \o t)
    <3>1. n \in Nat /\ n >= 1 /\ m = 1 + n /\ (x = 2 => n >= 2)
      BY <1>4, <2>1, <2>2
    <3> HIDE DEF n, m
    <3>2. m >= 2 /\ (x = 2 => m >= 3)
      BY <3>1
    <3> QED
      BY <3>2 DEF m
  <2>5. one \o t # << >>
    <3>1. Len(one \o t) # 0
      BY <2>4
    <3> QED
      BY <3>1
  <2> QED
    BY <2>2, <2>3, <2>4, <2>5 DEF RequestOk, one
<1>5. CASE Walks(call)
  <2>1. PICK base \in 0 .. 255 : todo = <<base>>
    BY <1>5 DEF TodoInv
  <2>2. Request(call) = <<1, base>>
    BY <1>1, <1>5, <2>1 DEF Request, Walks
  <2>3. base \in Bytes
    BY DEF Bytes
  <2> QED
    BY <1>3, <2>2, <2>3
<1>6. CASE Scans(call)
  <2>1. todo \in Seq(Bytes) /\ todo # << >>
    BY <1>6 DEF TodoInv, Bytes
  <2>2. todo[1] \in Bytes
    <3> HIDE DEF todo
    <3>1. Len(todo) \in Nat /\ Len(todo) # 0
      BY <2>1, EmptySeq, LenProperties
    <3>2. 1 \in 1 .. Len(todo)
      BY <3>1
    <3> QED
      BY <2>1, <3>2, LenProperties
  <2>3. Request(call) = <<1, todo[1]>>
    BY <1>1, <1>6 DEF Request, Scans
  <2> QED
    BY <1>3, <2>2, <2>3
<1>7. CASE ~Walks(call) /\ ~Scans(call)
  <2>1. PICK o \in Ops : o1 = o[1] /\ arg = o[2]
    BY <1>7 DEF OpInv
  <2>2. o1 = "read_pid" => todo = arg
    BY <1>7 DEF OpInv
  <2>3. /\ o1 \in {"read_pid", "supported_pids", "live_data", "freeze_frame", "stored_dtcs", "pending_dtcs",
                  "permanent_dtcs", "clear_dtcs", "monitor_test_results", "request_control", "vin",
                  "calibration_ids", "cvn"}
        /\ arg \in Seq(0 .. 255)
        /\ CASE o1 \in {"read_pid", "monitor_test_results"} -> Len(arg) = 1
             [] o1 = "freeze_frame" -> Len(arg) = 2
             [] o1 = "request_control" -> Len(arg) >= 1
             [] OTHER -> arg = << >>
    BY <2>1, OpsAssumption
  <2>4. arg \in Seq(Bytes)
    BY <2>3 DEF Bytes
  <2>5. o1 # "supported_pids" /\ o1 # "live_data"
    BY <1>7 DEF Walks, Scans
  <2>6. CASE o1 = "read_pid"
    <3>1. arg[1] \in Bytes
      <4>1. Len(arg) = 1 /\ 1 \in 1 .. 1
        BY <2>3, <2>6
      <4> HIDE DEF arg
      <4> QED
        BY <2>4, <4>1, LenProperties
    <3>2. Request(call) = <<1, arg[1]>>
      BY <1>1, <2>2, <2>6 DEF Request
    <3> QED
      BY <1>3, <3>1, <3>2
  <2>7. CASE o1 = "freeze_frame"
    <3>1. Request(call) = <<2>> \o arg /\ Len(arg) = 2
      BY <1>1, <2>3, <2>7 DEF Request
    <3> HIDE DEF arg
    <3> QED
      BY <1>4, <2>4, <3>1
  <2>8. CASE o1 = "monitor_test_results"
    <3>1. Request(call) = <<6>> \o arg /\ Len(arg) = 1
      BY <1>1, <2>3, <2>8 DEF Request
    <3> HIDE DEF arg
    <3> QED
      BY <1>4, <2>4, <3>1
  <2>9. CASE o1 = "request_control"
    <3>1. Request(call) = <<8>> \o arg /\ Len(arg) >= 1
      BY <1>1, <2>3, <2>9 DEF Request
    <3> HIDE DEF arg
    <3> QED
      BY <1>4, <2>4, <3>1
  <2>10. CASE o1 \in {"stored_dtcs", "pending_dtcs", "permanent_dtcs", "clear_dtcs"}
    <3>1. Request(call) \in {<<3>>, <<7>>, <<10>>, <<4>>}
      BY <1>1, <2>10 DEF Request
    <3> QED
      BY <1>2, <3>1
  <2>11. CASE o1 \in {"vin", "calibration_ids", "cvn"}
    <3>1. Request(call) \in {<<9, 2>>, <<9, 4>>, <<9, 6>>}
      BY <1>1, <2>11 DEF Request
    <3>2. 2 \in Bytes /\ 4 \in Bytes /\ 6 \in Bytes
      BY DEF Bytes
    <3> QED
      BY <1>3, <3>1, <3>2
  <2> QED
    BY <2>3, <2>5, <2>6, <2>7, <2>8, <2>9, <2>10, <2>11
<1> QED
  BY <1>5, <1>6, <1>7

\* An exchange keeps OpInv: only a walk and a scan go on.
LEMMA OpGoesOn ==
  ASSUME TodoInv, call # NoCall, NEW rs, Handles(rs)
  PROVE  OpInv'
<1>1. CASE call' = NoCall
  BY <1>1 DEF OpInv
<1>2. CASE call' # NoCall
  <2>1. Continues
    BY <1>2, Zenon DEF Handles, Continues
  <2>2. Walks(call') \/ Scans(call')
    BY <1>2, <2>1, ExchangeAdvances
  <2> QED
    BY <2>2 DEF OpInv, Walks, Scans
<1> QED
  BY <1>1, <1>2

\* A PID's reply from an ECU has the bytes of that PID.
LEMMA PidReplyIsIts ==
  ASSUME ValuesMatch, NEW e \in 1 .. 2, NEW d, Reply(e, d), d[1] = 65,
         NEW v, DecodePid(d[2], Drop(d, 2)) = v, v # << >>
  PROVE  d[2] \in DOMAIN Shows[e] /\ v[1] = Shows[e][d[2]]
<1> DEFINE p == d[2]
<1>1. p \in Pids
  BY DEF DecodePid
<1>2. p % 32 # 0
  <2>1. \A x \in Pids : x % 32 # 0
    BY DEF Pids, TwoBytePids
  <2> QED
    BY <1>1, <2>1
<1>3. p \in DOMAIN PidData[e] /\ d = <<65, p>> \o PidData[e][p]
  BY <1>2 DEF Reply
<1>4. p \in DOMAIN Shows[e] /\ DecodePid(p, PidData[e][p]) = <<Shows[e][p]>>
  BY <1>1, <1>3 DEF ValuesMatch
<1>5. Drop(d, 2) = PidData[e][p]
  <2> DEFINE t == PidData[e][p]
             h == <<65, p>>
  <2>1. t \in Seq(Bytes) /\ p \in Bytes
    BY <1>3, EcuData, SMTT(30)
  <2>2. h \in Seq(Bytes) /\ Len(h) = 2
    BY <2>1 DEF Bytes
  <2>3. d = h \o t
    BY <1>3
  <2> HIDE DEF t, h, p
  <2>4. /\ h \o t \in Seq(Bytes) /\ Len(h \o t) = Len(h) + Len(t) /\ Len(h) \in Nat /\ Len(t) \in Nat
        /\ \A j \in 1 .. Len(t) : (h \o t)[Len(h) + j] = t[j]
    <3>1. h \in Seq(Bytes) /\ t \in Seq(Bytes)
      BY <2>1, <2>2
    <3> QED
      BY <3>1, Joined
  <2>5. d \in Seq(Bytes) /\ Len(d) = 2 + Len(t) /\ \A j \in 1 .. Len(t) : d[2 + j] = t[j]
    BY <2>2, <2>3, <2>4
  <2> HIDE DEF h
  <2>6. 2 \in 0 .. Len(d)
    BY <2>4, <2>5
  <2>7. /\ Drop(d, 2) \in Seq(Bytes) /\ Len(Drop(d, 2)) = Len(d) - 2
        /\ \A i \in 1 .. Len(d) - 2 : Drop(d, 2)[i] = d[2 + i]
    <3>1. d \in Seq(Bytes)
      BY <2>5
    <3> DEFINE n == 2
    <3>2. n \in 0 .. Len(d)
      BY <2>6
    <3> HIDE DEF n
    <3>3. /\ Drop(d, n) \in Seq(Bytes) /\ Len(Drop(d, n)) = Len(d) - n
          /\ \A i \in 1 .. Len(d) - n : Drop(d, n)[i] = d[n + i]
      BY <3>1, <3>2, PrefixAndDrop
    <3> QED
      BY <3>3 DEF n
  <2> DEFINE r == Drop(d, 2)
  <2> HIDE DEF r
  <2>8. r \in Seq(Bytes) /\ Len(r) = Len(t)
    BY <2>4, <2>5, <2>7 DEF r
  <2>9. \A i \in 1 .. Len(t) : r[i] = t[i]
    <3> SUFFICES ASSUME NEW i \in 1 .. Len(t) PROVE r[i] = t[i]
      OBVIOUS
    <3>1. i \in 1 .. Len(d) - 2
      BY <2>4, <2>5
    <3> QED
      BY <2>5, <2>7, <3>1 DEF r
  <2>10. r = [i \in 1 .. Len(t) |-> r[i]] /\ t = [i \in 1 .. Len(t) |-> t[i]]
    BY <2>1, <2>8, LenProperties
  <2>11. r = t
    BY <2>9, <2>10
  <2> QED
    BY <2>11 DEF r, t, p
<1> HIDE DEF p
<1>6. v = <<Shows[e][p]>>
  BY <1>4, <1>5 DEF p
<1> QED
  BY <1>4, <1>6 DEF p

\* The invariant of the session: its parts, with what is left of SessionTypeOK.
SessionInv ==
  /\ PortInv /\ TodoInv /\ OpInv /\ WireInv /\ AckInv
  /\ make \in Makes /\ setup \in 0 .. Len(INIT_COMMANDS)

\* Lines and queues that are empty or say NO DATA hold no acknowledgement.
LEMMA ClearWires ==
  /\ << >> \in Seq(Texts) /\ AllSent(<< >>) /\ Count(<< >>, AckLines) = 0
  /\ << >> \in Seq(Seq(Bytes)) /\ Replies(<< >>) /\ Count(<< >>, {<<68>>}) = 0
  /\ NoData \in Seq(Texts) /\ AllSent(NoData) /\ Count(NoData, AckLines) = 0
<1> DEFINE e == << >>
<1>1. e \in Seq(Texts) /\ e \in Seq(Seq(Bytes)) /\ Len(e) \in Nat /\ \A i \in 1 .. Len(e) : FALSE
  OBVIOUS
<1> HIDE DEF e
<1>2. AllSent(e) /\ Replies(e)
  BY <1>1 DEF AllSent, Replies
<1>3. ASSUME NEW A PROVE Count(e, A) = 0
  BY <1>1, CountType
<1>4. Count(NoData, AckLines) = 0
  BY OtherLines, CountType
<1>5. NoData \in Seq(Texts) /\ AllSent(NoData)
  BY OtherLines DEF AllSent
<1> QED
  BY <1>1, <1>2, <1>3, <1>4, <1>5 DEF e

\* The invariant holds at first.
LEMMA WiresBegin ==
  ASSUME Init
  PROVE  SessionInv /\ PidAnswersItsPid
<1>1. PortInv /\ TodoInv
  BY SessionBegins
<1>2. OpInv
  BY DEF Init, OpInv
<1>3. codes = Stored /\ DOMAIN Stored = 1 .. 2
  BY VehicleAssumption DEF Init
<1>4. CodesInv
  BY <1>3 DEF CodesInv
<1>5. /\ count \in Counts /\ count.trues = 0 /\ count.acks = 0
  BY DEF Init, Counts
<1>6. line = << >> /\ rxq = << >>
  BY DEF Init
<1>7. WireInv
  BY <1>4, <1>5, <1>6, ClearWires DEF WireInv
<1>8. AckInv
  BY <1>5, <1>6, ClearWires DEF AckInv
<1>9. make \in Makes /\ setup \in 0 .. Len(INIT_COMMANDS)
  BY DEF Init, INIT_COMMANDS
<1>10. PidAnswersItsPid
  BY DEF Init, NoResult, PidAnswersItsPid
<1> QED
  BY <1>1, <1>2, <1>7, <1>8, <1>9, <1>10 DEF SessionInv

\* The parts of the invariant on a line and a queue that are put in place of
\* those of before, empty or with NO DATA.
LEMMA FreshWires ==
  ASSUME WireInv, AckInv, kind' = kind, codes' = codes, count' \in Counts,
         count'.torn = count.torn, count'.trues = count.trues, count'.acks = count.acks,
         line' = line \/ line' \in {<< >>, NoData}, rxq' = rxq \/ rxq' = << >>
  PROVE  WireInv' /\ AckInv'
<1>1. line' \in Seq(Texts) /\ (count'.torn = 0 => AllSent(line')) /\ Count(line', AckLines) <= Count(line, AckLines)
  <2>0. Len(line) \in Nat /\ Count(line, AckLines) \in Nat
    <3>1. Len(line) \in Nat
      BY LenProperties DEF WireInv
    <3> QED
      BY <3>1, CountType
  <2>1. CASE line' = line
    BY <2>0, <2>1 DEF WireInv
  <2>2. CASE line' = << >>
    BY <2>0, <2>2, ClearWires
  <2>3. CASE line' = NoData
    <3>1. NoData \in Seq(Texts) /\ AllSent(NoData) /\ Count(NoData, AckLines) = 0
      BY ClearWires
    <3> DEFINE nd == NoData
    <3> HIDE DEF nd
    <3>2. nd \in Seq(Texts) /\ AllSent(nd) /\ Count(nd, AckLines) = 0 /\ line' = nd
      BY <2>3, <3>1 DEF nd
    <3> QED
      BY <2>0, <3>2
  <2> QED
    BY <2>1, <2>2, <2>3
<1>2. rxq' \in Seq(Seq(Bytes)) /\ Replies(rxq') /\ Count(rxq', {<<68>>}) <= Count(rxq, {<<68>>})
  <2>0. Len(rxq) \in Nat /\ Count(rxq, {<<68>>}) \in Nat
    <3>1. Len(rxq) \in Nat
      BY LenProperties DEF WireInv
    <3> QED
      BY <3>1, CountType
  <2>1. CASE rxq' = rxq
    BY <2>0, <2>1 DEF WireInv
  <2>2. CASE rxq' = << >>
    BY <2>0, <2>2, ClearWires
  <2> QED
    BY <2>1, <2>2
<1>3. WireInv'
  <2>1. CodesInv'
    BY DEF WireInv, CodesInv
  <2> QED
    BY <1>1, <1>2, <2>1 DEF WireInv, Replies, AllSent
<1>4. AckInv'
  <2>1. Count(line', AckLines) \in Nat /\ Count(rxq', {<<68>>}) \in Nat /\ Count(line, AckLines) \in Nat /\ Count(rxq, {<<68>>}) \in Nat
    <3>1. Len(line') \in Nat /\ Len(rxq') \in Nat /\ Len(line) \in Nat /\ Len(rxq) \in Nat
      BY <1>1, <1>2, LenProperties DEF WireInv
    <3> QED
      BY <3>1, CountType
  <2>2. count.trues \in Nat /\ count.acks \in Nat
    BY DEF WireInv, Counts
  <2> DEFINE a == Count(line, AckLines)
             a2 == Count(line', AckLines)
             b == Count(rxq, {<<68>>})
             b2 == Count(rxq', {<<68>>})
  <2>3. a \in Nat /\ a2 \in Nat /\ a2 <= a /\ b \in Nat /\ b2 \in Nat /\ b2 <= b
    BY <1>1, <1>2, <2>1
  <2>4. /\ kind = "elm" /\ count.torn = 0 => count.trues + a <= count.acks
        /\ kind = "can" => count.trues + b <= count.acks
    BY DEF AckInv
  <2>5. AckInv' = /\ kind' = "elm" /\ count'.torn = 0 => count'.trues + a2 <= count'.acks
                  /\ kind' = "can" => count'.trues + b2 <= count'.acks
    BY DEF AckInv, Count, AckLines, LinesOf
  <2> HIDE DEF a, a2, b, b2
  <2> QED
    BY <2>2, <2>3, <2>4, <2>5
<1> QED
  BY <1>3, <1>4

\* What is made of an output is a sequence, whatever the output.
LEMMA ParseIsSequence ==
  ASSUME NEW T, NEW raw \in Seq(T)
  PROVE  \E U : ParseElmResponse(raw) \in Seq(U)
<1> DEFINE O == {FrameOf(l) : l \in {raw[i] : i \in {j \in 1 .. Len(raw) : IsFrame(raw[j])}}}
           fs == Frames(raw)
           by == BySource(fs)
           B == Seq({x.bytes : x \in O}) \ {<< >>}
           V == {Reassemble(g) : g \in B}
           all == [k \in DOMAIN by |-> Reassemble(by[k])]
           S == {d \in ToSet(all) : d # << >>}
<1>1. fs \in Seq(O)
  BY FramesType
<1> HIDE DEF fs, O
<1>2. by \in Seq(B)
  BY <1>1, BySourceType
<1>3. ParseElmResponse(raw) = Select(all, S)
  BY DEF ParseElmResponse, Where, fs
<1> HIDE DEF by, B
<1>4. all \in Seq(V)
  <2> DEFINE n == Len(by)
  <2>1. n \in Nat /\ all \in [1 .. n -> V]
    BY <1>2, LenProperties
  <2> HIDE DEF n, all, V
  <2> QED
    BY <2>1, MapSeq
<1> HIDE DEF all, V, S
<1>5. Select(all, S) \in Seq(V \cap S)
  BY <1>4, SelectType
<1> QED
  BY <1>3, <1>5

\* A reply to a PID's request or an acknowledgement, in what a read of whole
\* lines brings, is one that an ECU sent.
LEMMA ReadIsSent ==
  ASSUME NEW all \in Seq(Texts), AllSent(all), NEW n \in 0 .. Len(all),
         NEW rs, rs \in {<< >>, ParseElmResponse(Prefix(all, n))}
  PROVE  /\ \E U : rs \in Seq(U)
         /\ \A j \in 1 .. Len(rs) : rs[j][1] \in {65, 68} => \E e \in 1 .. 2 : Reply(e, rs[j])
         /\ (\E j \in 1 .. Len(rs) : rs[j][1] = 68) => Count(Prefix(all, n), AckLines) >= 1
<1> DEFINE raw == Prefix(all, n)
<1>1. raw \in Seq(Texts) /\ Len(raw) = n /\ n \in Nat /\ \A i \in 1 .. n : raw[i] = all[i]
  <2>1. n \in Nat
    BY LenProperties
  <2> QED
    BY <2>1, PrefixAndDrop
<1>2. \A i \in 1 .. Len(raw) : SentLine(raw[i])
  <2> HIDE DEF raw
  <2>1. Len(all) \in Nat
    BY LenProperties
  <2> SUFFICES ASSUME NEW i \in 1 .. Len(raw) PROVE SentLine(raw[i])
    OBVIOUS
  <2>2. i \in 1 .. Len(all) /\ raw[i] = all[i]
    BY <1>1, <2>1
  <2> QED
    BY <2>2 DEF AllSent
<1>3. CASE rs = << >>
  <2> DEFINE z == << >>
  <2>1. z \in Seq(Texts) /\ \A j \in 1 .. Len(z) : FALSE
    OBVIOUS
  <2>2. rs = z
    BY <1>3
  <2> HIDE DEF z
  <2>3. rs \in Seq(Texts) /\ \A j \in 1 .. Len(rs) : FALSE
    BY <2>1, <2>2
  <2> QED
    BY <2>3, Zenon
<1>4. CASE rs = ParseElmResponse(Prefix(all, n))
  <2>0. rs = ParseElmResponse(raw)
    BY <1>4
  <2> HIDE DEF raw
  <2>1. \E U : rs \in Seq(U)
    <3>1. raw \in Seq(Texts)
      BY <1>1
    <3> QED
      BY <2>0, <3>1, ParseIsSequence
  <2>2. ASSUME NEW j \in 1 .. Len(rs), rs[j][1] \in {65, 68}
        PROVE  \E e \in 1 .. 2 : \E d :
                 /\ d = rs[j] /\ Reply(e, d) /\ Len(d) \in 1 .. 7
                 /\ \E i \in 1 .. Len(raw) : raw[i] \in LinesOf(d)
    <3>1. raw \in Seq(Texts)
      BY <1>1
    <3>2. ParseElmResponse(raw)[j][1] \in {65, 68} /\ j \in 1 .. Len(ParseElmResponse(raw))
      BY <2>0, <2>2
    <3>3. \E e \in 1 .. 2 : \E d :
                 /\ d = ParseElmResponse(raw)[j] /\ Reply(e, d) /\ Len(d) \in 1 .. 7
                 /\ \E i \in 1 .. Len(raw) : raw[i] \in LinesOf(d)
      BY <1>2, <3>1, <3>2, ElmReplies
    <3> QED
      BY <2>0, <3>3, Zenon
  <2>3. ASSUME NEW j \in 1 .. Len(rs), rs[j][1] \in {65, 68}
        PROVE  \E e \in 1 .. 2 : Reply(e, rs[j])
    BY <2>2, <2>3, Zenon
  <2>4. ASSUME NEW j \in 1 .. Len(rs), rs[j][1] = 68
        PROVE  Count(raw, AckLines) >= 1
    <3>1. PICK e \in 1 .. 2 : \E d :
                 /\ d = rs[j] /\ Reply(e, d) /\ Len(d) \in 1 .. 7
                 /\ \E i \in 1 .. Len(raw) : raw[i] \in LinesOf(d)
      <4>1. rs[j][1] \in {65, 68}
        BY <2>4
      <4> QED
        BY <2>2, <4>1, ZenonT(40)
    <3>2. PICK d : /\ d = rs[j] /\ Reply(e, d)
                   /\ \E i \in 1 .. Len(raw) : raw[i] \in LinesOf(d)
      BY <3>1, Zenon
    <3>3. d = <<68>>
      <4>1. d[1] = 68
        BY <2>4, <3>2
      <4> QED
        BY <3>2, <4>1 DEF Reply
    <3>4. \E i \in 1 .. Len(raw) : raw[i] \in AckLines
      BY <3>2, <3>3, Zenon DEF AckLines
    <3>5. Len(raw) \in Nat
      BY <1>1
    <3> QED
      BY <3>4, <3>5, CountType
  <2> QED
    BY <2>1, <2>3, <2>4, Zenon DEF raw
<1> QED
  BY <1>3, <1>4

\* A request to the adapter keeps the line and the acknowledgements.
LEMMA ElmKeeps ==
  ASSUME WireInv, AckInv, OpInv, TodoInv, ElmExchange
  PROVE  WireInv' /\ AckInv' /\ OpInv'
<1>1. call # NoCall /\ kind = "elm" /\ kind' = kind /\ rxq' = rxq
  BY Zenon DEF ElmExchange
<1>2. PICK all, n, k, who, rs : ElmStep(all, n, k, who, rs)
  <2>1. RequestOk(Request(call))
    BY <1>1, RequestsAreWhole
  <2> QED
    BY <2>1, ElmEffect DEF WireInv
<1>3. /\ all \in Seq(Texts) /\ n \in 0 .. Len(all) /\ k \in Nat /\ who \in SUBSET (1 .. 2)
      /\ AllSent(line) => AllSent(all)
      /\ Count(all, AckLines) <= Count(line, AckLines) + Cardinality(who)
      /\ line' \in Seq(Texts) /\ (k = 0 => line' = Drop(all, n) /\ rs \in {<< >>, ParseElmResponse(Prefix(all, n))})
      /\ codes' = [e \in DOMAIN codes |-> IF e \in who THEN << >> ELSE codes[e]]
      /\ Counted(rs, who)
      /\ count'.torn = 0 => k = 0 /\ count.torn = 0
      /\ Handles(rs)
  BY <1>2, Zenon DEF ElmStep, ReadStep
<1>4. OpInv'
  BY <1>1, <1>3, OpGoesOn
<1>5. CodesInv'
  <2>1. DOMAIN codes = 1 .. 2 /\ \A e \in 1 .. 2 : codes[e] \in {<< >>, Stored[e]}
    BY DEF WireInv, CodesInv
  <2>2. codes' = [e \in 1 .. 2 |-> IF e \in who THEN << >> ELSE codes[e]]
    BY <1>3, <2>1
  <2>3. DOMAIN codes' = 1 .. 2 /\ \A e \in 1 .. 2 : codes'[e] \in {<< >>, Stored[e]}
    BY <2>1, <2>2
  <2> QED
    BY <2>3 DEF CodesInv
<1>6. count'.torn = 0 => AllSent(line')
  <2> SUFFICES ASSUME count'.torn = 0 PROVE AllSent(line')
    OBVIOUS
  <2>1. AllSent(all) /\ line' = Drop(all, n)
    BY <1>3 DEF WireInv
  <2> DEFINE d == Drop(all, n)
  <2>2. d \in Seq(Texts) /\ Len(d) = Len(all) - n /\ \A i \in 1 .. Len(all) - n : d[i] = all[n + i]
    BY <1>3, PrefixAndDrop
  <2> HIDE DEF d
  <2>3. Len(all) \in Nat
    BY <1>3, LenProperties
  <2>4. ASSUME NEW i \in 1 .. Len(d) PROVE SentLine(d[i])
    <3>1. n + i \in 1 .. Len(all) /\ d[i] = all[n + i]
      <4> DEFINE m == Len(all)
                 q == Len(d)
      <4>1. m \in Nat /\ n \in 0 .. m /\ q = m - n /\ i \in 1 .. q /\ \A x \in 1 .. m - n : d[x] = all[n + x]
        BY <1>3, <2>2, <2>3
      <4> HIDE DEF m, q
      <4>2. n + i \in 1 .. m /\ d[i] = all[n + i]
        BY <4>1
      <4> QED
        BY <4>2 DEF m
    <3> QED
      BY <2>1, <3>1 DEF AllSent
  <2>5. AllSent(d)
    BY <2>4 DEF AllSent
  <2> QED
    BY <2>1, <2>5 DEF d
<1>7. WireInv'
  BY <1>1, <1>3, <1>5, <1>6 DEF WireInv, Counted, Replies, AllSent
<1>8. count'.torn = 0 => count'.trues + Count(line', AckLines) <= count'.acks
  <2> SUFFICES ASSUME count'.torn = 0 PROVE count'.trues + Count(line', AckLines) <= count'.acks
    OBVIOUS
  <2>1. k = 0 /\ count.torn = 0 /\ AllSent(all) /\ line' = Drop(all, n)
    BY <1>3 DEF WireInv
  <2>2. rs \in {<< >>, ParseElmResponse(Prefix(all, n))}
    BY <1>3, <2>1
  <2>3. /\ \E U : rs \in Seq(U)
        /\ (\E j \in 1 .. Len(rs) : rs[j][1] = 68) => Count(Prefix(all, n), AckLines) >= 1
    BY <1>3, <2>1, <2>2, ReadIsSent
  <2>4. ClearDtcs(rs) => Count(Prefix(all, n), AckLines) >= 1
    <3>1. PICK U : rs \in Seq(U)
      BY <2>3
    <3>2. ClearDtcs(rs) => \E j \in 1 .. Len(rs) : rs[j][1] = 68
      BY <3>1, ClearFound
    <3> QED
      BY <2>3, <3>2
  <2> DEFINE before == Count(line, AckLines)
             w == Cardinality(who)
  <2>5. before \in Nat /\ w \in Nat
    <3>1. Len(line) \in Nat
      BY LenProperties DEF WireInv
    <3>2. before \in Nat
      BY <3>1, CountType
    <3>3. w \in Nat
      BY <1>3, WhoAccepts
    <3> QED
      BY <3>2, <3>3
  <2>6. count.trues \in Nat /\ count.acks \in Nat /\ count.trues + before <= count.acks
    BY <1>1, <2>1 DEF WireInv, Counts, AckInv
  <2>7. /\ count'.acks = count.acks + w
        /\ count'.trues = count.trues \/ (count'.trues = count.trues + 1 /\ Count(Prefix(all, n), AckLines) >= 1)
    BY <1>3, <2>4 DEF Counted
  <2>8. Count(all, AckLines) <= before + w
    BY <1>3
  <2> HIDE DEF before, w
  <2>9. count'.trues + Count(Drop(all, n), AckLines) <= count.acks + w
    <3> DEFINE trues == count.trues
               acks == count.acks
               more == count'.trues
    <3>1. /\ trues \in Nat /\ acks \in Nat /\ trues + before <= acks
          /\ more = trues \/ (more = trues + 1 /\ Count(Prefix(all, n), AckLines) >= 1)
      BY <2>6, <2>7
    <3>2. all \in Seq(Texts) /\ n \in 0 .. Len(all)
      BY <1>3
    <3> HIDE DEF trues, acks, more
    <3>3. more + Count(Drop(all, n), AckLines) <= acks + w
      BY <2>5, <2>8, <3>1, <3>2, TakenFromLine
    <3> QED
      BY <3>3 DEF acks, more
  <2> QED
    BY <2>1, <2>7, <2>9
<1>9. AckInv'
  <2>1. kind' # "can"
    BY <1>1
  <2>2. AckLines' = AckLines
    BY DEF AckLines, LinesOf
  <2> QED
    BY <1>8, <2>1, <2>2 DEF AckInv, Count
<1> QED
  BY <1>4, <1>7, <1>9

\* A request over the socket keeps the queue and the acknowledgements.
LEMMA CanKeeps ==
  ASSUME WireInv, AckInv, OpInv, TodoInv, CanExchange
  PROVE  WireInv' /\ AckInv' /\ OpInv'
<1>1. call # NoCall /\ kind = "can" /\ kind' = kind /\ line' = line
  BY Zenon DEF CanExchange
<1>2. PICK all, n, who, rs : CanStep(all, n, who, rs)
  <2>1. RequestOk(Request(call))
    BY <1>1, RequestsAreWhole
  <2> QED
    BY <2>1, CanEffect DEF WireInv
<1>3. /\ all \in Seq(Seq(Bytes)) /\ n \in 0 .. Len(all) /\ who \in SUBSET (1 .. 2)
      /\ Replies(rxq) => Replies(all)
      /\ Count(all, {<<68>>}) <= Count(rxq, {<<68>>}) + Cardinality(who)
      /\ rxq' = Drop(all, n) /\ rs = Prefix(all, n)
      /\ CodesInv' /\ Counted(rs, who) /\ count'.torn = count.torn
      /\ Handles(rs)
  BY <1>2, Zenon DEF CanStep
<1>4. OpInv'
  BY <1>1, <1>3, OpGoesOn
<1>5. Replies(all)
  BY <1>3 DEF WireInv
<1>6. /\ Prefix(all, n) \in Seq(Seq(Bytes)) /\ Len(Prefix(all, n)) = n
      /\ \A i \in 1 .. n : Prefix(all, n)[i] = all[i]
      /\ Drop(all, n) \in Seq(Seq(Bytes)) /\ Len(Drop(all, n)) = Len(all) - n
      /\ \A i \in 1 .. Len(all) - n : Drop(all, n)[i] = all[n + i]
  BY <1>3, PrefixAndDrop
<1>7. Len(all) \in Nat
  BY <1>3, LenProperties
<1> DEFINE p == Prefix(all, n)
           d == Drop(all, n)
           m == Len(all)
<1>8. /\ p \in Seq(Seq(Bytes)) /\ Len(p) = n /\ (\A i \in 1 .. n : p[i] = all[i])
      /\ d \in Seq(Seq(Bytes)) /\ Len(d) = m - n /\ (\A i \in 1 .. m - n : d[i] = all[n + i])
      /\ m \in Nat /\ n \in 0 .. m /\ (\A i \in 1 .. m : Reply(1, all[i]))
  BY <1>3, <1>5, <1>6, <1>7 DEF Replies
<1>9. rxq' = d /\ rs = p
  BY <1>3
<1> HIDE DEF p, d, m
<1>10. Replies(p) /\ Replies(d)
  <2>1. ASSUME NEW i \in 1 .. Len(p) PROVE Reply(1, p[i])
    <3>1. i \in 1 .. m /\ p[i] = all[i]
      BY <1>8
    <3> QED
      BY <1>8, <3>1
  <2>2. ASSUME NEW i \in 1 .. Len(d) PROVE Reply(1, d[i])
    <3>1. n + i \in 1 .. m /\ d[i] = all[n + i]
      BY <1>8
    <3> QED
      BY <1>8, <3>1
  <2> QED
    BY <2>1, <2>2 DEF Replies
<1>11. WireInv'
  <2>1. count'.torn = 0 => AllSent(line')
    BY <1>1, <1>3 DEF WireInv, AllSent
  <2>2. line' \in Seq(Texts) /\ rxq' \in Seq(Seq(Bytes)) /\ count' \in Counts
    BY <1>1, <1>3, <1>8, <1>9 DEF WireInv, Counted
  <2>3. Replies(rxq')
    BY <1>9, <1>10
  <2> QED
    BY <1>3, <2>1, <2>2, <2>3 DEF WireInv, Replies, AllSent
<1>12. count'.trues + Count(d, {<<68>>}) <= count'.acks
  <2>1. ClearDtcs(rs) => Count(p, {<<68>>}) >= 1
    <3> SUFFICES ASSUME ClearDtcs(rs) PROVE Count(p, {<<68>>}) >= 1
      OBVIOUS
    <3>1. PICK j \in 1 .. Len(p) : p[j][1] = 68
      <4>1. p \in Seq(Seq(Bytes)) /\ ClearDtcs(p)
        BY <1>8, <1>9
      <4> DEFINE T == Seq(Bytes)
      <4> HIDE DEF T
      <4>2. p \in Seq(T)
        BY <4>1 DEF T
      <4> QED
        BY <4>1, <4>2, ClearFound
    <3>2. p[j] = <<68>>
      BY <1>10, <3>1 DEF Replies, Reply
    <3>3. Len(p) \in Nat /\ \E i \in 1 .. Len(p) : p[i] \in {<<68>>}
      <4>1. n \in Nat /\ Len(p) = n
        BY <1>8
      <4> QED
        BY <3>1, <3>2, <4>1
    <3> QED
      BY <3>3, CountType
  <2> DEFINE before == Count(rxq, {<<68>>})
             w == Cardinality(who)
  <2>2. before \in Nat /\ w \in Nat
    <3>1. Len(rxq) \in Nat
      BY LenProperties DEF WireInv
    <3>2. before \in Nat
      BY <3>1, CountType
    <3>3. w \in Nat
      BY <1>3, WhoAccepts
    <3> QED
      BY <3>2, <3>3
  <2>3. count.trues \in Nat /\ count.acks \in Nat /\ count.trues + before <= count.acks
    BY <1>1 DEF WireInv, Counts, AckInv
  <2> DEFINE A == {<<68>>}
  <2>4. /\ count'.acks = count.acks + w
        /\ count'.trues = count.trues \/ (count'.trues = count.trues + 1 /\ Count(p, A) >= 1)
    BY <1>3, <2>1 DEF Counted
  <2>5. Count(all, A) <= before + w
    BY <1>3
  <2> HIDE DEF before, w, A
  <2> DEFINE trues == count.trues
             acks == count.acks
             more == count'.trues
  <2>6. /\ trues \in Nat /\ acks \in Nat /\ trues + before <= acks
        /\ more = trues \/ (more = trues + 1 /\ Count(Prefix(all, n), A) >= 1)
    BY <2>3, <2>4 DEF p
  <2> DEFINE T == Seq(Bytes)
  <2>7. all \in Seq(T) /\ n \in 0 .. Len(all)
    BY <1>3
  <2> HIDE DEF trues, acks, more, T
  <2>8. more + Count(Drop(all, n), A) <= acks + w
    BY <2>2, <2>5, <2>6, <2>7, TakenFromLine
  <2> QED
    BY <2>4, <2>8 DEF acks, more, d, A
<1>13. AckInv'
  <2>1. kind' # "elm"
    BY <1>1
  <2> QED
    BY <1>9, <1>12, <2>1 DEF AckInv, Count
<1> QED
  BY <1>4, <1>11, <1>13

\* Every step keeps the invariant.
LEMMA SessionKeeps ==
  ASSUME SessionInv, [Next]_vars
  PROVE  SessionInv'
<1>1. PortInv' /\ TodoInv'
  BY SessionStep DEF SessionInv
<1>2. CASE UNCHANGED vars
  <2>1. UNCHANGED <<kind, make, setup, line, rxq, codes, call, count>>
    BY <1>2 DEF vars
  <2>2. OpInv'
    BY <2>1 DEF SessionInv, OpInv, Walks, Scans
  <2>3. WireInv' /\ AckInv'
    BY <2>1, FreshWires DEF SessionInv, WireInv
  <2> QED
    BY <1>1, <2>1, <2>2, <2>3 DEF SessionInv
<1>3. ASSUME NEW late \in BOOLEAN, Open(late)
      PROVE  SessionInv'
  <2> DEFINE cuts == IF late THEN count.cuts + 1 ELSE count.cuts
             opens == count.opens + 1
  <2>1. /\ call' = call /\ kind' = kind /\ make' = make /\ codes' = codes
        /\ count' = [count EXCEPT !.opens = opens, !.cuts = cuts]
        /\ setup' = setup \/ setup' \in {Len(INIT_COMMANDS), 0}
        /\ line' = line \/ line' \in {<< >>, NoData}
        /\ rxq' = rxq \/ rxq' = << >>
    BY <1>3 DEF Open
  <2>2. count' \in Counts /\ count'.torn = count.torn /\ count'.trues = count.trues /\ count'.acks = count.acks
    <3>1. count \in Counts
      BY DEF SessionInv, WireInv
    <3>2. opens \in Nat /\ cuts \in Nat
      BY <3>1 DEF Counts
    <3> HIDE DEF opens, cuts
    <3> QED
      BY <2>1, <3>1, <3>2 DEF Counts
  <2>3. WireInv' /\ AckInv'
    BY <2>1, <2>2, FreshWires DEF SessionInv
  <2>4. OpInv'
    BY <2>1 DEF SessionInv, OpInv, Walks, Scans
  <2>5. setup' \in 0 .. Len(INIT_COMMANDS)
    BY <2>1 DEF SessionInv, INIT_COMMANDS
  <2> QED
    BY <1>1, <2>1, <2>3, <2>4, <2>5 DEF SessionInv
<1>4. ASSUME NEW sent \in 0 .. Len(INIT_COMMANDS) - 1, OpenFails(sent)
      PROVE  SessionInv'
  <2> DEFINE opens == count.opens + 1
  <2>1. /\ call' = call /\ kind' = kind /\ make' = make /\ codes' = codes
        /\ count' = [count EXCEPT !.opens = opens]
        /\ setup' = sent
        /\ line' = << >> /\ rxq' = << >>
    BY <1>4 DEF OpenFails
  <2>2. count' \in Counts /\ count'.torn = count.torn /\ count'.trues = count.trues /\ count'.acks = count.acks
    <3>1. count \in Counts
      BY DEF SessionInv, WireInv
    <3>2. opens \in Nat
      BY <3>1 DEF Counts
    <3> HIDE DEF opens
    <3> QED
      BY <2>1, <3>1, <3>2 DEF Counts
  <2>3. WireInv' /\ AckInv'
    <3>1. line' \in {<< >>, NoData}
      BY <2>1
    <3> QED
      BY <2>1, <2>2, <3>1, FreshWires DEF SessionInv
  <2>4. OpInv'
    BY <2>1 DEF SessionInv, OpInv, Walks, Scans
  <2>5. setup' \in 0 .. Len(INIT_COMMANDS)
    BY <2>1 DEF INIT_COMMANDS
  <2> QED
    BY <1>1, <2>1, <2>3, <2>4, <2>5 DEF SessionInv
<1>5. ASSUME NEW raises \in BOOLEAN, Close(raises)
      PROVE  SessionInv'
  <2>1. UNCHANGED <<kind, make, setup, line, rxq, codes, call, count>>
    BY <1>5 DEF Close
  <2>2. OpInv'
    BY <2>1 DEF SessionInv, OpInv, Walks, Scans
  <2>3. WireInv' /\ AckInv'
    BY <2>1, FreshWires DEF SessionInv, WireInv
  <2> QED
    BY <1>1, <2>1, <2>2, <2>3 DEF SessionInv
<1>6. ASSUME NEW o \in Ops, Begin(o[1], o[2])
      PROVE  SessionInv'
  <2> DEFINE calls == count.calls + 1
  <2>1. /\ UNCHANGED <<kind, make, setup, line, rxq, codes>>
        /\ count' = [count EXCEPT !.calls = calls]
        /\ call = NoCall
        /\ \/ call' = NoCall
           \/ call' = [op |-> o[1], arg |-> o[2], found |-> {}, clean |-> TRUE,
                       todo |-> IF o[1] = "read_pid" THEN o[2] ELSE <<0>>]
    BY <1>6 DEF Begin
  <2>2. count' \in Counts /\ count'.torn = count.torn /\ count'.trues = count.trues /\ count'.acks = count.acks
    <3>1. count \in Counts
      BY DEF SessionInv, WireInv
    <3>2. calls \in Nat
      BY <3>1 DEF Counts
    <3> HIDE DEF calls
    <3> QED
      BY <2>1, <3>1, <3>2 DEF Counts
  <2>3. WireInv' /\ AckInv'
    BY <2>1, <2>2, FreshWires DEF SessionInv
  <2>4. OpInv'
    BY <2>1 DEF OpInv
  <2> QED
    BY <1>1, <2>1, <2>3, <2>4 DEF SessionInv
<1>7. CASE ElmExchange
  <2>1. WireInv' /\ AckInv' /\ OpInv'
    BY <1>7, ElmKeeps DEF SessionInv
  <2>2. make' = make /\ setup' = setup
    BY <1>7, Zenon DEF ElmExchange
  <2> QED
    BY <1>1, <2>1, <2>2 DEF SessionInv
<1>8. CASE CanExchange
  <2>1. WireInv' /\ AckInv' /\ OpInv'
    BY <1>8, CanKeeps DEF SessionInv
  <2>2. make' = make /\ setup' = setup
    BY <1>8, Zenon DEF CanExchange
  <2> QED
    BY <1>1, <2>1, <2>2 DEF SessionInv
<1> QED
  BY <1>2, <1>3, <1>4, <1>5, <1>6, <1>7, <1>8, Zenon DEF Next

\* The session and its transport (obd/session.py) keep their types, what is on
\* the line or in the queue among them, and the counts; each ECU has the codes it
\* stored or none; only an open session holds a socket; an operation in progress
\* has a port, and is one that was called, or a walk or scan with bytes to ask for.
THEOREM SessionTypeCorrect == Spec => []SessionTypeOK
<1>1. Init => SessionInv
  BY WiresBegin
<1>2. SessionInv /\ [Next]_vars => SessionInv'
  BY SessionKeeps
<1>3. SessionInv => SessionTypeOK
  <2> SUFFICES ASSUME SessionInv PROVE SessionTypeOK
    OBVIOUS
  <2>1. /\ kind \in {"elm", "can"} /\ make \in Makes
        /\ open \in BOOLEAN /\ port \in BOOLEAN /\ setup \in 0 .. Len(INIT_COMMANDS)
        /\ line \in Seq(Seq(0 .. OTHERTEXT))
        /\ rxq \in Seq(Seq(0 .. 255))
        /\ kind = "can" /\ port => open
    BY DEF SessionInv, PortInv, WireInv, Texts, Bytes
  <2>2. DOMAIN codes = 1 .. 2 /\ \A e \in 1 .. 2 : codes[e] \in {<< >>, Stored[e]}
    BY DEF SessionInv, WireInv, CodesInv
  <2>3. count \in [calls : Nat, opens : Nat, cuts : Nat, torn : Nat, lost : Nat, acks : Nat, trues : Nat]
    BY DEF SessionInv, WireInv, Counts
  <2>4. ASSUME call # NoCall
        PROVE  /\ port
               /\ \/ call.op \in {"supported_pids", "live_data"} /\ call.todo # << >> /\ call.todo \in Seq(0 .. 255)
                  \/ \E o \in Ops : call.op = o[1] /\ call.arg = o[2]
    <3>1. port
      BY <2>4 DEF SessionInv, PortInv
    <3>2. CASE Walks(call)
      <4>1. PICK base \in 0 .. 255 : call.todo = <<base>>
        BY <2>4, <3>2 DEF SessionInv, TodoInv
      <4>2. call.todo # << >> /\ call.todo \in Seq(0 .. 255)
        BY <4>1
      <4>3. QED
        BY <3>1, <3>2, <4>2 DEF Walks
    <3>3. CASE Scans(call)
      <4>1. call.todo # << >> /\ call.todo \in Seq(0 .. 255)
        BY <2>4, <3>3 DEF SessionInv, TodoInv
      <4>2. QED
        BY <3>1, <3>3, <4>1 DEF Scans
    <3>4. CASE \E o \in Ops : call.op = o[1] /\ call.arg = o[2]
      BY <3>1, <3>4
    <3>5. QED
      BY <2>4, <3>2, <3>3, <3>4 DEF SessionInv, OpInv
  <2>5. QED
    BY <2>1, <2>2, <2>3, <2>4 DEF SessionTypeOK
<1> QED
  BY <1>1, <1>2, <1>3, PTL DEF Spec

\* An acknowledgement is reported once: clear_dtcs (protocol/obd2.py) returns True
\* no more often than ECUs have cleared their codes, whatever was lost, late or
\* left on the line by earlier requests, so long as no line is torn.
THEOREM AcksAreUsedOnce == Spec => []AcksAreNotReused
<1>1. Init => SessionInv
  BY WiresBegin
<1>2. SessionInv /\ [Next]_vars => SessionInv'
  BY SessionKeeps
<1>3. SessionInv => AcksAreNotReused
  <2> SUFFICES ASSUME SessionInv, count.torn = 0 PROVE count.trues <= count.acks
    BY DEF AcksAreNotReused
  <2>1. Count(line, AckLines) \in Nat /\ Count(rxq, {<<68>>}) \in Nat
    <3>1. Len(line) \in Nat /\ Len(rxq) \in Nat
      BY LenProperties DEF SessionInv, WireInv
    <3> QED
      BY <3>1, CountType
  <2>2. count.trues \in Nat /\ count.acks \in Nat /\ kind \in {"elm", "can"}
    BY DEF SessionInv, WireInv, Counts, PortInv
  <2>3. \/ count.trues + Count(line, AckLines) <= count.acks
        \/ count.trues + Count(rxq, {<<68>>}) <= count.acks
    BY <2>2 DEF SessionInv, AckInv
  <2> QED
    BY <2>1, <2>2, <2>3
<1> QED
  BY <1>1, <1>2, <1>3, PTL DEF Spec

\* A request keeps PidAnswersItsPid: what read_pid returns is one of the replies,
\* and an ECU sent that for this PID.
LEMMA PidStep ==
  ASSUME ValuesMatch, SessionInv, PidAnswersItsPid, [Next]_vars
  PROVE  PidAnswersItsPid'
<1>1. CASE ElmExchange \/ CanExchange
  <2>1. kind' = kind /\ call # NoCall
    BY <1>1, Zenon DEF ElmExchange, CanExchange
  <2> SUFFICES ASSUME result'.op = "read_pid", result'.answer # << >>, count'.torn = 0
               PROVE  result'.answer[1] \in Truths(result'.arg[1])
    BY <2>1 DEF PidAnswersItsPid, Truths, Answering
  <2> DEFINE pid == result'.arg[1]
  <2>2. RequestOk(Request(call))
    BY <2>1, RequestsAreWhole DEF SessionInv
  <2>4. \E rs : /\ Handles(rs) /\ count.torn = 0 /\ \E U : rs \in Seq(U)
                /\ \A j \in 1 .. Len(rs) : rs[j][1] = 65 => \E e \in Answering : e \in 1 .. 2 /\ Reply(e, rs[j])
    <3>1. CASE ElmExchange
      <4>1. PICK all, n, k, who, rs : ElmStep(all, n, k, who, rs)
        BY <2>2, <3>1, ElmEffect DEF SessionInv, WireInv
      <4>2. /\ all \in Seq(Texts) /\ n \in 0 .. Len(all)
            /\ AllSent(line) => AllSent(all)
            /\ k = 0 => rs \in {<< >>, ParseElmResponse(Prefix(all, n))}
            /\ count'.torn = 0 => k = 0 /\ count.torn = 0
            /\ Handles(rs)
        BY <4>1, Zenon DEF ElmStep, ReadStep
      <4>3. AllSent(all) /\ rs \in {<< >>, ParseElmResponse(Prefix(all, n))} /\ count.torn = 0
        BY <4>2 DEF SessionInv, WireInv
      <4>4. /\ \E U : rs \in Seq(U)
            /\ \A j \in 1 .. Len(rs) : rs[j][1] \in {65, 68} => \E e \in 1 .. 2 : Reply(e, rs[j])
        BY <4>2, <4>3, ReadIsSent
      <4>5. Answering = 1 .. 2
        BY <3>1, VehicleAssumption DEF ElmExchange, Answering
      <4>6. \A j \in 1 .. Len(rs) : rs[j][1] = 65 => \E e \in Answering : e \in 1 .. 2 /\ Reply(e, rs[j])
        BY <4>4, <4>5
      <4> QED
        BY <4>2, <4>3, <4>4, <4>6, Zenon
    <3>2. CASE CanExchange
      <4>1. PICK all, n, who, rs : CanStep(all, n, who, rs)
        BY <2>2, <3>2, CanEffect DEF SessionInv, WireInv
      <4>2. /\ all \in Seq(Seq(Bytes)) /\ n \in 0 .. Len(all)
            /\ Replies(rxq) => Replies(all)
            /\ rs = Prefix(all, n) /\ count'.torn = count.torn
            /\ Handles(rs)
        BY <4>1, Zenon DEF CanStep
      <4>3. Replies(all) /\ count.torn = 0
        BY <4>2 DEF SessionInv, WireInv
      <4>4. /\ rs \in Seq(Seq(Bytes)) /\ Len(rs) = n /\ \A i \in 1 .. n : rs[i] = all[i]
        BY <4>2, PrefixAndDrop
      <4>5. Answering = {1} /\ 1 \in 1 .. 2
        BY <3>2 DEF CanExchange, Answering
      <4>6. ASSUME NEW j \in 1 .. Len(rs) PROVE Reply(1, rs[j])
        <5> DEFINE m == Len(all)
        <5>1. m \in Nat /\ n \in 0 .. m /\ j \in 1 .. n
          BY <4>2, <4>4, LenProperties
        <5> HIDE DEF m
        <5>2. j \in 1 .. m
          BY <5>1
        <5> QED
          BY <4>3, <4>4, <5>1, <5>2 DEF Replies, m
      <4>7. \A j \in 1 .. Len(rs) : rs[j][1] = 65 => \E e \in Answering : e \in 1 .. 2 /\ Reply(e, rs[j])
        BY <4>5, <4>6
      <4> QED
        BY <4>2, <4>3, <4>4, <4>7, Zenon
    <3> QED
      BY <1>1, <3>1, <3>2
  <2>5. PICK rs : /\ Handles(rs) /\ count.torn = 0 /\ \E U : rs \in Seq(U)
                  /\ \A j \in 1 .. Len(rs) : rs[j][1] = 65 => \E e \in Answering : e \in 1 .. 2 /\ Reply(e, rs[j])
    BY <2>4
  <2>6. CASE result' = result
    BY <2>5, <2>6 DEF PidAnswersItsPid
  <2>7. CASE result'.answer = ReadPid(rs, result'.arg[1])
    <3> DEFINE v == result'.answer
    <3>0. PICK U : rs \in Seq(U)
      BY <2>5
    <3>1. v = ReadPid(rs, pid) /\ v # << >>
      BY <2>7
    <3> HIDE DEF v, pid
    <3>2. PICK j \in 1 .. Len(rs) :
            rs[j][1] = 65 /\ rs[j][2] = pid /\ ReadPid(rs, pid) = DecodePid(pid, Drop(rs[j], 2))
      <4>1. ReadPid(rs, pid) # << >>
        BY <3>1
      <4> QED
        BY <3>0, <4>1, PidFound
    <3>3. PICK e \in Answering : e \in 1 .. 2 /\ Reply(e, rs[j])
      BY <2>5, <3>2, Zenon
    <3> DEFINE d == rs[j]
    <3>4. Reply(e, d) /\ d[1] = 65 /\ d[2] = pid /\ DecodePid(d[2], Drop(d, 2)) = v
      BY <3>1, <3>2, <3>3
    <3> HIDE DEF d
    <3>5. pid \in DOMAIN Shows[e] /\ v[1] = Shows[e][pid]
      <4>1. e \in 1 .. 2
        BY <3>3
      <4>2. d[2] \in DOMAIN Shows[e] /\ v[1] = Shows[e][d[2]]
        BY <3>1, <3>4, <4>1, PidReplyIsIts
      <4> QED
        BY <3>4, <4>2
    <3>6. v[1] \in Truths(pid)
      BY <3>3, <3>5 DEF Truths
    <3> QED
      BY <3>6 DEF v, pid
  <2> QED
    BY <2>5, <2>6, <2>7, ResultOf
<1>2. CASE ~(ElmExchange \/ CanExchange)
  <2>1. /\ kind' = kind /\ count'.torn = count.torn
        /\ result' = result \/ result' = NoResult \/ result' = [NoResult EXCEPT !.op = "TransportError"]
    <3>1. CASE UNCHANGED vars
      BY <3>1 DEF vars
    <3>2. ASSUME NEW late \in BOOLEAN, Open(late)
          PROVE  kind' = kind /\ count'.torn = count.torn /\ result' = result
      BY <3>2 DEF Open, SessionInv, WireInv, Counts
    <3>3. ASSUME NEW sent \in 0 .. Len(INIT_COMMANDS) - 1, OpenFails(sent)
          PROVE  kind' = kind /\ count'.torn = count.torn /\ result' = result
      BY <3>3 DEF OpenFails, SessionInv, WireInv, Counts
    <3>4. ASSUME NEW raises \in BOOLEAN, Close(raises)
          PROVE  kind' = kind /\ count' = count /\ result' = result
      BY <3>4 DEF Close
    <3>5. ASSUME NEW o \in Ops, Begin(o[1], o[2])
          PROVE  /\ kind' = kind /\ count'.torn = count.torn
                 /\ result' = NoResult \/ result' = [NoResult EXCEPT !.op = "TransportError"]
      BY <3>5 DEF Begin, SessionInv, WireInv, Counts
    <3> QED
      BY <1>2, <3>1, <3>2, <3>3, <3>4, <3>5, Zenon DEF Next
  <2>2. CASE result' = result
    BY <2>1, <2>2 DEF PidAnswersItsPid, Truths, Answering
  <2>3. CASE result' = NoResult \/ result' = [NoResult EXCEPT !.op = "TransportError"]
    BY <2>3 DEF NoResult, PidAnswersItsPid
  <2> QED
    BY <2>1, <2>2, <2>3
<1> QED
  BY <1>1, <1>2

\* What read_pid returns is a value of the PID it was asked for, from whatever
\* replies it reads (protocol/obd2.py, over transport/elm327.py and the socket),
\* when the formula of each PID gives what the vehicle's bytes stand for.
THEOREM PidsGetTheirValues == ASSUME ValuesMatch PROVE Spec => []PidAnswersItsPid
<1>1. Init => SessionInv /\ PidAnswersItsPid
  BY WiresBegin
<1>2. SessionInv /\ PidAnswersItsPid /\ [Next]_vars => (SessionInv /\ PidAnswersItsPid)'
  BY SessionKeeps, PidStep
<1> QED
  BY <1>1, <1>2, PTL DEF Spec
=============================================================================
