----------------------------- MODULE PartsProofs ----------------------------
(***************************************************************************)
(* Proofs about the parts that stand by themselves: SimEcu, where stop()   *)
(* leaves no thread behind and the answers fit together; Vin, whose check  *)
(* digit shows a single slip of a typist but for a few swaps next to it;   *)
(* DiagServices, where no call waits in vain and codes come out as the ECU *)
(* holds them, whatever is asked of either client; and SessionLog, where   *)
(* an export is the session just ended and a clean exit leaves nothing but *)
(* what was appended too late, for every number of launches, saves and     *)
(* workers and a crash at any point.                                       *)
(***************************************************************************)
EXTENDS DiagServices, SimEcu, Vin, SessionLog, DataLemmas

-----------------------------------------------------------------------------
(* The simulated ECU: its caller, its thread and the socket they share.    *)

\* What simOut records: a request, with its answer or with none if it was empty.
SimPairs == {<<r, SimHandle(r)>> : r \in SimRequests} \cup {<<<< >>, << >>>>}

\* The variables have their types.
SimTypeOK ==
  /\ simCaller \in {"idle", "closing", "joining"}
  /\ simPc \in {"none", "check", "select", "selecting", "recv", "handle", "ended"}
  /\ simSock \in {"none", "open", "closed"}
  /\ simStop \in BOOLEAN
  /\ simIn \in Seq(SimRequests)
  /\ simOut \in Seq(SimPairs)
  /\ simTaken \in Nat
  /\ simPc = "handle" => simReq \in SimRequests

\* The caller in stop(): the event is set before the socket is closed, the socket
\* is gone before the join, and stop() returns when the thread has ended.
StopInv ==
  /\ simCaller # "idle" => simStop
  /\ simSock = "closed" => simCaller = "closing"
  /\ simCaller = "joining" => simSock = "none"
  /\ simCaller = "idle" /\ simSock = "none" => simPc \in {"none", "ended"}

\* The thread: it gets to recv only with a request to read, finds the socket gone
\* or its loop over only when it was told to stop, and has answered every request
\* until then but the one it is handling.
ThreadInv ==
  /\ simPc = "recv" /\ simSock = "open" => simIn # << >>
  /\ simSock # "open" /\ simPc # "none" => simStop
  /\ simPc = "ended" => simStop
  /\ ~simStop => simTaken = Len(simOut) + (IF simPc = "handle" THEN 1 ELSE 0)

SimInv == SimTypeOK /\ StopInv /\ ThreadInv

\* It holds at first.
LEMMA SimBegins ==
  ASSUME SimInit
  PROVE  SimInv
<1>1. simIn \in Seq(SimRequests) /\ simOut \in Seq(SimPairs) /\ Len(simOut) = 0
  BY EmptySeq DEF SimInit
<1>2. SimTypeOK
  BY <1>1 DEF SimInit, SimTypeOK
<1>3. StopInv
  BY DEF SimInit, StopInv
<1>4. ThreadInv
  BY <1>1 DEF SimInit, ThreadInv
<1> QED
  BY <1>2, <1>3, <1>4 DEF SimInv

\* The caller's steps.
LEMMA SimCallerStep ==
  ASSUME SimInv, SimStart \/ SimStopSets \/ SimStopCloses \/ SimJoin
  PROVE  SimInv'
<1>1. CASE SimStart
  <2>1. << >> \in Seq(SimRequests)
    BY EmptySeq
  <2> QED
    BY <1>1, <2>1 DEF SimStart, SimInv, SimTypeOK, StopInv, ThreadInv
<1>2. CASE SimStopSets
  BY <1>2 DEF SimStopSets, SimInv, SimTypeOK, StopInv, ThreadInv
<1>3. CASE SimStopCloses
  BY <1>3 DEF SimStopCloses, SimInv, SimTypeOK, StopInv, ThreadInv
<1>4. CASE SimJoin
  BY <1>4 DEF SimJoin, SimInv, SimTypeOK, StopInv, ThreadInv
<1> QED
  BY <1>1, <1>2, <1>3, <1>4

\* A request arrives.
LEMMA SimAskStep ==
  ASSUME SimInv, NEW r \in SimRequests, SimAsk(r)
  PROVE  SimInv'
<1>1. simIn' \in Seq(SimRequests) /\ simIn' # << >>
  <2>1. simIn \in Seq(SimRequests) /\ simIn' = Append(simIn, r)
    BY DEF SimAsk, SimInv, SimTypeOK
  <2> QED
    BY <2>1, AppendProperties, EmptySeq
<1> QED
  BY <1>1 DEF SimAsk, SimInv, SimTypeOK, StopInv, ThreadInv

\* The steps of the thread that leave the histories alone.
LEMMA SimLoopStep ==
  ASSUME SimInv, SimCheck \/ SimSelect \/ SimWake
  PROVE  SimInv'
<1>1. CASE SimCheck
  BY <1>1 DEF SimCheck, SimThread, SimInv, SimTypeOK, StopInv, ThreadInv
<1>2. CASE SimSelect
  BY <1>2 DEF SimSelect, SimThread, SimInv, SimTypeOK, StopInv, ThreadInv
<1>3. CASE SimWake
  BY <1>3 DEF SimWake, SimThread, SimInv, SimTypeOK, StopInv, ThreadInv
<1> QED
  BY <1>1, <1>2, <1>3

\* recv: the request is taken, and an empty one needs no answer.
LEMMA SimRecvStep ==
  ASSUME SimInv, SimRecv
  PROVE  SimInv'
<1>1. simPc = "recv" /\ UNCHANGED <<simCaller, simSock, simStop, simStarts>>
  BY DEF SimRecv, SimThread
<1>2. CASE simSock = "open"
  <2>1. Head(simIn) \in SimRequests /\ Tail(simIn) \in Seq(SimRequests)
    BY <1>1, <1>2, HeadTailProperties DEF SimInv, SimTypeOK, ThreadInv
  <2>2. /\ simReq' = Head(simIn) /\ simIn' = Tail(simIn) /\ simTaken' = simTaken + 1
        /\ simPc' = IF Head(simIn) = << >> THEN "check" ELSE "handle"
        /\ simOut' = IF Head(simIn) = << >> THEN Append(simOut, <<Head(simIn), << >>>>) ELSE simOut
    BY <1>2 DEF SimRecv, SimThread
  <2>3. Head(simIn) = << >> => <<Head(simIn), << >>>> \in SimPairs
    BY DEF SimPairs
  <2>4. /\ simOut' \in Seq(SimPairs)
        /\ Len(simOut') = Len(simOut) + (IF Head(simIn) = << >> THEN 1 ELSE 0)
    BY <2>2, <2>3, AppendProperties DEF SimInv, SimTypeOK
  <2>5. Len(simOut) \in Nat
    BY DEF SimInv, SimTypeOK
  <2>6. SimTypeOK'
    BY <1>1, <2>1, <2>2, <2>4 DEF SimInv, SimTypeOK
  <2>7. StopInv'
    BY <1>1, <1>2, <2>2 DEF SimInv, StopInv
  <2>8. simSock' = "open" /\ simPc' \in {"check", "handle"}
    BY <1>1, <1>2, <2>2
  <2>9. ~simStop => simTaken' = Len(simOut') + (IF simPc' = "handle" THEN 1 ELSE 0)
    <3>1. ~simStop => simTaken = Len(simOut)
      BY <1>1, <2>5 DEF SimInv, ThreadInv
    <3>2. CASE Head(simIn) = << >>
      BY <2>2, <2>4, <2>5, <3>1, <3>2
    <3>3. CASE Head(simIn) # << >>
      BY <2>2, <2>4, <2>5, <3>1, <3>3
    <3> QED
      BY <3>2, <3>3
  <2>10. ThreadInv'
    BY <1>1, <2>8, <2>9 DEF ThreadInv
  <2> QED
    BY <2>6, <2>7, <2>10 DEF SimInv
<1>3. CASE simSock # "open"
  <2>1. simPc' = "ended" /\ UNCHANGED <<simIn, simReq, simOut, simTaken>>
    BY <1>3 DEF SimRecv, SimThread
  <2> QED
    BY <1>1, <1>3, <2>1 DEF SimInv, SimTypeOK, StopInv, ThreadInv
<1> QED
  BY <1>2, <1>3

\* send: the answer goes out, or the socket is gone.
LEMMA SimSendStep ==
  ASSUME SimInv, SimSend
  PROVE  SimInv'
<1>1. /\ simPc = "handle" /\ UNCHANGED <<simCaller, simSock, simStop, simStarts, simIn, simReq, simTaken>>
      /\ simPc' = IF simSock = "open" THEN "check" ELSE "ended"
      /\ simOut' = IF simSock = "open" THEN Append(simOut, <<simReq, SimHandle(simReq)>>) ELSE simOut
  BY DEF SimSend, SimThread
<1>2. <<simReq, SimHandle(simReq)>> \in SimPairs
  BY <1>1 DEF SimInv, SimTypeOK, SimPairs
<1>3. /\ simOut' \in Seq(SimPairs)
      /\ Len(simOut') = Len(simOut) + (IF simSock = "open" THEN 1 ELSE 0)
  <2>1. simOut \in Seq(SimPairs) /\ Len(simOut) \in Nat
    BY DEF SimInv, SimTypeOK
  <2> QED
    BY <1>1, <1>2, <2>1, AppendProperties
<1>4. Len(simOut) \in Nat
  BY DEF SimInv, SimTypeOK
<1>5. SimTypeOK'
  BY <1>1, <1>3 DEF SimInv, SimTypeOK
<1>6. StopInv'
  BY <1>1 DEF SimInv, StopInv
<1>7. ThreadInv'
  BY <1>1, <1>3, <1>4 DEF SimInv, SimTypeOK, ThreadInv
<1> QED
  BY <1>5, <1>6, <1>7 DEF SimInv

\* Every step keeps it, and it says what StopIsClean does.
LEMMA SimStep ==
  ASSUME SimInv, [SimNext]_simVars
  PROVE  SimInv'
<1>1. CASE UNCHANGED simVars
  BY <1>1 DEF simVars, SimInv, SimTypeOK, StopInv, ThreadInv
<1> QED
  BY <1>1, SimCallerStep, SimAskStep, SimLoopStep, SimRecvStep, SimSendStep DEF SimNext

\* When stop() has returned no thread of the simulated ECU runs, whichever of its
\* reads of the socket the close met, and only a stop leaves a request that it
\* received without an answer (simulator/ecu_sim.py).
THEOREM StoppedIsStopped == SimInit /\ [][SimNext]_simVars => []StopIsClean
<1>1. SimInit => SimInv
  BY SimBegins
<1>2. SimInv /\ [SimNext]_simVars => SimInv'
  BY SimStep
<1>3. SimInv => StopIsClean
  BY DEF SimInv, StopInv, ThreadInv, StopIsClean
<1> QED
  BY <1>1, <1>2, <1>3, PTL

-----------------------------------------------------------------------------
(* The simulated ECU's answers, as a J1979 client reads them.              *)

\* A code of two bytes is read as it was written.
LEMMA CodeRoundTrip ==
  ASSUME NEW c \in Codes
  PROVE  /\ EncodeDtc(c) \in Seq(Int) /\ Len(EncodeDtc(c)) = 2
         /\ DecodeDtc(EncodeDtc(c)[1], EncodeDtc(c)[2]) = c
<1> DEFINE cat == CHOOSE i \in 1 .. 4 : Category[i] = c[1]
           b == c[2]
           x == c[3]
           y == c[4]
           z == c[5]
<1>1. /\ c = <<c[1], b, x, y, z>> /\ c[1] \in ToSet(Category)
      /\ b \in 0 .. 3 /\ x \in 0 .. 15 /\ y \in 0 .. 15 /\ z \in 0 .. 15
  BY DEF Codes
<1>2. cat \in 1 .. 4 /\ Category[cat] = c[1]
  <2>1. \E i \in 1 .. 4 : Category[i] = c[1]
    BY <1>1 DEF ToSet, Category
  <2> QED
    BY <2>1
<1> DEFINE hi == (cat - 1) * 64 + b * 16 + x
           lo == y * 16 + z
<1>3. EncodeDtc(c) = <<hi, lo>>
  BY DEF EncodeDtc
<1> HIDE DEF cat, b, x, y, z
<1>4. hi \in Int /\ lo \in Int
  BY <1>1, <1>2
<1>5. hi \div 64 + 1 = cat /\ (hi \div 16) % 4 = b /\ hi % 16 = x
  <2>1. cat = 1 \/ cat = 2 \/ cat = 3 \/ cat = 4
    BY <1>2
  <2>2. b = 0 \/ b = 1 \/ b = 2 \/ b = 3
    BY <1>1
  <2> QED
    BY <1>1, <2>1, <2>2
<1>6. lo \div 16 = y /\ lo % 16 = z
  BY <1>1
<1> HIDE DEF hi, lo
<1>7. DecodeDtc(hi, lo) = <<Category[cat], b, x, y, z>>
  BY <1>5, <1>6 DEF DecodeDtc
<1>8. EncodeDtc(c)[1] = hi /\ EncodeDtc(c)[2] = lo /\ Len(EncodeDtc(c)) = 2 /\ EncodeDtc(c) \in Seq(Int)
  BY <1>3, <1>4
<1> QED
  BY <1>1, <1>2, <1>7, <1>8

\* A reply to Mode 03 gives back the codes it was made from.
LEMMA CodesReadBack ==
  ASSUME NEW r, r = << 3 >>
  PROVE  ReadDtcs(<<SimHandle(r)>>, 3) = SimCodes
<1> DEFINE cs == SimCodes
           n == Len(cs)
           pairs == [i \in DOMAIN cs |-> EncodeDtc(cs[i])]
           f == FlattenSeq(pairs)
           head == <<67, n>>
           d == head \o f
<1>1. cs \in Seq(Codes \ {P0000}) /\ n \in Nat
  BY SimAssumption
<1>2. SimHandle(r) = d
  <2>1. r[1] = 3 /\ Len(r) = 1
    OBVIOUS
  <2> QED
    BY <2>1 DEF SimHandle
<1>3. \A i \in 1 .. n : cs[i] \in Codes /\ cs[i] # P0000
  BY <1>1
<1>4. pairs \in Seq(Seq(Int)) /\ Len(pairs) = n /\ \A i \in 1 .. n : Len(pairs[i]) = 2 /\ pairs[i] = EncodeDtc(cs[i])
  <2>1. DOMAIN cs = 1 .. n
    BY <1>1
  <2>2. pairs \in [1 .. n -> Seq(Int)] /\ \A i \in 1 .. n : Len(pairs[i]) = 2 /\ pairs[i] = EncodeDtc(cs[i])
    BY <1>3, <2>1, CodeRoundTrip
  <2> HIDE DEF pairs, n
  <2>3. pairs \in Seq(Seq(Int)) /\ Len(pairs) = n
    BY <1>1, <2>2, MapSeq
  <2> QED
    BY <2>2, <2>3
<1> HIDE DEF cs, pairs
<1>5. f \in Seq(Int) /\ Len(f) = 2 * n /\ \A i \in 1 .. n : f[2 * i - 1] = EncodeDtc(cs[i])[1] /\ f[2 * i] = EncodeDtc(cs[i])[2]
  <2>1. pairs \in Seq(Seq(Int)) /\ \A i \in 1 .. Len(pairs) : Len(pairs[i]) = 2
    BY <1>4
  <2>2. /\ f \in Seq(Int) /\ Len(f) = 2 * Len(pairs)
        /\ \A i \in 1 .. Len(pairs) : f[2 * i - 1] = pairs[i][1] /\ f[2 * i] = pairs[i][2]
    BY <2>1, FlattenPairs
  <2> QED
    BY <1>4, <2>2
<1> HIDE DEF f, n
<1>6. /\ d \in Seq(Int) /\ Len(d) = 2 + 2 * n /\ d[1] = 67 /\ d[2] = n
      /\ \A i \in 1 .. 2 * n : d[2 + i] = f[i]
  <2>1. head \in Seq(Int) /\ Len(head) = 2 /\ head[1] = 67 /\ head[2] = n
    BY <1>1
  <2> HIDE DEF head
  <2>2. head \in Seq(Int) /\ f \in Seq(Int)
    BY <1>5, <2>1
  <2>3. /\ d \in Seq(Int) /\ Len(d) = Len(head) + Len(f)
        /\ \A i \in 1 .. Len(head) + Len(f) : d[i] = IF i <= Len(head) THEN head[i] ELSE f[i - Len(head)]
    BY <2>2, ConcatProperties
  <2>4. Len(d) = 2 + 2 * n
    BY <1>1, <1>5, <2>1, <2>3
  <2>5. d[1] = 67 /\ d[2] = n
    <3>1. 1 \in 1 .. 2 + 2 * n /\ 2 \in 1 .. 2 + 2 * n
      BY <1>1
    <3> HIDE DEF d
    <3> QED
      BY <1>5, <2>1, <2>3, <3>1
  <2>6. \A i \in 1 .. 2 * n : d[2 + i] = f[i]
    <3>1. \A i \in 1 .. 2 * n : 2 + i \in 1 .. 2 + 2 * n /\ ~(2 + i <= 2) /\ (2 + i) - 2 = i
      BY <1>1
    <3> HIDE DEF d
    <3> QED
      BY <1>5, <2>1, <2>3, <3>1
  <2> QED
    BY <2>3, <2>4, <2>5, <2>6
<1> HIDE DEF d
<1>7. Positive(<<d>>, 3) = <<d>>
  <2> DEFINE S == {x \in ToSet(<<d>>) : Len(x) >= 1 /\ x[1] = 3 + 64}
  <2>1. d \in S
    <3>1. d \in ToSet(<<d>>)
      BY DEF ToSet
    <3> QED
      BY <1>1, <1>6, <3>1
  <2>2. Positive(<<d>>, 3) = Select(<<d>>, S)
    BY DEF Positive, Where
  <2> HIDE DEF S
  <2> QED
    BY <2>1, <2>2, SelectOne
<1> DEFINE body == Drop(d, 2)
<1>8. Len(body) = 2 * n /\ \A i \in 1 .. 2 * n : body[i] = f[i]
  <2>1. 3 \in Int /\ 2 + 2 * n \in Int /\ (\A i \in 3 .. 2 + 2 * n : d[i] \in Int)
    BY <1>1, <1>6
  <2>2. /\ Len(SubSeq(d, 3, 2 + 2 * n)) = IF 3 <= 2 + 2 * n THEN (2 + 2 * n) - 3 + 1 ELSE 0
        /\ \A i \in 1 .. (2 + 2 * n) - 3 + 1 : SubSeq(d, 3, 2 + 2 * n)[i] = d[3 + i - 1]
    BY ONLY <2>1, SubSeqProperties
  <2>3. body = SubSeq(d, 3, 2 + 2 * n)
    <3>1. 2 + 1 = 3
      OBVIOUS
    <3> QED
      BY <1>6, <3>1 DEF Drop
  <2>4. (IF 3 <= 2 + 2 * n THEN (2 + 2 * n) - 3 + 1 ELSE 0) = 2 * n /\ (2 + 2 * n) - 3 + 1 = 2 * n
    BY <1>1
  <2>5. \A i \in 1 .. 2 * n : 3 + i - 1 = 2 + i
    BY <1>1
  <2> HIDE DEF body
  <2> QED
    BY <1>6, <2>2, <2>3, <2>4, <2>5
<1> HIDE DEF body
<1> DEFINE codes == [k \in 1 .. n |-> DecodeDtc(body[2 * k - 1], body[2 * k])]
<1>9. codes = cs
  <2>1. \A k \in 1 .. n : DecodeDtc(body[2 * k - 1], body[2 * k]) = cs[k]
    <3> SUFFICES ASSUME NEW k \in 1 .. n PROVE DecodeDtc(body[2 * k - 1], body[2 * k]) = cs[k]
      OBVIOUS
    <3>1. 2 * k - 1 \in 1 .. 2 * n /\ 2 * k \in 1 .. 2 * n
      BY <1>1
    <3>2. body[2 * k - 1] = EncodeDtc(cs[k])[1] /\ body[2 * k] = EncodeDtc(cs[k])[2]
      BY <1>5, <1>8, <3>1
    <3> QED
      BY <1>3, <3>2, CodeRoundTrip
  <2>2. cs = [k \in 1 .. n |-> cs[k]]
    BY <1>1 DEF n
  <2> QED
    BY <2>1, <2>2
<1>10. ParseDtcPayload(d) = cs
  <2>1. Len(d) >= 2 /\ ~(Len(d) < 2)
    BY <1>1, <1>6
  <2>2. (IF n < (2 * n) \div 2 THEN n ELSE (2 * n) \div 2) = n
    BY <1>1
  <2> DEFINE S == {c \in ToSet(cs) : c # P0000}
  <2>3. ParseDtcPayload(d) = Select(cs, S)
    <3>1. ParseDtcPayload(d) = LET m == IF d[2] < Len(body) \div 2 THEN d[2] ELSE Len(body) \div 2
                                   q == [k \in 1 .. m |-> DecodeDtc(body[2 * k - 1], body[2 * k])]
                               IN  Select(q, {c \in ToSet(q) : c # P0000})
      BY <2>1 DEF ParseDtcPayload, Where, body
    <3>2. (IF d[2] < Len(body) \div 2 THEN d[2] ELSE Len(body) \div 2) = n
      BY <1>6, <1>8, <2>2
    <3> QED
      BY <1>9, <3>1, <3>2
  <2>4. cs \in Seq(Codes) /\ \A i \in 1 .. Len(cs) : cs[i] \in S
    <3>1. \A i \in 1 .. Len(cs) : cs[i] \in ToSet(cs)
      BY <1>1 DEF ToSet
    <3> QED
      BY <1>1, <1>3, <3>1 DEF n
  <2> HIDE DEF S
  <2>5. Select(cs, S) = cs
    BY <2>4, SelectAll
  <2> QED
    BY <2>3, <2>5
<1>11. ReadDtcs(<<d>>, 3) = cs
  <2>1. ReadDtcs(<<d>>, 3) = FlattenSeq([i \in DOMAIN <<d>> |-> ParseDtcPayload(<<d>>[i])])
    BY <1>7 DEF ReadDtcs
  <2>2. [i \in DOMAIN <<d>> |-> ParseDtcPayload(<<d>>[i])] = <<cs>>
    BY <1>10
  <2> QED
    BY <2>1, <2>2, FlattenFew, Zenon
<1> QED
  BY <1>2, <1>11 DEF cs

\* The powers of two in a byte.
LEMMA Powers ==
  \A t \in 0 .. 7 : 2^(7 - t) = IF t = 0 THEN 128 ELSE IF t = 1 THEN 64 ELSE IF t = 2 THEN 32 ELSE IF t = 3 THEN 16
                                ELSE IF t = 4 THEN 8 ELSE IF t = 5 THEN 4 ELSE IF t = 6 THEN 2 ELSE 1
<1>1. /\ 2^(7 - 0) = 128 /\ 2^(7 - 1) = 64 /\ 2^(7 - 2) = 32 /\ 2^(7 - 3) = 16
      /\ 2^(7 - 4) = 8 /\ 2^(7 - 5) = 4 /\ 2^(7 - 6) = 2 /\ 2^(7 - 7) = 1
  OBVIOUS
<1>2. \A t \in 0 .. 7 : t = 0 \/ t = 1 \/ t = 2 \/ t = 3 \/ t = 4 \/ t = 5 \/ t = 6 \/ t = 7
  OBVIOUS
<1> QED
  BY <1>1, <1>2, ZenonT(40)

\* The bytes of the simulated ECU's bitmaps.
SimByte(base, n) ==
  IF base = 0 THEN (IF n = 1 THEN 24 ELSE IF n = 2 THEN 26 ELSE IF n = 3 THEN 128 ELSE 0) ELSE 0

\* They are the sums of _supported_bitmap.
LEMMA SimByteIs ==
  ASSUME NEW base \in {0, 32, 64}, NEW n \in 1 .. 4
  PROVE  SumFunction([b \in 1 .. 8 |-> IF base + 8 * (n - 1) + b \in DOMAIN SimMode01 THEN 2 ^ (8 - b) ELSE 0])
           = SimByte(base, n)
<1> DEFINE D == {4, 5, 12, 13, 15, 17}
           f == [b \in 1 .. 8 |-> IF base + 8 * (n - 1) + b \in DOMAIN SimMode01 THEN 2 ^ (8 - b) ELSE 0]
           at(b) == base + 8 * (n - 1) + b \in D
<1>1. DOMAIN SimMode01 = D
  BY DEF SimMode01
<1>2. /\ 2 ^ (8 - 1) = 128 /\ 2 ^ (8 - 2) = 64 /\ 2 ^ (8 - 3) = 32 /\ 2 ^ (8 - 4) = 16
      /\ 2 ^ (8 - 5) = 8 /\ 2 ^ (8 - 6) = 4 /\ 2 ^ (8 - 7) = 2 /\ 2 ^ (8 - 8) = 1
  OBVIOUS
<1> HIDE DEF D
<1>3. /\ f[1] = (IF at(1) THEN 128 ELSE 0) /\ f[2] = (IF at(2) THEN 64 ELSE 0)
      /\ f[3] = (IF at(3) THEN 32 ELSE 0) /\ f[4] = (IF at(4) THEN 16 ELSE 0)
      /\ f[5] = (IF at(5) THEN 8 ELSE 0) /\ f[6] = (IF at(6) THEN 4 ELSE 0)
      /\ f[7] = (IF at(7) THEN 2 ELSE 0) /\ f[8] = (IF at(8) THEN 1 ELSE 0)
  BY <1>1, <1>2
<1>4. f \in [1 .. 8 -> Int]
  <2>1. f = [b \in 1 .. 8 |-> f[b]]
    OBVIOUS
  <2>2. \A b \in 1 .. 8 : f[b] \in Int
    <3>1. \A b \in 1 .. 8 : b = 1 \/ b = 2 \/ b = 3 \/ b = 4 \/ b = 5 \/ b = 6 \/ b = 7 \/ b = 8
      OBVIOUS
    <3> HIDE DEF f, at
    <3> QED
      BY <1>3, <3>1
  <2> HIDE DEF f
  <2> QED
    BY <2>1, <2>2
<1> HIDE DEF f
<1>5. SumFunction(f) = f[1] + f[2] + f[3] + f[4] + f[5] + f[6] + f[7] + f[8]
  <2> DEFINE a == 1
  <2>1. a \in Int /\ f \in [a .. a + 7 -> Int]
    BY <1>4
  <2> HIDE DEF a
  <2>2. SumFunction(f) = f[a] + f[a + 1] + f[a + 2] + f[a + 3] + f[a + 4] + f[a + 5] + f[a + 6] + f[a + 7]
    BY <2>1, SumOfEight
  <2>3. a = 1 /\ a + 1 = 2 /\ a + 2 = 3 /\ a + 3 = 4 /\ a + 4 = 5 /\ a + 5 = 6 /\ a + 6 = 7 /\ a + 7 = 8
    BY DEF a
  <2> QED
    BY <2>2, <2>3
<1>6. CASE base = 0 /\ n = 1
  <2>1. at(4) /\ at(5) /\ ~at(1) /\ ~at(2) /\ ~at(3) /\ ~at(6) /\ ~at(7) /\ ~at(8)
    BY <1>6 DEF D
  <2> HIDE DEF at
  <2> QED
    BY <1>3, <1>5, <1>6, <2>1 DEF SimByte, f
<1>7. CASE base = 0 /\ n = 2
  <2>1. at(4) /\ at(5) /\ at(7) /\ ~at(1) /\ ~at(2) /\ ~at(3) /\ ~at(6) /\ ~at(8)
    BY <1>7 DEF D
  <2> HIDE DEF at
  <2> QED
    BY <1>3, <1>5, <1>7, <2>1 DEF SimByte, f
<1>8. CASE base = 0 /\ n = 3
  <2>1. at(1) /\ ~at(2) /\ ~at(3) /\ ~at(4) /\ ~at(5) /\ ~at(6) /\ ~at(7) /\ ~at(8)
    BY <1>8 DEF D
  <2> HIDE DEF at
  <2> QED
    BY <1>3, <1>5, <1>8, <2>1 DEF SimByte, f
<1>9. CASE ~(base = 0 /\ n \in 1 .. 3)
  <2>1. ~at(1) /\ ~at(2) /\ ~at(3) /\ ~at(4) /\ ~at(5) /\ ~at(6) /\ ~at(7) /\ ~at(8)
    <3>1. base + 8 * (n - 1) > 17
      BY <1>9
    <3> QED
      BY <3>1 DEF D
  <2>2. SimByte(base, n) = 0
    BY <1>9 DEF SimByte
  <2> HIDE DEF at
  <2> QED
    BY <1>3, <1>5, <2>1, <2>2 DEF f
<1>10. n = 1 \/ n = 2 \/ n = 3 \/ n = 4
  OBVIOUS
<1> QED
  BY <1>6, <1>7, <1>8, <1>9, <1>10

\* The bit of a PID is set exactly if the ECU has the PID.
LEMMA BitIs ==
  ASSUME NEW base \in {0, 32, 64}, NEW j \in 0 .. 30
  PROVE  (SimByte(base, (j \div 8) + 1) \div 2^(7 - (j % 8))) % 2 = 1 <=> base + j + 1 \in DOMAIN SimMode01
<1> DEFINE D == {4, 5, 12, 13, 15, 17}
           t == j % 8
           n == (j \div 8) + 1
           w == 2^(7 - t)
<1>1. DOMAIN SimMode01 = D
  BY DEF SimMode01
<1>2. t \in 0 .. 7 /\ n \in 1 .. 4 /\ j = 8 * (n - 1) + t
  OBVIOUS
<1>3. w = IF t = 0 THEN 128 ELSE IF t = 1 THEN 64 ELSE IF t = 2 THEN 32 ELSE IF t = 3 THEN 16
          ELSE IF t = 4 THEN 8 ELSE IF t = 5 THEN 4 ELSE IF t = 6 THEN 2 ELSE 1
  <2> HIDE DEF t
  <2> QED
    BY <1>2, Powers
<1> HIDE DEF t, n, w, D
<1>4. t = 0 \/ t = 1 \/ t = 2 \/ t = 3 \/ t = 4 \/ t = 5 \/ t = 6 \/ t = 7
  BY <1>2
<1>5. /\ (24 \div w) % 2 = 1 <=> t \in {3, 4}
      /\ (26 \div w) % 2 = 1 <=> t \in {3, 4, 6}
      /\ (128 \div w) % 2 = 1 <=> t = 0
      /\ (0 \div w) % 2 = 0
  BY <1>3, <1>4
<1>n. n = 1 \/ n = 2 \/ n = 3 \/ n = 4
  BY <1>2
<1> DEFINE Set(m, u) == \/ m = 1 /\ (u = 3 \/ u = 4)
                        \/ m = 2 /\ (u = 3 \/ u = 4 \/ u = 6)
                        \/ m = 3 /\ u = 0
<1>6. base + j + 1 \in D <=> base = 0 /\ Set(n, t)
  <2>1. CASE base = 0 /\ n = 1
    BY <1>2, <2>1 DEF D
  <2>2. CASE base = 0 /\ n = 2
    BY <1>2, <2>2 DEF D
  <2>3. CASE base = 0 /\ n = 3
    BY <1>2, <2>3 DEF D
  <2>4. CASE base = 0 /\ n = 4
    BY <1>2, <2>4 DEF D
  <2>5. CASE base # 0
    BY <2>5 DEF D
  <2> QED
    BY <1>n, <2>1, <2>2, <2>3, <2>4, <2>5
<1> DEFINE bit(x) == (x \div w) % 2
<1>a. /\ bit(24) = 1 <=> t = 3 \/ t = 4
      /\ bit(26) = 1 <=> t = 3 \/ t = 4 \/ t = 6
      /\ bit(128) = 1 <=> t = 0
      /\ bit(0) = 0
  BY <1>5
<1> HIDE DEF bit
<1>7. bit(SimByte(base, n)) = 1 <=> base = 0 /\ Set(n, t)
  <2>1. SimByte(base, n) = IF base # 0 THEN 0 ELSE IF n = 1 THEN 24 ELSE IF n = 2 THEN 26 ELSE IF n = 3 THEN 128 ELSE 0
    BY DEF SimByte
  <2> QED
    BY <1>a, <1>n, <2>1
<1> QED
  BY <1>1, <1>6, <1>7 DEF t, n, w, bit

\* Which of one reply's bytes make it the echo of a Mode 01 request.
LEMMA EchoOfOne ==
  ASSUME NEW d, Len(d) \in Nat, Len(d) >= 2, NEW pid
  PROVE  /\ d[1] = 65 /\ d[2] = pid => Echoing(<<d>>, Modes.currentData, pid) = <<d>>
         /\ d[1] # 65 => Echoing(<<d>>, Modes.currentData, pid) = << >>
<1> DEFINE S == {x \in ToSet(<<d>>) : Len(x) >= 1 /\ x[1] = 1 + 64}
           P == Positive(<<d>>, Modes.currentData)
           U == {x \in ToSet(P) : Len(x) >= 2 /\ x[2] = pid}
<1>1. ToSet(<<d>>) = {d}
  BY DEF ToSet
<1>2. d \in S <=> d[1] = 65
  BY <1>1
<1>3. P = Select(<<d>>, S)
  BY DEF Positive, Where, Modes
<1>4. Echoing(<<d>>, Modes.currentData, pid) = Select(P, U)
  BY DEF Echoing, Where
<1> HIDE DEF S, P
<1>5. CASE d[1] = 65 /\ d[2] = pid
  <2>1. P = <<d>>
    BY <1>2, <1>3, <1>5, SelectOne
  <2>2. d \in U
    BY <1>1, <1>5, <2>1
  <2> HIDE DEF U
  <2> QED
    BY <1>4, <1>5, <2>1, <2>2, SelectOne
<1>6. CASE d[1] # 65
  <2>1. P = << >>
    BY <1>2, <1>3, <1>6, SelectOne
  <2> HIDE DEF U
  <2>2. Select(<< >>, U) = << >>
    <3> DEFINE T == {0}
               s == << >>
    <3>1. s \in Seq(T) /\ \A n \in 1 .. Len(s) : s[n] \notin U
      BY EmptySeq
    <3> HIDE DEF T, s
    <3>2. Select(s, U) = << >>
      BY <3>1, SelectNone
    <3> QED
      BY <3>2 DEF s
  <2> QED
    BY <1>4, <1>6, <2>1, <2>2
<1> QED
  BY <1>5, <1>6

\* The four bytes of a bitmap.
LEMMA SimBitmapIs ==
  ASSUME NEW base \in {0, 32, 64}
  PROVE  /\ SimBitmap(base) \in Seq(Int) /\ Len(SimBitmap(base)) = 4
         /\ \A n \in 1 .. 4 : SimBitmap(base)[n] = SimByte(base, n)
<1> DEFINE q == SimBitmap(base)
<1>1. q = [n \in 1 .. 4 |-> SimByte(base, n)]
  BY SimByteIs DEF SimBitmap
<1>2. \A n \in 1 .. 4 : SimByte(base, n) \in Int
  BY DEF SimByte
<1> HIDE DEF q
<1>3. q \in [1 .. 4 -> Int]
  BY <1>1, <1>2
<1>4. q \in Seq(Int) /\ Len(q) = 4
  <2> DEFINE n == 4
  <2>1. n \in Nat /\ q \in [1 .. n -> Int]
    BY <1>3
  <2> HIDE DEF n
  <2>2. q \in Seq(Int) /\ Len(q) = n
    BY <2>1, MapSeq
  <2> QED
    BY <2>2 DEF n
<1> QED
  BY <1>1, <1>4 DEF q

\* A reply of two bytes and some more.
LEMMA TwoAndMore ==
  ASSUME NEW x \in Int, NEW y \in Int, NEW f, f \in Seq(Int), NEW d, d = <<x, y>> \o f
  PROVE  /\ d \in Seq(Int) /\ Len(d) \in Nat /\ Len(d) = 2 + Len(f) /\ Len(f) \in Nat /\ d[1] = x /\ d[2] = y
         /\ \A i \in 1 .. Len(f) : d[2 + i] = f[i]
<1> DEFINE head == <<x, y>>
           n == Len(f)
<1>1. head \in Seq(Int) /\ Len(head) = 2 /\ head[1] = x /\ head[2] = y
  OBVIOUS
<1> HIDE DEF head
<1>2. head \in Seq(Int) /\ f \in Seq(Int) /\ n \in Nat
  BY <1>1
<1>3. /\ head \o f \in Seq(Int) /\ Len(head \o f) = Len(head) + Len(f)
      /\ \A i \in 1 .. Len(head) + Len(f) : (head \o f)[i] = IF i <= Len(head) THEN head[i] ELSE f[i - Len(head)]
  BY <1>2, ConcatProperties
<1>4. d = head \o f
  BY DEF head
<1> HIDE DEF n
<1>5. d \in Seq(Int) /\ Len(d) = 2 + n /\ \A i \in 1 .. 2 + n : d[i] = IF i <= 2 THEN head[i] ELSE f[i - 2]
  BY <1>1, <1>3, <1>4 DEF n
<1>6. 1 \in 1 .. 2 + n /\ 2 \in 1 .. 2 + n /\ \A i \in 1 .. n : 2 + i \in 1 .. 2 + n /\ ~(2 + i <= 2) /\ (2 + i) - 2 = i
  BY <1>2
<1>7. d[1] = x /\ d[2] = y /\ \A i \in 1 .. n : d[2 + i] = f[i]
  BY <1>1, <1>5, <1>6
<1>8. 2 + n \in Nat
  BY <1>2
<1> QED
  BY <1>2, <1>5, <1>7, <1>8 DEF n

\* The tail of such a reply.
LEMMA DropTwo ==
  ASSUME NEW d, d \in Seq(Int), NEW n \in Nat, Len(d) = 2 + n, NEW k \in 0 .. n
  PROVE  /\ SubSeq(d, 3, 2 + k) \in Seq(Int) /\ Len(SubSeq(d, 3, 2 + k)) = k
         /\ \A i \in 1 .. k : SubSeq(d, 3, 2 + k)[i] = d[2 + i]
<1>1. 3 \in Int /\ 2 + k \in Int /\ (\A i \in 3 .. 2 + k : d[i] \in Int)
  OBVIOUS
<1>2. /\ SubSeq(d, 3, 2 + k) \in Seq(Int)
      /\ Len(SubSeq(d, 3, 2 + k)) = IF 3 <= 2 + k THEN (2 + k) - 3 + 1 ELSE 0
      /\ \A i \in 1 .. (2 + k) - 3 + 1 : SubSeq(d, 3, 2 + k)[i] = d[3 + i - 1]
  BY ONLY <1>1, SubSeqProperties
<1>3. (IF 3 <= 2 + k THEN (2 + k) - 3 + 1 ELSE 0) = k /\ (2 + k) - 3 + 1 = k /\ \A i \in 1 .. k : 3 + i - 1 = 2 + i
  OBVIOUS
<1> DEFINE q == SubSeq(d, 3, 2 + k)
<1> HIDE DEF q
<1> QED
  BY <1>2, <1>3

\* A tester that asks for a bitmap gets the ECU's PIDs of the range.
LEMMA BitmapReadBack ==
  ASSUME NEW r, Len(r) = 2, r[1] = 1, NEW base \in {0, 32, 64}, r[2] = base, NEW j \in 0 .. 30
  PROVE  base + j + 1 \in BitmapPids(base, Bitmap(<<SimHandle(r)>>, base)) <=> base + j + 1 \in DOMAIN SimMode01
<1> DEFINE f == SimBitmap(base)
           d == <<65, base>> \o f
<1>1. SimHandle(r) = d
  <2>a. r[2] \notin DOMAIN SimMode01 /\ r[2] \in {0, 32, 64} /\ Len(r) >= 2 /\ r[1] # 9 /\ r[1] # 3
    BY DEF SimMode01
  <2>1. SimHandle(r) = <<65, r[2]>> \o SimBitmap(r[2])
    BY <2>a DEF SimHandle
  <2> QED
    BY <2>1, Zenon
<1>2. f \in Seq(Int) /\ Len(f) = 4 /\ \A n \in 1 .. 4 : f[n] = SimByte(base, n)
  BY SimBitmapIs
<1> HIDE DEF f
<1>3. d \in Seq(Int) /\ Len(d) = 6 /\ d[1] = 65 /\ d[2] = base /\ \A i \in 1 .. 4 : d[2 + i] = f[i]
  <2>1. 65 \in Int /\ base \in Int /\ f \in Seq(Int) /\ d = <<65, base>> \o f
    BY <1>2
  <2> HIDE DEF d
  <2>2. /\ d \in Seq(Int) /\ Len(d) = 2 + Len(f) /\ d[1] = 65 /\ d[2] = base
        /\ \A i \in 1 .. Len(f) : d[2 + i] = f[i]
    BY ONLY <2>1, TwoAndMore
  <2> QED
    BY <1>2, <2>2
<1> HIDE DEF d
<1>4. Echoing(<<d>>, Modes.currentData, base) = <<d>>
  BY <1>3, EchoOfOne, SMTT(30)
<1>5. Bitmap(<<d>>, base) = SubSeq(d, 3, 6)
  <2> DEFINE S == {x \in ToSet(<<d>>) : Len(x) >= 6}
  <2>1. d \in S
    <3>1. d \in ToSet(<<d>>)
      BY DEF ToSet
    <3>2. Len(d) >= 6
      BY <1>3
    <3> QED
      BY <3>1, <3>2
  <2> HIDE DEF S
  <2>2. Select(<<d>>, S) = <<d>>
    BY <2>1, SelectOne
  <2>3. Bitmap(<<d>>, base) = IF <<d>> = << >> THEN << >> ELSE SubSeq(<<d>>[1], 3, 6)
    BY <1>4, <2>2 DEF Bitmap, Where, S
  <2>4. <<d>> # << >> /\ <<d>>[1] = d
    OBVIOUS
  <2> QED
    BY <2>3, <2>4, Zenon
<1>6. \A n \in 1 .. 4 : SubSeq(d, 3, 6)[n] = SimByte(base, n)
  <2> DEFINE n == 4
  <2>1. d \in Seq(Int) /\ n \in Nat /\ Len(d) = 2 + n /\ n \in 0 .. n /\ 2 + n = 6
    BY <1>3
  <2> HIDE DEF n
  <2>2. \A i \in 1 .. n : SubSeq(d, 3, 2 + n)[i] = d[2 + i]
    BY <2>1, DropTwo
  <2>3. \A i \in 1 .. 4 : SubSeq(d, 3, 6)[i] = d[2 + i]
    BY <2>1, <2>2 DEF n
  <2> QED
    BY <1>2, <1>3, <2>3
<1> DEFINE q == SubSeq(d, 3, 6)
           on(i) == (q[(i \div 8) + 1] \div 2^(7 - (i % 8))) % 2 = 1
<1>7. BitmapPids(base, q) = {base + i + 1 : i \in {i \in 0 .. 31 : on(i)}}
  BY DEF BitmapPids
<1>8. on(j) <=> base + j + 1 \in DOMAIN SimMode01
  <2>1. (j \div 8) + 1 \in 1 .. 4
    OBVIOUS
  <2>2. q[(j \div 8) + 1] = SimByte(base, (j \div 8) + 1)
    BY <1>6, <2>1
  <2> HIDE DEF q
  <2>3. (SimByte(base, (j \div 8) + 1) \div 2^(7 - (j % 8))) % 2 = 1 <=> base + j + 1 \in DOMAIN SimMode01
    BY BitIs
  <2> QED
    BY <2>2, <2>3, Zenon
<1> HIDE DEF on, q
<1>9. base + j + 1 \in BitmapPids(base, q) <=> on(j)
  BY <1>7
<1> QED
  BY <1>1, <1>5, <1>8, <1>9 DEF q

\* A tester that asks for a PID outside the bitmaps' own gets a value exactly if
\* the ECU has it.
LEMMA PidReadBack ==
  ASSUME NEW r, Len(r) = 2, r[1] = 1, r[2] \in Int, r[2] \notin {0, 32, 64}
  PROVE  ReadPid(<<SimHandle(r)>>, r[2]) # << >> <=> r[2] \in DOMAIN SimMode01
<1> DEFINE p == r[2]
<1>1. CASE p \in DOMAIN SimMode01
  <2> DEFINE f == SimMode01[p]
             d == <<65, p>> \o f
  <2>1. SimHandle(r) = d
    BY <1>1 DEF SimHandle
  <2>2. f \in Seq(Int) /\ Len(f) >= PidBytes(p) /\ p \in Pids /\ Len(f) \in Nat
    BY <1>1, SMTT(30) DEF SimMode01, PidBytes, TwoBytePids, Pids
  <2> HIDE DEF f
  <2>3. 65 \in Int /\ p \in Int /\ f \in Seq(Int) /\ d = <<65, p>> \o f
    BY <2>2
  <2> HIDE DEF d, p
  <2>4. d \in Seq(Int) /\ Len(d) \in Nat /\ Len(d) = 2 + Len(f) /\ d[1] = 65 /\ d[2] = p
    BY ONLY <2>3, TwoAndMore
  <2>5. Echoing(<<d>>, Modes.currentData, p) = <<d>>
    <3>1. Len(d) >= 2
      BY <2>2, <2>4
    <3>2. Len(d) \in Nat /\ d[1] = 65 /\ d[2] = p
      BY <2>4
    <3> QED
      BY ONLY <3>1, <3>2, EchoOfOne
  <2> DEFINE a == DecodePid(p, Drop(d, 2))
  <2>6. a # << >>
    <3> DEFINE n == Len(f)
    <3>1. d \in Seq(Int) /\ n \in Nat /\ Len(d) = 2 + n /\ n \in 0 .. n
      BY <2>2, <2>4
    <3> HIDE DEF n
    <3>2. Len(SubSeq(d, 3, 2 + n)) = n
      BY <3>1, DropTwo
    <3>3. Drop(d, 2) = SubSeq(d, 3, 2 + n)
      <4>1. 2 + 1 = 3
        OBVIOUS
      <4> QED
        BY <3>1, <4>1 DEF Drop
    <3>4. Len(Drop(d, 2)) >= PidBytes(p) /\ PidBytes(p) \in Int
      BY <2>2, <3>2, <3>3 DEF n, PidBytes
    <3>5. a = <<PidValue(p, Drop(d, 2))>>
      <4>1. ~(Len(Drop(d, 2)) < PidBytes(p))
        BY <3>1, <3>2, <3>3, <3>4
      <4> QED
        BY <2>2, <4>1 DEF DecodePid
    <3>6. \A x : <<x>> # << >>
      OBVIOUS
    <3> HIDE DEF a
    <3> QED
      BY <3>5, <3>6, Zenon
  <2>7. ReadPid(<<d>>, p) = FirstOf(<<a>>)
    <3>1. [i \in DOMAIN <<d>> |-> DecodePid(p, Drop(<<d>>[i], 2))] = <<a>>
      OBVIOUS
    <3> HIDE DEF a
    <3> QED
      BY <2>5, <3>1 DEF ReadPid
  <2> HIDE DEF a
  <2>8. FirstOf(<<a>>) = a
    <3> DEFINE S == {x \in ToSet(<<a>>) : x # << >>}
    <3>1. a \in S
      BY <2>6 DEF ToSet
    <3> HIDE DEF S
    <3>2. Select(<<a>>, S) = <<a>>
      BY <3>1, SelectOne
    <3> QED
      BY <3>2 DEF FirstOf, Where, S
  <2> QED
    BY <1>1, <2>1, <2>6, <2>7, <2>8 DEF p
<1>2. CASE p \notin DOMAIN SimMode01
  <2> DEFINE d == <<127, 1, 18>>
  <2>1. SimHandle(r) = d
    BY <1>2 DEF SimHandle
  <2>2. Len(d) \in Nat /\ Len(d) >= 2 /\ d[1] # 65
    OBVIOUS
  <2> HIDE DEF d, p
  <2>3. Echoing(<<d>>, Modes.currentData, p) = << >>
    BY <2>2, EchoOfOne
  <2>4. ReadPid(<<d>>, p) = FirstOf(<< >>)
    <3>1. [i \in DOMAIN << >> |-> DecodePid(p, Drop(<< >>[i], 2))] = << >>
      OBVIOUS
    <3> QED
      BY <2>3, <3>1 DEF ReadPid
  <2>5. FirstOf(<< >>) = << >>
    <3> DEFINE S == {x \in ToSet(<< >>) : x # << >>}
               T == {0}
               s == << >>
    <3>1. s \in Seq(T) /\ \A n \in 1 .. Len(s) : s[n] \notin S
      BY EmptySeq
    <3>a. Select(s, S) = << >>
      <4> HIDE DEF T, s, S
      <4> QED
        BY <3>1, SelectNone
    <3> QED
      BY <3>a DEF FirstOf, Where
  <2> QED
    BY <1>2, <2>1, <2>4, <2>5 DEF p
<1> QED
  BY <1>1, <1>2

\* What the histories say of two answers.
LEMMA PairsAgree ==
  ASSUME NEW x \in SimPairs, NEW y \in SimPairs
  PROVE  /\ x[1] = <<3>> => ReadDtcs(<<x[2]>>, 3) = SimCodes
         /\ Len(x[1]) = 2 /\ Len(y[1]) = 2 /\ x[1][1] = 1 /\ y[1][1] = 1 /\ y[1][2] \in {0, 32, 64}
            /\ x[1][2] \in y[1][2] + 1 .. y[1][2] + 31 =>
              (ReadPid(<<x[2]>>, x[1][2]) # << >> <=> x[1][2] \in BitmapPids(y[1][2], Bitmap(<<y[2]>>, y[1][2])))
<1>1. \A z \in SimPairs : z[1] # << >> => z[2] = SimHandle(z[1])
  BY DEF SimPairs
<1>2. CASE x[1] = <<3>>
  <2>1. x[2] = SimHandle(x[1])
    <3>1. x[1] # << >>
      BY <1>2
    <3> QED
      BY <1>1, <3>1
  <2>2. ReadDtcs(<<SimHandle(x[1])>>, 3) = SimCodes
    BY <1>2, CodesReadBack
  <2>3. Len(x[1]) # 2
    BY <1>2
  <2> QED
    BY <2>1, <2>2, <2>3
<1>3. CASE /\ Len(x[1]) = 2 /\ Len(y[1]) = 2 /\ x[1][1] = 1 /\ y[1][1] = 1 /\ y[1][2] \in {0, 32, 64}
           /\ x[1][2] \in y[1][2] + 1 .. y[1][2] + 31
  <2> DEFINE base == y[1][2]
             p == x[1][2]
             j == p - base - 1
  <2>1. x[1] # << >> /\ y[1] # << >>
    BY <1>3
  <2>2. x[2] = SimHandle(x[1]) /\ y[2] = SimHandle(y[1])
    BY <1>1, <2>1
  <2>a. base \in {0, 32, 64} /\ p \in base + 1 .. base + 31
    BY <1>3
  <2>3. j \in 0 .. 30 /\ p = base + j + 1 /\ p \in Int /\ p \notin {0, 32, 64}
    <3> HIDE DEF base, p
    <3> QED
      BY <2>a
  <2>4. ReadPid(<<SimHandle(x[1])>>, p) # << >> <=> p \in DOMAIN SimMode01
    BY <1>3, <2>3, PidReadBack
  <2>5. p \in BitmapPids(base, Bitmap(<<SimHandle(y[1])>>, base)) <=> p \in DOMAIN SimMode01
    <3> DEFINE r == y[1]
    <3>1. Len(r) = 2 /\ r[1] = 1 /\ r[2] = base
      BY <1>3
    <3> HIDE DEF r, base, p, j
    <3>2. base + j + 1 \in BitmapPids(base, Bitmap(<<SimHandle(r)>>, base)) <=> base + j + 1 \in DOMAIN SimMode01
      BY ONLY <2>a, <2>3, <3>1, BitmapReadBack
    <3> QED
      BY <2>3, <3>2, Zenon DEF r
  <2>6. x[1] # <<3>>
    BY <1>3
  <2> QED
    BY <2>2, <2>4, <2>5, <2>6, Zenon
<1> QED
  BY <1>2, <1>3

\* The answers of the simulated ECU (simulator/ecu_sim.py) fit together for a
\* tester: a PID of the three ranges has a value exactly if its bit is set in the
\* bitmap of its range, and Mode 03 gives the codes that the ECU was told to store.
THEOREM AnswersFitTogether == SimInit /\ [][SimNext]_simVars => []AnswersAgree
<1>1. SimInit => SimInv
  BY SimBegins
<1>2. SimInv /\ [SimNext]_simVars => SimInv'
  BY SimStep
<1>3. SimInv => AnswersAgree
  <2> SUFFICES ASSUME SimInv, NEW i \in DOMAIN simOut, NEW j \in DOMAIN simOut
               PROVE  LET p == simOut[i][1]
                          r == simOut[j][1]
                          answer == <<simOut[i][2]>>
                      IN  /\ p = <<3>> => ReadDtcs(answer, 3) = SimCodes
                          /\ Len(p) = 2 /\ Len(r) = 2 /\ p[1] = 1 /\ r[1] = 1 /\ r[2] \in {0, 32, 64} /\ p[2] \in r[2] + 1 .. r[2] + 31 =>
                               (ReadPid(answer, p[2]) # << >> <=> p[2] \in BitmapPids(r[2], Bitmap(<<simOut[j][2]>>, r[2])))
    BY DEF AnswersAgree
  <2>1. simOut[i] \in SimPairs /\ simOut[j] \in SimPairs
    BY DEF SimInv, SimTypeOK
  <2> QED
    BY ONLY <2>1, PairsAgree
<1> QED
  BY <1>1, <1>2, <1>3, PTL

-----------------------------------------------------------------------------
(* The VIN: the check digit is a sum of values times weights, modulo eleven, *)
(* and but for place 9, whose weight is 0, no weight or difference of        *)
(* neighbouring weights has a factor of it.                                  *)

\* What Letters and Digits have at each place.
Characters == Letters \o Digits

\* There are thirty-six characters, and a character has a place.
LEMMA CharactersHavePlaces ==
  /\ DOMAIN Characters = 1 .. 36
  /\ \A c \in Alphabet : CharOrd[c] \in 1 .. 36 /\ Characters[CharOrd[c]] = c
<1> DEFINE A == {"A", "B", "C", "D", "E", "F", "G", "H", "I", "J", "K", "L", "M",
                 "N", "O", "P", "Q", "R", "S", "T", "U", "V", "W", "X", "Y", "Z",
                 "0", "1", "2", "3", "4", "5", "6", "7", "8", "9"}
<1>1. Letters \in Seq(A) /\ Len(Letters) = 26
  BY DEF Letters
<1>2. Digits \in Seq(A) /\ Len(Digits) = 10
  BY DEF Digits
<1> HIDE DEF A
<1>3. DOMAIN Characters = 1 .. 36
  <2> DEFINE s == Letters
             t == Digits
  <2>1. s \in Seq(A) /\ t \in Seq(A) /\ Len(s) = 26 /\ Len(t) = 10 /\ Characters = s \o t
    BY <1>1, <1>2 DEF Characters
  <2> HIDE DEF s, t
  <2>a. s \in Seq(A) /\ t \in Seq(A)
    BY <2>1
  <2>b. s \o t \in Seq(A) /\ Len(s \o t) = Len(s) + Len(t)
    BY <2>a, ConcatProperties
  <2>2. Characters \in Seq(A) /\ Len(Characters) = 36
    BY <2>1, <2>b
  <2> QED
    BY <2>2, LenProperties
<1>4. \A c \in Alphabet : \E i \in 1 .. 36 : Characters[i] = c
  BY <1>3 DEF Alphabet, ToSet, Characters
<1>5. \A c \in Alphabet : CharOrd[c] = CHOOSE i \in 1 .. 36 : Characters[i] = c
  BY DEF CharOrd, Characters
<1>6. \A c \in Alphabet : CharOrd[c] \in 1 .. 36 /\ Characters[CharOrd[c]] = c
  BY <1>4, <1>5
<1> QED
  BY <1>3, <1>6

\* A value of the code table is a digit, or -1.
LEMMA ValuesOfCharacters ==
  \A c \in Alphabet : Transliteration[c] \in -1 .. 9
<1> DEFINE V == <<1, 2, 3, 4, 5, 6, 7, 8, -1, 1, 2, 3, 4, 5, -1, 7, -1, 9, 2, 3, 4, 5, 6, 7, 8, 9,
         0, 1, 2, 3, 4, 5, 6, 7, 8, 9>>
<1>1. \A i \in 1 .. 36 : V[i] \in -1 .. 9
  OBVIOUS
<1>2. ASSUME NEW c \in Alphabet PROVE Transliteration[c] \in -1 .. 9
  <2>1. Transliteration[c] = IF c \in ILLEGAL_LETTERS THEN -1 ELSE V[CharOrd[c]]
    BY DEF Transliteration
  <2>2. CharOrd[c] \in 1 .. 36
    BY CharactersHavePlaces
  <2> HIDE DEF V
  <2>3. V[CharOrd[c]] \in -1 .. 9
    BY <1>1, <2>2
  <2> QED
    BY <2>1, <2>3
<1> QED
  BY <1>2

\* The check digit that a remainder stands for.
Mark(m) == IF m = 10 THEN "X" ELSE Digits[m + 1]

\* No two remainders have the same.
LEMMA MarksDiffer ==
  ASSUME NEW m \in 0 .. 10, NEW n \in 0 .. 10, m # n
  PROVE  Mark(m) # Mark(n)
<1>1. \A i \in 1 .. 10 : Digits[i] # "X" /\ \A j \in 1 .. 10 : i # j => Digits[i] # Digits[j]
  BY DEF Digits
<1>2. (m # 10 => m + 1 \in 1 .. 10) /\ (n # 10 => n + 1 \in 1 .. 10) /\ m + 1 # n + 1
  OBVIOUS
<1> QED
  BY <1>1, <1>2 DEF Mark

\* The remainder that check digit c stands for, and the value the code table has
\* for the digits and X.
LEMMA ValuesOfMarks ==
  /\ \A m \in 0 .. 9 : Mark(m) \in Alphabet /\ Transliteration[Mark(m)] = m /\ Mark(m) \in ToSet(Digits)
  /\ "X" \in Alphabet /\ Transliteration["X"] = 7 /\ "X" \notin ToSet(Digits)
  /\ \A c \in ToSet(Digits) : \E m \in 0 .. 9 : c = Mark(m)
<1> DEFINE V == <<1, 2, 3, 4, 5, 6, 7, 8, -1, 1, 2, 3, 4, 5, -1, 7, -1, 9, 2, 3, 4, 5, 6, 7, 8, 9,
         0, 1, 2, 3, 4, 5, 6, 7, 8, 9>>
<1>1. /\ \A i \in 1 .. 26 : Characters[i] = Letters[i]
      /\ \A i \in 1 .. 10 : Characters[26 + i] = Digits[i]
  <2> DEFINE A == {"A", "B", "C", "D", "E", "F", "G", "H", "I", "J", "K", "L", "M",
                   "N", "O", "P", "Q", "R", "S", "T", "U", "V", "W", "X", "Y", "Z",
                   "0", "1", "2", "3", "4", "5", "6", "7", "8", "9"}
             s == Letters
             t == Digits
  <2>1. s \in Seq(A) /\ t \in Seq(A) /\ Len(s) = 26 /\ Len(t) = 10 /\ Characters = s \o t
    BY DEF Letters, Digits, Characters
  <2> HIDE DEF s, t, A
  <2>2. \A i \in 1 .. Len(s) + Len(t) : (s \o t)[i] = IF i <= Len(s) THEN s[i] ELSE t[i - Len(s)]
    BY <2>1, ConcatProperties
  <2>3. /\ \A i \in 1 .. 26 : i \in 1 .. 36 /\ i <= 26
        /\ \A i \in 1 .. 10 : 26 + i \in 1 .. 36 /\ ~(26 + i <= 26) /\ (26 + i) - 26 = i
    OBVIOUS
  <2>4. ASSUME NEW i \in 1 .. 36 PROVE Characters[i] = IF i <= 26 THEN s[i] ELSE t[i - 26]
    <3>1. i \in 1 .. Len(s) + Len(t)
      BY <2>1
    <3>2. (s \o t)[i] = IF i <= Len(s) THEN s[i] ELSE t[i - Len(s)]
      BY <2>2, <3>1
    <3> QED
      BY <2>1, <3>2, Zenon
  <2>5. /\ \A i \in 1 .. 26 : Characters[i] = s[i]
        /\ \A i \in 1 .. 10 : Characters[26 + i] = t[i]
    BY <2>3, <2>4
  <2> QED
    BY <2>5 DEF s, t
<1>2. /\ \A i \in 1 .. 26 : Letters[i] \notin ToSet(Digits) /\ (Letters[i] = "X" <=> i = 24)
      /\ \A i \in 1 .. 10 : Digits[i] \in ToSet(Digits)
      /\ \A i \in 1 .. 10, j \in 1 .. 10 : Digits[i] = Digits[j] => i = j
      /\ "X" \notin ToSet(Digits)
  <2>1. ToSet(Digits) = {"0", "1", "2", "3", "4", "5", "6", "7", "8", "9"}
    BY DEF ToSet, Digits
  <2> QED
    BY <2>1 DEF Letters, Digits
<1>3. \A c \in ToSet(Digits) : \E i \in 1 .. 10 : c = Digits[i]
  BY DEF ToSet, Digits
<1>4. DOMAIN Characters = 1 .. 36 /\ \A c \in Alphabet : CharOrd[c] \in 1 .. 36 /\ Characters[CharOrd[c]] = c
  BY CharactersHavePlaces
<1>5. \A i \in 1 .. 36 : Characters[i] \in Alphabet
  BY <1>4 DEF Alphabet, ToSet, Characters
<1>6. \A c \in Alphabet : Transliteration[c] = IF c \in ILLEGAL_LETTERS THEN -1 ELSE V[CharOrd[c]]
  BY DEF Transliteration
<1>7. ASSUME NEW i \in 1 .. 10
      PROVE  Digits[i] \in Alphabet /\ CharOrd[Digits[i]] = 26 + i
  <2>1. Digits[i] \in Alphabet
    BY <1>1, <1>5
  <2>2. PICK k \in 1 .. 36 : k = CharOrd[Digits[i]] /\ Characters[k] = Digits[i]
    BY <1>4, <2>1
  <2>3. k \in 1 .. 26 \/ \E j \in 1 .. 10 : k = 26 + j
    <3>1. k \in 27 .. 36 => k - 26 \in 1 .. 10 /\ k = 26 + (k - 26)
      OBVIOUS
    <3> QED
      BY <3>1
  <2>4. k \notin 1 .. 26
    BY <1>1, <1>2, <2>2
  <2> QED
    BY <1>1, <1>2, <2>1, <2>2, <2>3, <2>4
<1>8. "X" \in Alphabet /\ CharOrd["X"] = 24
  <2>1. "X" \in Alphabet
    <3>1. Characters[24] = "X"
      BY <1>1, <1>2
    <3> QED
      BY <1>5, <3>1
  <2>2. PICK k \in 1 .. 36 : k = CharOrd["X"] /\ Characters[k] = "X"
    BY <1>4, <2>1
  <2>3. k \in 1 .. 26 \/ \E j \in 1 .. 10 : k = 26 + j
    <3>1. k \in 27 .. 36 => k - 26 \in 1 .. 10 /\ k = 26 + (k - 26)
      OBVIOUS
    <3> QED
      BY <3>1
  <2>4. \A j \in 1 .. 10 : k # 26 + j
    BY <1>1, <1>2, <2>2
  <2> QED
    BY <1>1, <1>2, <2>1, <2>2, <2>3, <2>4
<1>9. (\A i \in 1 .. 10 : V[26 + i] = i - 1) /\ V[24] = 7
  OBVIOUS
<1>10. "X" \notin ILLEGAL_LETTERS /\ \A i \in 1 .. 10 : Digits[i] \notin ILLEGAL_LETTERS
  BY DEF ILLEGAL_LETTERS, Digits
<1> HIDE DEF V
<1>11. \A i \in 1 .. 10 : Transliteration[Digits[i]] = i - 1
  BY <1>6, <1>7, <1>9, <1>10
<1>12. Transliteration["X"] = 7
  BY <1>6, <1>8, <1>9, <1>10
<1>13. \A m \in 0 .. 9 : Mark(m) = Digits[m + 1] /\ m + 1 \in 1 .. 10 /\ (m + 1) - 1 = m
  BY DEF Mark
<1>14. \A i \in 1 .. 10 : i - 1 \in 0 .. 9 /\ (i - 1) + 1 = i
  OBVIOUS
<1> QED
  BY <1>2, <1>3, <1>7, <1>8, <1>11, <1>12, <1>13, <1>14

\* A product of a weight and a difference of values is no multiple of eleven.
LEMMA NoMultiple ==
  ASSUME NEW w \in 1 .. 10, NEW d \in -9 .. 9, d # 0, NEW t \in Int
  PROVE  (t % 11) # ((t + w * d) % 11)
<1>1. CASE w = 1
  BY <1>1
<1>2. CASE w = 2
  BY <1>2
<1>3. CASE w = 3
  BY <1>3
<1>4. CASE w = 4
  BY <1>4
<1>5. CASE w = 5
  BY <1>5
<1>6. CASE w = 6
  BY <1>6
<1>7. CASE w = 7
  BY <1>7
<1>8. CASE w = 8
  BY <1>8
<1>9. CASE w = 9
  BY <1>9
<1>10. CASE w = 10
  BY <1>10
<1> QED
  BY <1>1, <1>2, <1>3, <1>4, <1>5, <1>6, <1>7, <1>8, <1>9, <1>10

\* The weights of the seventeen places.
LEMMA WeightsOfPlaces ==
  /\ \A i \in 1 .. 17 : CheckWeights[i] \in 0 .. 10 /\ (i # 9 => CheckWeights[i] \in 1 .. 10)
  /\ \A i \in 1 .. 16 : i # 9 /\ i + 1 # 9 =>
       CheckWeights[i] - CheckWeights[i + 1] = 1 \/ CheckWeights[i] - CheckWeights[i + 1] = -8
<1>1. CheckWeights[1] = 8 /\ CheckWeights[2] = 7 /\ CheckWeights[3] = 6 /\ CheckWeights[4] = 5
      /\ CheckWeights[5] = 4 /\ CheckWeights[6] = 3 /\ CheckWeights[7] = 2 /\ CheckWeights[8] = 10
      /\ CheckWeights[9] = 0 /\ CheckWeights[10] = 9 /\ CheckWeights[11] = 8 /\ CheckWeights[12] = 7
      /\ CheckWeights[13] = 6 /\ CheckWeights[14] = 5 /\ CheckWeights[15] = 4 /\ CheckWeights[16] = 3
      /\ CheckWeights[17] = 2
  BY DEF CheckWeights
<1> QED
  BY <1>1

\* A VIN of seventeen characters of the alphabet.
IsVin(v) == v \in [1 .. 17 -> Alphabet]

\* The terms of the sum that gives the check digit.
Terms(v) == [i \in 1 .. 17 |-> Transliteration[v[i]] * CheckWeights[i]]

\* The terms are integers.
LEMMA TermsAreIntegers ==
  ASSUME NEW v, IsVin(v)
  PROVE  Terms(v) \in [1 .. 17 -> Int]
<1>1. ASSUME NEW i \in 1 .. 17 PROVE Transliteration[v[i]] * CheckWeights[i] \in Int
  <2>1. v[i] \in Alphabet
    BY DEF IsVin
  <2>2. Transliteration[v[i]] \in Int /\ CheckWeights[i] \in Int
    BY <2>1, ValuesOfCharacters, WeightsOfPlaces
  <2> QED
    BY <2>2
<1> QED
  BY <1>1 DEF Terms

\* What decode_vin's verdict on the check digit comes to.
LEMMA VerdictIs ==
  ASSUME NEW v, IsVin(v), Len(v) = 17
  PROVE  /\ SumFunction(Terms(v)) \in Int
         /\ DecodeVin(v).validCheckDigit <=>
              (\A i \in 1 .. 17 : Transliteration[v[i]] # -1) /\ v[9] = Mark(SumFunction(Terms(v)) % 11)
<1>1. SumFunction(Terms(v)) \in Int
  <2>1. Terms(v) \in [1 .. 17 -> Int] /\ IsFiniteSet(1 .. 17) /\ 1 \in 1 .. 17
    <3>1. IsFiniteSet(1 .. 17)
      <4>1. 1 \in Int /\ 17 \in Int
        OBVIOUS
      <4> QED
        BY <4>1, FS_Interval
    <3> QED
      BY <3>1, TermsAreIntegers
  <2> DEFINE S == 1 .. 17
             f == Terms(v)
  <2>2. f \in [S -> Int] /\ IsFiniteSet(S) /\ 1 \in S /\ \A i \in S \ {1} : f[i] = f[i]
    BY <2>1
  <2> HIDE DEF S, f
  <2>3. SumFunction(f) \in Int
    BY <2>2, SumOffOne
  <2> QED
    BY <2>3 DEF f
<1> DEFINE m == SumFunction(Terms(v)) % 11
<1>2. m \in 0 .. 10
  BY <1>1
<1>3. DecodeVin(v).validCheckDigit <=> (ComputeCheckDigit(v) # "" /\ ComputeCheckDigit(v) = v[9])
  BY DEF DecodeVin, VIN_LENGTH
<1>4. ComputeCheckDigit(v) = IF \E i \in 1 .. 17 : Transliteration[v[i]] = -1 THEN "" ELSE Mark(m)
  BY DEF ComputeCheckDigit, VIN_LENGTH, Terms, Mark
<1>5. Mark(m) # ""
  <2>1. \A i \in 1 .. 10 : Digits[i] # ""
    <3>1. \A i \in 1 .. 10 : Digits[i] \in {"0", "1", "2", "3", "4", "5", "6", "7", "8", "9"}
      BY DEF Digits
    <3>2. "" \notin {"0", "1", "2", "3", "4", "5", "6", "7", "8", "9"}
      BY Zenon
    <3> QED
      BY <3>1, <3>2
  <2>2. m # 10 => m + 1 \in 1 .. 10
    BY <1>2
  <2> HIDE DEF m
  <2> QED
    BY <2>1, <2>2 DEF Mark
<1> QED
  BY <1>1, <1>3, <1>4, <1>5

\* The values of a VIN's characters.
ValueAt(v, i) == Transliteration[v[i]]

\* One VIN has at each place the values of the other.
Alike(v, w) == \A i \in 1 .. 17 : ValueAt(w, i) = ValueAt(v, i)

\* A sum that is off by no multiple of eleven shows, when the check digit itself is right.
LEMMA OffSumShows ==
  ASSUME NEW v, NEW w, IsVin(v), IsVin(w), Len(v) = 17, Len(w) = 17, w[9] = v[9],
         DecodeVin(v).validCheckDigit,
         SumFunction(Terms(v)) % 11 # SumFunction(Terms(w)) % 11
  PROVE  ~DecodeVin(w).validCheckDigit
<1> DEFINE s == SumFunction(Terms(v))
           t == SumFunction(Terms(w))
<1>1. s \in Int /\ t \in Int /\ v[9] = Mark(s % 11) /\ (DecodeVin(w).validCheckDigit => w[9] = Mark(t % 11))
  BY VerdictIs
<1>2. s % 11 \in 0 .. 10 /\ t % 11 \in 0 .. 10
  <2> HIDE DEF s, t
  <2> QED
    BY <1>1
<1>3. Mark(s % 11) # Mark(t % 11)
  BY <1>2, MarksDiffer
<1> QED
  BY <1>1, <1>3

\* Characters of the same values give the same verdict.
LEMMA AlikeAgree ==
  ASSUME NEW v, NEW w, IsVin(v), IsVin(w), Len(v) = 17, Len(w) = 17, w[9] = v[9],
         DecodeVin(v).validCheckDigit, Alike(v, w)
  PROVE  DecodeVin(w).validCheckDigit
<1>1. Terms(w) = Terms(v)
  BY DEF Alike, ValueAt, Terms
<1>2. \A i \in 1 .. 17 : Transliteration[w[i]] = Transliteration[v[i]]
  BY DEF Alike, ValueAt
<1> QED
  BY <1>1, <1>2, VerdictIs

\* A product whose factors are a weight and a difference of values, both of places.
LEMMA ChangeOfTerm ==
  ASSUME NEW v, IsVin(v), NEW i \in 1 .. 17
  PROVE  /\ Terms(v)[i] = ValueAt(v, i) * CheckWeights[i]
         /\ ValueAt(v, i) \in -1 .. 9 /\ CheckWeights[i] \in 0 .. 10
<1>1. v[i] \in Alphabet
  BY DEF IsVin
<1> QED
  BY <1>1, ValuesOfCharacters, WeightsOfPlaces DEF Terms, ValueAt

\* Sums of seventeen terms that differ in one place.
LEMMA SeventeenOffOne ==
  ASSUME NEW f \in [1 .. 17 -> Int], NEW h \in [1 .. 17 -> Int],
         NEW k \in 1 .. 17, \A i \in 1 .. 17 : i # k => f[i] = h[i]
  PROVE  /\ SumFunction(f) \in Int /\ SumFunction(h) \in Int
         /\ SumFunction(h) = SumFunction(f) + (h[k] - f[k])
<1> DEFINE S == 1 .. 17
<1>1. IsFiniteSet(S)
  <2>1. 1 \in Int /\ 17 \in Int
    OBVIOUS
  <2> QED
    BY <2>1, FS_Interval
<1>2. f \in [S -> Int] /\ h \in [S -> Int] /\ k \in S /\ \A i \in S \ {k} : f[i] = h[i]
  OBVIOUS
<1> HIDE DEF S
<1> QED
  BY <1>1, <1>2, SumOffOne

\* And in two.
LEMMA SeventeenOffTwo ==
  ASSUME NEW f \in [1 .. 17 -> Int], NEW h \in [1 .. 17 -> Int],
         NEW k \in 1 .. 17, NEW l \in 1 .. 17, k # l,
         \A i \in 1 .. 17 : i # k /\ i # l => f[i] = h[i]
  PROVE  /\ SumFunction(f) \in Int /\ SumFunction(h) \in Int
         /\ SumFunction(h) = SumFunction(f) + (h[k] - f[k]) + (h[l] - f[l])
<1> DEFINE S == 1 .. 17
<1>1. IsFiniteSet(S)
  <2>1. 1 \in Int /\ 17 \in Int
    OBVIOUS
  <2> QED
    BY <2>1, FS_Interval
<1>2. f \in [S -> Int] /\ h \in [S -> Int] /\ k \in S /\ l \in S /\ k # l
  OBVIOUS
<1>3. \A i \in S \ {k, l} : f[i] = h[i]
  OBVIOUS
<1> HIDE DEF S
<1>4. \A F \in [S -> Int], H \in [S -> Int], y \in S, z \in S :
        y # z /\ (\A i \in S \ {y, z} : F[i] = H[i]) =>
          /\ SumFunction(F) \in Int /\ SumFunction(H) \in Int
          /\ SumFunction(H) = SumFunction(F) + (H[y] - F[y]) + (H[z] - F[z])
  BY ONLY <1>1, SumOffTwo
<1> QED
  BY ONLY <1>2, <1>3, <1>4, Zenon

\* One wrong character outside the ninth place shows exactly if its value is wrong.
LEMMA WrongCharacterShows ==
  ASSUME NEW v, NEW w, IsVin(v), IsVin(w), Len(v) = 17, Len(w) = 17,
         DecodeVin(v).validCheckDigit,
         NEW k \in 1 .. 17, k # 9, \A i \in 1 .. 17 : i # k => w[i] = v[i]
  PROVE  DecodeVin(w).validCheckDigit <=> Alike(v, w)
<1>1. w[9] = v[9]
  OBVIOUS
<1>2. CASE Alike(v, w)
  BY <1>1, <1>2, AlikeAgree
<1>3. CASE ~Alike(v, w)
  <2> DEFINE a == ValueAt(v, k)
             b == ValueAt(w, k)
             c == CheckWeights[k]
             s == SumFunction(Terms(v))
             t == SumFunction(Terms(w))
  <2>1. a # b
    BY <1>3 DEF Alike, ValueAt
  <2>2. a \in -1 .. 9 /\ b \in -1 .. 9 /\ c \in 1 .. 10
    BY ChangeOfTerm, WeightsOfPlaces
  <2>3. s \in Int /\ t \in Int /\ t = s + (b * c - a * c)
    <3> DEFINE f == Terms(v)
               h == Terms(w)
    <3>2. f \in [1 .. 17 -> Int] /\ h \in [1 .. 17 -> Int]
      BY TermsAreIntegers
    <3>3. \A i \in 1 .. 17 : i # k => f[i] = h[i]
      BY DEF Terms
    <3>4. f[k] = a * c /\ h[k] = b * c
      BY ChangeOfTerm
    <3> HIDE DEF f, h, a, b, c
    <3>5. SumFunction(f) \in Int /\ SumFunction(h) \in Int /\ SumFunction(h) = SumFunction(f) + (h[k] - f[k])
      BY <3>2, <3>3, SeventeenOffOne
    <3> QED
      BY <3>4, <3>5 DEF f, h
  <2>4. CASE b = -1
    <3>1. Transliteration[w[k]] = -1
      BY <2>4 DEF ValueAt
    <3>2. DecodeVin(w).validCheckDigit => \A i \in 1 .. 17 : Transliteration[w[i]] # -1
      BY VerdictIs
    <3> QED
      BY <1>3, <3>1, <3>2
  <2>5. CASE a = -1
    BY <2>5, VerdictIs DEF ValueAt
  <2>6. CASE a # -1 /\ b # -1
    <3> DEFINE d == b - a
    <3>1. d \in -9 .. 9 /\ d # 0 /\ b * c - a * c = c * d
      <4> HIDE DEF a, b, c
      <4>1. b * c - a * c = c * (b - a)
        BY <2>2
      <4> QED
        BY <2>1, <2>2, <2>6, <4>1
    <3>2. (s % 11) # ((s + c * d) % 11)
      <4> HIDE DEF a, b, c, d, s, t
      <4> QED
        BY <2>2, <2>3, <3>1, NoMultiple
    <3>3. s % 11 # t % 11
      BY <2>3, <3>1, <3>2
    <3> QED
      BY <1>1, <1>3, <3>3, OffSumShows
  <2> QED
    BY <1>3, <2>4, <2>5, <2>6
<1> QED
  BY <1>2, <1>3

\* Two neighbours swapped, neither of them in the ninth place, show exactly if
\* their values differ.
LEMMA SwapShows ==
  ASSUME NEW v, NEW w, IsVin(v), IsVin(w), Len(v) = 17, Len(w) = 17,
         DecodeVin(v).validCheckDigit,
         NEW k \in 1 .. 16, k # 9, k + 1 # 9, w[k] = v[k + 1], w[k + 1] = v[k],
         \A i \in 1 .. 17 : i # k /\ i # k + 1 => w[i] = v[i]
  PROVE  DecodeVin(w).validCheckDigit <=> Alike(v, w)
<1>1. w[9] = v[9]
  OBVIOUS
<1>2. CASE Alike(v, w)
  BY <1>1, <1>2, AlikeAgree
<1>3. CASE ~Alike(v, w)
  <2> DEFINE a == ValueAt(v, k)
             b == ValueAt(v, k + 1)
             c == CheckWeights[k]
             e == CheckWeights[k + 1]
             s == SumFunction(Terms(v))
             t == SumFunction(Terms(w))
  <2>0. k \in 1 .. 17 /\ k + 1 \in 1 .. 17 /\ k # k + 1
    OBVIOUS
  <2>a. ValueAt(w, k) = b /\ ValueAt(w, k + 1) = a
    BY DEF ValueAt
  <2>1. a # b
    BY <1>3, <2>a DEF Alike, ValueAt
  <2>2. a \in -1 .. 9 /\ b \in -1 .. 9 /\ c \in 0 .. 10 /\ e \in 0 .. 10 /\ (c - e = 1 \/ c - e = -8)
    BY <2>0, ChangeOfTerm, WeightsOfPlaces
  <2>3. s \in Int /\ t \in Int /\ t = s + (b * c - a * c) + (a * e - b * e)
    <3> DEFINE f == Terms(v)
               h == Terms(w)
               l == k + 1
    <3>2. f \in [1 .. 17 -> Int] /\ h \in [1 .. 17 -> Int] /\ k \in 1 .. 17 /\ l \in 1 .. 17 /\ k # l
      BY <2>0, TermsAreIntegers
    <3>3. \A i \in 1 .. 17 : i # k /\ i # l => f[i] = h[i]
      BY DEF Terms
    <3>4. f[k] = a * c /\ h[k] = b * c /\ f[l] = b * e /\ h[l] = a * e
      BY <2>0, <2>a, ChangeOfTerm
    <3> HIDE DEF f, h, a, b, c, e, l
    <3>5. /\ SumFunction(f) \in Int /\ SumFunction(h) \in Int
          /\ SumFunction(h) = SumFunction(f) + (h[k] - f[k]) + (h[l] - f[l])
      BY ONLY <3>2, <3>3, SeventeenOffTwo
    <3> QED
      BY <3>4, <3>5 DEF f, h
  <2>4. CASE a = -1 \/ b = -1
    <3>1. Transliteration[v[k]] = -1 \/ Transliteration[v[k + 1]] = -1
      BY <2>4 DEF ValueAt
    <3>2. \A i \in 1 .. 17 : Transliteration[v[i]] # -1
      BY VerdictIs
    <3> QED
      BY <2>0, <3>1, <3>2
  <2>6. CASE a # -1 /\ b # -1
    <3>a. PICK r \in 1 .. 10, d \in -9 .. 9 : d # 0 /\ (b * c - a * c) + (a * e - b * e) = r * d
      <4> HIDE DEF a, b, c, e
      <4>1. (b * c - a * c) + (a * e - b * e) = (c - e) * (b - a)
        BY <2>2
      <4>2. CASE c - e = 1
        <5>1. (c - e) * (b - a) = 1 * (b - a)
          BY <4>2
        <5>2. b - a \in -9 .. 9 /\ b - a # 0 /\ 1 \in 1 .. 10
          BY <2>1, <2>2, <2>6
        <5> QED
          BY <4>1, <5>1, <5>2
      <4>3. CASE c - e = -8
        <5>1. (c - e) * (b - a) = 8 * (a - b)
          BY <2>2, <4>3
        <5>2. a - b \in -9 .. 9 /\ a - b # 0 /\ 8 \in 1 .. 10
          BY <2>1, <2>2, <2>6
        <5> QED
          BY <4>1, <5>1, <5>2
      <4> QED
        BY <2>2, <4>2, <4>3
    <3>1. t = s + r * d
      <4> HIDE DEF a, b, c, e, s, t
      <4>1. (b * c - a * c) \in Int /\ (a * e - b * e) \in Int
        BY <2>2
      <4> QED
        BY <2>3, <3>a, <4>1
    <3>2. (s % 11) # ((s + r * d) % 11)
      <4> HIDE DEF s
      <4> QED
        BY <2>3, <3>a, NoMultiple
    <3>3. s % 11 # t % 11
      BY <3>1, <3>2
    <3> QED
      BY <1>1, <1>3, <3>3, OffSumShows
  <2> QED
    BY <2>4, <2>6
<1> QED
  BY <1>2, <1>3

\* The check digit itself mistyped: its weight is zero, so it shows.
LEMMA WrongMarkShows ==
  ASSUME NEW v, NEW w, IsVin(v), IsVin(w), Len(v) = 17, Len(w) = 17,
         DecodeVin(v).validCheckDigit, \A i \in 1 .. 17 : i # 9 => w[i] = v[i]
  PROVE  DecodeVin(w).validCheckDigit <=> w[9] = v[9]
<1>1. CASE w[9] = v[9]
  <2>1. \A i \in 1 .. 17 : w[i] = v[i]
    BY <1>1
  <2> QED
    BY <1>1, <2>1, AlikeAgree DEF Alike, ValueAt
<1>2. CASE w[9] # v[9]
  <2> DEFINE f == Terms(v)
             h == Terms(w)
  <2>1. f \in [1 .. 17 -> Int] /\ h \in [1 .. 17 -> Int] /\ 9 \in 1 .. 17
    BY TermsAreIntegers
  <2>2. \A i \in 1 .. 17 : i # 9 => f[i] = h[i]
    BY DEF Terms
  <2>3. f[9] = 0 /\ h[9] = 0
    <3>1. CheckWeights[9] = 0 /\ 9 \in 1 .. 17
      BY DEF CheckWeights
    <3>2. \A x \in -1 .. 9 : x * 0 = 0
      OBVIOUS
    <3> QED
      BY <3>1, <3>2, ChangeOfTerm
  <2>4. \A i \in 1 .. 17 : f[i] = h[i]
    BY <2>2, <2>3
  <2>5. Terms(v) = Terms(w)
    <3> HIDE DEF f, h
    <3>1. f = h
      BY <2>1, <2>4
    <3> QED
      BY <3>1 DEF f, h
  <2> QED
    BY <1>2, <2>5, VerdictIs
<1> QED
  BY <1>1, <1>2

\* The check digit of a right VIN as the remainder it stands for, and the values
\* there and at place k.
LEMMA MarkAndNeighbour ==
  ASSUME NEW v, IsVin(v), Len(v) = 17, DecodeVin(v).validCheckDigit, NEW k \in 1 .. 17
  PROVE  \E m \in 0 .. 10 :
           /\ SumFunction(Terms(v)) \in Int /\ SumFunction(Terms(v)) % 11 = m
           /\ v[9] = Mark(m) /\ ValueAt(v, 9) = IF m = 10 THEN 7 ELSE m
           /\ ValueAt(v, k) \in 0 .. 9
           /\ \/ v[k] \in ToSet(Digits) /\ v[k] = Mark(ValueAt(v, k))
              \/ v[k] = Mark(10) /\ ValueAt(v, k) = 7 /\ v[k] \notin ToSet(Digits)
              \/ \A n \in 0 .. 10 : v[k] # Mark(n)
<1> DEFINE m == SumFunction(Terms(v)) % 11
<1>1. SumFunction(Terms(v)) \in Int /\ v[9] = Mark(m) /\ \A i \in 1 .. 17 : Transliteration[v[i]] # -1
  BY VerdictIs
<1>2. m \in 0 .. 10
  BY <1>1
<1> HIDE DEF m
<1>3. ValueAt(v, 9) = IF m = 10 THEN 7 ELSE m
  <2>1. m # 10 => m \in 0 .. 9
    BY <1>2
  <2> QED
    BY <1>1, <2>1, ValuesOfMarks DEF ValueAt, Mark
<1>4. ValueAt(v, k) \in 0 .. 9
  <2>1. ValueAt(v, k) \in -1 .. 9 /\ ValueAt(v, k) # -1
    BY <1>1, ChangeOfTerm DEF ValueAt
  <2> QED
    BY <2>1
<1>5. CASE v[k] \in ToSet(Digits)
  <2>1. PICK n \in 0 .. 9 : v[k] = Mark(n)
    BY <1>5, ValuesOfMarks
  <2>2. ValueAt(v, k) = n
    BY <2>1, ValuesOfMarks DEF ValueAt
  <2> QED
    BY <1>1, <1>2, <1>3, <1>4, <1>5, <2>1, <2>2 DEF m
<1>6. CASE v[k] = "X"
  <2>1. ValueAt(v, k) = 7 /\ v[k] = Mark(10) /\ v[k] \notin ToSet(Digits)
    BY <1>6, ValuesOfMarks DEF ValueAt, Mark
  <2> QED
    BY <1>1, <1>2, <1>3, <1>4, <2>1 DEF m
<1>7. CASE v[k] \notin ToSet(Digits) /\ v[k] # "X"
  <2>1. \A n \in 0 .. 10 : v[k] # Mark(n)
    <3>1. \A n \in 0 .. 9 : v[k] # Mark(n)
      BY <1>7, ValuesOfMarks
    <3>2. v[k] # Mark(10)
      BY <1>7 DEF Mark
    <3>3. \A n \in 0 .. 10 : n \in 0 .. 9 \/ n = 10
      OBVIOUS
    <3> QED
      BY <3>1, <3>2, <3>3
  <2> QED
    BY <1>1, <1>2, <1>3, <1>4, <2>1 DEF m
<1> QED
  BY <1>5, <1>6, <1>7

\* The sum of a VIN with the neighbours at k and k + 1 swapped.
LEMMA SwappedSum ==
  ASSUME NEW v, NEW w, IsVin(v), IsVin(w), NEW k \in 1 .. 16,
         w[k] = v[k + 1], w[k + 1] = v[k],
         \A i \in 1 .. 17 : i # k /\ i # k + 1 => w[i] = v[i]
  PROVE  /\ SumFunction(Terms(v)) \in Int /\ SumFunction(Terms(w)) \in Int
         /\ SumFunction(Terms(w)) = SumFunction(Terms(v))
              + (ValueAt(v, k + 1) * CheckWeights[k] - ValueAt(v, k) * CheckWeights[k])
              + (ValueAt(v, k) * CheckWeights[k + 1] - ValueAt(v, k + 1) * CheckWeights[k + 1])
<1> DEFINE f == Terms(v)
           h == Terms(w)
           l == k + 1
           a == ValueAt(v, k)
           b == ValueAt(v, k + 1)
           c == CheckWeights[k]
           e == CheckWeights[k + 1]
<1>1. f \in [1 .. 17 -> Int] /\ h \in [1 .. 17 -> Int] /\ k \in 1 .. 17 /\ l \in 1 .. 17 /\ k # l
  BY TermsAreIntegers
<1>2. \A i \in 1 .. 17 : i # k /\ i # l => f[i] = h[i]
  BY DEF Terms
<1>3. ValueAt(w, k) = b /\ ValueAt(w, k + 1) = a
  BY DEF ValueAt
<1>4. f[k] = a * c /\ h[k] = b * c /\ f[l] = b * e /\ h[l] = a * e
  <2>1. k \in 1 .. 17 /\ k + 1 \in 1 .. 17
    BY <1>1
  <2> QED
    BY <2>1, <1>3, ChangeOfTerm
<1> HIDE DEF f, h, a, b, c, e, l
<1>5. /\ SumFunction(f) \in Int /\ SumFunction(h) \in Int
      /\ SumFunction(h) = SumFunction(f) + (h[k] - f[k]) + (h[l] - f[l])
  BY ONLY <1>1, <1>2, SeventeenOffTwo
<1> QED
  BY <1>4, <1>5 DEF f, h, a, b, c, e, l

\* Remainders of eleven, of a sum and a change.
LEMMA ChangeOfRemainder ==
  \A s \in Int, x \in Int : (s + x) % 11 = ((s % 11) + x) % 11
OBVIOUS

\* The check digit swapped with the character before it passes exactly if both
\* are digits, or the same.
LEMMA SwapBeforeMark ==
  ASSUME NEW v, NEW w, IsVin(v), IsVin(w), Len(v) = 17, Len(w) = 17,
         DecodeVin(v).validCheckDigit, w[8] = v[9], w[9] = v[8],
         \A i \in 1 .. 17 : i # 8 /\ i # 9 => w[i] = v[i]
  PROVE  DecodeVin(w).validCheckDigit <=> v[8] = v[9] \/ {v[8], v[9]} \subseteq ToSet(Digits)
<1> DEFINE s == SumFunction(Terms(v))
           t == SumFunction(Terms(w))
           u == ValueAt(v, 8)
           z == ValueAt(v, 9)
<1>1. PICK m \in 0 .. 10 :
           /\ s \in Int /\ s % 11 = m
           /\ v[9] = Mark(m) /\ z = IF m = 10 THEN 7 ELSE m
           /\ u \in 0 .. 9
           /\ \/ v[8] \in ToSet(Digits) /\ v[8] = Mark(u)
              \/ v[8] = Mark(10) /\ u = 7 /\ v[8] \notin ToSet(Digits)
              \/ \A n \in 0 .. 10 : v[8] # Mark(n)
  <2>1. 8 \in 1 .. 17
    OBVIOUS
  <2> QED
    BY <2>1, MarkAndNeighbour
<1>2. t \in Int /\ t = s + (z * 10 - u * 10) + (u * 0 - z * 0)
  <2>1. CheckWeights[8] = 10 /\ CheckWeights[8 + 1] = 0 /\ 8 + 1 = 9 /\ 8 \in 1 .. 16
    BY DEF CheckWeights
  <2> QED
    BY <2>1, SwappedSum
<1>3. DecodeVin(w).validCheckDigit <=> v[8] = Mark(t % 11)
  <2>1. \A i \in 1 .. 17 : Transliteration[v[i]] # -1
    BY VerdictIs
  <2>2. \A i \in 1 .. 17 : Transliteration[w[i]] # -1
    <3>1. 8 \in 1 .. 17 /\ 9 \in 1 .. 17
      OBVIOUS
    <3> QED
      BY <2>1, <3>1
  <2> QED
    BY <2>2, VerdictIs
<1> HIDE DEF s, t, u, z
<1>4. t % 11 = (m + 10 * (z - u)) % 11
  <2>1. t = s + 10 * (z - u) /\ 10 * (z - u) \in Int
    BY <1>1, <1>2
  <2> QED
    BY <1>1, <2>1, ChangeOfRemainder
<1>5. t % 11 = IF m = 10 THEN (3 + u) % 11 ELSE u
  <2>1. CASE m = 10
    BY <1>1, <1>4, <2>1
  <2>2. CASE m # 10
    <3>1. m + 10 * (z - u) = u + 11 * (m - u) /\ m - u \in Int
      BY <1>1, <2>2
    <3>2. (u + 11 * (m - u)) % 11 = u
      BY <1>1, <3>1
    <3> QED
      BY <1>4, <2>2, <3>1, <3>2
  <2> QED
    BY <2>1, <2>2
<1>6. t % 11 \in 0 .. 10 /\ (m # 10 => v[9] \in ToSet(Digits)) /\ (m = 10 => v[9] \notin ToSet(Digits))
  <2>1. m # 10 => m \in 0 .. 9
    OBVIOUS
  <2> QED
    BY <1>1, <1>2, <2>1, ValuesOfMarks DEF Mark
<1>7. CASE v[8] \in ToSet(Digits) /\ v[8] = Mark(u)
  <2>1. v[8] = Mark(t % 11) <=> t % 11 = u
    BY <1>1, <1>6, <1>7, MarksDiffer
  <2>2. t % 11 = u <=> m # 10
    BY <1>1, <1>5
  <2> QED
    BY <1>3, <1>6, <1>7, <2>1, <2>2
<1>8. CASE v[8] = Mark(10) /\ u = 7 /\ v[8] \notin ToSet(Digits)
  <2>1. v[8] = Mark(t % 11) <=> t % 11 = 10
    BY <1>1, <1>6, <1>8, MarksDiffer
  <2>2. t % 11 = 10 <=> m = 10
    BY <1>1, <1>5, <1>8
  <2>3. v[8] = v[9] <=> m = 10
    BY <1>1, <1>8, MarksDiffer
  <2> QED
    BY <1>3, <1>8, <2>1, <2>2, <2>3
<1>9. CASE \A n \in 0 .. 10 : v[8] # Mark(n)
  <2>1. v[8] \notin ToSet(Digits)
    <3>1. \A n \in 0 .. 9 : n \in 0 .. 10
      OBVIOUS
    <3> QED
      BY <1>9, <3>1, ValuesOfMarks
  <2> QED
    BY <1>1, <1>3, <1>6, <1>9, <2>1
<1> QED
  BY <1>1, <1>7, <1>8, <1>9

\* The check digit swapped with the character after it passes exactly if the two
\* are 4 and X, or the same.
LEMMA SwapAfterMark ==
  ASSUME NEW v, NEW w, IsVin(v), IsVin(w), Len(v) = 17, Len(w) = 17,
         DecodeVin(v).validCheckDigit, w[9] = v[10], w[10] = v[9],
         \A i \in 1 .. 17 : i # 9 /\ i # 10 => w[i] = v[i]
  PROVE  DecodeVin(w).validCheckDigit <=> v[9] = v[10] \/ {v[9], v[10]} = {"4", "X"}
<1> DEFINE s == SumFunction(Terms(v))
           t == SumFunction(Terms(w))
           u == ValueAt(v, 10)
           z == ValueAt(v, 9)
<1>1. PICK m \in 0 .. 10 :
           /\ s \in Int /\ s % 11 = m
           /\ v[9] = Mark(m) /\ z = IF m = 10 THEN 7 ELSE m
           /\ u \in 0 .. 9
           /\ \/ v[10] \in ToSet(Digits) /\ v[10] = Mark(u)
              \/ v[10] = Mark(10) /\ u = 7 /\ v[10] \notin ToSet(Digits)
              \/ \A n \in 0 .. 10 : v[10] # Mark(n)
  <2>1. 10 \in 1 .. 17
    OBVIOUS
  <2> QED
    BY <2>1, MarkAndNeighbour
<1>2. t \in Int /\ t = s + (u * 0 - z * 0) + (z * 9 - u * 9)
  <2>1. CheckWeights[9] = 0 /\ CheckWeights[9 + 1] = 9 /\ 9 + 1 = 10 /\ 9 \in 1 .. 16
    BY DEF CheckWeights
  <2> QED
    BY <2>1, SwappedSum
<1>3. DecodeVin(w).validCheckDigit <=> v[10] = Mark(t % 11)
  <2>1. \A i \in 1 .. 17 : Transliteration[v[i]] # -1
    BY VerdictIs
  <2>2. \A i \in 1 .. 17 : Transliteration[w[i]] # -1
    <3>1. 9 \in 1 .. 17 /\ 10 \in 1 .. 17
      OBVIOUS
    <3> QED
      BY <2>1, <3>1
  <2> QED
    BY <2>2, VerdictIs
<1> HIDE DEF s, t, u, z
<1>4. t % 11 = (m + 9 * (z - u)) % 11
  <2>1. t = s + 9 * (z - u) /\ 9 * (z - u) \in Int
    BY <1>1, <1>2
  <2> QED
    BY <1>1, <2>1, ChangeOfRemainder
<1>5. t % 11 \in 0 .. 10
  BY <1>2
<1>6. Mark(4) = "4" /\ Mark(10) = "X" /\ 4 \in 0 .. 10 /\ 10 \in 0 .. 10
  BY DEF Mark, Digits
<1>7. CASE v[10] \in ToSet(Digits) /\ v[10] = Mark(u)
  <2>1. v[10] = Mark(t % 11) <=> t % 11 = u
    BY <1>1, <1>5, <1>7, MarksDiffer
  <2>2. t % 11 = u <=> m = u \/ (m = 10 /\ u = 4)
    <3>1. CASE m = 10
      BY <1>1, <1>4, <3>1
    <3>2. CASE m # 10
      BY <1>1, <1>4, <3>2
    <3> QED
      BY <3>1, <3>2
  <2>3. (v[9] = v[10] <=> m = u) /\ (v[9] = "X" <=> m = 10) /\ (v[10] = "4" <=> u = 4) /\ v[10] # "X"
    <3>1. u \in 0 .. 10 /\ u # 10
      BY <1>1
    <3> QED
      BY <1>1, <1>6, <1>7, <3>1, MarksDiffer
  <2> QED
    BY <1>3, <2>1, <2>2, <2>3
<1>8. CASE v[10] = Mark(10) /\ u = 7 /\ v[10] \notin ToSet(Digits)
  <2>1. v[10] = Mark(t % 11) <=> t % 11 = 10
    BY <1>1, <1>5, <1>8, MarksDiffer
  <2>2. t % 11 = 10 <=> m = 10 \/ m = 4
    <3>1. CASE m = 10
      BY <1>1, <1>4, <1>8, <3>1
    <3>2. CASE m # 10
      BY <1>1, <1>4, <1>8, <3>2
    <3> QED
      BY <3>1, <3>2
  <2>3. (v[9] = v[10] <=> m = 10) /\ (v[9] = "4" <=> m = 4) /\ v[10] = "X"
    BY <1>1, <1>6, <1>8, MarksDiffer
  <2> QED
    BY <1>3, <2>1, <2>2, <2>3
<1>9. CASE \A n \in 0 .. 10 : v[10] # Mark(n)
  <2>1. v[10] # "4" /\ v[10] # "X" /\ v[10] # v[9]
    BY <1>1, <1>6, <1>9
  <2> QED
    BY <1>3, <1>5, <1>9, <2>1
<1> QED
  BY <1>1, <1>7, <1>8, <1>9

\* A slip: what may have been typed for a VIN.
Slip(v, w) ==
  \/ w = v
  \/ \E i \in 1 .. 17, c \in Typos : w = [v EXCEPT ![i] = c]
  \/ \E i \in 1 .. 16 : w = Swapped(v, i)
  \/ \E i \in 1 .. 17 : w = RemoveAt(v, i)

\* What was typed is the stamped VIN with at most one slip.
VinInv == stamped \in RealVins /\ Slip(stamped, typed)

\* A stamped VIN.
LEMMA StampedIs ==
  ASSUME NEW v \in RealVins
  PROVE  v \in Seq(Alphabet) /\ Len(v) = 17 /\ IsVin(v)
<1>1. v \in Seq(Alphabet) /\ Len(v) = 17
  BY VinsAssumption DEF VIN_LENGTH
<1>2. v \in [1 .. 17 -> Alphabet]
  <2>1. v \in Seq(Alphabet)
    BY <1>1
  <2>2. v \in [1 .. Len(v) -> Alphabet]
    BY <2>1, LenProperties
  <2> QED
    BY <1>1, <2>2, Zenon
<1> QED
  BY <1>1, <1>2 DEF IsVin

\* At most one slip is made.
LEMMA OneSlip ==
  (VinInit => VinInv) /\ (VinInv /\ [VinNext]_vinVars => VinInv')
<1>1. VinInit => VinInv
  BY DEF VinInit, VinInv, Slip
<1>2. ASSUME VinInv, [VinNext]_vinVars PROVE VinInv'
  <2>1. ASSUME NEW i \in 1 .. 17, NEW c \in Typos, Mistype(i, c) PROVE VinInv'
    BY <1>2, <2>1 DEF VinInv, Mistype, Slip
  <2>2. ASSUME NEW i \in 1 .. 16, SwapNeighbours(i) PROVE VinInv'
    BY <1>2, <2>2 DEF VinInv, SwapNeighbours, Slip
  <2>3. ASSUME NEW i \in 1 .. 17, Omit(i) PROVE VinInv'
    BY <1>2, <2>3 DEF VinInv, Omit, Slip
  <2>4. CASE UNCHANGED vinVars
    BY <1>2, <2>4 DEF VinInv, vinVars
  <2> QED
    BY <1>2, <2>1, <2>2, <2>3, <2>4 DEF VinNext
<1> QED
  BY <1>1, <1>2

\* A VIN with an omitted character is a character short.
LEMMA OmittedIsShort ==
  ASSUME NEW v \in RealVins, NEW i \in 1 .. 17
  PROVE  Len(RemoveAt(v, i)) = 16
<1>1. v \in Seq(Alphabet) /\ Len(v) = 17
  BY StampedIs
<1>0. IsVin(v)
  BY StampedIs
<1> DEFINE a == SubSeq(v, 1, i - 1)
           b == SubSeq(v, i + 1, Len(v))
<1>2. a \in Seq(Alphabet) /\ Len(a) = i - 1
  <2>1. i - 1 \in Int /\ 1 \in Int /\ (\A j \in 1 .. i - 1 : v[j] \in Alphabet)
    <3>1. \A j \in 1 .. 17 : v[j] \in Alphabet
      BY <1>0 DEF IsVin
    <3> QED
      BY <3>1
  <2>2. /\ SubSeq(v, 1, i - 1) \in Seq(Alphabet)
        /\ Len(SubSeq(v, 1, i - 1)) = IF 1 <= i - 1 THEN (i - 1) - 1 + 1 ELSE 0
    BY ONLY <2>1, SubSeqProperties
  <2>3. (IF 1 <= i - 1 THEN (i - 1) - 1 + 1 ELSE 0) = i - 1
    OBVIOUS
  <2> QED
    BY <2>2, <2>3
<1>3. b \in Seq(Alphabet) /\ Len(b) = 17 - i
  <2>1. i + 1 \in Int /\ 17 \in Int /\ (\A j \in i + 1 .. 17 : v[j] \in Alphabet)
    <3>1. \A j \in 1 .. 17 : v[j] \in Alphabet
      BY <1>0 DEF IsVin
    <3> QED
      BY <3>1
  <2>2. /\ SubSeq(v, i + 1, 17) \in Seq(Alphabet)
        /\ Len(SubSeq(v, i + 1, 17)) = IF i + 1 <= 17 THEN 17 - (i + 1) + 1 ELSE 0
    BY ONLY <2>1, SubSeqProperties
  <2>3. (IF i + 1 <= 17 THEN 17 - (i + 1) + 1 ELSE 0) = 17 - i
    OBVIOUS
  <2> QED
    <3>1. b = SubSeq(v, i + 1, 17)
      BY <1>1
    <3> HIDE DEF b
    <3> QED
      BY <3>1, <2>2, <2>3
<1>4. RemoveAt(v, i) = a \o b
  BY DEF RemoveAt
<1> HIDE DEF a, b
<1>a. a \in Seq(Alphabet) /\ b \in Seq(Alphabet)
  BY <1>2, <1>3
<1>5. Len(a \o b) = Len(a) + Len(b)
  BY <1>a, ConcatProperties
<1>6. (i - 1) + (17 - i) = 16
  OBVIOUS
<1> QED
  BY <1>2, <1>3, <1>4, <1>5, <1>6

\* Seventeen characters are a sequence.
LEMMA VinIsSeq ==
  ASSUME NEW w \in [1 .. 17 -> Alphabet]
  PROVE  w \in Seq(Alphabet) /\ Len(w) = 17
<1> DEFINE n == 17
<1>1. n \in Nat /\ w \in [1 .. n -> Alphabet]
  OBVIOUS
<1> HIDE DEF n
<1>2. w \in Seq(Alphabet) /\ Len(w) = n
  BY <1>1, MapSeq
<1> QED
  BY <1>2 DEF n

\* What is said of a VIN with at most one slip, when the check digit is right, is
\* that its values are.
LEMMA OnlyValues ==
  ASSUME NEW v, NEW w, IsVin(v), IsVin(w), w[9] = v[9]
  PROVE  /\ w = Swapped(v, 8) => Alike(v, w)
         /\ ~(w = Swapped(v, 9) /\ {v[9], v[10]} = {"4", "X"})
<1>1. ASSUME w = Swapped(v, 8) PROVE Alike(v, w)
  <2>1. w[8] = v[9] /\ w[9] = v[8] /\ \A i \in 1 .. 17 : i # 8 /\ i # 9 => w[i] = v[i]
    BY <1>1 DEF IsVin, Swapped
  <2>2. \A i \in 1 .. 17 : w[i] = v[i]
    BY <2>1
  <2> QED
    BY <2>2 DEF Alike, ValueAt
<1>2. ASSUME w = Swapped(v, 9), {v[9], v[10]} = {"4", "X"} PROVE FALSE
  <2>1. w[9] = v[10]
    BY <1>2 DEF IsVin, Swapped
  <2> QED
    BY <1>2, <2>1
<1> QED
  BY <1>1, <1>2

\* A slip shows, but for those named.
LEMMA SlipShows ==
  ASSUME StampedRight, VinInv
  PROVE  SlipsShow
<1> DEFINE v == stamped
           w == typed
           Passes == SameValues \/ DigitsSwapped \/ FourAndXSwapped
<1>1. v \in RealVins /\ v \in Seq(Alphabet) /\ Len(v) = 17 /\ IsVin(v) /\ DecodeVin(v).validCheckDigit
  BY StampedIs DEF VinInv, StampedRight
<1>0. SlipsShow <=> (DecodeVin(w).validCheckDigit <=> Passes)
  BY DEF SlipsShow
<1>2. ASSUME Len(w) = 17, IsVin(w)
      PROVE  /\ SameValues <=> w[9] = v[9] /\ Alike(v, w)
             /\ w[9] = v[9] => (Passes <=> Alike(v, w))
  <2>1. SameValues <=> w[9] = v[9] /\ Alike(v, w)
    BY <1>1, <1>2 DEF SameValues, Alike, ValueAt
  <2>2. w[9] = v[9] => (DigitsSwapped => Alike(v, w)) /\ ~FourAndXSwapped
    BY <1>1, <1>2, OnlyValues DEF DigitsSwapped, FourAndXSwapped
  <2> QED
    BY <2>1, <2>2
<1>3. ASSUME Len(w) = 17, IsVin(w), \A i \in 1 .. 17 : w[i] = v[i] PROVE Alike(v, w) /\ w[9] = v[9]
  BY <1>3 DEF Alike, ValueAt
<1>4. CASE w = v
  <2>1. Passes
    BY <1>1, <1>2, <1>3, <1>4
  <2> QED
    BY <1>0, <1>1, <1>4, <2>1
<1>5. ASSUME NEW i \in 1 .. 17, NEW c \in Typos, w = [v EXCEPT ![i] = c] PROVE SlipsShow
  <2>1. c \in Alphabet
    BY VinsAssumption
  <2>2. w \in Seq(Alphabet) /\ Len(w) = 17 /\ IsVin(w)
    <3>1. w \in [1 .. 17 -> Alphabet]
      BY <1>1, <1>5, <2>1 DEF IsVin
    <3> HIDE DEF w
    <3>2. w \in Seq(Alphabet) /\ Len(w) = 17
      BY <3>1, VinIsSeq
    <3> QED
      BY <3>1, <3>2 DEF IsVin
  <2>3. \A j \in 1 .. 17 : j # i => w[j] = v[j]
    BY <1>1, <1>5
  <2>4. CASE i # 9
    <3>1. (DecodeVin(w).validCheckDigit <=> Alike(v, w)) /\ w[9] = v[9]
      <4> HIDE DEF v, w
      <4>1. w[9] = v[9]
        BY <2>3, <2>4
      <4>2. DecodeVin(w).validCheckDigit <=> Alike(v, w)
        BY <1>1, <2>2, <2>3, <2>4, WrongCharacterShows
      <4> QED
        BY <4>1, <4>2
    <3> HIDE DEF v, w, Passes
    <3> QED
      BY <1>0, <1>2, <2>2, <3>1
  <2>5. CASE i = 9
    <3>1. DecodeVin(w).validCheckDigit <=> w[9] = v[9]
      <4> HIDE DEF v, w
      <4>1. \A j \in 1 .. 17 : j # 9 => w[j] = v[j]
        BY <2>3, <2>5
      <4>2. IsVin(v) /\ Len(v) = 17 /\ DecodeVin(v).validCheckDigit
        BY <1>1
      <4> QED
        BY <2>2, <4>1, <4>2, WrongMarkShows
    <3>2. w[9] = v[9] => Passes
      <4>1. w[9] = v[9] => \A j \in 1 .. 17 : w[j] = v[j]
        BY <2>3, <2>5
      <4> HIDE DEF v, w, Passes
      <4> QED
        BY <1>2, <1>3, <2>2, <4>1
    <3>3. DigitsSwapped \/ FourAndXSwapped => w[9] = v[9]
      <4>1. ASSUME DigitsSwapped PROVE w[9] = v[9]
        <5>1. w = Swapped(v, 8) /\ w[8] = v[8]
          BY <2>3, <2>5, <4>1 DEF DigitsSwapped
        <5> HIDE DEF v, w
        <5>2. w[8] = v[9] /\ w[9] = v[8]
          BY <1>1, <5>1 DEF IsVin, Swapped
        <5> QED
          BY <5>1, <5>2
      <4>2. ASSUME FourAndXSwapped PROVE FALSE
        <5>1. w = Swapped(v, 9) /\ w[10] = v[10] /\ {v[9], v[10]} = {"4", "X"}
          BY <2>3, <2>5, <4>2 DEF FourAndXSwapped
        <5> HIDE DEF v, w
        <5>2. w[10] = v[9]
          BY <1>1, <5>1 DEF IsVin, Swapped
        <5> QED
          BY <5>1, <5>2
      <4> QED
        BY <4>1, <4>2
    <3>4. SameValues => w[9] = v[9]
      BY DEF SameValues
    <3>5. Passes => w[9] = v[9]
      BY <3>3, <3>4
    <3> HIDE DEF v, w, Passes
    <3> QED
      BY <1>0, <3>1, <3>2, <3>5
  <2> QED
    BY <2>4, <2>5
<1>6. ASSUME NEW i \in 1 .. 16, w = Swapped(v, i) PROVE SlipsShow
  <2>1. i \in 1 .. 17 /\ i + 1 \in 1 .. 17 /\ i # i + 1
    OBVIOUS
  <2>2. w \in Seq(Alphabet) /\ Len(w) = 17 /\ IsVin(w)
    <3>1. w \in [1 .. 17 -> Alphabet]
      <4>1. v[i] \in Alphabet /\ v[i + 1] \in Alphabet /\ v \in [1 .. 17 -> Alphabet]
        BY <1>1, <2>1 DEF IsVin
      <4> QED
        BY <1>6, <2>1, <4>1 DEF Swapped
    <3> HIDE DEF w
    <3>2. w \in Seq(Alphabet) /\ Len(w) = 17
      BY <3>1, VinIsSeq
    <3> QED
      BY <3>1, <3>2 DEF IsVin
  <2>3. w[i] = v[i + 1] /\ w[i + 1] = v[i] /\ \A j \in 1 .. 17 : j # i /\ j # i + 1 => w[j] = v[j]
    BY <1>1, <1>6, <2>1, SMTT(30) DEF IsVin, Swapped
  <2>4. CASE i # 8 /\ i # 9
    <3>1. i + 1 # 9
      BY <2>4
    <3>2. (DecodeVin(w).validCheckDigit <=> Alike(v, w)) /\ w[9] = v[9]
      <4>1. IsVin(v) /\ IsVin(w) /\ Len(v) = 17 /\ Len(w) = 17 /\ DecodeVin(v).validCheckDigit
        BY <1>1, <2>2
      <4> HIDE DEF v, w
      <4>2. w[9] = v[9]
        BY <2>3, <2>4, <3>1
      <4>3. DecodeVin(w).validCheckDigit <=> Alike(v, w)
        BY <4>1, <2>3, <2>4, <3>1, SwapShows
      <4> QED
        BY <4>2, <4>3
    <3> HIDE DEF v, w, Passes
    <3> QED
      BY <1>0, <1>2, <2>2, <3>2
  <2>5. CASE i = 8
    <3>1. w[8] = v[9] /\ w[9] = v[8] /\ \A j \in 1 .. 17 : j # 8 /\ j # 9 => w[j] = v[j]
      BY <2>3, <2>5
    <3>2. DecodeVin(w).validCheckDigit <=> v[8] = v[9] \/ {v[8], v[9]} \subseteq ToSet(Digits)
      <4> HIDE DEF v, w
      <4> QED
        BY <1>1, <2>2, <3>1, SwapBeforeMark
    <3>3. DigitsSwapped <=> {v[8], v[9]} \subseteq ToSet(Digits)
      BY <1>6, <2>5 DEF DigitsSwapped
    <3>4. ~FourAndXSwapped
      <4>1. ASSUME FourAndXSwapped PROVE FALSE
        <5>1. w = Swapped(v, 9) /\ {v[9], v[10]} = {"4", "X"}
          BY <4>1 DEF FourAndXSwapped
        <5> HIDE DEF v, w
        <5>2. w[10] = v[9] /\ w[10] = v[10]
          BY <1>1, <3>1, <5>1 DEF IsVin, Swapped
        <5> QED
          BY <5>1, <5>2
      <4> QED
        BY <4>1
    <3>5. SameValues <=> v[8] = v[9]
      <4>1. SameValues => v[8] = v[9]
        BY <3>1 DEF SameValues
      <4>2. v[8] = v[9] => \A j \in 1 .. 17 : w[j] = v[j]
        BY <3>1
      <4> HIDE DEF v, w
      <4>3. v[8] = v[9] => SameValues
        BY <1>2, <1>3, <2>2, <4>2
      <4> QED
        BY <4>1, <4>3
    <3>6. Passes <=> v[8] = v[9] \/ {v[8], v[9]} \subseteq ToSet(Digits)
      BY <3>3, <3>4, <3>5
    <3> HIDE DEF v, w, Passes
    <3> QED
      BY <1>0, <3>2, <3>6
  <2>6. CASE i = 9
    <3>1. w[9] = v[10] /\ w[10] = v[9] /\ \A j \in 1 .. 17 : j # 9 /\ j # 10 => w[j] = v[j]
      BY <2>3, <2>6
    <3>2. DecodeVin(w).validCheckDigit <=> v[9] = v[10] \/ {v[9], v[10]} = {"4", "X"}
      <4> HIDE DEF v, w
      <4> QED
        BY <1>1, <2>2, <3>1, SwapAfterMark
    <3>3. FourAndXSwapped <=> {v[9], v[10]} = {"4", "X"}
      BY <1>6, <2>6 DEF FourAndXSwapped
    <3>4. DigitsSwapped => v[9] = v[10]
      <4>1. ASSUME DigitsSwapped PROVE v[9] = v[10]
        <5>1. w = Swapped(v, 8)
          BY <4>1 DEF DigitsSwapped
        <5> HIDE DEF v, w
        <5>2. w[8] = v[9] /\ w[9] = v[8] /\ w[10] = v[10] /\ w[8] = v[8]
          BY <1>1, <3>1, <5>1 DEF IsVin, Swapped
        <5> QED
          BY <3>1, <5>2
      <4> QED
        BY <4>1
    <3>5. SameValues <=> v[9] = v[10]
      <4>1. SameValues => v[9] = v[10]
        BY <3>1 DEF SameValues
      <4>2. v[9] = v[10] => \A j \in 1 .. 17 : w[j] = v[j]
        BY <3>1
      <4> HIDE DEF v, w
      <4>3. v[9] = v[10] => SameValues
        BY <1>2, <1>3, <2>2, <4>2
      <4> QED
        BY <4>1, <4>3
    <3>6. Passes <=> v[9] = v[10] \/ {v[9], v[10]} = {"4", "X"}
      BY <3>3, <3>4, <3>5
    <3> HIDE DEF v, w, Passes
    <3> QED
      BY <1>0, <3>2, <3>6
  <2> QED
    BY <2>4, <2>5, <2>6
<1>7. ASSUME NEW i \in 1 .. 17, w = RemoveAt(v, i) PROVE SlipsShow
  <2>1. Len(w) = 16
    BY <1>1, <1>7, OmittedIsShort
  <2>2. ~DecodeVin(w).validCheckDigit
    <3>1. DecodeVin(w).validCheckDigit => Len(w) = VIN_LENGTH
      BY DEF DecodeVin
    <3> QED
      BY <2>1, <3>1 DEF VIN_LENGTH
  <2>3. ~SameValues
    BY <1>1, <2>1 DEF SameValues
  <2>4. ASSUME NEW k \in 1 .. 16 PROVE w # Swapped(v, k)
    <3>1. Swapped(v, k) \in [1 .. 17 -> Alphabet]
      <4>1. k \in 1 .. 17 /\ k + 1 \in 1 .. 17
        OBVIOUS
      <4>2. v[k] \in Alphabet /\ v[k + 1] \in Alphabet /\ v \in [1 .. 17 -> Alphabet]
        BY <1>1, <4>1 DEF IsVin
      <4> QED
        BY <4>2 DEF Swapped
    <3>2. PICK x : x = Swapped(v, k)
      OBVIOUS
    <3>3. Len(x) = 17
      BY <3>1, <3>2, VinIsSeq
    <3> QED
      BY <2>1, <3>2, <3>3
  <2>5. ~Passes
    BY <2>3, <2>4 DEF DigitsSwapped, FourAndXSwapped
  <2> QED
    BY <1>0, <2>2, <2>5
<1> QED
  BY <1>4, <1>5, <1>6, <1>7 DEF VinInv, Slip

\* However a VIN with the right check digit is mistyped, one wrong character, two
\* neighbours swapped or one left out, compute_check_digit (protocol/vin.py:42,
\* :428-443) tells it from the stamped one, but for the three kinds of slip that
\* SlipsShow names: equal values outside place 9, digits swapped in places 8 and
\* 9, and a 4 and an X swapped in places 9 and 10.
THEOREM SlipsOfTheTypist ==
  ASSUME StampedRight PROVE VinInit /\ [][VinNext]_vinVars => []SlipsShow
<1>1. VinInit => VinInv
  BY OneSlip
<1>2. VinInv /\ [VinNext]_vinVars => VinInv'
  BY OneSlip
<1>3. VinInv => SlipsShow
  BY SlipShows
<1> QED
  BY <1>1, <1>2, <1>3, PTL

-----------------------------------------------------------------------------
(* The services: calls of the two clients, and an ECU that answers them.   *)

\* Calls of UDSClient, by the layout of their data.
SubFunctionUds(t, x, s, q) ==
  {UdsSession(t, q), UdsReset(t, q), UdsCommunication(t, x, q), UdsTesterPresent(q),
   UdsDtcSetting(t, s, q), UdsOnEvent(t, s, q), UdsLinkControl(t, s, q)}
CodesUds(x) ==
  {UdsClear(x), UdsDtcsByMask(x), UdsSupportedDtcs}
IdentifierUds(x, y, s) ==
  {UdsReadId(x), UdsScaling(x), UdsWriteId(x, s), UdsIoControl(x, y, s), UdsRoutine(y, x, s)}
ByteFirstUds(x, y, s) ==
  {RequestSeed(x), SendKey(x, s), UdsAuthentication(x, s), UdsPeriodic(x, s), UdsDefineId(x, s),
   UdsFileTransfer(x, s), UdsTiming(x, s), UdsSecured(s), TransferExit(s), UdsTransferData(x, y, s)}
MemoryUds(x, y, a, w, s) ==
  {UdsReadMemory(x, y, a, w), UdsWriteMemory(x, s, a, w)}
TransferUds(x, y, a, w) ==
  {UdsTransfer(\h34, x, y, a, w), UdsTransfer(\h35, x, y, a, w)}

\* What the methods of UDSClient can be called with: a sub-function leaves its
\* suppress bit to the client, a width fits its nibble, an identifier, a mask
\* or a number is any number, and data is bytes.
MadeByUds(c) ==
  \E t \in 0 .. 127, x \in Nat, y \in Nat, a \in 0 .. 15, w \in 0 .. 15, s \in Seq(0 .. 255), q \in BOOLEAN :
    \/ c \in SubFunctionUds(t, x, s, q)
    \/ c \in CodesUds(x)
    \/ c \in IdentifierUds(x, y, s)
    \/ c \in ByteFirstUds(x, y, s)
    \/ c \in MemoryUds(x, y, a, w, s)
    \/ c \in TransferUds(x, y, a, w)

\* Calls of KWP2000Client, and of FordGDS over it.
ByteFirstKwp(x, s) ==
  {KwpSession(x, s), KwpReset(x), KwpEcuId(x), KwpReadLocal(x), KwpDefineLocal(x, s), KwpWriteLocal(x, s),
   KwpRoutine(\h31, x, s), KwpRoutine(\h32, x, s), KwpRoutine(\h33, x, s), RequestSeed(x), SendKey(x, s)}
AnyBytesKwp(x, y, s) ==
  {KwpStopSession, KwpIoControl(x, y, s), KwpTransferData(x, s), TransferExit(s)}
IdentifierKwp(x, s) ==
  {KwpReadCommon(x), GdsText(x), KwpWriteCommon(x, s)}
CodesKwp(x, y) ==
  {KwpClear(x), KwpDtcsByStatus(x, y), KwpStatusOfDtc(x)}
MemoryKwp(x, y) ==
  {KwpReadMemory(x, y), KwpTransfer(\h34, x, y), KwpTransfer(\h35, x, y)}

\* What their methods can be called with.
MadeByKwp(c) ==
  \E x \in Nat, y \in Nat, s \in Seq(0 .. 255), q \in BOOLEAN :
    \/ c \in ByteFirstKwp(x, s)
    \/ c \in AnyBytesKwp(x, y, s)
    \/ c \in IdentifierKwp(x, s)
    \/ c \in CodesKwp(x, y)
    \/ c \in MemoryKwp(x, y)
    \/ c = KwpTesterPresent(q)

\* A request long enough for its service.
WellFormed(l, sid, d) ==
  /\ d \in Seq(Int)
  /\ sid \in HasSubFunction \cup {\h27, \h19, \h18, \h1A, \h21, \h3B, \h31, \h32, \h33, \h36, \h23, \h3D, \h34, \h35}
       /\ ~(l = "kwp" /\ sid = \h36) => Len(d) >= 1
  /\ sid = \h2E => Len(d) >= 2
  /\ l = "uds" /\ sid \in {\h23, \h3D} => Len(d) >= 1 + (d[1] % 16) + (d[1] \div 16)
  /\ l = "kwp" /\ sid = \h23 => Len(d) = 4

\* Writes that leave the trouble codes alone.
LeavesCodes(pairs) == \A i \in DOMAIN pairs : pairs[i][1] # <<"codes">>

\* A call whose result is trouble codes is one of those that ask for them.
CodesAreRecords(l, c) ==
  /\ c.as = "uds_dtcs" => l = "uds" /\ c.sid = \h19 /\ c.skip = 2
  /\ c.as = "kwp_dtcs" => l = "kwp" /\ ((c.sid = \h18 /\ c.skip = 1) \/ (c.sid = \h17 /\ c.skip = 0))

\* What a call of the client l is like.
Proper(l, c) ==
  /\ c.sid \in 16 .. 135 /\ c.sid # 63
  /\ WellFormed(l, c.sid, c.data)
  /\ c.expect \in BOOLEAN
  /\ c.expect <=> ~AskedToKeepQuiet(l, c.sid, c.data)
  /\ c.sid = \h14 => c.writes = <<<<<<"codes">>, << >>>>>>
  /\ c.sid # \h14 => LeavesCodes(c.writes)
  /\ CodesAreRecords(l, c)

\* Bytes that begin with one, and with a number of two.
OneByte(x) == <<x>>

LEMMA OneFirst ==
  ASSUME NEW s \in Seq(Int), NEW x \in Int
  PROVE  /\ OneByte(x) \o s \in Seq(Int) /\ Len(OneByte(x) \o s) = 1 + Len(s) /\ (OneByte(x) \o s)[1] = x
         /\ Len(s) \in Nat
<1> DEFINE p == OneByte(x)
<1>1. p \in Seq(Int) /\ Len(p) = 1 /\ p[1] = x
  BY DEF OneByte
<1> HIDE DEF p
<1>a. p \in Seq(Int) /\ s \in Seq(Int)
  BY <1>1
<1>b. /\ p \o s \in Seq(Int) /\ Len(p \o s) = Len(p) + Len(s) /\ Len(s) \in Nat
      /\ \A i \in 1 .. Len(p) : (p \o s)[i] = p[i]
  BY <1>a, Joined
<1>2. p \o s \in Seq(Int) /\ Len(p \o s) = 1 + Len(s) /\ (p \o s)[1] = x
  BY <1>1, <1>b
<1> QED
  BY <1>2, <1>b DEF p

LEMMA WordFirst ==
  ASSUME NEW s \in Seq(Int), NEW x \in Int
  PROVE  U16(x) \o s \in Seq(Int) /\ Len(U16(x) \o s) = 2 + Len(s) /\ Len(s) \in Nat
<1> DEFINE p == U16(x)
<1>1. p \in Seq(Int) /\ Len(p) = 2
  BY DEF U16
<1> HIDE DEF p
<1>a. p \in Seq(Int) /\ s \in Seq(Int)
  BY <1>1
<1>b. p \o s \in Seq(Int) /\ Len(p \o s) = Len(p) + Len(s) /\ Len(s) \in Nat
  BY <1>a, Joined
<1> QED
  BY <1>1, <1>b DEF p

\* Bytes are integers, and a number is written in bytes.
LEMMA BytesAre ==
  ASSUME NEW s \in Seq(0 .. 255)
  PROVE  s \in Seq(Int) /\ Len(s) \in Nat
<1> DEFINE B == 0 .. 255
<1>1. \A b \in B : b \in Int
  OBVIOUS
<1>2. s \in Seq(B)
  OBVIOUS
<1> HIDE DEF B
<1>3. \A j \in 1 .. Len(s) : s[j] \in B
  BY <1>2, LenProperties
<1> QED
  BY <1>1, <1>2, <1>3, SeqOver, LenProperties

LEMMA WordsAre ==
  ASSUME NEW x \in Int
  PROVE  U16(x) \in Seq(Int) /\ Len(U16(x)) = 2 /\ U24(x) \in Seq(Int) /\ Len(U24(x)) = 3
<1>1. U16(x) \in Seq(Int) /\ Len(U16(x)) = 2
  BY DEF U16
<1> DEFINE h == (x \div 65536) % 256
           s == U16(x)
<1>2. h \in Int /\ s \in Seq(Int) /\ Len(s) = 2
  BY <1>1
<1>3. U24(x) = OneByte(h) \o s
  BY DEF U24, OneByte
<1> HIDE DEF h, s
<1>4. OneByte(h) \o s \in Seq(Int) /\ Len(OneByte(h) \o s) = 1 + Len(s)
  BY <1>2, OneFirst
<1> QED
  BY <1>1, <1>2, <1>3, <1>4

LEMMA NumbersAre ==
  ASSUME NEW n \in Nat, NEW w \in 0 .. 15
  PROVE  ToBytes(n, w) \in Seq(Int) /\ (ToBytes(n, w) = TooWide \/ Len(ToBytes(n, w)) = w)
BY DEF ToBytes, TooWide

\* A sequence of numbers stands for a number.
LEMMA NumberOf ==
  ASSUME NEW s \in Seq(Int)
  PROVE  FromBytes(s) \in Int
<1> DEFINE f == [i \in DOMAIN s |-> s[i] * 256 ^ (Len(s) - i)]
           S == 1 .. Len(s)
<1>1. Len(s) \in Nat /\ DOMAIN s = S
  BY LenProperties
<1>2. f \in [S -> Int]
  BY <1>1
<1>3. IsFiniteSet(S)
  BY <1>1, FS_Interval
<1> HIDE DEF f, S
<1>4. PICK g : SumFunction(f) = g[S] /\ SumAnyOrder(g, f, S)
  BY <1>2, <1>3, SumTakes
<1>5. SumFunction(f) \in Int
  BY <1>4 DEF SumAnyOrder
<1> QED
  BY <1>5 DEF FromBytes, f

\* A byte before bytes, an identifier before them, and both.
LEMMA Layouts ==
  ASSUME NEW x \in Int, NEW y \in Int, NEW s \in Seq(0 .. 255)
  PROVE  /\ OneByte(x) \o s \in Seq(Int) /\ Len(OneByte(x) \o s) >= 1 /\ (OneByte(x) \o s)[1] = x
         /\ U16(x) \in Seq(Int) /\ Len(U16(x)) = 2
         /\ U16(x) \o s \in Seq(Int) /\ Len(U16(x) \o s) >= 2
         /\ U16(x) \o OneByte(y) \o s \in Seq(Int)
         /\ OneByte(y) \o U16(x) \in Seq(Int) /\ Len(OneByte(y) \o U16(x)) = 3
         /\ OneByte(y) \o U16(x) \o s \in Seq(Int) /\ Len(OneByte(y) \o U16(x) \o s) >= 2
<1> DEFINE i == U16(x)
<1>1. s \in Seq(Int) /\ Len(s) \in Nat
  BY BytesAre
<1>2. i \in Seq(Int) /\ Len(i) = 2
  BY WordsAre
<1>3. i \o s \in Seq(Int) /\ Len(i \o s) = 2 + Len(s)
  BY <1>1, WordFirst
<1>4. i \o OneByte(y) \in Seq(Int)
  <2>1. OneByte(y) \in Seq(Int)
    BY DEF OneByte
  <2> QED
    BY <2>1, WordFirst
<1> HIDE DEF i
<1>5. i \o OneByte(y) \o s \in Seq(Int)
  BY <1>1, <1>4, Joined
<1>6. OneByte(y) \o i \in Seq(Int) /\ Len(OneByte(y) \o i) = 3
  <2>1. i \in Seq(Int) /\ y \in Int
    BY <1>2
  <2>2. OneByte(y) \o i \in Seq(Int) /\ Len(OneByte(y) \o i) = 1 + Len(i)
    BY ONLY <2>1, OneFirst
  <2> QED
    BY <1>2, <2>2
<1>7. OneByte(y) \o i \o s \in Seq(Int) /\ Len(OneByte(y) \o i \o s) = 3 + Len(s)
  BY <1>1, <1>6, Joined
<1>8. OneByte(x) \o s \in Seq(Int) /\ Len(OneByte(x) \o s) = 1 + Len(s) /\ (OneByte(x) \o s)[1] = x
  BY <1>1, OneFirst
<1> QED
  BY <1>1, <1>2, <1>3, <1>5, <1>6, <1>7, <1>8 DEF i

\* A call that asks for a response or not by its sub-function.
LEMMA SubFunctionCalls ==
  ASSUME NEW t \in 0 .. 127, NEW x \in Nat, NEW s \in Seq(0 .. 255), NEW q \in BOOLEAN, NEW c,
         c \in SubFunctionUds(t, x, s, q)
  PROVE  Proper("uds", c)
<1> USE DEF SubFunctionUds
<1> DEFINE b == SubFn(t, q)
           b0 == SubFn(0, q)
<1>1. b \in Int /\ (b >= 128 <=> q) /\ b0 \in Int /\ (b0 >= 128 <=> q)
  BY DEF SubFn
<1>2. OneByte(b) \o s \in Seq(Int) /\ Len(OneByte(b) \o s) >= 1 /\ (OneByte(b) \o s)[1] = b
  <2>1. b \in Int /\ 0 \in Int
    BY <1>1
  <2> HIDE DEF b
  <2> QED
    BY <2>1, Layouts
<1> HIDE DEF b, b0
<1>3. /\ c.sid \in {16, 17, 40, 62, 133, 134, 135} /\ (c.expect <=> ~q) /\ c.expect \in BOOLEAN
      /\ c.writes = << >> /\ c.as \in {"timings", "bytes", "none"}
      /\ c.data = <<b>> \/ c.data = <<b, x>> \/ c.data = <<b0>> \/ c.data = OneByte(b) \o s
  <2>1. CASE c = UdsSession(t, q)
    BY <2>1 DEF UdsSession, About, Returning, Quietly, Call, b, b0
  <2>2. CASE c = UdsReset(t, q)
    BY <2>2 DEF UdsReset, Quietly, Call, b, b0
  <2>3. CASE c = UdsCommunication(t, x, q)
    BY <2>3 DEF UdsCommunication, Quietly, Call, b, b0
  <2>4. CASE c = UdsTesterPresent(q)
    BY <2>4 DEF UdsTesterPresent, NoResult, Returning, Quietly, Call, b, b0
  <2>5. CASE c = UdsDtcSetting(t, s, q)
    BY <2>5, ZenonT(40) DEF UdsDtcSetting, NoResult, Returning, Quietly, OneByte, Call, b, b0
  <2>6. CASE c = UdsOnEvent(t, s, q)
    BY <2>6 DEF UdsOnEvent, OneByte, Quietly, Call, b, b0
  <2>7. CASE c = UdsLinkControl(t, s, q)
    BY <2>7 DEF UdsLinkControl, OneByte, Quietly, Call, b, b0
  <2> QED
    BY <2>1, <2>2, <2>3, <2>4, <2>5, <2>6, <2>7
<1>4. c.data \in Seq(Int) /\ Len(c.data) >= 1 /\ (c.data[1] = b \/ c.data[1] = b0)
  <2>a. b \in Int /\ b0 \in Int /\ x \in Int
    BY <1>1
  <2>1. CASE c.data = <<b>>
    BY <2>1, <2>a
  <2>2. CASE c.data = <<b, x>>
    BY <2>2, <2>a
  <2>3. CASE c.data = <<b0>>
    BY <2>3, <2>a
  <2>4. CASE c.data = OneByte(b) \o s
    BY <1>2, <2>4
  <2> QED
    BY <1>3, <2>1, <2>2, <2>3, <2>4
<1>5. WellFormed("uds", c.sid, c.data)
  <2>1. c.sid # 46 /\ c.sid # 35 /\ c.sid # 61
    BY <1>3
  <2> QED
    BY <1>4, <2>1 DEF WellFormed
<1>6. AskedToKeepQuiet("uds", c.sid, c.data) <=> q
  BY <1>1, <1>3, <1>4 DEF AskedToKeepQuiet, HasSubFunction
<1>7. LeavesCodes(c.writes) /\ CodesAreRecords("uds", c)
  BY <1>3 DEF LeavesCodes, CodesAreRecords
<1> QED
  BY <1>3, <1>5, <1>6, <1>7 DEF Proper

\* Services of UDS of which nothing but their data is asked here.
PlainSids == {34, 36, 39, 41, 42, 44, 46, 47, 49, 52, 53, 54, 55, 56, 131, 132}

LEMMA PlainServices ==
  ASSUME NEW n \in PlainSids
  PROVE  /\ n \in 16 .. 135 /\ n # 63 /\ n # 20 /\ n \notin HasSubFunction
         /\ n \notin HasSubFunction \cup {25, 24, 26, 33, 59, 50, 51, 35, 61}
<1>1. n \in 16 .. 135 /\ n # 63 /\ n # 20
  BY DEF PlainSids
<1>2. n \notin HasSubFunction
  BY DEF PlainSids, HasSubFunction
<1>3. n \notin {25, 24, 26, 33, 59, 50, 51, 35, 61}
  BY DEF PlainSids
<1> QED
  BY <1>1, <1>2, <1>3

\* Any other call of UDSClient on data of so many bytes.
LEMMA OrdinaryUdsCalls ==
  ASSUME NEW c, c.sid \in PlainSids, c.expect = TRUE, c.data \in Seq(Int),
         c.sid \in {39, 49, 52, 53, 54} => Len(c.data) >= 1, c.sid = 46 => Len(c.data) >= 2,
         LeavesCodes(c.writes), CodesAreRecords("uds", c)
  PROVE  Proper("uds", c)
<1> DEFINE n == c.sid
<1>1. /\ n \in 16 .. 135 /\ n # 63 /\ n # 20 /\ n \notin HasSubFunction
      /\ n \notin HasSubFunction \cup {25, 24, 26, 33, 59, 50, 51, 35, 61}
  BY PlainServices
<1>2. ~AskedToKeepQuiet("uds", c.sid, c.data)
  BY <1>1 DEF AskedToKeepQuiet
<1>3. WellFormed("uds", c.sid, c.data)
  BY <1>1 DEF WellFormed
<1> QED
  BY <1>1, <1>2, <1>3 DEF Proper

LEMMA IdentifierCalls ==
  ASSUME NEW x \in Nat, NEW y \in Nat, NEW s \in Seq(0 .. 255), NEW c,
         c \in IdentifierUds(x, y, s)
  PROVE  Proper("uds", c)
<1> USE DEF IdentifierUds
<1> DEFINE i == U16(x)
<1>1. /\ i \in Seq(Int) /\ i \o s \in Seq(Int) /\ i \o OneByte(y) \o s \in Seq(Int) /\ OneByte(y) \o i \o s \in Seq(Int)
      /\ Len(i \o s) >= 2 /\ Len(OneByte(y) \o i \o s) >= 2
  <2>1. x \in Int /\ y \in Int
    OBVIOUS
  <2> QED
    BY <2>1, Layouts
<1> HIDE DEF i
<1>8. /\ c.sid \in {34, 36, 46, 47, 49} /\ c.expect = TRUE /\ c.as \in {"bytes", "none"}
      /\ c.writes = << >> \/ c.writes = <<<<<<"did", x>>, s>>>>
      /\ c.data = i \/ c.data = i \o s \/ c.data = i \o OneByte(y) \o s \/ c.data = OneByte(y) \o i \o s
      /\ c.sid = 46 => c.data = i \o s
      /\ c.sid = 49 => c.data = OneByte(y) \o i \o s
  <2>1. CASE c = UdsReadId(x)
    BY <2>1 DEF UdsReadId, About, Returning, Call, i
  <2>2. CASE c = UdsScaling(x)
    BY <2>2 DEF UdsScaling, Call, i
  <2>3. CASE c = UdsWriteId(x, s)
    BY <2>3 DEF UdsWriteId, Putting, NoResult, Returning, Call, i
  <2>4. CASE c = UdsIoControl(x, y, s)
    BY <2>4, SMTT(30) DEF UdsIoControl, OneByte, Call, i
  <2>5. CASE c = UdsRoutine(y, x, s)
    BY <2>5 DEF UdsRoutine, OneByte, Call, i
  <2> QED
    BY <2>1, <2>2, <2>3, <2>4, <2>5
<1>9. LeavesCodes(c.writes)
  BY <1>8 DEF LeavesCodes
<1>a. CodesAreRecords("uds", c)
  BY <1>8 DEF CodesAreRecords
<1>10. c.data \in Seq(Int) /\ (c.sid \in {46, 49} => Len(c.data) >= 2)
  BY <1>1, <1>8
<1>11. c.sid \in PlainSids
  BY <1>8 DEF PlainSids
<1>12. (c.sid \in {39, 49, 52, 53, 54} => Len(c.data) >= 1) /\ (c.sid = 46 => Len(c.data) >= 2)
  BY <1>8, <1>10
<1> QED
  BY <1>8, <1>9, <1>a, <1>10, <1>11, <1>12, OrdinaryUdsCalls

LEMMA ByteFirstCalls ==
  ASSUME NEW x \in Nat, NEW y \in Nat, NEW s \in Seq(0 .. 255), NEW c,
         c \in ByteFirstUds(x, y, s)
  PROVE  Proper("uds", c)
<1> USE DEF ByteFirstUds
<1>1. /\ OneByte(x) \in Seq(Int) /\ Len(OneByte(x)) >= 1
      /\ OneByte(x) \o s \in Seq(Int) /\ Len(OneByte(x) \o s) >= 1
      /\ OneByte(x + 1) \o s \in Seq(Int) /\ Len(OneByte(x + 1) \o s) >= 1
      /\ OneByte(x % 256) \o s \in Seq(Int) /\ Len(OneByte(x % 256) \o s) >= 1
      /\ s \in Seq(Int)
  <2>1. x \in Int /\ x + 1 \in Int /\ x % 256 \in Int
    OBVIOUS
  <2>2. OneByte(x) \in Seq(Int) /\ Len(OneByte(x)) >= 1
    BY <2>1 DEF OneByte
  <2>3. s \in Seq(Int) /\ Len(s) \in Nat
    BY BytesAre
  <2>4. \A v \in Int : OneByte(v) \o s \in Seq(Int) /\ Len(OneByte(v) \o s) = 1 + Len(s)
    BY <2>3, OneFirst
  <2>5. /\ OneByte(x) \o s \in Seq(Int) /\ Len(OneByte(x) \o s) >= 1
        /\ OneByte(x + 1) \o s \in Seq(Int) /\ Len(OneByte(x + 1) \o s) >= 1
        /\ OneByte(x % 256) \o s \in Seq(Int) /\ Len(OneByte(x % 256) \o s) >= 1
    <3>1. ASSUME NEW v \in Int PROVE OneByte(v) \o s \in Seq(Int) /\ Len(OneByte(v) \o s) >= 1
      <4>1. OneByte(v) \o s \in Seq(Int) /\ Len(OneByte(v) \o s) = 1 + Len(s)
        BY <2>4
      <4> QED
        BY <2>3, <4>1
    <3> QED
      BY <2>1, <3>1, Zenon
  <2> QED
    BY <2>2, <2>3, <2>5
<1>2. /\ c.sid \in {39, 41, 42, 44, 56, 131, 132, 55, 54} /\ c.expect = TRUE /\ c.as \in {"bytes", "none"}
      /\ c.writes = << >> \/ c.writes = Bytewise(y, s)
      /\ c.data = OneByte(x) \/ c.data = OneByte(x) \o s \/ c.data = OneByte(x + 1) \o s
         \/ c.data = OneByte(x % 256) \o s \/ (c.data = s /\ c.sid \in {132, 55})
  <2>1. CASE c = RequestSeed(x)
    BY <2>1 DEF RequestSeed, About, Returning, OneByte, Call
  <2>2. CASE c = SendKey(x, s)
    BY <2>2 DEF SendKey, NoResult, Returning, OneByte, Call
  <2>3. CASE c = UdsAuthentication(x, s)
    BY <2>3 DEF UdsAuthentication, OneByte, Call
  <2>4. CASE c = UdsPeriodic(x, s)
    BY <2>4 DEF UdsPeriodic, OneByte, Call
  <2>5. CASE c = UdsDefineId(x, s)
    BY <2>5 DEF UdsDefineId, OneByte, Call
  <2>6. CASE c = UdsFileTransfer(x, s)
    BY <2>6 DEF UdsFileTransfer, OneByte, Call
  <2>7. CASE c = UdsTiming(x, s)
    BY <2>7 DEF UdsTiming, OneByte, Call
  <2>8. CASE c = UdsSecured(s)
    BY <2>8 DEF UdsSecured, Call
  <2>9. CASE c = TransferExit(s)
    BY <2>9 DEF TransferExit, Call
  <2>10. CASE c = UdsTransferData(x, y, s)
    BY <2>10 DEF UdsTransferData, Putting, OneByte, Call
  <2> QED
    BY <2>1, <2>2, <2>3, <2>4, <2>5, <2>6, <2>7, <2>8, <2>9, <2>10
<1>3. LeavesCodes(c.writes)
  BY <1>2 DEF LeavesCodes, Bytewise
<1>4. CodesAreRecords("uds", c)
  BY <1>2 DEF CodesAreRecords
<1>5. c.sid \in PlainSids /\ c.sid # 46
  BY <1>2 DEF PlainSids
<1>b. c.data = OneByte(x) \/ c.data = OneByte(x) \o s \/ c.data = OneByte(x + 1) \o s
      \/ c.data = OneByte(x % 256) \o s \/ (c.data = s /\ c.sid \in {132, 55})
  BY <1>2
<1> DEFINE long == c.data \in Seq(Int) /\ Len(c.data) >= 1
<1>6. long \/ (c.data \in Seq(Int) /\ c.sid \in {132, 55})
  <2>1. CASE c.data = OneByte(x)
    BY <1>1, <2>1
  <2>2. CASE c.data = OneByte(x) \o s
    BY <1>1, <2>2
  <2>3. CASE c.data = OneByte(x + 1) \o s
    BY <1>1, <2>3
  <2>4. CASE c.data = OneByte(x % 256) \o s
    BY <1>1, <2>4
  <2>5. CASE c.data = s /\ c.sid \in {132, 55}
    BY <1>1, <2>5
  <2> HIDE DEF long
  <2> QED
    BY <1>b, <2>1, <2>2, <2>3, <2>4, <2>5, ZenonT(30)
<1>7. c.data \in Seq(Int) /\ (c.sid \in {39, 49, 52, 53, 54} => Len(c.data) >= 1)
  BY <1>6
<1> QED
  BY <1>2, <1>3, <1>4, <1>5, <1>6, <1>7, OrdinaryUdsCalls

\* The calls about trouble codes.
LEMMA UdsCodeCalls ==
  ASSUME NEW x \in Nat, NEW c, c \in CodesUds(x)
  PROVE  Proper("uds", c)
<1> USE DEF CodesUds
<1>1. CASE c = UdsClear(x)
  <2>1. c.sid = 20
    BY <1>1 DEF UdsClear, Putting, NoResult, Returning, Call
  <2>a. c.expect = TRUE
    BY <1>1 DEF UdsClear, Putting, NoResult, Returning, Call
  <2>2. c.writes = <<<<<<"codes">>, << >>>>>>
    BY <1>1 DEF UdsClear, Putting, NoResult, Returning, Call
  <2>3. CodesAreRecords("uds", c)
    BY <1>1 DEF UdsClear, Putting, NoResult, Returning, Call, CodesAreRecords
  <2>4. c.data \in Seq(Int)
    <3>1. c.data = U24(x)
      BY <1>1 DEF UdsClear, Putting, NoResult, Returning, Call
    <3>2. x \in Int
      OBVIOUS
    <3> QED
      BY <3>1, <3>2, WordsAre
  <2>5. WellFormed("uds", c.sid, c.data) /\ ~AskedToKeepQuiet("uds", c.sid, c.data)
    BY <2>1, <2>4 DEF WellFormed, AskedToKeepQuiet, HasSubFunction
  <2>6. c.sid \in 16 .. 135 /\ c.sid # 63
    BY <2>1
  <2> QED
    BY <2>1, <2>a, <2>2, <2>3, <2>5, <2>6 DEF Proper
<1>2. CASE c = UdsDtcsByMask(x) \/ c = UdsSupportedDtcs
  <2>1. c.sid = 25
    BY <1>2 DEF UdsDtcsByMask, UdsSupportedDtcs, Returning, Call
  <2>a. c.expect = TRUE
    BY <1>2 DEF UdsDtcsByMask, UdsSupportedDtcs, Returning, Call
  <2>2. LeavesCodes(c.writes)
    <3>1. c.writes = << >>
      BY <1>2 DEF UdsDtcsByMask, UdsSupportedDtcs, Returning, Call
    <3> QED
      BY <3>1 DEF LeavesCodes
  <2>3. CodesAreRecords("uds", c)
    BY <1>2 DEF UdsDtcsByMask, UdsSupportedDtcs, Returning, Call, CodesAreRecords
  <2>4. c.data \in Seq(Int) /\ Len(c.data) >= 1
    <3>1. CASE c = UdsDtcsByMask(x)
      <4>1. c.data = <<2, x>> /\ x \in Int
        BY <3>1 DEF UdsDtcsByMask, Returning, Call
      <4> QED
        BY <4>1
    <3>2. CASE c = UdsSupportedDtcs
      <4>1. c.data = <<10>>
        BY <3>2 DEF UdsSupportedDtcs, Returning, Call
      <4> QED
        BY <4>1
    <3> QED
      BY <1>2, <3>1, <3>2
  <2>5. WellFormed("uds", c.sid, c.data) /\ ~AskedToKeepQuiet("uds", c.sid, c.data)
    BY <2>1, <2>4 DEF WellFormed, AskedToKeepQuiet, HasSubFunction
  <2>6. c.sid \in 16 .. 135 /\ c.sid # 63 /\ c.sid # 20
    BY <2>1
  <2> QED
    BY <2>1, <2>a, <2>2, <2>3, <2>5, <2>6 DEF Proper
<1> QED
  BY <1>1, <1>2

\* What fits together fits apart.
LEMMA FitsApart ==
  ASSUME NEW p \in Seq(Int), NEW q \in Seq(Int), Fits(p \o q)
  PROVE  Fits(p) /\ Fits(q)
<1>1. /\ p \o q \in Seq(Int) /\ Len(p \o q) = Len(p) + Len(q) /\ Len(p) \in Nat /\ Len(q) \in Nat
      /\ \A i \in 1 .. Len(p) : (p \o q)[i] = p[i]
      /\ \A i \in 1 .. Len(q) : (p \o q)[Len(p) + i] = q[i]
  BY Joined
<1>2. DOMAIN p = 1 .. Len(p) /\ DOMAIN q = 1 .. Len(q) /\ DOMAIN (p \o q) = 1 .. Len(p) + Len(q)
  BY <1>1, LenProperties
<1>3. ASSUME NEW i \in 1 .. Len(p) PROVE p[i] \in 0 .. 255
  <2>1. i \in 1 .. Len(p) + Len(q)
    BY <1>1
  <2> QED
    BY <1>1, <1>2, <2>1 DEF Fits
<1>4. ASSUME NEW i \in 1 .. Len(q) PROVE q[i] \in 0 .. 255
  <2>1. Len(p) + i \in 1 .. Len(p) + Len(q)
    BY <1>1
  <2> QED
    BY <1>1, <1>2, <2>1 DEF Fits
<1> QED
  BY <1>2, <1>3, <1>4 DEF Fits

LEMMA WideDoesNotFit == ~Fits(TooWide)
<1>1. 1 \in DOMAIN <<256>> /\ <<256>>[1] = 256 /\ 256 \notin 0 .. 255
  OBVIOUS
<1>2. 1 \in DOMAIN TooWide /\ TooWide[1] \notin 0 .. 255
  BY <1>1 DEF TooWide
<1> QED
  BY <1>2, Zenon DEF Fits

\* A format byte or two, an address, a size and what follows: as long as they are
\* when no number is too wide.
Formatted(h, A, S, r) == h \o A \o S \o r

LEMMA FormatFirst ==
  ASSUME NEW A \in Seq(Int), NEW S \in Seq(Int), NEW r \in Seq(Int), NEW h \in Seq(Int), Len(h) >= 1
  PROVE  /\ Formatted(h, A, S, r) \in Seq(Int) /\ Len(Formatted(h, A, S, r)) >= 1
         /\ Formatted(h, A, S, r)[1] = h[1]
         /\ Len(Formatted(h, A, S, r)) = Len(h) + Len(A) + Len(S) + Len(r)
<1> DEFINE hA == h \o A
           hAS == hA \o S
           d == hAS \o r
<1>2. Formatted(h, A, S, r) = d
  BY DEF Formatted
<1>3. /\ hA \in Seq(Int) /\ Len(hA) = Len(h) + Len(A) /\ Len(h) \in Nat /\ Len(A) \in Nat
      /\ \A i \in 1 .. Len(h) : hA[i] = h[i]
  BY Joined
<1> HIDE DEF hA
<1>4. /\ hAS \in Seq(Int) /\ Len(hAS) = Len(hA) + Len(S) /\ Len(S) \in Nat
      /\ \A i \in 1 .. Len(hA) : hAS[i] = hA[i]
  BY <1>3, Joined
<1> HIDE DEF hAS
<1>5. /\ d \in Seq(Int) /\ Len(d) = Len(hAS) + Len(r) /\ Len(r) \in Nat
      /\ \A i \in 1 .. Len(hAS) : d[i] = hAS[i]
  BY <1>4, Joined
<1> HIDE DEF d
<1>6. Len(d) >= 1 /\ d[1] = h[1]
  <2>1. 1 \in 1 .. Len(h) /\ 1 \in 1 .. Len(hA) /\ 1 \in 1 .. Len(hAS)
    BY <1>3, <1>4
  <2> QED
    BY <1>3, <1>4, <1>5, <2>1
<1>7. Len(d) = Len(h) + Len(A) + Len(S) + Len(r)
  BY <1>3, <1>4, <1>5
<1> QED
  BY <1>2, <1>5, <1>6, <1>7

LEMMA FormatFits ==
  ASSUME NEW A \in Seq(Int), NEW S \in Seq(Int), NEW r \in Seq(Int), NEW h \in Seq(Int),
         Fits(Formatted(h, A, S, r))
  PROVE  A # TooWide /\ S # TooWide
<1> DEFINE hA == h \o A
           hAS == hA \o S
<1>1. hA \in Seq(Int)
  BY Joined
<1>2. hAS \in Seq(Int)
  <2> HIDE DEF hA
  <2> QED
    BY <1>1, Joined
<1>3. Fits(hAS)
  <2>1. Fits(hAS \o r)
    BY DEF Formatted
  <2> HIDE DEF hAS
  <2> QED
    BY <1>2, <2>1, FitsApart
<1>4. Fits(hA) /\ Fits(S)
  <2> HIDE DEF hA
  <2> QED
    BY <1>1, <1>3, FitsApart
<1>5. Fits(A)
  BY <1>4, FitsApart
<1>6. ~Fits(TooWide)
  BY WideDoesNotFit
<1> QED
  BY <1>4, <1>5, <1>6

\* The services that give an address and a size.
LEMMA MemoryCalls ==
  ASSUME NEW x \in Nat, NEW y \in Nat, NEW a \in 0 .. 15, NEW w \in 0 .. 15, NEW s \in Seq(0 .. 255), NEW c,
         Fits(c.data),
         c \in MemoryUds(x, y, a, w, s)
  PROVE  Proper("uds", c)
<1> USE DEF MemoryUds
<1> DEFINE b == w * 16 + a
           z == IF c = UdsReadMemory(x, y, a, w) THEN y ELSE Len(s)
           r == IF c = UdsReadMemory(x, y, a, w) THEN << >> ELSE s
           A == ToBytes(x, a)
           S == ToBytes(z, w)
           d == Formatted(OneByte(b), A, S, r)
<1>1. s \in Seq(Int) /\ Len(s) \in Nat
  BY BytesAre
<1>2. b \in Int /\ b % 16 = a /\ b \div 16 = w
  OBVIOUS
<1>3. z \in Nat /\ r \in Seq(Int)
  BY <1>1
<1>4. OneByte(b) \in Seq(Int) /\ Len(OneByte(b)) = 1 /\ OneByte(b)[1] = b
  BY <1>2 DEF OneByte
<1>5. c.data = d
  <2>1. CASE c = UdsReadMemory(x, y, a, w)
    <3>1. c.data = OneByte(b) \o ToBytes(x, a) \o ToBytes(y, w)
      BY <2>1 DEF UdsReadMemory, About, Call, OneByte
    <3>2. OneByte(b) \o ToBytes(x, a) \o ToBytes(y, w) \in Seq(Int)
      <4>1. ToBytes(x, a) \in Seq(Int) /\ ToBytes(y, w) \in Seq(Int)
        BY NumbersAre
      <4>2. OneByte(b) \o ToBytes(x, a) \in Seq(Int)
        BY <1>4, <4>1, Joined
      <4> QED
        BY <4>1, <4>2, Joined
    <3> HIDE DEF b
    <3>3. \A q \in Seq(Int) : q \o << >> = q
      OBVIOUS
    <3> QED
      BY <2>1, <3>1, <3>2, <3>3 DEF Formatted
  <2>2. CASE c # UdsReadMemory(x, y, a, w)
    <3>1. c = UdsWriteMemory(x, s, a, w)
      BY <2>2
    <3>2. c.data = OneByte(b) \o ToBytes(x, a) \o ToBytes(Len(s), w) \o s
      BY <3>1 DEF UdsWriteMemory, Putting, Call, OneByte
    <3> QED
      BY <2>2, <3>2 DEF Formatted
  <2> QED
    BY <2>1, <2>2
<1>6. c.sid \in {35, 61}
  BY DEF UdsReadMemory, UdsWriteMemory, About, Putting, Call
<1>7. c.expect = TRUE
  BY DEF UdsReadMemory, UdsWriteMemory, About, Putting, Call
<1>8. LeavesCodes(c.writes)
  <2>1. c.writes = << >> \/ c.writes = Bytewise(x, s)
    BY DEF UdsReadMemory, UdsWriteMemory, About, Putting, Call
  <2> QED
    BY <2>1 DEF LeavesCodes, Bytewise
<1>9. CodesAreRecords("uds", c)
  <2>1. c.as = "bytes"
    BY DEF UdsReadMemory, UdsWriteMemory, About, Putting, Call
  <2> QED
    BY <2>1 DEF CodesAreRecords
<1> HIDE DEF b, z, r
<1>a. A \in Seq(Int) /\ (A = TooWide \/ Len(A) = a) /\ S \in Seq(Int) /\ (S = TooWide \/ Len(S) = w)
  BY <1>3, NumbersAre
<1>b. Fits(Formatted(OneByte(b), A, S, r))
  BY <1>5
<1> HIDE DEF A, S
<1>10. d \in Seq(Int) /\ Len(d) >= 1 /\ d[1] = b /\ Len(d) = 1 + a + w + Len(r) /\ Len(r) \in Nat
  <2> DEFINE h == OneByte(b)
  <2>0. h \in Seq(Int) /\ Len(h) >= 1 /\ A \in Seq(Int) /\ S \in Seq(Int) /\ r \in Seq(Int)
    BY <1>3, <1>4, <1>a
  <2>1. d \in Seq(Int) /\ Len(d) >= 1 /\ d[1] = h[1] /\ Len(d) = Len(h) + Len(A) + Len(S) + Len(r)
    <3> HIDE DEF h
    <3>1. /\ Formatted(h, A, S, r) \in Seq(Int) /\ Len(Formatted(h, A, S, r)) >= 1
          /\ Formatted(h, A, S, r)[1] = h[1]
          /\ Len(Formatted(h, A, S, r)) = Len(h) + Len(A) + Len(S) + Len(r)
      BY ONLY <2>0, FormatFirst
    <3> QED
      BY <3>1 DEF h
  <2>2. A # TooWide /\ S # TooWide
    BY <1>3, <1>4, <1>a, <1>b, FormatFits
  <2>3. Len(r) \in Nat
    BY <1>3, LenProperties
  <2> HIDE DEF d
  <2> QED
    BY <1>4, <1>a, <2>1, <2>2, <2>3
<1> HIDE DEF d
<1>11. WellFormed("uds", c.sid, c.data)
  <2>1. Len(c.data) >= 1 + (c.data[1] % 16) + (c.data[1] \div 16)
    BY <1>2, <1>5, <1>10
  <2>2. c.sid # 46
    BY <1>6
  <2> QED
    BY <1>5, <1>10, <2>1, <2>2 DEF WellFormed
<1>12. ~AskedToKeepQuiet("uds", c.sid, c.data)
  BY <1>6 DEF AskedToKeepQuiet, HasSubFunction
<1>13. c.sid \in 16 .. 135 /\ c.sid # 63 /\ c.sid # 20
  BY <1>6
<1> QED
  BY <1>7, <1>8, <1>9, <1>11, <1>12, <1>13 DEF Proper

LEMMA TransferCalls ==
  ASSUME NEW x \in Nat, NEW y \in Nat, NEW a \in 0 .. 15, NEW w \in 0 .. 15, NEW c,
         c \in TransferUds(x, y, a, w)
  PROVE  Proper("uds", c)
<1> USE DEF TransferUds
<1> DEFINE h == <<0, w * 16 + a>>
<1>1. h \in Seq(Int) /\ Len(h) = 2
  OBVIOUS
<1>2. ToBytes(x, a) \in Seq(Int) /\ ToBytes(y, w) \in Seq(Int)
  BY NumbersAre
<1>3. c.data = h \o ToBytes(x, a) \o ToBytes(y, w)
  BY DEF UdsTransfer, About, Returning, Call
<1> HIDE DEF h
<1>4. h \o ToBytes(x, a) \in Seq(Int) /\ Len(h \o ToBytes(x, a)) >= 1
  <2>1. /\ h \o ToBytes(x, a) \in Seq(Int) /\ Len(h \o ToBytes(x, a)) = Len(h) + Len(ToBytes(x, a))
        /\ Len(ToBytes(x, a)) \in Nat
    BY <1>1, <1>2, Joined
  <2> QED
    BY <1>1, <2>1
<1>5. c.data \in Seq(Int) /\ Len(c.data) >= 1
  <2> DEFINE p == h \o ToBytes(x, a)
  <2>1. p \in Seq(Int) /\ Len(p) >= 1
    BY <1>4
  <2>2. c.data = p \o ToBytes(y, w)
    BY <1>3
  <2> HIDE DEF p
  <2>3. /\ p \o ToBytes(y, w) \in Seq(Int) /\ Len(p \o ToBytes(y, w)) = Len(p) + Len(ToBytes(y, w))
        /\ Len(ToBytes(y, w)) \in Nat /\ Len(p) \in Nat
    BY <1>2, <2>1, Joined
  <2> QED
    BY <2>1, <2>2, <2>3
<1>6. c.sid \in {52, 53}
  BY DEF UdsTransfer, About, Returning, Call
<1>7. c.expect = TRUE
  BY DEF UdsTransfer, About, Returning, Call
<1>8. LeavesCodes(c.writes)
  <2>1. c.writes = << >>
    BY DEF UdsTransfer, About, Returning, Call
  <2> QED
    BY <2>1 DEF LeavesCodes
<1>9. CodesAreRecords("uds", c)
  BY DEF UdsTransfer, About, Returning, Call, CodesAreRecords
<1>10. c.sid \in PlainSids /\ c.sid # 46
  BY <1>6 DEF PlainSids
<1> QED
  BY <1>5, <1>7, <1>8, <1>9, <1>10, OrdinaryUdsCalls

\* Every call of UDSClient that can be sent.
LEMMA UdsCallsAreProper ==
  ASSUME NEW c, MadeByUds(c), Fits(c.data)
  PROVE  Proper("uds", c)
<1>1. PICK t \in 0 .. 127, x \in Nat, y \in Nat, a \in 0 .. 15, w \in 0 .. 15, s \in Seq(0 .. 255), q \in BOOLEAN :
        \/ c \in SubFunctionUds(t, x, s, q)
        \/ c \in CodesUds(x)
        \/ c \in IdentifierUds(x, y, s)
        \/ c \in ByteFirstUds(x, y, s)
        \/ c \in MemoryUds(x, y, a, w, s)
        \/ c \in TransferUds(x, y, a, w)
  BY Zenon DEF MadeByUds
<1>2. CASE c \in SubFunctionUds(t, x, s, q)
  BY <1>2, SubFunctionCalls, Zenon
<1>3. CASE c \in CodesUds(x)
  BY <1>3, UdsCodeCalls, Zenon
<1>4. CASE c \in IdentifierUds(x, y, s)
  BY <1>4, IdentifierCalls, Zenon
<1>5. CASE c \in ByteFirstUds(x, y, s)
  BY <1>5, ByteFirstCalls, Zenon
<1>6. CASE c \in MemoryUds(x, y, a, w, s)
  BY <1>6, MemoryCalls, Zenon
<1>7. CASE c \in TransferUds(x, y, a, w)
  BY <1>7, TransferCalls, Zenon
<1> QED
  BY <1>1, <1>2, <1>3, <1>4, <1>5, <1>6, <1>7

\* The services of KWP2000 but the tester's presence and the clearing of codes.
LEMMA OrdinaryKwpCalls ==
  ASSUME NEW c, c.sid \in 16 .. 61, c.sid # 20, c.expect = TRUE, c.data \in Seq(Int),
         c.sid \in {16, 17, 24, 26, 33, 39, 49, 50, 51, 52, 53, 59} => Len(c.data) >= 1,
         c.sid \notin {25, 40, 61}, c.sid = 46 => Len(c.data) >= 2, c.sid = 35 => Len(c.data) = 4,
         LeavesCodes(c.writes), CodesAreRecords("kwp", c)
  PROVE  Proper("kwp", c)
<1> DEFINE n == c.sid
<1>a. n \in 16 .. 61 /\ n # 20 /\ n # 25 /\ n # 40 /\ n # 61
  OBVIOUS
<1>b. n \in {16, 17, 24, 26, 33, 39, 49, 50, 51, 52, 53, 59} => Len(c.data) >= 1
  OBVIOUS
<1>c. n = 35 => Len(c.data) >= 1
  <2> DEFINE k == Len(c.data)
  <2>1. n = 35 => k = 4
    OBVIOUS
  <2> HIDE DEF n, k
  <2>2. n = 35 => k >= 1
    BY ONLY <2>1
  <2> QED
    BY <2>2 DEF n, k
<1>1. n \in 16 .. 135 /\ n # 63 /\ n # 62 /\ n # 20
  <2> HIDE DEF n
  <2> QED
    BY <1>a
<1>2. ~AskedToKeepQuiet("kwp", c.sid, c.data)
  BY <1>1 DEF AskedToKeepQuiet
<1>3. WellFormed("kwp", c.sid, c.data)
  <2> HIDE DEF n
  <2>1. n \in HasSubFunction \cup {\h27, \h19, \h18, \h1A, \h21, \h3B, \h31, \h32, \h33, \h36, \h23, \h3D, \h34, \h35}
        /\ n # \h36 => Len(c.data) >= 1
    BY <1>a, <1>b, <1>c DEF HasSubFunction
  <2> QED
    BY <2>1 DEF WellFormed, n
<1> QED
  BY <1>1, <1>2, <1>3 DEF Proper

LEMMA ByteFirstKwpCalls ==
  ASSUME NEW x \in Nat, NEW s \in Seq(0 .. 255), NEW c, c \in ByteFirstKwp(x, s)
  PROVE  Proper("kwp", c)
<1> USE DEF ByteFirstKwp
<1>1. s \in Seq(Int) /\ Len(s) \in Nat
  BY BytesAre
<1> DEFINE z == x % 256
           n == x + 1
<1>2. x \in Int /\ z \in Int /\ n \in Int
  OBVIOUS
<1>3. /\ c.sid \in {16, 17, 26, 33, 39, 44, 49, 50, 51, 59} /\ c.expect = TRUE /\ c.as \in {"bytes", "none"}
      /\ c.writes = << >> \/ c.writes = <<<<<<"lid", x>>, s>>>>
      /\ \/ c.data = OneByte(x) \/ c.data = OneByte(z)
         \/ c.data = OneByte(x) \o s \/ c.data = OneByte(n) \o s \/ c.data = OneByte(z) \o s
  <2>1. CASE c = KwpSession(x, s)
    BY <2>1 DEF KwpSession, OneByte, Call
  <2>2. CASE c = KwpReset(x)
    BY <2>2 DEF KwpReset, OneByte, Call
  <2>3. CASE c = KwpEcuId(x)
    BY <2>3 DEF KwpEcuId, About, Returning, OneByte, Call
  <2>4. CASE c = KwpReadLocal(x)
    BY <2>4 DEF KwpReadLocal, About, Returning, OneByte, Call
  <2>5. CASE c = KwpDefineLocal(x, s)
    BY <2>5 DEF KwpDefineLocal, OneByte, Call
  <2>6. CASE c = KwpWriteLocal(x, s)
    BY <2>6 DEF KwpWriteLocal, Putting, NoResult, Returning, OneByte, Call
  <2>7. CASE c = KwpRoutine(\h31, x, s)
    BY <2>7 DEF KwpRoutine, About, Returning, OneByte, Call
  <2>8. CASE c = KwpRoutine(\h32, x, s)
    BY <2>8 DEF KwpRoutine, About, Returning, OneByte, Call
  <2>9. CASE c = KwpRoutine(\h33, x, s)
    BY <2>9 DEF KwpRoutine, About, Returning, OneByte, Call
  <2>10. CASE c = RequestSeed(x)
    BY <2>10 DEF RequestSeed, About, Returning, OneByte, Call
  <2>11. CASE c = SendKey(x, s)
    BY <2>11 DEF SendKey, NoResult, Returning, OneByte, Call
  <2> QED
    BY <2>1, <2>2, <2>3, <2>4, <2>5, <2>6, <2>7, <2>8, <2>9, <2>10, <2>11
<1>a. c.data = OneByte(x) \/ c.data = OneByte(z) \/ c.data = OneByte(x) \o s \/ c.data = OneByte(n) \o s
      \/ c.data = OneByte(z) \o s
  BY <1>3
<1> HIDE DEF z, n
<1>4. ASSUME NEW v \in Int PROVE OneByte(v) \in Seq(Int) /\ Len(OneByte(v)) >= 1
  BY DEF OneByte
<1>5. ASSUME NEW v \in Int PROVE OneByte(v) \o s \in Seq(Int) /\ Len(OneByte(v) \o s) >= 1
  <2>1. OneByte(v) \o s \in Seq(Int) /\ Len(OneByte(v) \o s) = 1 + Len(s)
    BY <1>1, OneFirst
  <2> QED
    BY <1>1, <2>1
<1>6. c.data \in Seq(Int) /\ Len(c.data) >= 1
  BY <1>2, <1>4, <1>5, <1>a, ZenonT(30)
<1>7. LeavesCodes(c.writes)
  BY <1>3 DEF LeavesCodes
<1>8. CodesAreRecords("kwp", c)
  BY <1>3 DEF CodesAreRecords
<1>9. c.sid \in 16 .. 61 /\ c.sid \notin {20, 25, 40, 61, 46, 35}
  BY <1>3
<1> QED
  BY <1>3, <1>6, <1>7, <1>8, <1>9, OrdinaryKwpCalls

LEMMA AnyBytesKwpCalls ==
  ASSUME NEW x \in Nat, NEW y \in Nat, NEW s \in Seq(0 .. 255), NEW c, c \in AnyBytesKwp(x, y, s)
  PROVE  Proper("kwp", c)
<1> USE DEF AnyBytesKwp
<1>1. s \in Seq(Int)
  BY BytesAre
<1> DEFINE two == <<x % 256, y>>
<1>2. two \o s \in Seq(Int)
  <2>1. two \in Seq(Int)
    OBVIOUS
  <2> HIDE DEF two
  <2> QED
    BY <1>1, <2>1, Joined
<1> HIDE DEF two
<1>3. /\ c.sid \in {32, 48, 54, 55} /\ c.expect = TRUE /\ c.as \in {"bytes", "none"}
      /\ c.writes = << >> \/ c.writes = Bytewise(x, s)
      /\ c.data = << >> \/ c.data = two \o s \/ c.data = s
  <2>1. CASE c = KwpStopSession
    BY <2>1 DEF KwpStopSession, NoResult, Returning, Call
  <2>2. CASE c = KwpIoControl(x, y, s)
    BY <2>2 DEF KwpIoControl, two, Call
  <2>3. CASE c = KwpTransferData(x, s)
    BY <2>3 DEF KwpTransferData, Putting, Call
  <2>4. CASE c = TransferExit(s)
    BY <2>4 DEF TransferExit, Call
  <2> QED
    BY <2>1, <2>2, <2>3, <2>4
<1>4. c.data \in Seq(Int)
  <2>1. << >> \in Seq(Int)
    OBVIOUS
  <2> QED
    BY <1>1, <1>2, <1>3, <2>1
<1>5. LeavesCodes(c.writes)
  BY <1>3 DEF LeavesCodes, Bytewise
<1>6. CodesAreRecords("kwp", c)
  BY <1>3 DEF CodesAreRecords
<1>a. c.sid \in {32, 48, 54, 55}
  BY <1>3
<1>7. c.sid \in 16 .. 61 /\ c.sid \notin {20, 25, 40, 61, 46, 35}
  BY <1>a
<1>8. c.sid \notin {16, 17, 24, 26, 33, 39, 49, 50, 51, 52, 53, 59}
  BY <1>a
<1> QED
  BY <1>3, <1>4, <1>5, <1>6, <1>7, <1>8, OrdinaryKwpCalls

LEMMA IdentifierKwpCalls ==
  ASSUME NEW x \in Nat, NEW s \in Seq(0 .. 255), NEW c, c \in IdentifierKwp(x, s)
  PROVE  Proper("kwp", c)
<1> USE DEF IdentifierKwp
<1> DEFINE i == U16(x)
<1>1. i \in Seq(Int) /\ i \o s \in Seq(Int) /\ Len(i \o s) >= 2
  <2>1. x \in Int
    OBVIOUS
  <2> QED
    BY <2>1, Layouts
<1> HIDE DEF i
<1>2. /\ c.sid \in {34, 46} /\ c.expect = TRUE /\ c.as \in {"bytes", "none", "text"}
      /\ c.writes = << >> \/ c.writes = <<<<<<"did", x>>, s>>>>
      /\ c.data = i \/ c.data = i \o s
      /\ c.sid = 46 => c.data = i \o s
  <2>1. CASE c = KwpReadCommon(x)
    BY <2>1 DEF KwpReadCommon, About, Returning, Call, i
  <2>2. CASE c = GdsText(x)
    BY <2>2 DEF GdsText, KwpReadCommon, About, Returning, Call, i
  <2>3. CASE c = KwpWriteCommon(x, s)
    BY <2>3 DEF KwpWriteCommon, Putting, NoResult, Returning, Call, i
  <2> QED
    BY <2>1, <2>2, <2>3
<1>3. c.data \in Seq(Int) /\ (c.sid = 46 => Len(c.data) >= 2)
  BY <1>1, <1>2
<1>4. LeavesCodes(c.writes)
  BY <1>2 DEF LeavesCodes
<1>5. CodesAreRecords("kwp", c)
  BY <1>2 DEF CodesAreRecords
<1>a. c.sid \in {34, 46}
  BY <1>2
<1>6. c.sid \in 16 .. 61 /\ c.sid \notin {20, 25, 40, 61, 35}
  BY <1>a
<1>7. c.sid \notin {16, 17, 24, 26, 33, 39, 49, 50, 51, 52, 53, 59}
  BY <1>a
<1> QED
  BY <1>2, <1>3, <1>4, <1>5, <1>6, <1>7, OrdinaryKwpCalls

LEMMA KwpCodeCalls ==
  ASSUME NEW x \in Nat, NEW y \in Nat, NEW c, c \in CodesKwp(x, y)
  PROVE  Proper("kwp", c)
<1> USE DEF CodesKwp
<1>0. x \in Int /\ y \in Int
  OBVIOUS
<1>1. CASE c = KwpClear(x)
  <2>1. c.sid = 20
    BY <1>1 DEF KwpClear, Putting, NoResult, Returning, Call
  <2>a. c.expect = TRUE
    BY <1>1 DEF KwpClear, Putting, NoResult, Returning, Call
  <2>2. c.writes = <<<<<<"codes">>, << >>>>>>
    BY <1>1 DEF KwpClear, Putting, NoResult, Returning, Call
  <2>3. CodesAreRecords("kwp", c)
    BY <1>1 DEF KwpClear, Putting, NoResult, Returning, Call, CodesAreRecords
  <2>4. c.data \in Seq(Int)
    <3>1. c.data = U16(x)
      BY <1>1 DEF KwpClear, Putting, NoResult, Returning, Call
    <3> QED
      BY <1>0, <3>1, WordsAre
  <2>5. WellFormed("kwp", c.sid, c.data) /\ ~AskedToKeepQuiet("kwp", c.sid, c.data)
    BY <2>1, <2>4 DEF WellFormed, AskedToKeepQuiet, HasSubFunction
  <2>6. c.sid \in 16 .. 135 /\ c.sid # 63
    BY <2>1
  <2> QED
    BY <2>1, <2>a, <2>2, <2>3, <2>5, <2>6 DEF Proper
<1>2. CASE c = KwpDtcsByStatus(x, y) \/ c = KwpStatusOfDtc(x)
  <2>1. c.sid \in {23, 24}
    BY <1>2 DEF KwpDtcsByStatus, KwpStatusOfDtc, Returning, Call
  <2>a. c.expect = TRUE
    BY <1>2 DEF KwpDtcsByStatus, KwpStatusOfDtc, Returning, Call
  <2>2. LeavesCodes(c.writes)
    <3>1. c.writes = << >>
      BY <1>2 DEF KwpDtcsByStatus, KwpStatusOfDtc, Returning, Call
    <3> QED
      BY <3>1 DEF LeavesCodes
  <2>3. CodesAreRecords("kwp", c)
    BY <1>2 DEF KwpDtcsByStatus, KwpStatusOfDtc, Returning, Call, CodesAreRecords
  <2>4. c.data \in Seq(Int) /\ Len(c.data) >= 1
    <3>1. CASE c = KwpDtcsByStatus(x, y)
      <4>1. c.data = OneByte(x) \o U16(y)
        BY <3>1 DEF KwpDtcsByStatus, Returning, Call, OneByte
      <4>2. U16(y) \in Seq(Int) /\ Len(U16(y)) = 2
        BY <1>0, WordsAre
      <4> DEFINE i == U16(y)
      <4>3. i \in Seq(Int) /\ Len(i) = 2
        BY <4>2
      <4> HIDE DEF i
      <4>4. OneByte(x) \o i \in Seq(Int) /\ Len(OneByte(x) \o i) = 1 + Len(i)
        BY <1>0, <4>3, OneFirst
      <4> QED
        BY <4>1, <4>3, <4>4 DEF i
    <3>2. CASE c = KwpStatusOfDtc(x)
      <4>1. c.data = U16(x)
        BY <3>2 DEF KwpStatusOfDtc, Returning, Call
      <4>2. U16(x) \in Seq(Int) /\ Len(U16(x)) = 2
        BY <1>0, WordsAre
      <4> QED
        BY <4>1, <4>2
    <3> QED
      BY <1>2, <3>1, <3>2
  <2>5. c.sid \in 16 .. 61 /\ c.sid \notin {20, 25, 40, 61, 46, 35}
    BY <2>1
  <2> QED
    BY <2>a, <2>2, <2>3, <2>4, <2>5, OrdinaryKwpCalls
<1> QED
  BY <1>1, <1>2

LEMMA KwpMemoryCalls ==
  ASSUME NEW x \in Nat, NEW y \in Nat, NEW c, Fits(c.data), c \in MemoryKwp(x, y)
  PROVE  Proper("kwp", c)
<1> USE DEF MemoryKwp
<1> DEFINE A == ToBytes(x, 3)
           width == IF c = KwpReadMemory(x, y) THEN 1 ELSE 3
           S == ToBytes(y, width)
<1>1. A \in Seq(Int) /\ (A = TooWide \/ Len(A) = 3)
  BY NumbersAre
<1>2. S \in Seq(Int) /\ (S = TooWide \/ Len(S) = width)
  <2>1. width \in 0 .. 15
    OBVIOUS
  <2> HIDE DEF width
  <2> QED
    BY <2>1, NumbersAre
<1>a. Len(TooWide) = 1
  BY DEF TooWide
<1>3. Len(A) >= 1
  BY <1>1, <1>a
<1>5. c.expect = TRUE
  BY DEF KwpReadMemory, KwpTransfer, About, Call
<1>6. LeavesCodes(c.writes)
  <2>1. c.writes = << >>
    BY DEF KwpReadMemory, KwpTransfer, About, Call
  <2> QED
    BY <2>1 DEF LeavesCodes
<1>7. CodesAreRecords("kwp", c)
  BY DEF KwpReadMemory, KwpTransfer, About, Call, CodesAreRecords
<1>8. CASE c = KwpReadMemory(x, y)
  <2>1. c.data = A \o S
    BY <1>8 DEF KwpReadMemory, About, Call
  <2>2. Fits(A \o S)
    BY <2>1
  <2>3. S = TooWide \/ Len(S) = 1
    BY <1>2, <1>8
  <2> HIDE DEF A, S
  <2>4. Fits(A) /\ Fits(S)
    BY <1>1, <1>2, <2>2, FitsApart
  <2>5. ~Fits(TooWide)
    BY WideDoesNotFit
  <2>6. Len(A) = 3 /\ Len(S) = 1
    BY <1>1, <2>3, <2>4, <2>5
  <2>7. A \o S \in Seq(Int) /\ Len(A \o S) = Len(A) + Len(S)
    BY <1>1, <1>2, Joined
  <2>8. c.data \in Seq(Int) /\ Len(c.data) = 4
    BY <2>1, <2>6, <2>7
  <2>9. c.sid = 35
    BY <1>8 DEF KwpReadMemory, About, Call
  <2>10. c.sid \in 16 .. 61 /\ c.sid \notin {20, 25, 40, 61, 46}
    BY <2>9
  <2>11. c.sid \notin {16, 17, 24, 26, 33, 39, 49, 50, 51, 52, 53, 59}
    BY <2>9
  <2> HIDE <1>8
  <2> QED
    BY ONLY <1>5, <1>6, <1>7, <2>8, <2>9, <2>10, <2>11, OrdinaryKwpCalls
<1>9. CASE c # KwpReadMemory(x, y)
  <2>1. c.data = A \o OneByte(0) \o S
    BY <1>9 DEF KwpTransfer, About, Call, OneByte
  <2>2. OneByte(0) \in Seq(Int) /\ Len(OneByte(0)) = 1
    BY DEF OneByte
  <2> HIDE DEF A, S
  <2> DEFINE p == A \o OneByte(0)
  <2>3. p \in Seq(Int) /\ Len(p) >= 1
    <3>1. A \o OneByte(0) \in Seq(Int) /\ Len(A \o OneByte(0)) = Len(A) + Len(OneByte(0)) /\ Len(A) \in Nat
      BY <1>1, <2>2, Joined
    <3> QED
      BY <1>3, <2>2, <3>1
  <2>4. c.data = p \o S
    BY <2>1
  <2> HIDE DEF p
  <2>5. p \o S \in Seq(Int) /\ Len(p \o S) = Len(p) + Len(S) /\ Len(p) \in Nat /\ Len(S) \in Nat
    BY <1>2, <2>3, Joined
  <2>6. c.data \in Seq(Int) /\ Len(c.data) >= 1
    BY <2>3, <2>4, <2>5
  <2>7. c.sid \in {52, 53}
    BY <1>9 DEF KwpTransfer, About, Call
  <2>8. c.sid \in 16 .. 61 /\ c.sid \notin {20, 25, 40, 61, 46, 35}
    BY <2>7
  <2> QED
    BY <1>5, <1>6, <1>7, <2>6, <2>8, OrdinaryKwpCalls
<1> QED
  BY <1>8, <1>9

LEMMA KwpPresence ==
  ASSUME NEW q \in BOOLEAN, NEW c, c = KwpTesterPresent(q)
  PROVE  Proper("kwp", c)
<1>1. c.sid = 62 /\ (c.expect <=> q) /\ c.expect \in BOOLEAN
  BY DEF KwpTesterPresent, NoResult, Returning, Quietly, Call
<1>2. c.data = <<IF q THEN 1 ELSE 2>>
  BY DEF KwpTesterPresent, NoResult, Returning, Quietly, Call
<1>3. c.data \in Seq(Int) /\ Len(c.data) >= 1 /\ (c.data = <<2>> <=> ~q)
  BY <1>2
<1>4. LeavesCodes(c.writes)
  <2>1. c.writes = << >>
    BY DEF KwpTesterPresent, NoResult, Returning, Quietly, Call
  <2> QED
    BY <2>1 DEF LeavesCodes
<1>5. CodesAreRecords("kwp", c)
  BY DEF KwpTesterPresent, NoResult, Returning, Quietly, Call, CodesAreRecords
<1>6. AskedToKeepQuiet("kwp", c.sid, c.data) <=> ~q
  BY <1>1, <1>3 DEF AskedToKeepQuiet
<1>7. WellFormed("kwp", c.sid, c.data)
  BY <1>1, <1>3 DEF WellFormed
<1>8. c.sid \in 16 .. 135 /\ c.sid # 63 /\ c.sid # 20
  BY <1>1
<1> QED
  BY <1>1, <1>4, <1>5, <1>6, <1>7, <1>8 DEF Proper

\* Every call of KWP2000Client that can be sent.
LEMMA KwpCallsAreProper ==
  ASSUME NEW c, MadeByKwp(c), Fits(c.data)
  PROVE  Proper("kwp", c)
<1>1. PICK x \in Nat, y \in Nat, s \in Seq(0 .. 255), q \in BOOLEAN :
        \/ c \in ByteFirstKwp(x, s)
        \/ c \in AnyBytesKwp(x, y, s)
        \/ c \in IdentifierKwp(x, s)
        \/ c \in CodesKwp(x, y)
        \/ c \in MemoryKwp(x, y)
        \/ c = KwpTesterPresent(q)
  BY Zenon DEF MadeByKwp
<1>2. CASE c \in ByteFirstKwp(x, s)
  BY <1>2, ByteFirstKwpCalls, Zenon
<1>3. CASE c \in AnyBytesKwp(x, y, s)
  BY <1>3, AnyBytesKwpCalls, Zenon
<1>4. CASE c \in IdentifierKwp(x, s)
  BY <1>4, IdentifierKwpCalls, Zenon
<1>5. CASE c \in CodesKwp(x, y)
  BY <1>5, KwpCodeCalls, Zenon
<1>6. CASE c \in MemoryKwp(x, y)
  BY <1>6, KwpMemoryCalls, Zenon
<1>7. CASE c = KwpTesterPresent(q)
  BY <1>7, KwpPresence, Zenon
<1> QED
  BY <1>1, <1>2, <1>3, <1>4, <1>5, <1>6, <1>7

-----------------------------------------------------------------------------
(* Trouble codes as bytes.                                                 *)

\* Parts of one length, cut apart again.
CutInto(c, s, w) ==
  DOMAIN c = 1 .. Len(s) /\ \A k \in 1 .. Len(s) : \A j \in 1 .. w : c[k][j] = s[k][j]

LEMMA ChunksOfEqual ==
  ASSUME NEW T, NEW w \in {3, 4}, NEW s \in Seq(Seq(T)), OfOneLength(s, w)
  PROVE  CutInto(Chunks(FlattenSeq(s), w), s, w)
<1> DEFINE f == FlattenSeq(s)
           n == Len(s)
<1>1. /\ f \in Seq(T) /\ Len(f) = w * n
      /\ \A i \in 1 .. n : \A j \in 1 .. w : f[w * (i - 1) + j] = s[i][j]
  <2>1. w \in {2, 3, 4}
    OBVIOUS
  <2>2. f \in Seq(T) /\ InParts(f, s, w)
    BY <2>1, FlattenEqual
  <2> QED
    BY <2>2 DEF InParts
<1>2. n \in Nat
  BY LenProperties
<1>w. w = 3 \/ w = 4
  OBVIOUS
<1>3. Len(f) \div w = n
  BY <1>1, <1>2, <1>w
<1> HIDE DEF f, n
<1>4. DOMAIN Chunks(f, w) = 1 .. n
  BY <1>3 DEF Chunks
<1>5. ASSUME NEW k \in 1 .. n, NEW j \in 1 .. w PROVE Chunks(f, w)[k][j] = s[k][j]
  <2> DEFINE a == (k - 1) * w + 1
             b == k * w
  <2>1. Chunks(f, w)[k] = SubSeq(f, a, b)
    BY <1>3 DEF Chunks
  <2>2. /\ a \in Int /\ b \in Int /\ a >= 1 /\ b <= Len(f) /\ j \in 1 .. b - a + 1
        /\ a + j - 1 = w * (k - 1) + j
    BY <1>1, <1>2, <1>w
  <2>3. f[a + j - 1] = s[k][j]
    <3>1. f[w * (k - 1) + j] = s[k][j]
      BY <1>1
    <3> QED
      BY <2>2, <3>1
  <2> HIDE DEF a, b
  <2>4. \A i \in a .. b : f[i] \in T
    <3>1. Len(f) \in Nat /\ \A i \in 1 .. Len(f) : f[i] \in T
      BY <1>1, LenProperties
    <3> QED
      BY <2>2, <3>1
  <2>5. \A i \in 1 .. b - a + 1 : SubSeq(f, a, b)[i] = f[a + i - 1]
    BY <2>2, <2>4, SubSeqProperties
  <2>6. SubSeq(f, a, b)[j] = f[a + j - 1]
    BY <2>2, <2>5
  <2> QED
    BY <2>1, <2>3, <2>6
<1> QED
  BY <1>4, <1>5 DEF f, n, CutInto

\* The body of a response, without its service id and its header.
LEMMA HeaderOff ==
  ASSUME NEW p \in Seq(Int), NEW q \in Seq(Int), NEW k \in Nat, Len(p) = k + 1
  PROVE  Drop(Tail(p \o q), k) = q
<1> DEFINE s == p \o q
           t == Tail(s)
           d == SubSeq(t, k + 1, Len(t))
<1>1. /\ s \in Seq(Int) /\ Len(s) = Len(p) + Len(q) /\ Len(q) \in Nat
      /\ \A i \in 1 .. Len(q) : s[Len(p) + i] = q[i]
  <2>1. p \in Seq(Int) /\ q \in Seq(Int)
    OBVIOUS
  <2> QED
    BY ONLY <2>1, Joined
<1> HIDE DEF s
<1>2. s # << >>
  <2>1. Len(s) # 0
    BY <1>1
  <2> QED
    BY <2>1, EmptySeq
<1>3. t \in Seq(Int) /\ Len(t) = Len(s) - 1 /\ \A i \in 1 .. Len(t) : t[i] = s[i + 1]
  BY <1>1, <1>2, HeadTailProperties
<1> HIDE DEF t
<1>4. Len(t) = k + Len(q)
  BY <1>1, <1>3
<1>5. /\ d \in Seq(Int) /\ Len(d) = Len(q) /\ \A i \in 1 .. Len(q) : d[i] = t[k + i]
  <2> DEFINE a == k + 1
             b == Len(t)
  <2>1. a \in Int /\ b \in Int /\ \A i \in a .. b : t[i] \in Int
    <3>1. Len(t) \in Nat /\ \A i \in 1 .. Len(t) : t[i] \in Int
      BY <1>3, LenProperties
    <3> QED
      BY <3>1
  <2>2. (IF a <= b THEN b - a + 1 ELSE 0) = Len(q) /\ b - a + 1 = Len(q)
    BY <1>1, <1>4
  <2>3. \A i \in 1 .. Len(q) : a + i - 1 = k + i
    OBVIOUS
  <2> HIDE DEF a, b
  <2>4. /\ SubSeq(t, a, b) \in Seq(Int) /\ Len(SubSeq(t, a, b)) = Len(q)
        /\ \A i \in 1 .. Len(q) : SubSeq(t, a, b)[i] = t[a + i - 1]
    BY <2>1, <2>2, SubSeqProperties
  <2> QED
    BY <2>3, <2>4 DEF a, b
<1> HIDE DEF d
<1>6. ASSUME NEW i \in 1 .. Len(q) PROVE d[i] = q[i]
  <2> DEFINE n == Len(q)
             m == Len(t)
             l == Len(p)
  <2>a. n \in Nat /\ m = k + n /\ l = k + 1 /\ i \in 1 .. n
    BY <1>1, <1>4
  <2> HIDE DEF n, m, l
  <2>b. k + i \in 1 .. m /\ (k + i) + 1 = l + i
    BY <2>a
  <2>1. k + i \in 1 .. Len(t) /\ (k + i) + 1 = Len(p) + i
    BY <2>b DEF m, l
  <2> QED
    BY <1>1, <1>3, <1>5, <2>1
<1>7. d = q
  BY <1>5, <1>6, SeqEqual
<1> QED
  BY <1>7 DEF Drop, d, t, s

\* A trouble code as the ECU holds it.
HeldCode == [code : Codes, fault : 0 .. 255, flags : SUBSET ToSet(StatusBits)]
CodesKey == <<"codes">>

\* The eight bits of a byte.
BitsOf(s, b1, b2, b3, b4, b5, b6, b7, b8) ==
  /\ (s \div 1) % 2 = b1 /\ (s \div 2) % 2 = b2 /\ (s \div 4) % 2 = b3 /\ (s \div 8) % 2 = b4
  /\ (s \div 16) % 2 = b5 /\ (s \div 32) % 2 = b6 /\ (s \div 64) % 2 = b7 /\ (s \div 128) % 2 = b8

LEMMA BitsOfByte ==
  ASSUME NEW b1 \in 0 .. 1, NEW b2 \in 0 .. 1, NEW b3 \in 0 .. 1, NEW b4 \in 0 .. 1,
         NEW b5 \in 0 .. 1, NEW b6 \in 0 .. 1, NEW b7 \in 0 .. 1, NEW b8 \in 0 .. 1,
         NEW s, s = b1 + 2 * b2 + 4 * b3 + 8 * b4 + 16 * b5 + 32 * b6 + 64 * b7 + 128 * b8
  PROVE  BitsOf(s, b1, b2, b3, b4, b5, b6, b7, b8)
<1>1. (s \div 1) % 2 = b1
  OBVIOUS
<1>2. (s \div 2) % 2 = b2
  OBVIOUS
<1>3. (s \div 4) % 2 = b3
  OBVIOUS
<1>4. (s \div 8) % 2 = b4
  OBVIOUS
<1>5. (s \div 16) % 2 = b5
  OBVIOUS
<1>6. (s \div 32) % 2 = b6
  OBVIOUS
<1>7. (s \div 64) % 2 = b7
  OBVIOUS
<1>8. (s \div 128) % 2 = b8
  OBVIOUS
<1> QED
  BY <1>1, <1>2, <1>3, <1>4, <1>5, <1>6, <1>7, <1>8 DEF BitsOf

\* The flags of a code are read as they were written, from a byte.
LEMMA FlagsRoundTrip ==
  ASSUME NEW flags \in SUBSET ToSet(StatusBits)
  PROVE  StatusByte(flags) \in Int /\ DecodeStatus(StatusByte(flags)) = flags
<1> DEFINE in(i) == StatusBits[i] \in flags
           f == [i \in 1 .. 8 |-> IF StatusBits[i] \in flags THEN 2 ^ (i - 1) ELSE 0]
           s == StatusByte(flags)
<1>1. /\ 2 ^ (1 - 1) = 1 /\ 2 ^ (2 - 1) = 2 /\ 2 ^ (3 - 1) = 4 /\ 2 ^ (4 - 1) = 8
      /\ 2 ^ (5 - 1) = 16 /\ 2 ^ (6 - 1) = 32 /\ 2 ^ (7 - 1) = 64 /\ 2 ^ (8 - 1) = 128
  OBVIOUS
<1>2. /\ f[1] = (IF in(1) THEN 1 ELSE 0) /\ f[2] = (IF in(2) THEN 2 ELSE 0)
      /\ f[3] = (IF in(3) THEN 4 ELSE 0) /\ f[4] = (IF in(4) THEN 8 ELSE 0)
      /\ f[5] = (IF in(5) THEN 16 ELSE 0) /\ f[6] = (IF in(6) THEN 32 ELSE 0)
      /\ f[7] = (IF in(7) THEN 64 ELSE 0) /\ f[8] = (IF in(8) THEN 128 ELSE 0)
  BY <1>1
<1>8. \A i \in 1 .. 8 : i = 1 \/ i = 2 \/ i = 3 \/ i = 4 \/ i = 5 \/ i = 6 \/ i = 7 \/ i = 8
  OBVIOUS
<1>3. f \in [1 .. 8 -> Int]
  <2>1. f = [i \in 1 .. 8 |-> f[i]]
    OBVIOUS
  <2>2. \A i \in 1 .. 8 : f[i] \in Int
    <3> HIDE DEF f, in
    <3> QED
      BY <1>2, <1>8
  <2> HIDE DEF f
  <2> QED
    BY <2>1, <2>2
<1>4. s = SumFunction(f)
  BY DEF StatusByte
<1> HIDE DEF f, s
<1>5. s = f[1] + f[2] + f[3] + f[4] + f[5] + f[6] + f[7] + f[8]
  <2> DEFINE a == 1
  <2>1. a \in Int /\ f \in [a .. a + 7 -> Int]
    BY <1>3
  <2> HIDE DEF a
  <2>2. SumFunction(f) = f[a] + f[a + 1] + f[a + 2] + f[a + 3] + f[a + 4] + f[a + 5] + f[a + 6] + f[a + 7]
    BY <2>1, SumOfEight
  <2>3. a = 1 /\ a + 1 = 2 /\ a + 2 = 3 /\ a + 3 = 4 /\ a + 4 = 5 /\ a + 5 = 6 /\ a + 6 = 7 /\ a + 7 = 8
    BY DEF a
  <2> QED
    BY <1>4, <2>2, <2>3
<1> DEFINE b(i) == IF in(i) THEN 1 ELSE 0
<1> HIDE DEF in
<1>6. s = b(1) + 2 * b(2) + 4 * b(3) + 8 * b(4) + 16 * b(5) + 32 * b(6) + 64 * b(7) + 128 * b(8)
  BY <1>2, <1>5
<1>7. /\ b(1) \in 0 .. 1 /\ b(2) \in 0 .. 1 /\ b(3) \in 0 .. 1 /\ b(4) \in 0 .. 1
      /\ b(5) \in 0 .. 1 /\ b(6) \in 0 .. 1 /\ b(7) \in 0 .. 1 /\ b(8) \in 0 .. 1
  OBVIOUS
<1>9. s \in Int
  BY <1>6, <1>7
<1>10. \A i \in 1 .. 8 : (s \div 2 ^ (i - 1)) % 2 = b(i)
  <2> DEFINE b1 == b(1)
             b2 == b(2)
             b3 == b(3)
             b4 == b(4)
             b5 == b(5)
             b6 == b(6)
             b7 == b(7)
             b8 == b(8)
  <2>1. BitsOf(s, b1, b2, b3, b4, b5, b6, b7, b8)
    <3>1. /\ s = b1 + 2 * b2 + 4 * b3 + 8 * b4 + 16 * b5 + 32 * b6 + 64 * b7 + 128 * b8
          /\ b1 \in 0 .. 1 /\ b2 \in 0 .. 1 /\ b3 \in 0 .. 1 /\ b4 \in 0 .. 1
          /\ b5 \in 0 .. 1 /\ b6 \in 0 .. 1 /\ b7 \in 0 .. 1 /\ b8 \in 0 .. 1
      BY <1>6, <1>7
    <3> HIDE DEF b1, b2, b3, b4, b5, b6, b7, b8
    <3> QED
      BY ONLY <3>1, BitsOfByte
  <2>2. /\ (s \div 1) % 2 = b(1) /\ (s \div 2) % 2 = b(2) /\ (s \div 4) % 2 = b(3) /\ (s \div 8) % 2 = b(4)
        /\ (s \div 16) % 2 = b(5) /\ (s \div 32) % 2 = b(6) /\ (s \div 64) % 2 = b(7) /\ (s \div 128) % 2 = b(8)
    <3> HIDE DEF b
    <3> QED
      BY <2>1 DEF BitsOf
  <2> HIDE DEF b
  <2>3. SUFFICES ASSUME NEW i \in 1 .. 8 PROVE (s \div 2 ^ (i - 1)) % 2 = b(i)
    OBVIOUS
  <2>4. i = 1 \/ i = 2 \/ i = 3 \/ i = 4 \/ i = 5 \/ i = 6 \/ i = 7 \/ i = 8
    BY <1>8
  <2> QED
    BY <1>1, <2>2, <2>4, ZenonT(40)
<1>11. \A i \in 1 .. 8 : (s \div 2 ^ (i - 1)) % 2 = 1 <=> in(i)
  <2> SUFFICES ASSUME NEW i \in 1 .. 8 PROVE (s \div 2 ^ (i - 1)) % 2 = 1 <=> in(i)
    OBVIOUS
  <2> DEFINE q == (s \div 2 ^ (i - 1)) % 2
  <2>1. q = IF in(i) THEN 1 ELSE 0
    BY <1>10
  <2> HIDE DEF q
  <2>2. q = 1 <=> in(i)
    BY <2>1
  <2> QED
    BY <2>2 DEF q
<1>12. ToSet(StatusBits) = {StatusBits[i] : i \in 1 .. 8}
  <2>1. DOMAIN StatusBits = 1 .. 8
    BY DEF StatusBits
  <2> QED
    BY <2>1 DEF ToSet
<1>13. DecodeStatus(s) = flags
  <2>1. ASSUME NEW x \in DecodeStatus(s) PROVE x \in flags
    <3>1. PICK i \in 1 .. 8 : (s \div 2 ^ (i - 1)) % 2 = 1 /\ x = StatusBits[i]
      BY Zenon DEF DecodeStatus
    <3> QED
      BY <1>11, <3>1 DEF in
  <2>2. ASSUME NEW x \in flags PROVE x \in DecodeStatus(s)
    <3>1. PICK i \in 1 .. 8 : x = StatusBits[i]
      BY <1>12
    <3>2. in(i)
      BY <3>1 DEF in
    <3>3. (s \div 2 ^ (i - 1)) % 2 = 1
      BY <1>11, <3>2
    <3> QED
      BY <3>1, <3>3, Zenon DEF DecodeStatus
  <2> QED
    BY <2>1, <2>2
<1> QED
  BY <1>9, <1>13 DEF s

\* The bytes of a code, three or four.
BytesOf(held, withFault) ==
  EncodeDtc(held.code) \o (IF withFault THEN <<held.fault>> ELSE << >>) \o <<StatusByte(held.flags)>>

LEMMA FewBytes ==
  ASSUME NEW x \in Int, NEW y \in Int, NEW z \in Int, NEW v \in Int
  PROVE  /\ LET r == <<x, y>> \o <<z>> \o <<v>>
            IN  r \in Seq(Int) /\ Len(r) = 4 /\ r[1] = x /\ r[2] = y /\ r[3] = z /\ r[4] = v
         /\ LET r == <<x, y>> \o << >> \o <<v>>
            IN  r \in Seq(Int) /\ Len(r) = 3 /\ r[1] = x /\ r[2] = y /\ r[3] = v
<1> DEFINE a == <<x, y>>
           b == <<z>>
           c == <<v>>
           e == << >>
           ab == a \o b
           ae == a \o e
<1>1. /\ a \in Seq(Int) /\ Len(a) = 2 /\ a[1] = x /\ a[2] = y
      /\ b \in Seq(Int) /\ Len(b) = 1 /\ b[1] = z /\ c \in Seq(Int) /\ Len(c) = 1 /\ c[1] = v
      /\ e \in Seq(Int) /\ Len(e) = 0
  OBVIOUS
<1> HIDE DEF a, b, c, e
<1>2. /\ ab \in Seq(Int) /\ Len(ab) = Len(a) + Len(b)
      /\ (\A i \in 1 .. Len(a) : ab[i] = a[i]) /\ (\A i \in 1 .. Len(b) : ab[Len(a) + i] = b[i])
  <2>1. a \in Seq(Int) /\ b \in Seq(Int)
    BY <1>1
  <2> QED
    BY ONLY <2>1, Joined
<1>3. ae \in Seq(Int) /\ Len(ae) = Len(a) + Len(e) /\ \A i \in 1 .. Len(a) : ae[i] = a[i]
  BY <1>1, Joined, ZenonT(40)
<1> HIDE DEF ab, ae
<1>4. /\ ab \o c \in Seq(Int) /\ Len(ab \o c) = Len(ab) + Len(c)
      /\ (\A i \in 1 .. Len(ab) : (ab \o c)[i] = ab[i]) /\ (\A i \in 1 .. Len(c) : (ab \o c)[Len(ab) + i] = c[i])
  <2>1. ab \in Seq(Int) /\ c \in Seq(Int)
    BY <1>1, <1>2
  <2> QED
    BY ONLY <2>1, Joined
<1>5. /\ ae \o c \in Seq(Int) /\ Len(ae \o c) = Len(ae) + Len(c)
      /\ (\A i \in 1 .. Len(ae) : (ae \o c)[i] = ae[i]) /\ (\A i \in 1 .. Len(c) : (ae \o c)[Len(ae) + i] = c[i])
  <2>1. ae \in Seq(Int) /\ c \in Seq(Int)
    BY <1>1, <1>3
  <2> QED
    BY ONLY <2>1, Joined
<1>6. Len(ab) = 3 /\ ab[1] = x /\ ab[2] = y /\ ab[3] = z
  BY <1>1, <1>2
<1>7. Len(ae) = 2 /\ ae[1] = x /\ ae[2] = y
  BY <1>1, <1>3
<1>8. Len(ab \o c) = 4 /\ (ab \o c)[1] = x /\ (ab \o c)[2] = y /\ (ab \o c)[3] = z /\ (ab \o c)[4] = v
  <2>1. 1 \in 1 .. Len(ab) /\ 2 \in 1 .. Len(ab) /\ 3 \in 1 .. Len(ab) /\ 1 \in 1 .. Len(c) /\ Len(ab) + 1 = 4
    BY <1>1, <1>6
  <2>2. Len(ab \o c) = 4
    BY <1>1, <1>4, <1>6
  <2> QED
    BY <1>1, <1>4, <1>6, <2>1, <2>2
<1>9. Len(ae \o c) = 3 /\ (ae \o c)[1] = x /\ (ae \o c)[2] = y /\ (ae \o c)[3] = v
  BY <1>1, <1>5, <1>7, SMTT(30)
<1> QED
  BY <1>4, <1>5, <1>8, <1>9 DEF ab, ae, a, b, c, e

LEMMA BytesOfCode ==
  ASSUME NEW h \in HeldCode, NEW wf \in BOOLEAN
  PROVE  /\ BytesOf(h, wf) \in Seq(Int) /\ Len(BytesOf(h, wf)) = IF wf THEN 4 ELSE 3
         /\ DecodeDtc(BytesOf(h, wf)[1], BytesOf(h, wf)[2]) = h.code
         /\ wf => BytesOf(h, wf)[3] = h.fault /\ DecodeStatus(BytesOf(h, wf)[4]) = h.flags
         /\ ~wf => DecodeStatus(BytesOf(h, wf)[3]) = h.flags
<1> DEFINE e == EncodeDtc(h.code)
           s == StatusByte(h.flags)
           x == e[1]
           y == e[2]
           r == BytesOf(h, wf)
<1>1. h.code \in Codes /\ h.fault \in 0 .. 255 /\ h.flags \in SUBSET ToSet(StatusBits)
  BY DEF HeldCode
<1>2. e \in Seq(Int) /\ Len(e) = 2 /\ DecodeDtc(x, y) = h.code
  BY <1>1, CodeRoundTrip
<1>3. s \in Int /\ DecodeStatus(s) = h.flags
  BY <1>1, FlagsRoundTrip
<1>4. e = <<x, y>> /\ x \in Int /\ y \in Int
  <2> HIDE DEF e
  <2> QED
    BY <1>2, SMTT(30)
<1> HIDE DEF e, s, x, y
<1>5. CASE wf
  <2>1. r = <<x, y>> \o <<h.fault>> \o <<s>>
    BY <1>4, <1>5 DEF BytesOf, e, s
  <2>2. h.fault \in Int
    BY <1>1
  <2> HIDE DEF r
  <2>3. r \in Seq(Int) /\ Len(r) = 4 /\ r[1] = x /\ r[2] = y /\ r[3] = h.fault /\ r[4] = s
    BY <1>3, <1>4, <2>1, <2>2, FewBytes
  <2> QED
    BY <1>2, <1>3, <1>5, <2>3 DEF r
<1>6. CASE ~wf
  <2>1. r = <<x, y>> \o << >> \o <<s>>
    BY <1>4, <1>6 DEF BytesOf, e, s
  <2> HIDE DEF r
  <2>3. r \in Seq(Int) /\ Len(r) = 3 /\ r[1] = x /\ r[2] = y /\ r[3] = s
    BY <1>3, <1>4, <2>1, FewBytes
  <2> QED
    BY <1>2, <1>3, <1>6, <2>3 DEF r
<1> QED
  BY <1>5, <1>6

\* The bytes of the codes, and the records they are read as.
LEMMA BytesOfCodes ==
  ASSUME NEW held \in Seq(HeldCode), NEW wf \in BOOLEAN
  PROVE  /\ CodeBytes(held, wf) \in Seq(Int)
         /\ DOMAIN Chunks(CodeBytes(held, wf), IF wf THEN 4 ELSE 3) = 1 .. Len(held)
         /\ \A k \in 1 .. Len(held) : \A j \in 1 .. (IF wf THEN 4 ELSE 3) :
              Chunks(CodeBytes(held, wf), IF wf THEN 4 ELSE 3)[k][j] = BytesOf(held[k], wf)[j]
<1> DEFINE n == Len(held)
           w == IF wf THEN 4 ELSE 3
           s == [i \in 1 .. n |-> BytesOf(held[i], wf)]
           S == Seq(Int)
<1>1. n \in Nat /\ DOMAIN held = 1 .. n /\ \A i \in 1 .. n : held[i] \in HeldCode
  BY LenProperties
<1>2. CodeBytes(held, wf) = FlattenSeq(s)
  BY <1>1 DEF CodeBytes, BytesOf
<1>3. \A i \in 1 .. n : BytesOf(held[i], wf) \in S /\ Len(BytesOf(held[i], wf)) = w
  BY <1>1, BytesOfCode
<1>4. w \in {3, 4} /\ w \in {2, 3, 4}
  OBVIOUS
<1> HIDE DEF n, w, S
<1>5. s \in [1 .. n -> S] /\ \A i \in 1 .. n : s[i] = BytesOf(held[i], wf)
  BY <1>3
<1> HIDE DEF s
<1>6. s \in Seq(S) /\ Len(s) = n
  BY <1>1, <1>5, MapSeq
<1>7. OfOneLength(s, w)
  BY <1>3, <1>5, <1>6 DEF OfOneLength
<1>8. s \in Seq(Seq(Int))
  BY <1>6 DEF S
<1> DEFINE c == Chunks(FlattenSeq(s), w)
<1>9. DOMAIN c = 1 .. Len(s) /\ \A k \in 1 .. Len(s) : \A j \in 1 .. w : c[k][j] = s[k][j]
  <2>1. CutInto(c, s, w)
    BY <1>4, <1>7, <1>8, ChunksOfEqual
  <2> QED
    BY <2>1 DEF CutInto
<1>10. FlattenSeq(s) \in Seq(Int)
  BY <1>8, FlattenType
<1>11. DOMAIN c = 1 .. n /\ \A k \in 1 .. n : \A j \in 1 .. w : c[k][j] = BytesOf(held[k], wf)[j]
  BY <1>5, <1>6, <1>9
<1> QED
  BY <1>2, <1>10, <1>11 DEF c, n, w

\* A reply to a request for codes is read as the codes it was made from.
LEMMA UdsCodesRead ==
  ASSUME NEW held \in Seq(HeldCode), NEW p \in Seq(Int), NEW c, c.as = "uds_dtcs", c.skip \in Nat, Len(p) = c.skip + 1
  PROVE  Parse(c, Tail(p \o CodeBytes(held, TRUE))) = [i \in DOMAIN held |-> held[i]]
<1> DEFINE q == CodeBytes(held, TRUE)
           data == Tail(p \o q)
           r == Chunks(q, 4)
           n == Len(held)
<1>1. /\ q \in Seq(Int) /\ DOMAIN r = 1 .. n
      /\ \A k \in 1 .. n : \A j \in 1 .. 4 : r[k][j] = BytesOf(held[k], TRUE)[j]
  <2>1. TRUE \in BOOLEAN
    OBVIOUS
  <2> QED
    BY <2>1, BytesOfCodes
<1>2. n \in Nat /\ DOMAIN held = 1 .. n /\ \A i \in 1 .. n : held[i] \in HeldCode
  BY LenProperties
<1>3. Drop(data, c.skip) = q
  <2> DEFINE k == c.skip
  <2>1. k \in Nat /\ Len(p) = k + 1
    OBVIOUS
  <2> HIDE DEF k, q
  <2>2. Drop(Tail(p \o q), k) = q
    BY <1>1, <2>1, HeaderOff
  <2> QED
    BY <2>2 DEF k
<1>4. Records(data, c) = r
  BY <1>3 DEF Records
<1> HIDE DEF q, r, n, data
<1>5. Parse(c, data) =
        [k \in DOMAIN r |-> [code |-> DecodeUdsDtc(r[k][1], r[k][2], r[k][3])[1], fault |-> r[k][3], flags |-> DecodeStatus(r[k][4])]]
  BY <1>4 DEF Parse
<1>6. ASSUME NEW k \in 1 .. n
      PROVE  [code |-> DecodeUdsDtc(r[k][1], r[k][2], r[k][3])[1], fault |-> r[k][3], flags |-> DecodeStatus(r[k][4])] = held[k]
  <2> DEFINE h == held[k]
             b == BytesOf(h, TRUE)
  <2>a. \A j \in 1 .. 4 : r[k][j] = b[j]
    BY <1>1
  <2>b. 1 \in 1 .. 4 /\ 2 \in 1 .. 4 /\ 3 \in 1 .. 4 /\ 4 \in 1 .. 4
    OBVIOUS
  <2>1. r[k][1] = b[1] /\ r[k][2] = b[2] /\ r[k][3] = b[3] /\ r[k][4] = b[4]
    BY <2>a, <2>b, Zenon
  <2>2. h \in HeldCode /\ TRUE \in BOOLEAN
    BY <1>2
  <2> HIDE DEF h
  <2>3. DecodeDtc(b[1], b[2]) = h.code /\ b[3] = h.fault /\ DecodeStatus(b[4]) = h.flags
    BY <2>2, BytesOfCode
  <2> HIDE DEF b
  <2>4. DecodeUdsDtc(r[k][1], r[k][2], r[k][3])[1] = DecodeDtc(r[k][1], r[k][2])
    BY DEF DecodeUdsDtc
  <2>5. h = [code |-> h.code, fault |-> h.fault, flags |-> h.flags]
    BY <2>2 DEF HeldCode
  <2> QED
    BY <2>1, <2>3, <2>4, <2>5 DEF h
<1>7. Parse(c, data) = [k \in 1 .. n |-> held[k]]
  BY <1>1, <1>5, <1>6
<1> QED
  BY <1>2, <1>7 DEF data, q

LEMMA KwpCodesRead ==
  ASSUME NEW held \in Seq(HeldCode), NEW p \in Seq(Int), NEW c, c.as = "kwp_dtcs", c.skip \in Nat, Len(p) = c.skip + 1
  PROVE  Parse(c, Tail(p \o CodeBytes(held, FALSE))) = [i \in DOMAIN held |-> [held[i] EXCEPT !.fault = 0]]
<1> DEFINE q == CodeBytes(held, FALSE)
           data == Tail(p \o q)
           r == Chunks(q, 3)
           n == Len(held)
<1>1. /\ q \in Seq(Int) /\ DOMAIN r = 1 .. n
      /\ \A k \in 1 .. n : \A j \in 1 .. 3 : r[k][j] = BytesOf(held[k], FALSE)[j]
  <2>1. FALSE \in BOOLEAN
    OBVIOUS
  <2> QED
    BY <2>1, BytesOfCodes
<1>2. n \in Nat /\ DOMAIN held = 1 .. n /\ \A i \in 1 .. n : held[i] \in HeldCode
  BY LenProperties
<1>3. Drop(data, c.skip) = q
  <2> DEFINE k == c.skip
  <2>1. k \in Nat /\ Len(p) = k + 1
    OBVIOUS
  <2> HIDE DEF k, q
  <2>2. Drop(Tail(p \o q), k) = q
    BY <1>1, <2>1, HeaderOff
  <2> QED
    BY <2>2 DEF k
<1>4. Records(data, c) = r
  BY <1>3 DEF Records
<1> HIDE DEF q, r, n, data
<1>5. Parse(c, data) =
        [k \in DOMAIN r |-> [code |-> DecodeDtc(r[k][1], r[k][2]), fault |-> 0, flags |-> DecodeStatus(r[k][3])]]
  BY <1>4 DEF Parse
<1>6. ASSUME NEW k \in 1 .. n
      PROVE  [code |-> DecodeDtc(r[k][1], r[k][2]), fault |-> 0, flags |-> DecodeStatus(r[k][3])] = [held[k] EXCEPT !.fault = 0]
  <2> DEFINE h == held[k]
             b == BytesOf(h, FALSE)
  <2>a. \A j \in 1 .. 3 : r[k][j] = b[j]
    BY <1>1
  <2>b. 1 \in 1 .. 3 /\ 2 \in 1 .. 3 /\ 3 \in 1 .. 3
    OBVIOUS
  <2>1. r[k][1] = b[1] /\ r[k][2] = b[2] /\ r[k][3] = b[3]
    BY <2>a, <2>b, Zenon
  <2>2. h \in HeldCode /\ FALSE \in BOOLEAN
    BY <1>2
  <2> HIDE DEF h
  <2>3. DecodeDtc(b[1], b[2]) = h.code /\ DecodeStatus(b[3]) = h.flags
    BY <2>2, BytesOfCode
  <2> HIDE DEF b
  <2>5. h = [code |-> h.code, fault |-> h.fault, flags |-> h.flags]
    BY <2>2 DEF HeldCode
  <2>6. [h EXCEPT !.fault = 0] = [code |-> h.code, fault |-> 0, flags |-> h.flags]
    BY <2>5
  <2> QED
    BY <2>1, <2>3, <2>6 DEF h
<1>7. Parse(c, data) = [k \in 1 .. n |-> [held[k] EXCEPT !.fault = 0]]
  BY <1>1, <1>5, <1>6
<1> QED
  BY <1>2, <1>7 DEF data, q

\* The codes that match a mask or a pair of bytes are codes.
LEMMA SomeCodes ==
  ASSUME NEW held \in Seq(HeldCode), NEW x
  PROVE  Matching(held, x) \in Seq(HeldCode) /\ WithBytes(held, x) \in Seq(HeldCode)
<1>1. ASSUME NEW S PROVE Select(held, S) \in Seq(HeldCode)
  <2>1. Select(held, S) \in Seq(HeldCode \cap S)
    BY SelectType
  <2> DEFINE q == Select(held, S)
  <2>2. \A j \in 1 .. Len(q) : q[j] \in HeldCode
    BY <2>1
  <2> QED
    BY <2>1, <2>2, SeqOver
<1> QED
  BY <1>1, Zenon DEF Matching, WithBytes, Where

-----------------------------------------------------------------------------
(* The ECU.                                                                *)

\* What an ECU holds: codes, the length of a block, and bytes under other keys.
DataOK(f) ==
  /\ CodesKey \in DOMAIN f /\ <<"block">> \in DOMAIN f
  /\ f[CodesKey] \in Seq(HeldCode)
  /\ \A k \in DOMAIN f : k # CodesKey => f[k] \in Seq(Int)
EcuOK(e) == e = [data |-> e.data, at |-> e.at, left |-> e.left] /\ DataOK(e.data)

\* Writes of bytes.
WritesBytes(pairs) == \A i \in DOMAIN pairs : pairs[i][1] # CodesKey /\ pairs[i][2] \in Seq(Int)

LEMMA PutsBytes ==
  ASSUME NEW f, DataOK(f), NEW pairs, WritesBytes(pairs)
  PROVE  DataOK(PutAll(f, pairs)) /\ PutAll(f, pairs)[CodesKey] = f[CodesKey]
<1> DEFINE keys == {pairs[i][1] : i \in DOMAIN pairs}
           Written(k) == pairs[CHOOSE i \in DOMAIN pairs : pairs[i][1] = k][2]
           g == [k \in DOMAIN f \cup keys |-> IF k \in keys THEN Written(k) ELSE f[k]]
<1>1. PutAll(f, pairs) = g
  BY DEF PutAll
<1>2. CodesKey \notin keys
  BY DEF WritesBytes
<1>3. ASSUME NEW k \in keys PROVE Written(k) \in Seq(Int)
  <2>1. \E i \in DOMAIN pairs : pairs[i][1] = k
    OBVIOUS
  <2> DEFINE i == CHOOSE i \in DOMAIN pairs : pairs[i][1] = k
  <2>2. i \in DOMAIN pairs
    BY <2>1
  <2> HIDE DEF i
  <2>3. pairs[i][2] \in Seq(Int)
    BY <2>2 DEF WritesBytes
  <2> QED
    BY <2>3 DEF i
<1> HIDE DEF keys, Written
<1>4. DOMAIN g = DOMAIN f \cup keys
  OBVIOUS
<1>5. CodesKey \in DOMAIN f /\ <<"block">> \in DOMAIN f /\ f[CodesKey] \in Seq(HeldCode)
  BY Zenon DEF DataOK
<1>6. g[CodesKey] = f[CodesKey]
  BY <1>2, <1>5
<1>7. ASSUME NEW k \in DOMAIN g, k # CodesKey PROVE g[k] \in Seq(Int)
  <2>1. CASE k \in keys
    BY <1>3, <2>1
  <2>2. CASE k \notin keys
    <3>1. k \in DOMAIN f /\ g[k] = f[k]
      BY <1>4, <2>2
    <3> QED
      BY <1>7, <3>1, Zenon DEF DataOK
  <2> QED
    BY <2>1, <2>2
<1> HIDE DEF g
<1> QED
  BY <1>1, <1>4, <1>5, <1>6, <1>7, Zenon DEF DataOK

\* The writes that clear the codes.
Clearing == <<<<CodesKey, << >>>>>>

LEMMA PutsNoCodes ==
  ASSUME NEW f, DataOK(f)
  PROVE  DataOK(PutAll(f, Clearing)) /\ PutAll(f, Clearing)[CodesKey] = << >>
<1> DEFINE p == Clearing
           keys == {p[i][1] : i \in DOMAIN p}
           g == [k \in DOMAIN f \cup keys |-> IF k \in keys THEN p[CHOOSE i \in DOMAIN p : p[i][1] = k][2] ELSE f[k]]
<1>1. DOMAIN p = {1} /\ p[1][1] = CodesKey /\ p[1][2] = << >>
  BY DEF Clearing
<1>2. PutAll(f, Clearing) = g
  BY DEF PutAll
<1> HIDE DEF p
<1>3. keys = {CodesKey}
  BY <1>1
<1>4. (CHOOSE i \in DOMAIN p : p[i][1] = CodesKey) = 1
  BY <1>1
<1>5. CodesKey \in DOMAIN f /\ <<"block">> \in DOMAIN f
  BY Zenon DEF DataOK
<1>6. g[CodesKey] = << >>
  BY <1>1, <1>3, <1>4, <1>5
<1>7. DOMAIN g = DOMAIN f
  BY <1>3, <1>5
<1>8. ASSUME NEW k \in DOMAIN g, k # CodesKey PROVE g[k] \in Seq(Int)
  <2>1. k \in DOMAIN f /\ g[k] = f[k]
    BY <1>3, <1>7, <1>8
  <2> QED
    BY <1>8, <2>1, Zenon DEF DataOK
<1> HIDE DEF g
<1>9. << >> \in Seq(HeldCode)
  OBVIOUS
<1> QED
  BY <1>2, <1>5, <1>6, <1>7, <1>8, <1>9, Zenon DEF DataOK

\* A positive response to the service, and a negative one that is final.
Affirms(say, sid) == Len(say) \in Nat /\ Len(say) >= 1 /\ say[1] = (sid + 64) % 256
Denied(say) == Len(say) = 3 /\ say[1] = 127 /\ say[3] \in {36, 49, 115}

LEMMA FirstIsPositive ==
  ASSUME NEW T, NEW r \in Seq(T), NEW sid \in 16 .. 135
  PROVE  Affirms(<<sid + 64>> \o r, sid) /\ Affirms(<<(sid + 64) % 256>> \o r, sid)
<1> DEFINE p == <<sid + 64>>
           U == T \cup {sid + 64}
<1>1. p \in Seq(U) /\ Len(p) = 1 /\ p[1] = sid + 64
  OBVIOUS
<1>2. r \in Seq(U)
  <2>1. \A j \in 1 .. Len(r) : r[j] \in U
    OBVIOUS
  <2> QED
    BY <2>1, SeqOver
<1>3. (sid + 64) % 256 = sid + 64
  OBVIOUS
<1> HIDE DEF p, U
<1>4. Len(p \o r) = Len(p) + Len(r) /\ Len(r) \in Nat /\ \A i \in 1 .. Len(p) : (p \o r)[i] = p[i]
  BY <1>1, <1>2, Joined
<1>5. Len(p \o r) \in Nat /\ Len(p \o r) >= 1 /\ (p \o r)[1] = sid + 64
  BY <1>1, <1>4
<1>6. Affirms(p \o r, sid)
  BY <1>3, <1>5 DEF Affirms
<1> QED
  BY <1>3, <1>6 DEF p

LEMMA LongerIsPositive ==
  ASSUME NEW T, NEW p \in Seq(T), NEW r \in Seq(T), NEW sid, Affirms(p, sid)
  PROVE  Affirms(p \o r, sid) /\ p \o r \in Seq(T)
<1>1. /\ p \o r \in Seq(T) /\ Len(p \o r) = Len(p) + Len(r) /\ Len(r) \in Nat
      /\ \A i \in 1 .. Len(p) : (p \o r)[i] = p[i]
  BY Joined
<1> QED
  BY <1>1 DEF Affirms

LEMMA EchoIsPositive ==
  ASSUME NEW q \in Seq(Int), NEW r \in Seq(Int), NEW sid \in 16 .. 135
  PROVE  Affirms(<<sid + 64>> \o q \o r, sid) /\ Affirms(<<sid + 64>> \o q, sid)
<1> DEFINE p == <<sid + 64>> \o q
<1>1. Affirms(p, sid)
  BY FirstIsPositive
<1>2. p \in Seq(Int)
  <2>1. <<sid + 64>> \in Seq(Int)
    OBVIOUS
  <2> QED
    BY <2>1, Joined
<1> HIDE DEF p
<1>3. Affirms(p \o r, sid)
  BY <1>1, <1>2, LongerIsPositive
<1> QED
  BY <1>1, <1>3 DEF p

\* An answer that leaves the codes as they are.
Kept(act, e, sid) ==
  /\ EcuOK(act.ecu) /\ act.ecu.data[CodesKey] = e.data[CodesKey]
  /\ Affirms(act.say, sid) \/ Denied(act.say)

LEMMA DenyKeeps ==
  ASSUME NEW e, EcuOK(e), NEW sid, NEW nrc \in {36, 49, 115}
  PROVE  Kept(Deny(e, sid, nrc), e, sid) /\ Denied(Deny(e, sid, nrc).say) /\ Deny(e, sid, nrc).ecu = e
<1>1. Deny(e, sid, nrc).ecu = e /\ Deny(e, sid, nrc).say = <<127, sid, nrc>>
  BY DEF Deny, Say
<1>2. Denied(<<127, sid, nrc>>)
  BY DEF Denied
<1> QED
  BY <1>1, <1>2 DEF Kept

LEMMA SayKeeps ==
  ASSUME NEW e, EcuOK(e), NEW sid, NEW s, Affirms(s, sid)
  PROVE  Kept(Say(e, s), e, sid)
<1>1. Say(e, s).ecu = e /\ Say(e, s).say = s
  BY DEF Say
<1> QED
  BY <1>1 DEF Kept

LEMMA GiveKeeps ==
  ASSUME NEW e, EcuOK(e), NEW sid \in 16 .. 135, NEW echo \in Seq(Int), NEW key, key # CodesKey
  PROVE  Kept(Give(e, sid, echo, key), e, sid)
<1>1. CASE key \in DOMAIN e.data
  <2> DEFINE r == e.data[key]
  <2>1. r \in Seq(Int)
    BY <1>1, Zenon DEF EcuOK, DataOK
  <2>2. Give(e, sid, echo, key) = Say(e, <<sid + 64>> \o echo \o r)
    BY <1>1 DEF Give
  <2> HIDE DEF r
  <2>3. Affirms(<<sid + 64>> \o echo \o r, sid)
    BY <2>1, EchoIsPositive
  <2> QED
    BY <2>2, <2>3, SayKeeps
<1>2. CASE key \notin DOMAIN e.data
  <2>1. Give(e, sid, echo, key) = Deny(e, sid, 49)
    BY <1>2 DEF Give
  <2> QED
    BY <2>1, DenyKeeps
<1> QED
  BY <1>1, <1>2

LEMMA TakeKeeps ==
  ASSUME NEW e, EcuOK(e), NEW sid \in 16 .. 135, NEW echo \in Seq(Int), NEW pairs, WritesBytes(pairs)
  PROVE  Kept(Take(e, sid, echo, pairs), e, sid)
<1> DEFINE taken == \A i \in DOMAIN pairs : pairs[i][1] \in DOMAIN e.data
           g == PutAll(e.data, pairs)
           s == <<sid + 64>> \o echo
<1>1. Affirms(s, sid)
  BY EchoIsPositive
<1>2. DataOK(g) /\ g[CodesKey] = e.data[CodesKey]
  BY PutsBytes DEF EcuOK
<1>3. CASE taken
  <2>1. Take(e, sid, echo, pairs) = [say |-> s, ecu |-> [e EXCEPT !.data = g]]
    BY <1>3 DEF Take, Say
  <2> HIDE DEF g, s
  <2>2. [e EXCEPT !.data = g] = [data |-> g, at |-> e.at, left |-> e.left]
    BY DEF EcuOK
  <2> QED
    BY <1>1, <1>2, <2>1, <2>2 DEF Kept, EcuOK
<1>4. CASE ~taken
  <2>1. Take(e, sid, echo, pairs) = Deny(e, sid, 49)
    BY <1>4 DEF Take
  <2> QED
    BY <2>1, DenyKeeps
<1> QED
  BY <1>3, <1>4

\* The codes are cleared for good.
LEMMA TakeClears ==
  ASSUME NEW e, EcuOK(e), NEW sid \in 16 .. 135, NEW echo \in Seq(Int)
  PROVE  LET act == Take(e, sid, echo, Clearing)
         IN  EcuOK(act.ecu) /\ act.ecu.data[CodesKey] = << >> /\ Affirms(act.say, sid)
<1> DEFINE g == PutAll(e.data, Clearing)
           s == <<sid + 64>> \o echo
<1>1. Affirms(s, sid)
  BY EchoIsPositive
<1>2. DataOK(g) /\ g[CodesKey] = << >>
  BY PutsNoCodes DEF EcuOK
<1>3. \A i \in DOMAIN Clearing : Clearing[i][1] \in DOMAIN e.data
  <2>1. CodesKey \in DOMAIN e.data
    BY Zenon DEF EcuOK, DataOK
  <2> QED
    BY <2>1 DEF Clearing
<1>4. Take(e, sid, echo, Clearing) = [say |-> s, ecu |-> [e EXCEPT !.data = g]]
  BY <1>3 DEF Take, Say
<1> HIDE DEF g, s
<1>5. [e EXCEPT !.data = g] = [data |-> g, at |-> e.at, left |-> e.left]
  BY DEF EcuOK
<1> QED
  BY <1>1, <1>2, <1>4, <1>5 DEF EcuOK

\* Bytes one by one at successive addresses.
LEMMA BytewiseWrites ==
  ASSUME NEW at, NEW data \in Seq(Int)
  PROVE  WritesBytes(Bytewise(at, data))
<1>1. ASSUME NEW i \in DOMAIN Bytewise(at, data)
      PROVE  Bytewise(at, data)[i][1] # CodesKey /\ Bytewise(at, data)[i][2] \in Seq(Int)
  <2>1. i \in DOMAIN data /\ Bytewise(at, data)[i] = <<<<"mem", at + i - 1>>, <<data[i]>>>>
    BY DEF Bytewise
  <2>2. data[i] \in Int
    BY <2>1
  <2> DEFINE k == <<"mem", at + i - 1>>
             v == <<data[i]>>
  <2>3. k # CodesKey
    BY DEF CodesKey
  <2>4. v \in Seq(Int)
    BY <2>2
  <2>5. Bytewise(at, data)[i] = <<k, v>>
    BY <2>1
  <2> HIDE DEF k, v
  <2> QED
    BY <2>3, <2>4, <2>5
<1> QED
  BY <1>1 DEF WritesBytes

LEMMA MemoryKeeps ==
  ASSUME NEW e, EcuOK(e), NEW sid \in 16 .. 135, NEW addr, NEW n \in Int
  PROVE  Kept(GiveMemory(e, sid, addr, n), e, sid)
<1> DEFINE held == \A i \in 1 .. n : <<"mem", addr + i - 1>> \in DOMAIN e.data
           m == IF n < 0 THEN 0 ELSE n
           s == [i \in 1 .. n |-> e.data[<<"mem", addr + i - 1>>]]
           r == FlattenSeq(s)
<1>1. CASE held
  <2>1. ASSUME NEW i \in 1 .. n PROVE e.data[<<"mem", addr + i - 1>>] \in Seq(Int)
    <3> DEFINE k == <<"mem", addr + i - 1>>
    <3>1. k # CodesKey
      BY DEF CodesKey
    <3>2. k \in DOMAIN e.data
      BY <1>1
    <3> HIDE DEF k
    <3>3. e.data[k] \in Seq(Int)
      BY <3>1, <3>2, Zenon DEF EcuOK, DataOK
    <3> QED
      BY <3>3 DEF k
  <2>2. m \in Nat /\ 1 .. n = 1 .. m
    OBVIOUS
  <2> DEFINE S == Seq(Int)
  <2>3. s \in [1 .. m -> S]
    BY <2>1, <2>2
  <2> HIDE DEF S, m, s
  <2>4. s \in Seq(S)
    BY <2>2, <2>3, MapSeq
  <2>5. r \in Seq(Int)
    BY <2>4, FlattenType DEF S
  <2>6. GiveMemory(e, sid, addr, n) = Say(e, <<sid + 64>> \o r)
    BY <1>1 DEF GiveMemory, s
  <2> HIDE DEF r
  <2>7. Affirms(<<sid + 64>> \o r, sid)
    BY <2>5, FirstIsPositive
  <2> QED
    BY <2>6, <2>7, SayKeeps
<1>2. CASE ~held
  <2>1. GiveMemory(e, sid, addr, n) = Deny(e, sid, 49)
    BY <1>2 DEF GiveMemory
  <2> QED
    BY <2>1, DenyKeeps
<1> QED
  BY <1>1, <1>2

LEMMA BeginKeeps ==
  ASSUME NEW e, EcuOK(e), NEW sid \in 16 .. 135, NEW addr, NEW n, NEW T, NEW answer \in Seq(T)
  PROVE  Kept(Begin(e, sid, addr, n, answer), e, sid)
<1> DEFINE f == [data |-> e.data, at |-> addr, left |-> n]
           s == <<sid + 64>> \o answer
<1>2. EcuOK(f) /\ f.data = e.data
  BY DEF EcuOK
<1>3. Affirms(s, sid)
  BY FirstIsPositive
<1>4. Begin(e, sid, addr, n, answer) = [say |-> s, ecu |-> f]
  BY DEF Begin, Say
<1> HIDE DEF f, s
<1> QED
  BY <1>2, <1>3, <1>4 DEF Kept

LEMMA BlockKeeps ==
  ASSUME NEW e, EcuOK(e), NEW sid \in 16 .. 135, NEW data \in Seq(Int), NEW echo \in Seq(Int)
  PROVE  Kept(Block(e, sid, data, echo), e, sid)
<1>1. CASE e.left = 0 \/ Len(data) # e.left
  <2>1. Block(e, sid, data, echo) = Deny(e, sid, 36)
    BY <1>1 DEF Block
  <2> QED
    BY <2>1, DenyKeeps
<1>2. CASE ~(e.left = 0 \/ Len(data) # e.left)
  <2> DEFINE f == [e EXCEPT !.left = 0]
             pairs == Bytewise(e.at, data)
  <2>1. f = [data |-> e.data, at |-> e.at, left |-> 0]
    BY SMTT(30) DEF EcuOK
  <2>2. EcuOK(f) /\ f.data = e.data
    BY <2>1 DEF EcuOK
  <2>3. WritesBytes(pairs)
    BY BytewiseWrites
  <2>4. Block(e, sid, data, echo) = Take(f, sid, echo, pairs)
    BY <1>2 DEF Block
  <2> HIDE DEF f, pairs
  <2>5. Kept(Take(f, sid, echo, pairs), f, sid)
    BY <2>2, <2>3, TakeKeeps
  <2> QED
    BY <2>2, <2>4, <2>5 DEF Kept
<1> QED
  BY <1>1, <1>2

\* A part of a request that is long enough for it.
LEMMA PartOf ==
  ASSUME NEW d \in Seq(Int), NEW a \in Int, NEW b \in Int, a >= 1, b <= Len(d)
  PROVE  SubSeq(d, a, b) \in Seq(Int)
BY SubSeqProperties

LEMMA SharedKeeps ==
  ASSUME NEW e, EcuOK(e), NEW sid \in 16 .. 135, NEW d \in Seq(Int), sid = 46 => Len(d) >= 2
  PROVE  Kept(EcuShared(e, sid, d), e, sid)
<1>0. Len(d) \in Nat
  BY LenProperties
<1>1. CASE sid = 34
  <2> DEFINE key == <<"did", FromBytes(d)>>
  <2>1. EcuShared(e, sid, d) = Give(e, sid, d, key)
    BY <1>1 DEF EcuShared
  <2>2. key # CodesKey
    BY DEF CodesKey
  <2> HIDE DEF key
  <2> QED
    BY <2>1, <2>2, GiveKeeps
<1>2. CASE sid = 46
  <2> DEFINE echo == SubSeq(d, 1, 2)
             key == <<"did", FromBytes(SubSeq(d, 1, 2))>>
             rest == Drop(d, 2)
             pairs == <<<<key, rest>>>>
  <2>1. EcuShared(e, sid, d) = Take(e, sid, echo, pairs)
    BY <1>2 DEF EcuShared
  <2>2. key # CodesKey
    BY DEF CodesKey
  <2>3. echo \in Seq(Int) /\ rest \in Seq(Int)
    BY <1>0, <1>2, PartOf DEF Drop
  <2>4. WritesBytes(pairs)
    <3> HIDE DEF key, rest
    <3> QED
      BY <2>2, <2>3 DEF WritesBytes
  <2> HIDE DEF echo, pairs
  <2> QED
    BY <2>1, <2>3, <2>4, TakeKeeps
<1>3. CASE sid = 39 /\ d[1] % 2 = 1
  <2> DEFINE key == <<"seed", d[1]>>
  <2>1. EcuShared(e, sid, d) = Give(e, sid, d, key)
    BY <1>3 DEF EcuShared
  <2>2. key # CodesKey
    BY DEF CodesKey
  <2> HIDE DEF key
  <2> QED
    BY <2>1, <2>2, GiveKeeps
<1>4. CASE sid # 34 /\ sid # 46 /\ ~(sid = 39 /\ d[1] % 2 = 1)
  <2> DEFINE s == <<(sid + 64) % 256>> \o d
  <2>1. EcuShared(e, sid, d) = Say(e, s)
    BY <1>4 DEF EcuShared
  <2>2. Affirms(s, sid)
    BY FirstIsPositive
  <2> HIDE DEF s
  <2> QED
    BY <2>1, <2>2, SayKeeps
<1> QED
  BY <1>1, <1>2, <1>3, <1>4

\* What EcuUds does with each request but the one that clears the codes.
LEMMA UdsSessionAnswer ==
  ASSUME NEW e, EcuOK(e), NEW d
  PROVE  Kept(EcuUds(e, 16, d), e, 16) /\ Affirms(EcuUds(e, 16, d).say, 16)
<1> DEFINE m == d[1] % 128
           t == e.data[<<"timings">>][1]
           u == e.data[<<"timings">>][2] \div 10
           s == <<80, m>> \o U16(t) \o U16(u)
<1>1. EcuUds(e, 16, d) = Say(e, s)
  BY DEF EcuUds
<1> HIDE DEF m, t, u
<1>2. Affirms(s, 16)
  <2> DEFINE a == (t \div 256) % 256
             b == t % 256
             c == (u \div 256) % 256
             f == u % 256
             T == {a, b, c, f, m, 80}
             ab == <<a, b>>
             cf == <<c, f>>
             p == <<80, m>>
  <2>1. U16(t) = ab /\ U16(u) = cf
    BY DEF U16
  <2> HIDE DEF a, b, c, f
  <2>2. ab \in Seq(T) /\ cf \in Seq(T) /\ p \in Seq(T)
    OBVIOUS
  <2>3. Affirms(p, 16)
    BY DEF Affirms
  <2>4. s = p \o ab \o cf
    BY <2>1
  <2> HIDE DEF p, ab, cf, T, s
  <2>5. Affirms(p \o ab, 16) /\ p \o ab \in Seq(T)
    BY <2>2, <2>3, LongerIsPositive
  <2> QED
    BY <2>2, <2>4, <2>5, LongerIsPositive
<1> HIDE DEF s
<1>3. Kept(Say(e, s), e, 16)
  BY <1>2, SayKeeps
<1> QED
  BY <1>1, <1>2, <1>3 DEF Say

\* A report of codes: what it says, and which codes it is about.
Reported(act, e, p, held, withFault) ==
  held \in Seq(HeldCode) /\ p \in Seq(Int) /\ act = Say(e, p \o CodeBytes(held, withFault))

LEMMA ReportKeeps ==
  ASSUME NEW e, EcuOK(e), NEW sid, NEW p, Affirms(p, sid), NEW held, NEW wf \in BOOLEAN, NEW act,
         Reported(act, e, p, held, wf)
  PROVE  Kept(act, e, sid)
<1> DEFINE q == CodeBytes(held, wf)
<1>1. q \in Seq(Int)
  BY BytesOfCodes DEF Reported
<1>2. p \in Seq(Int) /\ act = Say(e, p \o q)
  BY DEF Reported
<1> HIDE DEF q
<1>3. Affirms(p \o q, sid)
  BY <1>1, <1>2, LongerIsPositive
<1> QED
  BY <1>2, <1>3, SayKeeps

LEMMA UdsReport ==
  ASSUME NEW e, EcuOK(e), NEW d, d[1] \in Int
  PROVE  /\ Reported(EcuUds(e, 25, d), e, <<89, d[1], 255>>,
                     IF d[1] = 2 THEN Matching(e.data[CodesKey], d[2]) ELSE e.data[CodesKey], TRUE)
         /\ Kept(EcuUds(e, 25, d), e, 25)
<1> DEFINE codes == e.data[CodesKey]
           held == IF d[1] = 2 THEN Matching(codes, d[2]) ELSE codes
           p == <<89, d[1], 255>>
<1>1. codes \in Seq(HeldCode)
  BY Zenon DEF EcuOK, DataOK
<1>2. EcuUds(e, 25, d) = Say(e, p \o CodeBytes(held, TRUE))
  BY DEF EcuUds, CodesKey
<1> HIDE DEF codes
<1>3. held \in Seq(HeldCode)
  BY <1>1, SomeCodes
<1>4. p \in Seq(Int) /\ Affirms(p, 25)
  BY DEF Affirms
<1> HIDE DEF held, p
<1>5. Reported(EcuUds(e, 25, d), e, p, held, TRUE)
  BY <1>2, <1>3, <1>4 DEF Reported
<1>6. Kept(EcuUds(e, 25, d), e, 25)
  <2>1. TRUE \in BOOLEAN
    OBVIOUS
  <2> QED
    BY <1>4, <1>5, <2>1, ReportKeeps
<1> QED
  BY <1>5, <1>6 DEF p, held, codes

LEMMA KwpReports ==
  ASSUME NEW e, EcuOK(e), NEW d
  PROVE  /\ Reported(EcuKwp(e, 23, d), e, <<87>>, WithBytes(e.data[CodesKey], d), FALSE)
         /\ Reported(EcuKwp(e, 24, d), e, <<88, Len(Matching(e.data[CodesKey], d[1]))>>,
                     Matching(e.data[CodesKey], d[1]), FALSE)
         /\ Kept(EcuKwp(e, 23, d), e, 23) /\ Kept(EcuKwp(e, 24, d), e, 24)
<1> DEFINE codes == e.data[CodesKey]
           h1 == WithBytes(codes, d)
           h2 == Matching(codes, d[1])
           p1 == <<87>>
           p2 == <<88, Len(h2)>>
<1>1. codes \in Seq(HeldCode)
  BY Zenon DEF EcuOK, DataOK
<1>2. EcuKwp(e, 23, d) = Say(e, p1 \o CodeBytes(h1, FALSE)) /\ EcuKwp(e, 24, d) = Say(e, p2 \o CodeBytes(h2, FALSE))
  BY DEF EcuKwp, CodesKey
<1> HIDE DEF codes
<1>3. h1 \in Seq(HeldCode) /\ h2 \in Seq(HeldCode)
  BY <1>1, SomeCodes
<1> HIDE DEF h1, h2
<1>4. Len(h2) \in Nat
  BY <1>3, LenProperties
<1>5. p1 \in Seq(Int) /\ Affirms(p1, 23) /\ p2 \in Seq(Int) /\ Affirms(p2, 24)
  BY <1>4 DEF Affirms
<1> HIDE DEF p1, p2
<1>6. Reported(EcuKwp(e, 23, d), e, p1, h1, FALSE) /\ Reported(EcuKwp(e, 24, d), e, p2, h2, FALSE)
  BY <1>2, <1>3, <1>5 DEF Reported
<1>7. Kept(EcuKwp(e, 23, d), e, 23) /\ Kept(EcuKwp(e, 24, d), e, 24)
  <2>1. FALSE \in BOOLEAN
    OBVIOUS
  <2> QED
    BY <1>5, <1>6, <2>1, ReportKeeps
<1> QED
  BY <1>6, <1>7 DEF p1, p2, h1, h2, codes

\* The memory services, and those that read and write in blocks.
LEMMA UdsMemoryAnswer ==
  ASSUME NEW e, EcuOK(e), NEW sid \in {35, 61}, NEW d \in Seq(Int), 
         Len(d) >= 1 + (d[1] % 16) + (d[1] \div 16), Len(d) >= 1, Fits(d)
  PROVE  Kept(EcuUds(e, sid, d), e, sid)
<1> DEFINE aw == d[1] % 16
           sw == d[1] \div 16
           at == FromBytes(SubSeq(d, 2, 2 + aw - 1))
           n == FromBytes(SubSeq(d, 2 + aw, 2 + aw + sw - 1))
           echo == SubSeq(d, 1, 1 + aw + sw)
           rest == Drop(d, 1 + aw + sw)
<1>1. Len(d) \in Nat /\ d[1] \in Int
  BY LenProperties
<1>2. aw \in Int /\ sw \in Int /\ aw >= 0 /\ sw >= 0 /\ Len(d) >= 1 + aw + sw
  <2>0. 1 \in DOMAIN d
    BY LenProperties
  <2>1. d[1] \in 0 .. 255
    BY <2>0, Zenon DEF Fits
  <2> DEFINE x == d[1]
             l == Len(d)
  <2>2. x \in 0 .. 255 /\ l >= 1 + (x % 16) + (x \div 16) /\ l \in Nat
    BY <1>1, <2>1
  <2> HIDE DEF x, l
  <2>3. /\ x % 16 \in Int /\ x \div 16 \in Int /\ x % 16 >= 0 /\ x \div 16 >= 0
        /\ l >= 1 + (x % 16) + (x \div 16)
    BY ONLY <2>2
  <2> QED
    BY <2>3 DEF x, l
<1>3. sid = 35 => EcuUds(e, sid, d) = GiveMemory(e, sid, at, n)
  BY DEF EcuUds
<1>4. sid = 61 => EcuUds(e, sid, d) = Take(e, sid, echo, Bytewise(at, rest))
  BY DEF EcuUds
<1>5. sid \in 16 .. 135
  OBVIOUS
<1> HIDE DEF aw, sw
<1>6. CASE sid = 35
  <2> DEFINE x == 2 + aw
             y == 2 + aw + sw - 1
  <2>1. x \in Int /\ y \in Int /\ x >= 1 /\ y <= Len(d)
    BY <1>1, <1>2
  <2> HIDE DEF x, y
  <2>2. SubSeq(d, x, y) \in Seq(Int)
    BY <2>1, PartOf
  <2> DEFINE z == SubSeq(d, x, y)
  <2>3. z \in Seq(Int)
    BY <2>2
  <2> HIDE DEF z
  <2>4. FromBytes(z) \in Int
    BY <2>3, NumberOf
  <2>5. n \in Int
    BY <2>4 DEF z, x, y
  <2> HIDE DEF n, at
  <2> QED
    BY <1>3, <1>5, <1>6, <2>5, MemoryKeeps
<1>7. CASE sid = 61
  <2> DEFINE y == 1 + aw + sw
             x == y + 1
             l == Len(d)
             one == 1
  <2>1. x \in Int /\ y \in Int /\ l \in Int /\ y <= l /\ one \in Int /\ one >= 1
    BY <1>1, <1>2
  <2> HIDE DEF y, one
  <2>2. SubSeq(d, one, y) \in Seq(Int)
    BY <2>1, PartOf
  <2>3. echo \in Seq(Int)
    BY <2>2 DEF y, one
  <2>4. rest \in Seq(Int)
    <3>1. x >= 1
      BY <1>1, <1>2 DEF y
    <3>2. l <= Len(d)
      BY <1>1
    <3> HIDE DEF x, l
    <3>3. SubSeq(d, x, l) \in Seq(Int)
      BY <2>1, <3>1, <3>2, PartOf
    <3> QED
      BY <3>3 DEF x, l, y, Drop
  <2> HIDE DEF echo, rest, at
  <2>5. WritesBytes(Bytewise(at, rest))
    BY <2>4, BytewiseWrites
  <2> QED
    BY <1>4, <1>5, <1>7, <2>3, <2>5, TakeKeeps
<1> QED
  BY <1>6, <1>7

\* What the ECU of UDS does with any request but the one that clears the codes.
LEMMA UdsAnswers ==
  ASSUME NEW e, EcuOK(e), NEW sid \in 16 .. 135, sid # 20, NEW d, WellFormed("uds", sid, d), Fits(d)
  PROVE  Kept(EcuUds(e, sid, d), e, sid)
<1>0. d \in Seq(Int)
  BY DEF WellFormed
<1>1. CASE sid = 16
  BY <1>1, UdsSessionAnswer
<1>2. CASE sid = 25
  <2>1. Len(d) >= 1
    BY <1>2 DEF WellFormed
  <2>2. d[1] \in Int
    BY <1>0, <2>1, LenProperties
  <2> QED
    BY <1>2, <2>2, UdsReport
<1>3. CASE sid \in {35, 61}
  <2>1. Len(d) >= 1
    BY <1>3 DEF WellFormed
  <2>2. Len(d) >= 1 + (d[1] % 16) + (d[1] \div 16)
    BY <1>3 DEF WellFormed
  <2>3. EcuOK(e) /\ sid \in {35, 61} /\ d \in Seq(Int) /\ Fits(d)
    BY <1>0, <1>3
  <2> QED
    BY ONLY <2>1, <2>2, <2>3, UdsMemoryAnswer, Zenon
<1>4. CASE sid \in {52, 53}
  <2> DEFINE w == d[2] % 16
             v == d[2] \div 16
             at == FromBytes(SubSeq(d, 3, 2 + w))
             n == FromBytes(SubSeq(d, 3 + w, 2 + w + v))
             b == e.data[<<"block">>][1]
             p == <<32>>
             q == U16(b)
             T == {32, (b \div 256) % 256, b % 256}
  <2>1. EcuUds(e, sid, d) = Begin(e, sid, at, n, p \o q)
    BY <1>4 DEF EcuUds
  <2> HIDE DEF b
  <2>2. p \in Seq(T) /\ q \in Seq(T)
    BY DEF U16
  <2> HIDE DEF at, n, p, q, T
  <2>3. p \o q \in Seq(T)
    BY <2>2, Joined
  <2> DEFINE r == p \o q
  <2>4. r \in Seq(T) /\ EcuUds(e, sid, d) = Begin(e, sid, at, n, r)
    BY <2>1, <2>3
  <2> HIDE DEF r
  <2> QED
    BY <2>4, BeginKeeps
<1>5. CASE sid = 54
  <2>1. Len(d) >= 1
    BY <1>5 DEF WellFormed
  <2>2. d # << >>
    BY <1>0, <2>1
  <2> DEFINE t == Tail(d)
             one == <<1>>
  <2>3. t \in Seq(Int)
    BY <1>0, <2>2, HeadTailProperties
  <2>4. one \in Seq(Int)
    OBVIOUS
  <2>5. EcuUds(e, sid, d) = Block(e, sid, t, one) \/ EcuUds(e, sid, d) = Deny(e, sid, 115)
    BY <1>5 DEF EcuUds
  <2> HIDE DEF t, one
  <2>6. Kept(Block(e, sid, t, one), e, sid)
    BY <2>3, <2>4, BlockKeeps
  <2>7. Kept(Deny(e, sid, 115), e, sid)
    <3>1. 115 \in {36, 49, 115}
      OBVIOUS
    <3> QED
      BY <3>1, DenyKeeps
  <2> QED
    BY <2>5, <2>6, <2>7
<1>6. CASE sid \notin {16, 25, 35, 61, 52, 53, 54}
  <2>1. EcuUds(e, sid, d) = EcuShared(e, sid, d)
    BY <1>6 DEF EcuUds
  <2>2. sid = 46 => Len(d) >= 2
    BY DEF WellFormed
  <2> QED
    BY <1>0, <2>1, <2>2, SharedKeeps
<1> QED
  BY <1>1, <1>2, <1>3, <1>4, <1>5, <1>6

\* And the ECU of KWP2000.
LEMMA KwpAnswers ==
  ASSUME NEW e, EcuOK(e), NEW sid \in 16 .. 135, sid # 20, NEW d, WellFormed("kwp", sid, d)
  PROVE  Kept(EcuKwp(e, sid, d), e, sid)
<1>0. d \in Seq(Int) /\ Len(d) \in Nat
  BY LenProperties DEF WellFormed
<1>1. CASE sid = 23 \/ sid = 24
  BY <1>1, KwpReports
<1>2. CASE sid \in {26, 33}
  <2> DEFINE k1 == <<"option", d[1]>>
             k2 == <<"lid", d[1]>>
  <2>1. k1 # CodesKey /\ k2 # CodesKey
    BY DEF CodesKey
  <2>2. EcuKwp(e, sid, d) = Give(e, sid, d, k1) \/ EcuKwp(e, sid, d) = Give(e, sid, d, k2)
    <3>1. CASE sid = 26
      BY <3>1 DEF EcuKwp
    <3>2. CASE sid = 33
      BY <3>2 DEF EcuKwp
    <3> QED
      BY <1>2, <3>1, <3>2
  <2> HIDE DEF k1, k2
  <2> QED
    BY <1>0, <2>1, <2>2, GiveKeeps
<1>3. CASE sid = 59 \/ sid \in 49 .. 51
  <2>1. Len(d) >= 1
    BY <1>3 DEF WellFormed
  <2>2. d # << >> /\ d[1] \in Int
    BY <1>0, <2>1, LenProperties
  <2> DEFINE t == Tail(d)
             one == <<d[1]>>
             k1 == <<"lid", d[1]>>
             k2 == <<"routine", d[1]>>
             pairs == <<<<k1, t>>>>
  <2>3. t \in Seq(Int)
    BY <1>0, <2>2, HeadTailProperties
  <2>4. one \in Seq(Int)
    BY <2>2
  <2>5. k1 # CodesKey /\ k2 # CodesKey
    BY DEF CodesKey
  <2>6. sid = 59 => EcuKwp(e, sid, d) = Take(e, sid, one, pairs)
    BY DEF EcuKwp
  <2>7. sid \in 49 .. 51 => EcuKwp(e, sid, d) = Give(e, sid, one, k2)
    BY DEF EcuKwp
  <2> HIDE DEF t, k1
  <2>8. WritesBytes(pairs)
    BY <2>3, <2>5 DEF WritesBytes
  <2> HIDE DEF one, k2, pairs
  <2> QED
    BY <1>3, <2>4, <2>5, <2>6, <2>7, <2>8, TakeKeeps, GiveKeeps
<1>4. CASE sid = 35
  <2>1. Len(d) = 4
    BY <1>4 DEF WellFormed
  <2>a. 4 \in 1 .. Len(d)
    BY <2>1
  <2>2. d[4] \in Int
    BY <1>0, <2>a, LenProperties
  <2> DEFINE at == FromBytes(SubSeq(d, 1, 3))
             n == d[4]
  <2>3. EcuKwp(e, sid, d) = GiveMemory(e, sid, at, n)
    BY <1>4 DEF EcuKwp
  <2>4. n \in Int
    BY <2>2
  <2> HIDE DEF at, n
  <2> QED
    BY <2>3, <2>4, MemoryKeeps
<1>5. CASE sid \in {52, 53}
  <2> DEFINE at == FromBytes(SubSeq(d, 1, 3))
             n == FromBytes(SubSeq(d, 5, 7))
             k == <<"block">>
             b == e.data[k]
  <2>1. EcuKwp(e, sid, d) = Begin(e, sid, at, n, b)
    BY <1>5 DEF EcuKwp
  <2>2. k # CodesKey
    BY DEF CodesKey
  <2>3. k \in DOMAIN e.data
    BY Zenon DEF EcuOK, DataOK
  <2> HIDE DEF k
  <2>4. b \in Seq(Int)
    BY <2>2, <2>3, Zenon DEF EcuOK, DataOK
  <2> HIDE DEF at, n, b
  <2> QED
    BY <2>1, <2>4, BeginKeeps
<1>6. CASE sid = 54
  <2> DEFINE none == << >>
  <2>1. EcuKwp(e, sid, d) = Block(e, sid, d, none)
    BY <1>6 DEF EcuKwp
  <2>2. none \in Seq(Int)
    OBVIOUS
  <2> HIDE DEF none
  <2> QED
    BY <1>0, <2>1, <2>2, BlockKeeps
<1>7. CASE sid \notin {23, 24, 26, 33, 59, 49, 50, 51, 35, 52, 53, 54}
  <2>0. /\ sid # 20 /\ sid # 23 /\ sid # 24 /\ sid # 26 /\ sid # 33 /\ sid # 59 /\ sid # 35 /\ sid # 54
        /\ sid \notin 49 .. 51 /\ sid \notin {52, 53}
    BY <1>7
  <2>1. EcuKwp(e, sid, d) = EcuShared(e, sid, d)
    BY <2>0 DEF EcuKwp
  <2>2. sid = 46 => Len(d) >= 2
    BY DEF WellFormed
  <2> QED
    BY <1>0, <2>1, <2>2, SharedKeeps
<1> QED
  BY <1>1, <1>2, <1>3, <1>4, <1>5, <1>6, <1>7

\* The request that clears the codes clears them all, or none when refused.
Cleared(act, e) ==
  /\ EcuOK(act.ecu)
  /\ \/ Affirms(act.say, 20) /\ act.ecu.data[CodesKey] = << >>
     \/ Denied(act.say) /\ act.ecu.data[CodesKey] = e.data[CodesKey]

LEMMA Clears ==
  ASSUME NEW e, EcuOK(e), NEW d \in Seq(Int)
  PROVE  Cleared(EcuUds(e, 20, d), e) /\ Cleared(EcuKwp(e, 20, d), e)
<1> DEFINE none == << >>
           t1 == Take(e, 20, none, Clearing)
           t2 == Take(e, 20, d, Clearing)
           no == Deny(e, 20, 49)
<1>1. EcuUds(e, 20, d) = t1 \/ EcuUds(e, 20, d) = no
  BY DEF EcuUds, Clearing, CodesKey
<1>2. EcuKwp(e, 20, d) = t2 \/ EcuKwp(e, 20, d) = no
  BY DEF EcuKwp, Clearing, CodesKey
<1>3. none \in Seq(Int) /\ 20 \in 16 .. 135
  OBVIOUS
<1>4. Cleared(t1, e)
  <2> HIDE DEF none
  <2> QED
    BY <1>3, TakeClears DEF Cleared
<1>5. Cleared(t2, e)
  BY <1>3, TakeClears DEF Cleared
<1>6. Cleared(no, e)
  BY DenyKeeps DEF Cleared
<1> HIDE DEF t1, t2, no
<1> QED
  BY <1>1, <1>2, <1>4, <1>5, <1>6

\* A request that asks for silence is one that the ECU does not refuse.
LEMMA QuietIsPositive ==
  ASSUME NEW e, EcuOK(e), NEW sid \in 16 .. 135, NEW d \in Seq(Int)
  PROVE  /\ AskedToKeepQuiet("uds", sid, d) => Affirms(EcuUds(e, sid, d).say, sid)
         /\ AskedToKeepQuiet("kwp", sid, d) => Affirms(EcuKwp(e, sid, d).say, sid)
<1> DEFINE s == <<(sid + 64) % 256>> \o d
<1>1. Affirms(s, sid)
  BY FirstIsPositive
<1>2. Say(e, s).say = s
  BY DEF Say
<1>3. ASSUME sid \in {17, 40, 62, 133, 134, 135} PROVE EcuShared(e, sid, d) = Say(e, s)
  BY <1>3, SMTT(30) DEF EcuShared
<1> HIDE DEF s
<1>4. ASSUME AskedToKeepQuiet("uds", sid, d) PROVE Affirms(EcuUds(e, sid, d).say, sid)
  <2>1. sid \in {16, 17, 40, 62, 133, 134, 135}
    BY <1>4 DEF AskedToKeepQuiet, HasSubFunction
  <2>2. CASE sid = 16
    BY <2>2, UdsSessionAnswer
  <2>3. CASE sid # 16
    <3>0. /\ sid # 16 /\ sid # 20 /\ sid # 25 /\ sid # 35 /\ sid # 61 /\ sid # 54 /\ sid \notin {52, 53}
      BY <2>1, <2>3
    <3>1. EcuUds(e, sid, d) = EcuShared(e, sid, d)
      BY <3>0 DEF EcuUds
    <3> QED
      BY <1>1, <1>2, <1>3, <2>1, <2>3, <3>1
  <2> QED
    BY <2>2, <2>3
<1>5. ASSUME AskedToKeepQuiet("kwp", sid, d) PROVE Affirms(EcuKwp(e, sid, d).say, sid)
  <2>1. sid = 62
    BY <1>5 DEF AskedToKeepQuiet
  <2>2. EcuKwp(e, sid, d) = EcuShared(e, sid, d)
    BY <2>1 DEF EcuKwp
  <2> QED
    BY <1>1, <1>2, <1>3, <2>1, <2>2
<1> QED
  BY <1>4, <1>5

-----------------------------------------------------------------------------
(* A call over the transport.                                              *)

\* An answer that is no 0x78, to a service that has an answer of its own.
LEMMA NotPending ==
  ASSUME NEW sid \in 16 .. 135, sid # 63, NEW s, Affirms(s, sid) \/ Denied(s)
  PROVE  ~IsPending(s) /\ (Affirms(s, sid) => s[1] # 127)
<1>1. (sid + 64) % 256 # 127
  OBVIOUS
<1>2. ASSUME Denied(s) PROVE ~IsPending(s)
  <2>1. s[3] \in {36, 49, 115}
    BY <1>2 DEF Denied
  <2>2. s[3] # 120
    BY <2>1
  <2> QED
    BY <2>2 DEF IsPending
<1>3. ASSUME Affirms(s, sid) PROVE ~IsPending(s) /\ s[1] # 127
  <2>1. s[1] = (sid + 64) % 256
    BY <1>3 DEF Affirms
  <2>2. s[1] # 127
    BY <1>1, <2>1
  <2> QED
    BY <2>2 DEF IsPending
<1> QED
  BY <1>2, <1>3

\* What the ECU does about a call of the client l, before anything is lost.
Acts(l, e, c) == IF l = "uds" THEN EcuUds(e, c.sid, c.data) ELSE EcuKwp(e, c.sid, c.data)

Answered(act, e, c) ==
  /\ EcuOK(act.ecu)
  /\ Affirms(act.say, c.sid) \/ Denied(act.say)
  /\ c.sid # 20 => act.ecu.data[CodesKey] = e.data[CodesKey]
  /\ c.sid = 20 => Cleared(act, e)
  /\ ~c.expect => Affirms(act.say, c.sid)

LEMMA CallsAreAnswered ==
  ASSUME NEW l \in {"uds", "kwp"}, NEW e, EcuOK(e), NEW c, Proper(l, c), Fits(c.data)
  PROVE  Answered(Acts(l, e, c), e, c)
<1> DEFINE act == Acts(l, e, c)
           sid == c.sid
           d == c.data
<1>1. sid \in 16 .. 135 /\ WellFormed(l, sid, d) /\ Fits(d) /\ (c.expect <=> ~AskedToKeepQuiet(l, sid, d))
  BY DEF Proper
<1>2. d \in Seq(Int)
  BY <1>1 DEF WellFormed
<1>3. (l = "uds" /\ act = EcuUds(e, sid, d)) \/ (l = "kwp" /\ act = EcuKwp(e, sid, d))
  BY DEF Acts
<1> HIDE DEF act, sid, d
<1>4. ASSUME sid # 20 PROVE Kept(act, e, sid)
  <2>1. CASE l = "uds" /\ act = EcuUds(e, sid, d)
    <3>1. WellFormed("uds", sid, d)
      BY <1>1, <2>1
    <3> QED
      BY <1>1, <1>4, <2>1, <3>1, UdsAnswers
  <2>2. CASE l = "kwp" /\ act = EcuKwp(e, sid, d)
    <3>1. WellFormed("kwp", sid, d)
      BY <1>1, <2>2
    <3> QED
      BY <1>1, <1>4, <2>2, <3>1, KwpAnswers
  <2> QED
    BY <1>3, <2>1, <2>2
<1>5. ASSUME sid = 20 PROVE Cleared(act, e) /\ (Affirms(act.say, sid) \/ Denied(act.say))
  <2>1. Cleared(EcuUds(e, 20, d), e) /\ Cleared(EcuKwp(e, 20, d), e)
    BY <1>2, Clears
  <2>2. Cleared(act, e)
    BY <1>3, <1>5, <2>1
  <2> QED
    BY <1>5, <2>2 DEF Cleared
<1>6. ASSUME ~c.expect PROVE Affirms(act.say, sid)
  <2>1. AskedToKeepQuiet(l, sid, d)
    BY <1>1, <1>6
  <2>2. /\ AskedToKeepQuiet("uds", sid, d) => Affirms(EcuUds(e, sid, d).say, sid)
        /\ AskedToKeepQuiet("kwp", sid, d) => Affirms(EcuKwp(e, sid, d).say, sid)
    BY <1>1, <1>2, QuietIsPositive
  <2> QED
    BY <1>3, <2>1, <2>2
<1>7. EcuOK(act.ecu) /\ (Affirms(act.say, sid) \/ Denied(act.say))
  BY <1>4, <1>5 DEF Kept, Cleared
<1>8. sid # 20 => act.ecu.data[CodesKey] = e.data[CodesKey]
  BY <1>4 DEF Kept
<1> QED
  BY <1>5, <1>6, <1>7, <1>8 DEF Answered, act, sid, d

\* How many replies a call takes.
Waits(replies) == Min({Len(replies) + 1} \cup {k \in DOMAIN replies : ~IsPending(replies[k])})

LEMMA OneAfterPending ==
  ASSUME NEW s, NEW n \in Nat, DOMAIN s = 1 .. n + 1, Len(s) = n + 1,
         \A k \in 1 .. n : IsPending(s[k]), ~IsPending(s[n + 1])
  PROVE  Waits(s) = n + 1
<1> DEFINE W == {Len(s) + 1} \cup {k \in DOMAIN s : ~IsPending(s[k])}
<1>1. n + 1 \in W
  <2>1. n + 1 \in DOMAIN s
    OBVIOUS
  <2> QED
    BY <2>1
<1>2. ASSUME NEW k \in W PROVE k \in Nat /\ n + 1 <= k
  <2>1. CASE k = Len(s) + 1
    BY <2>1
  <2>2. CASE k \in DOMAIN s /\ ~IsPending(s[k])
    <3>1. k \in 1 .. n + 1 /\ k \notin 1 .. n
      BY <2>2
    <3> QED
      BY <3>1
  <2> QED
    BY <2>1, <2>2
<1> HIDE DEF W
<1> DEFINE w == Min(W)
<1>3. w = CHOOSE x \in W : \A y \in W : x <= y
  BY DEF Min
<1>4. n + 1 \in W /\ \A y \in W : n + 1 <= y
  BY <1>1, <1>2
<1>5. w \in W /\ \A y \in W : w <= y
  BY <1>3, <1>4
<1>6. w <= n + 1 /\ n + 1 <= w /\ w \in Nat
  BY <1>1, <1>2, <1>5
<1>7. w = n + 1
  BY <1>6
<1> QED
  BY <1>7 DEF Waits, W

LEMMA OnlyPending ==
  ASSUME NEW s, NEW n \in Nat, DOMAIN s = 1 .. n, Len(s) = n, \A k \in 1 .. n : IsPending(s[k])
  PROVE  Waits(s) = n + 1
<1>1. {Len(s) + 1} \cup {k \in DOMAIN s : ~IsPending(s[k])} = {n + 1}
  OBVIOUS
<1>2. Min({n + 1}) = n + 1
  BY DEF Min
<1> QED
  BY <1>1, <1>2 DEF Waits

\* What a call makes of the replies when an answer comes, and when none does.
LEMMA OutcomeOfAnswer ==
  ASSUME NEW c, NEW s, NEW n \in Nat, DOMAIN s = 1 .. n + 1, Len(s) = n + 1,
         \A k \in 1 .. n : IsPending(s[k]), ~IsPending(s[n + 1])
  PROVE  LET got == Outcome(c, s)
         IN  /\ got.kind \notin {"timeout", "quiet"}
             /\ got.kind = "value" => /\ got.took = n + 1 /\ got.value = Parse(c, Tail(s[n + 1]))
                                      /\ s[n + 1][1] # 127 /\ s[n + 1][1] = (c.sid + 64) % 256
             /\ got.kind = "refused" => s[n + 1][1] = 127
<1>1. Waits(s) = n + 1
  BY OneAfterPending
<1> DEFINE m == n + 1
           last == s[m]
           v == Parse(c, Tail(last))
<1>2. Min({Len(s) + 1} \cup {k \in DOMAIN s : ~IsPending(s[k])}) = m
  BY <1>1 DEF Waits
<1>3. ~(m > Len(s))
  OBVIOUS
<1> HIDE DEF v, m
<1> DEFINE code == IF Len(last) >= 3 THEN last[3] ELSE \h10
           many == m > MaxPending + 1
           got == Outcome(c, s)
<1>4. got = IF many THEN [[kind |-> "tooManyPending", value |-> << >>, took |-> m] EXCEPT !.took = MaxPending + 1]
            ELSE IF last[1] = \h7F THEN [kind |-> "refused", value |-> <<code, code \in KnownNrc>>, took |-> m]
            ELSE IF last[1] = (c.sid + 64) % 256 THEN [kind |-> "value", value |-> v, took |-> m]
            ELSE [kind |-> "unexpected", value |-> << >>, took |-> m]
  BY <1>2, <1>3 DEF Outcome, v
<1> HIDE DEF code, many, got
<1>5. /\ got.kind \notin {"timeout", "quiet"}
      /\ got.kind = "value" => got.took = m /\ got.value = v /\ last[1] # 127 /\ last[1] = (c.sid + 64) % 256
      /\ got.kind = "refused" => last[1] = 127
  <2>1. CASE many
    BY <1>4, <2>1
  <2>2. CASE ~many /\ last[1] = 127
    BY <1>4, <2>2
  <2>3. CASE ~many /\ last[1] # 127 /\ last[1] = (c.sid + 64) % 256
    BY <1>4, <2>3
  <2>4. CASE ~many /\ last[1] # 127 /\ last[1] # (c.sid + 64) % 256
    BY <1>4, <2>4
  <2> QED
    BY <2>1, <2>2, <2>3, <2>4
<1> QED
  BY <1>5 DEF got, v, m

LEMMA OutcomeOfNone ==
  ASSUME NEW c, NEW s, NEW n \in Nat, DOMAIN s = 1 .. n, Len(s) = n, \A k \in 1 .. n : IsPending(s[k])
  PROVE  Outcome(c, s).kind \in {"timeout", "tooManyPending"}
<1>1. Waits(s) = n + 1
  BY OnlyPending
<1>2. Min({Len(s) + 1} \cup {k \in DOMAIN s : ~IsPending(s[k])}) = n + 1
  BY <1>1 DEF Waits
<1>3. n + 1 > Len(s)
  OBVIOUS
<1> DEFINE many == n + 1 > MaxPending + 1
           got == Outcome(c, s)
<1>4. got = IF many THEN [[kind |-> "tooManyPending", value |-> << >>, took |-> n + 1] EXCEPT !.took = MaxPending + 1]
            ELSE [[kind |-> "timeout", value |-> << >>, took |-> n + 1] EXCEPT !.took = Len(s)]
  BY <1>2, <1>3 DEF Outcome
<1> HIDE DEF many, got
<1>5. got.kind \in {"timeout", "tooManyPending"}
  BY <1>4
<1> QED
  BY <1>5 DEF got

\* So many times 0x78, and an answer after it.
Pend(c, n) == [i \in 1 .. n |-> <<\h7F, c.sid, \h78>>]

LEMMA PendIs ==
  ASSUME NEW c, NEW n \in Nat
  PROVE  /\ DOMAIN Pend(c, n) = 1 .. n /\ Len(Pend(c, n)) = n
         /\ \A k \in 1 .. n : IsPending(Pend(c, n)[k])
<1> DEFINE x == <<127, c.sid, 120>>
           p == Pend(c, n)
<1>1. IsPending(x)
  BY DEF IsPending
<1>2. p = [i \in 1 .. n |-> x]
  BY DEF Pend
<1> HIDE DEF x, p
<1>3. p \in [1 .. n -> {x}]
  BY <1>2
<1>4. p \in Seq({x}) /\ Len(p) = n
  BY <1>3, MapSeq
<1>5. \A k \in 1 .. n : p[k] = x
  BY <1>2
<1> QED
  BY <1>1, <1>2, <1>4, <1>5 DEF p

LEMMA AnswerIs ==
  ASSUME NEW c, NEW n \in Nat, NEW x, NEW s, s = Append(Pend(c, n), x) \/ s = Pend(c, n) \o <<x>>
  PROVE  /\ DOMAIN s = 1 .. n + 1 /\ Len(s) = n + 1 /\ s[n + 1] = x
         /\ \A k \in 1 .. n : IsPending(s[k])
<1> DEFINE p == Pend(c, n)
           T == {p[k] : k \in 1 .. n} \cup {x}
           one == <<x>>
<1>1. DOMAIN p = 1 .. n /\ Len(p) = n /\ \A k \in 1 .. n : IsPending(p[k])
  BY PendIs
<1>2. p \in [1 .. n -> T]
  <2>1. p = [i \in 1 .. n |-> p[i]]
    BY DEF Pend
  <2> HIDE DEF p
  <2> QED
    BY <2>1
<1> HIDE DEF p, T
<1>3. p \in Seq(T)
  BY <1>2, MapSeq
<1>4. x \in T
  BY DEF T
<1>5. one \in Seq(T) /\ Len(one) = 1 /\ one[1] = x
  BY <1>4
<1> HIDE DEF one
<1>6. CASE s = Append(p, x)
  <2>1. s \in Seq(T) /\ Len(s) = Len(p) + 1 /\ (\A i \in 1 .. Len(p) : s[i] = p[i]) /\ s[Len(p) + 1] = x
    BY <1>3, <1>4, <1>6, AppendProperties
  <2>2. Len(s) = n + 1 /\ DOMAIN s = 1 .. n + 1
    BY <1>1, <2>1, LenProperties
  <2> QED
    BY <1>1, <2>1, <2>2
<1>7. CASE s = p \o one
  <2>1. /\ s \in Seq(T) /\ Len(s) = Len(p) + Len(one) /\ (\A i \in 1 .. Len(p) : s[i] = p[i])
        /\ \A i \in 1 .. Len(one) : s[Len(p) + i] = one[i]
    <3>1. p \in Seq(T) /\ one \in Seq(T)
      BY <1>3, <1>5
    <3>2. /\ p \o one \in Seq(T) /\ Len(p \o one) = Len(p) + Len(one) /\ (\A i \in 1 .. Len(p) : (p \o one)[i] = p[i])
          /\ \A i \in 1 .. Len(one) : (p \o one)[Len(p) + i] = one[i]
      BY ONLY <3>1, Joined
    <3> QED
      BY <1>7, <3>2
  <2>2. Len(s) = n + 1 /\ DOMAIN s = 1 .. n + 1
    BY <1>1, <1>5, <2>1, LenProperties
  <2>3. s[n + 1] = x
    <3>1. 1 \in 1 .. Len(one)
      BY <1>5
    <3>2. s[Len(p) + 1] = one[1]
      BY <2>1, <3>1
    <3> QED
      BY <1>1, <1>5, <3>2
  <2> QED
    BY <1>1, <2>1, <2>2, <2>3
<1> QED
  BY <1>6, <1>7 DEF p, one

\* The replies to a call that end in x, or in nothing.
EndsIn(s, n, x) ==
  DOMAIN s = 1 .. n + 1 /\ Len(s) = n + 1 /\ s[n + 1] = x /\ \A k \in 1 .. n : IsPending(s[k])
EndsEarly(s, n) == DOMAIN s = 1 .. n /\ Len(s) = n /\ \A k \in 1 .. n : IsPending(s[k])

\* What Serve does about a call: acts or not, and says its answer or not.
Refused(c) == <<\h7F, c.sid, \h22>>
ServedAs(served, e, c, n, fault, act) ==
  /\ fault = "refuses" => served.ecu = e /\ EndsIn(served.say, n, Refused(c))
  /\ fault # "refuses" => served.ecu = act.ecu /\ (EndsIn(served.say, n, act.say) \/ EndsEarly(served.say, n))
  /\ fault = "none" /\ c.expect => EndsIn(served.say, n, act.say)
  /\ fault = "none" /\ ~c.expect => EndsEarly(served.say, n)

LEMMA ServeIs ==
  ASSUME NEW c, NEW n \in Nat, NEW fault, Proper(lang, c), lang \in {"uds", "kwp"},
         Answered(Acts(lang, ecu, c), ecu, c)
  PROVE  ServedAs(Serve(c, n, fault), ecu, c, n, fault, Acts(lang, ecu, c))
<1> DEFINE act == Acts(lang, ecu, c)
           p == Pend(c, n)
           quiet == AskedToKeepQuiet(lang, c.sid, c.data)
           served == Serve(c, n, fault)
           silent == fault = "loses" \/ (quiet /\ act.say[1] # 127)
<1>1. served = IF fault = "refuses" THEN [say |-> p \o <<Refused(c)>>, ecu |-> ecu]
               ELSE [ecu |-> act.ecu, say |-> IF silent THEN p ELSE Append(p, act.say)]
  BY DEF Serve, Acts, Pend, Refused
<1>2. c.expect <=> ~quiet
  BY DEF Proper
<1>3. ~c.expect => act.say[1] # 127
  <2>1. c.sid \in 16 .. 135 /\ c.sid # 63
    BY DEF Proper
  <2>2. ~c.expect => Affirms(act.say, c.sid)
    BY DEF Answered
  <2> HIDE DEF act
  <2> QED
    BY <2>1, <2>2, NotPending
<1>4. EndsEarly(p, n)
  BY PendIs DEF EndsEarly
<1>5. EndsIn(Append(p, act.say), n, act.say)
  <2> HIDE DEF act
  <2> QED
    BY AnswerIs DEF EndsIn
<1>6. EndsIn(p \o <<Refused(c)>>, n, Refused(c))
  <2> DEFINE r == Refused(c)
  <2> HIDE DEF r
  <2>1. EndsIn(p \o <<r>>, n, r)
    BY AnswerIs DEF EndsIn
  <2> QED
    BY <2>1 DEF r
<1> HIDE DEF act, p, quiet, served
<1>7. CASE fault = "refuses"
  <2>1. served.ecu = ecu /\ served.say = p \o <<Refused(c)>>
    BY <1>1, <1>7
  <2> QED
    BY <1>6, <1>7, <2>1 DEF ServedAs, served, act
<1>8. CASE fault # "refuses" /\ silent
  <2>1. served.ecu = act.ecu /\ served.say = p
    BY <1>1, <1>8
  <2>2. fault = "none" => ~c.expect
    BY <1>2, <1>8
  <2> QED
    BY <1>4, <1>8, <2>1, <2>2 DEF ServedAs, served, act
<1>9. CASE fault # "refuses" /\ ~silent
  <2>1. served.ecu = act.ecu /\ served.say = Append(p, act.say)
    BY <1>1, <1>9
  <2>2. fault = "none" => c.expect
    BY <1>2, <1>3, <1>9
  <2> QED
    BY <1>5, <1>9, <2>1, <2>2 DEF ServedAs, served, act
<1> QED
  BY <1>7, <1>8, <1>9

\* What the client makes of it.
GotAs(got, served, e, c, fault, act) ==
  /\ fault = "none" => /\ got.kind # "timeout"
                       /\ got.kind = "quiet" => Len(served.say) = 0
                       /\ got.kind = "value" => Drop(served.say, got.took) = << >>
  /\ got.kind = "value" => /\ served.ecu = act.ecu /\ got.value = Parse(c, Tail(act.say))
                           /\ Affirms(act.say, c.sid)
  /\ got.kind = "refused" => served.ecu = e \/ (served.ecu = act.ecu /\ Denied(act.say))
  /\ served.ecu = e \/ served.ecu = act.ecu

Quiet(replies) == [kind |-> "quiet", value |-> << >>, took |-> IF replies = << >> THEN 0 ELSE 1]

LEMMA GotIs ==
  ASSUME NEW c, NEW n \in Nat, n > 0 => c.expect, NEW fault, NEW e, NEW act, NEW served, NEW got,
         NEW l \in {"uds", "kwp"}, Proper(l, c), Answered(act, e, c), ServedAs(served, e, c, n, fault, act),
         got = IF c.expect THEN Outcome(c, served.say) ELSE Quiet(served.say)
  PROVE  GotAs(got, served, e, c, fault, act)
<1> DEFINE s == served.say
           x == s[n + 1]
<1>1. c.sid \in 16 .. 135 /\ c.sid # 63 /\ c.expect \in BOOLEAN
  BY DEF Proper
<1>2. Affirms(act.say, c.sid) \/ Denied(act.say)
  BY DEF Answered
<1>3. /\ ~IsPending(act.say) /\ (Affirms(act.say, c.sid) => act.say[1] # 127)
      /\ (Denied(act.say) => act.say[1] = 127)
  BY <1>1, <1>2, NotPending DEF Denied
<1>4. ~IsPending(Refused(c)) /\ Refused(c)[1] = 127
  BY DEF Refused, IsPending
<1>5. served.ecu = e \/ served.ecu = act.ecu
  BY DEF ServedAs
<1>6. CASE ~c.expect
  <2>1. got.kind = "quiet"
    BY <1>6 DEF Quiet
  <2>2. fault = "none" => Len(s) = 0
    <3>1. n = 0
      BY <1>6
    <3> QED
      BY <1>6, <3>1 DEF ServedAs, EndsEarly
  <2> QED
    BY <1>5, <2>1, <2>2 DEF GotAs
<1>7. CASE c.expect /\ EndsEarly(s, n)
  <2>1. got.kind \in {"timeout", "tooManyPending"}
    BY <1>7, OutcomeOfNone DEF EndsEarly
  <2>2. fault # "none"
    <3>1. fault = "none" => Len(s) = n + 1 /\ Len(s) = n
      BY <1>7 DEF ServedAs, EndsIn, EndsEarly
    <3> QED
      BY <3>1
  <2> QED
    BY <1>5, <2>1, <2>2 DEF GotAs
<1>8. CASE c.expect /\ \E z \in {act.say, Refused(c)} : EndsIn(s, n, z)
  <2>1. PICK z \in {act.say, Refused(c)} : EndsIn(s, n, z)
    BY <1>8
  <2>2. x = z /\ ~IsPending(x) /\ Len(s) = n + 1 /\ DOMAIN s = 1 .. n + 1 /\ \A k \in 1 .. n : IsPending(s[k])
    BY <1>3, <1>4, <2>1 DEF EndsIn
  <2> HIDE DEF s
  <2>3. got = Outcome(c, s)
    BY <1>8 DEF s
  <2>4. /\ got.kind \notin {"timeout", "quiet"}
        /\ got.kind = "value" => /\ got.took = n + 1 /\ got.value = Parse(c, Tail(x))
                                 /\ x[1] # 127 /\ x[1] = (c.sid + 64) % 256
        /\ got.kind = "refused" => x[1] = 127
    BY <2>2, <2>3, OutcomeOfAnswer
  <2>5. got.kind = "value" => Drop(s, got.took) = << >>
    <3>1. SUFFICES ASSUME got.kind = "value" PROVE Drop(s, n + 1) = << >>
      BY <2>4
    <3>2. Drop(s, n + 1) = SubSeq(s, n + 2, n + 1)
      BY <2>2 DEF Drop
    <3>3. SubSeq(s, n + 2, n + 1) = << >>
      OBVIOUS
    <3> QED
      BY <3>2, <3>3
  <2>6. fault = "refuses" => x = Refused(c)
    BY <2>2 DEF ServedAs, EndsIn, s
  <2>7. fault # "refuses" => x = act.say /\ served.ecu = act.ecu
    <3>1. ASSUME EndsEarly(s, n) PROVE FALSE
      BY <2>2, <3>1 DEF EndsEarly
    <3> QED
      BY <3>1 DEF ServedAs, EndsIn, s
  <2>8. fault = "refuses" => served.ecu = e
    BY DEF ServedAs
  <2>9. got.kind = "value" => served.ecu = act.ecu /\ got.value = Parse(c, Tail(act.say)) /\ Affirms(act.say, c.sid)
    BY <1>2, <1>3, <1>4, <2>4, <2>6, <2>7
  <2>10. got.kind = "refused" => served.ecu = e \/ (served.ecu = act.ecu /\ Denied(act.say))
    BY <1>2, <1>3, <2>4, <2>6, <2>7, <2>8
  <2> QED
    BY <1>5, <2>4, <2>5, <2>9, <2>10 DEF GotAs, s
<1>9. c.expect => EndsEarly(s, n) \/ \E z \in {act.say, Refused(c)} : EndsIn(s, n, z)
  BY DEF ServedAs
<1> QED
  BY <1>1, <1>6, <1>7, <1>8, <1>9

\* A request for codes is answered with those that were asked for.
Asked(c, codes) ==
  [i \in DOMAIN AskedFor(c, codes) |->
     IF c.as = "uds_dtcs" THEN AskedFor(c, codes)[i] ELSE [AskedFor(c, codes)[i] EXCEPT !.fault = 0]]

LEMMA CodesReported ==
  ASSUME NEW l, NEW e, EcuOK(e), NEW c, Proper(l, c), c.as \in {"uds_dtcs", "kwp_dtcs"}
  PROVE  Parse(c, Tail(Acts(l, e, c).say)) = Asked(c, e.data[CodesKey])
<1> DEFINE d == c.data
           codes == e.data[CodesKey]
           act == Acts(l, e, c)
<1>1. WellFormed(l, c.sid, d) /\ CodesAreRecords(l, c)
  BY DEF Proper
<1>2. CASE c.as = "uds_dtcs"
  <2>1. l = "uds" /\ c.sid = 25 /\ c.skip = 2
    BY <1>1, <1>2 DEF CodesAreRecords
  <2>2. d[1] \in Int
    <3>1. d \in Seq(Int) /\ Len(d) >= 1
      BY <1>1, <2>1 DEF WellFormed
    <3>2. 1 \in 1 .. Len(d)
      BY <3>1, LenProperties
    <3> QED
      BY <3>1, <3>2, LenProperties
  <2> DEFINE held == IF d[1] = 2 THEN Matching(codes, d[2]) ELSE codes
             p == <<89, d[1], 255>>
  <2>3. act = EcuUds(e, 25, d)
    BY <2>1 DEF Acts
  <2>4. Len(p) = 3
    OBVIOUS
  <2>5. held = AskedFor(c, codes)
    BY <2>1 DEF AskedFor
  <2> HIDE DEF act, d
  <2>6. Reported(act, e, p, held, TRUE)
    BY <2>2, <2>3, UdsReport
  <2> HIDE DEF p, held, codes
  <2>7. held \in Seq(HeldCode) /\ p \in Seq(Int) /\ act.say = p \o CodeBytes(held, TRUE)
    BY <2>6 DEF Reported, Say
  <2>8. Len(p) = c.skip + 1 /\ c.skip \in Nat
    BY <2>1, <2>4
  <2>9. Parse(c, Tail(p \o CodeBytes(held, TRUE))) = [i \in DOMAIN held |-> held[i]]
    BY <1>2, <2>7, <2>8, UdsCodesRead
  <2>10. Asked(c, codes) = [i \in DOMAIN held |-> held[i]]
    BY <1>2, <2>5 DEF Asked
  <2> QED
    BY <2>7, <2>9, <2>10 DEF act, codes
<1>3. CASE c.as = "kwp_dtcs"
  <2>1. l = "kwp" /\ ((c.sid = 24 /\ c.skip = 1) \/ (c.sid = 23 /\ c.skip = 0))
    BY <1>1, <1>3 DEF CodesAreRecords
  <2> DEFINE held == IF c.sid = 24 THEN Matching(codes, d[1]) ELSE WithBytes(codes, d)
             p == IF c.sid = 24 THEN <<88, Len(Matching(codes, d[1]))>> ELSE <<87>>
  <2>3. act = EcuKwp(e, c.sid, d)
    BY <2>1 DEF Acts
  <2>4. Len(p) = c.skip + 1 /\ c.skip \in Nat
    BY <2>1
  <2>5. held = AskedFor(c, codes)
    BY <2>1 DEF AskedFor
  <2> HIDE DEF act, d
  <2>6. Reported(act, e, p, held, FALSE)
    <3>1. Reported(EcuKwp(e, 23, d), e, <<87>>, WithBytes(codes, d), FALSE)
      BY KwpReports
    <3>2. Reported(EcuKwp(e, 24, d), e, <<88, Len(Matching(codes, d[1]))>>, Matching(codes, d[1]), FALSE)
      BY KwpReports
    <3> HIDE DEF codes
    <3>3. CASE c.sid = 24
      <4>1. p = <<88, Len(Matching(codes, d[1]))>> /\ held = Matching(codes, d[1]) /\ act = EcuKwp(e, 24, d)
        BY <2>3, <3>3
      <4> QED
        BY <3>2, <4>1
    <3>4. CASE c.sid = 23
      <4>1. p = <<87>> /\ held = WithBytes(codes, d) /\ act = EcuKwp(e, 23, d)
        BY <2>3, <3>4
      <4> QED
        BY <3>1, <4>1
    <3> QED
      BY <2>1, <3>3, <3>4
  <2> HIDE DEF p, held, codes
  <2>7. held \in Seq(HeldCode) /\ p \in Seq(Int) /\ act.say = p \o CodeBytes(held, FALSE)
    BY <2>6 DEF Reported, Say
  <2>9. Parse(c, Tail(p \o CodeBytes(held, FALSE))) = [i \in DOMAIN held |-> [held[i] EXCEPT !.fault = 0]]
    BY <1>3, <2>4, <2>7, KwpCodesRead
  <2>10. Asked(c, codes) = [i \in DOMAIN held |-> [held[i] EXCEPT !.fault = 0]]
    BY <1>3, <2>5 DEF Asked
  <2> QED
    BY <2>7, <2>9, <2>10 DEF act, codes
<1> QED
  BY <1>2, <1>3

\* What a call teaches its caller about the codes.
LEMMA LearnsNothing ==
  ASSUME NEW c, LeavesCodes(c.writes), NEW kind
  PROVE  LET after == Learn(c, kind)
         IN  /\ CodesKey \in DOMAIN after => CodesKey \in DOMAIN ledger
             /\ CodesKey \in DOMAIN after => after[CodesKey] = ledger[CodesKey]
<1> DEFINE w == c.writes
           touched == {w[i][1] : i \in DOMAIN w}
           after == Learn(c, kind)
<1>1. CodesKey \notin touched
  BY DEF LeavesCodes, CodesKey
<1>2. CASE kind = "value"
  <2> DEFINE Written(k) == w[CHOOSE i \in DOMAIN w : w[i][1] = k][2]
             g == [k \in DOMAIN ledger \cup touched |-> IF k \in touched THEN Written(k) ELSE ledger[k]]
  <2>1. after = g
    BY <1>2 DEF Learn, PutAll
  <2> HIDE DEF after, touched, Written
  <2>2. CodesKey \in DOMAIN g => CodesKey \in DOMAIN ledger /\ g[CodesKey] = ledger[CodesKey]
    BY <1>1
  <2> QED
    BY <2>1, <2>2 DEF after
<1>3. CASE kind = "refused"
  BY <1>3 DEF Learn
<1>4. CASE kind # "value" /\ kind # "refused"
  <2> DEFINE g == [k \in DOMAIN ledger \ touched |-> ledger[k]]
  <2>1. after = g
    BY <1>4 DEF Learn
  <2> HIDE DEF after, touched
  <2>2. CodesKey \in DOMAIN g => CodesKey \in DOMAIN ledger /\ g[CodesKey] = ledger[CodesKey]
    OBVIOUS
  <2> QED
    BY <2>1, <2>2 DEF after
<1> QED
  BY <1>2, <1>3, <1>4

LEMMA LearnsOfClearing ==
  ASSUME NEW c, c.writes = Clearing, NEW kind
  PROVE  LET after == Learn(c, kind)
         IN  /\ kind = "value" => after[CodesKey] = << >>
             /\ kind = "refused" => after = ledger
             /\ kind \notin {"value", "refused"} => CodesKey \notin DOMAIN after
<1> DEFINE w == c.writes
           touched == {w[i][1] : i \in DOMAIN w}
           after == Learn(c, kind)
<1>1. DOMAIN w = {1} /\ w[1][1] = CodesKey /\ w[1][2] = << >>
  BY DEF Clearing
<1>2. ASSUME kind = "value" PROVE after[CodesKey] = << >>
  <2> DEFINE g == [k \in DOMAIN ledger \cup touched |->
                     IF k \in touched THEN w[CHOOSE i \in DOMAIN w : w[i][1] = k][2] ELSE ledger[k]]
  <2>1. after = g
    BY <1>2 DEF Learn, PutAll
  <2> HIDE DEF w, after
  <2>2. touched = {CodesKey} /\ (CHOOSE i \in DOMAIN w : w[i][1] = CodesKey) = 1
    BY <1>1
  <2> QED
    BY <1>1, <2>1, <2>2
<1>3. ASSUME kind = "refused" PROVE after = ledger
  BY <1>3 DEF Learn
<1>4. ASSUME kind \notin {"value", "refused"} PROVE CodesKey \notin DOMAIN after
  <2> DEFINE g == [k \in DOMAIN ledger \ touched |-> ledger[k]]
  <2>1. after = g
    BY <1>4 DEF Learn
  <2> HIDE DEF w, after
  <2>2. touched = {CodesKey}
    BY <1>1
  <2> QED
    BY <2>1, <2>2
<1> QED
  BY <1>2, <1>3, <1>4

\* What the caller knows of the codes is true.
CodesKnown == CodesKey \in DOMAIN ledger => ledger[CodesKey] = ecu.data[CodesKey]

LEMMA CodesStayKnown ==
  ASSUME NEW c, NEW l, Proper(l, c), CodesKnown, EcuOK(ecu), NEW act, Answered(act, ecu, c), NEW served, NEW got, NEW fault,
         GotAs(got, served, ecu, c, fault, act), ecu' = served.ecu, ledger' = Learn(c, got.kind)
  PROVE  CodesKnown' /\ EcuOK(ecu')
<1> DEFINE after == Learn(c, got.kind)
<1>0. EcuOK(ecu')
  BY DEF GotAs, Answered
<1>1. CASE c.sid # 20
  <2>1. LeavesCodes(c.writes)
    BY <1>1 DEF Proper
  <2>2. CodesKey \in DOMAIN after => CodesKey \in DOMAIN ledger /\ after[CodesKey] = ledger[CodesKey]
    BY <2>1, LearnsNothing, Zenon
  <2>3. served.ecu.data[CodesKey] = ecu.data[CodesKey]
    BY <1>1 DEF GotAs, Answered
  <2> HIDE DEF after
  <2>4. CodesKey \in DOMAIN after => after[CodesKey] = served.ecu.data[CodesKey]
    BY <2>2, <2>3 DEF CodesKnown
  <2> QED
    BY <1>0, <2>4 DEF CodesKnown, after
<1>2. CASE c.sid = 20
  <2>1. c.writes = Clearing
    BY <1>2 DEF Proper, Clearing, CodesKey
  <2>2. /\ got.kind = "value" => after[CodesKey] = << >>
        /\ got.kind = "refused" => after = ledger
        /\ got.kind \notin {"value", "refused"} => CodesKey \notin DOMAIN after
    BY <2>1, LearnsOfClearing
  <2>3. Cleared(act, ecu)
    BY <1>2 DEF Answered
  <2>4. ~(Affirms(act.say, 20) /\ Denied(act.say))
    <3>1. Affirms(act.say, 20) => act.say[1] = 84
      BY DEF Affirms
    <3>2. Denied(act.say) => act.say[1] = 127
      BY DEF Denied
    <3> QED
      BY <3>1, <3>2
  <2>5. got.kind = "value" => served.ecu.data[CodesKey] = << >>
    BY <1>2, <2>3, <2>4 DEF GotAs, Cleared
  <2>6. got.kind = "refused" => served.ecu.data[CodesKey] = ecu.data[CodesKey]
    BY <2>3, <2>4 DEF GotAs, Cleared
  <2> HIDE DEF after
  <2>7. CodesKey \in DOMAIN after => after[CodesKey] = served.ecu.data[CodesKey]
    BY <2>2, <2>5, <2>6 DEF CodesKnown
  <2> QED
    BY <1>0, <2>7 DEF CodesKnown, after
<1> QED
  BY <1>1, <1>2

\* What holds between the calls and after each of them.
SvcInv == lang \in {"uds", "kwp"} /\ EcuOK(ecu) /\ CodesKnown /\ CodesAreTheEcus /\ RepliesAreAwaited

\* The calls are those that the clients make, and the ECU has codes to report.
AsTheClientsCall ==
  /\ \A c \in UdsCalls : MadeByUds(c)
  /\ \A c \in KwpCalls : MadeByKwp(c)
  /\ Languages \subseteq {"uds", "kwp"} /\ Pendings \in Nat
  /\ DataOK(EcuData)

LEMMA SvcBegins ==
  ASSUME AsTheClientsCall, SvcInit
  PROVE  SvcInv
<1>1. lang \in {"uds", "kwp"}
  BY DEF SvcInit, AsTheClientsCall
<1>2. EcuOK(ecu)
  BY DEF SvcInit, EcuOK, AsTheClientsCall
<1>3. CodesKnown
  BY DEF SvcInit, CodesKnown
<1>4. CodesAreTheEcus
  BY DEF SvcInit, CodesAreTheEcus, NotCalled
<1>5. RepliesAreAwaited
  BY DEF SvcInit, RepliesAreAwaited, NotCalled
<1> QED
  BY <1>1, <1>2, <1>3, <1>4, <1>5 DEF SvcInv

LEMMA NothingSentStep ==
  ASSUME SvcInv, OpenFake \/ CloseFake \/ Consume \/ UNCHANGED svcVars \/ \E c \in UdsCalls \cup KwpCalls : NotSent(c)
  PROVE  SvcInv'
<1>1. UNCHANGED <<lang, followups, ecu, ledger>>
  BY DEF OpenFake, CloseFake, Consume, NotSent, svcVars
<1>2. lang' \in {"uds", "kwp"} /\ EcuOK(ecu') /\ CodesKnown'
  BY <1>1 DEF SvcInv, CodesKnown
<1>3. said' = said \/ said'.kind \in {"none", "transportError", "valueError"}
  <2>1. CASE OpenFake \/ CloseFake \/ UNCHANGED svcVars
    BY <2>1 DEF OpenFake, CloseFake, svcVars
  <2>2. CASE Consume
    BY <2>2 DEF Consume, NotCalled
  <2>3. CASE \E c \in UdsCalls \cup KwpCalls : NotSent(c)
    BY <2>3 DEF NotSent, NotCalled
  <2> QED
    BY <2>1, <2>2, <2>3
<1>4. CASE said' = said
  BY <1>1, <1>2, <1>4 DEF SvcInv, CodesAreTheEcus, RepliesAreAwaited
<1>5. CASE said'.kind \in {"none", "transportError", "valueError"}
  BY <1>2, <1>5 DEF SvcInv, CodesAreTheEcus, RepliesAreAwaited
<1> QED
  BY <1>3, <1>4, <1>5

LEMMA ExchangeStep ==
  ASSUME AsTheClientsCall, SvcInv, NEW c \in IF lang = "uds" THEN UdsCalls ELSE KwpCalls,
         NEW n \in 0 .. Pendings, NEW fault, Exchange(c, n, fault)
  PROVE  SvcInv'
<1> DEFINE served == Serve(c, n, fault)
           got == IF c.expect THEN Outcome(c, served.say) ELSE Quiet(served.say)
           act == Acts(lang, ecu, c)
<1>1. lang \in {"uds", "kwp"} /\ EcuOK(ecu) /\ CodesKnown
  BY DEF SvcInv
<1>2. n \in Nat /\ (n > 0 => c.expect) /\ Fits(c.data)
  BY DEF AsTheClientsCall, Exchange
<1>3. Proper(lang, c)
  <2>1. CASE lang = "uds"
    <3>1. MadeByUds(c)
      BY <2>1 DEF AsTheClientsCall
    <3> QED
      BY <1>2, <2>1, <3>1, UdsCallsAreProper
  <2>2. CASE lang = "kwp"
    <3>1. MadeByKwp(c)
      BY <2>2 DEF AsTheClientsCall
    <3> QED
      BY <1>2, <2>2, <3>1, KwpCallsAreProper
  <2> QED
    BY <1>1, <2>1, <2>2
<1>4. /\ ecu' = served.ecu /\ followups' = Drop(served.say, got.took) /\ ledger' = Learn(c, got.kind)
      /\ said' = [call |-> c, kind |-> got.kind, value |-> got.value, fault |-> fault, answers |-> Len(served.say)]
      /\ lang' = lang
  BY DEF Exchange, Delivered, Quiet
<1>5. Answered(act, ecu, c)
  BY <1>1, <1>2, <1>3, CallsAreAnswered
<1>6. ServedAs(served, ecu, c, n, fault, act)
  BY <1>1, <1>2, <1>3, <1>5, ServeIs
<1> HIDE DEF served, act
<1>7. GotAs(got, served, ecu, c, fault, act)
  BY <1>1, <1>2, <1>3, <1>5, <1>6, GotIs
<1> HIDE DEF got
<1>8. CodesKnown' /\ EcuOK(ecu')
  BY <1>1, <1>3, <1>4, <1>5, <1>7, CodesStayKnown
<1>9. RepliesAreAwaited'
  <2>1. said'.fault = fault /\ said'.kind = got.kind /\ said'.answers = Len(served.say)
    BY <1>4
  <2> QED
    BY <1>4, <1>7, <2>1 DEF RepliesAreAwaited, GotAs
<1>10. CodesAreTheEcus'
  <2>1. said'.call = c /\ said'.kind = got.kind /\ said'.value = got.value
    BY <1>4
  <2> SUFFICES ASSUME got.kind = "value", c.as \in {"uds_dtcs", "kwp_dtcs"}, CodesKey \in DOMAIN ledger'
               PROVE  got.value = Asked(c, ledger'[CodesKey])
    BY <2>1 DEF CodesAreTheEcus, Asked, CodesKey
  <2>2. Parse(c, Tail(act.say)) = Asked(c, ecu.data[CodesKey])
    BY <1>1, <1>3, CodesReported DEF act
  <2>3. c.sid # 20
    BY <1>3 DEF Proper, CodesAreRecords
  <2>4. ecu'.data[CodesKey] = ecu.data[CodesKey]
    BY <1>4, <1>5, <1>7, <2>3 DEF Answered, GotAs
  <2>5. ledger'[CodesKey] = ecu'.data[CodesKey]
    BY <1>8 DEF CodesKnown
  <2>6. got.value = Parse(c, Tail(act.say))
    BY <1>7 DEF GotAs
  <2> QED
    BY <2>2, <2>4, <2>5, <2>6
<1> QED
  BY <1>1, <1>4, <1>8, <1>9, <1>10 DEF SvcInv

LEMMA SvcStep ==
  ASSUME AsTheClientsCall, SvcInv, [SvcNext]_svcVars
  PROVE  SvcInv'
<1>1. CASE OpenFake \/ CloseFake \/ Consume \/ UNCHANGED svcVars
  BY <1>1, NothingSentStep
<1>2. CASE \E c \in IF lang = "uds" THEN UdsCalls ELSE KwpCalls : NotSent(c)
  <2>1. \E c \in UdsCalls \cup KwpCalls : NotSent(c)
    BY <1>2
  <2> QED
    BY <2>1, NothingSentStep
<1>3. CASE \E c \in IF lang = "uds" THEN UdsCalls ELSE KwpCalls :
             \E n \in 0 .. Pendings, fault \in {"none", "loses", "refuses"} : Exchange(c, n, fault)
  <2>1. PICK c \in IF lang = "uds" THEN UdsCalls ELSE KwpCalls, n \in 0 .. Pendings, fault \in {"none", "loses", "refuses"} :
               Exchange(c, n, fault)
    BY <1>3
  <2> QED
    BY <2>1, ExchangeStep
<1> QED
  BY <1>1, <1>2, <1>3 DEF SvcNext

\* So long as no answer gets lost, a call waits for one exactly when the ECU gives
\* one: _subfn and tester_present ask for silence in the request whenever the call
\* does not wait, and only then, so no call times out and none leaves an answer
\* behind for the next, whatever the arguments and however often the ECU says 0x78.
THEOREM NoAnswerIsMissed ==
  ASSUME AsTheClientsCall
  PROVE  SvcInit /\ [][SvcNext]_svcVars => []RepliesAreAwaited
<1>1. SvcInit => SvcInv
  BY SvcBegins
<1>2. SvcInv /\ [SvcNext]_svcVars => SvcInv'
  BY SvcStep
<1>3. SvcInv => RepliesAreAwaited
  BY DEF SvcInv
<1> QED
  BY <1>1, <1>2, <1>3, PTL

\* The trouble codes that a call of either client returns are those the ECU holds
\* and was asked for, in their order and with their flags, after any calls before
\* it, a clear that was lost or refused among them: the records of four and three
\* bytes behind their headers are cut where the ECU put them together.
THEOREM CodesAreReadRight ==
  ASSUME AsTheClientsCall
  PROVE  SvcInit /\ [][SvcNext]_svcVars => []CodesAreTheEcus
<1>1. SvcInit => SvcInv
  BY SvcBegins
<1>2. SvcInv /\ [SvcNext]_svcVars => SvcInv'
  BY SvcStep
<1>3. SvcInv => CodesAreTheEcus
  BY DEF SvcInv
<1> QED
  BY <1>1, <1>2, <1>3, PTL

-----------------------------------------------------------------------------
(* The session log.                                                        *)

USE BoundsAssumption

\* Nothing has been counted or exported for session p.
Fresh(p) == saves[p] = 0 /\ saved[p] = 0 /\ atExit[p] = 0 /\ p \notin given

\* A session that has not been enabled has left no trace; it can have crashed
\* before, but under another number.
TracesInv ==
  /\ saved \in [Sessions -> Nat] /\ atExit \in [Sessions -> Nat]
  /\ phase # "none" => session \in Sessions
  /\ \A p \in Sessions :
       (p > session \/ (p = session /\ phase \in {"asking", "off"})) => Fresh(p)

\* The workers inside save_session have been counted, and have not appended.
WorkersInv ==
  /\ Enabled => saved[session] + creating + saving <= saves[session]
  /\ ~Enabled => creating = 0 /\ saving = 0

\* What the runtime directory holds at each stage of a session's life: until it
\* is purged, no worker creates the file twice unless two met there.
DiskInv ==
  /\ Enabled => OwnedBy(jsonl, session)
  /\ phase \in {"on", "convert", "dialog", "purge", "rmdir"} => dir
  /\ phase \in {"on", "convert"} =>
       /\ saving > 0 => file
       /\ session \notin crowded =>
            creating <= 1 /\ (creating = 1 => ~file) /\ Len(jsonl) = saved[session]
  /\ phase \in {"on", "convert", "dialog"} => session \notin given
  /\ phase = "dialog" =>
       OwnedBy(tmpCsv, session) /\ (session \notin crowded => Len(tmpCsv) >= atExit[session])
  /\ phase \in {"rmdir", "last"} =>
       tmpCsv = Nothing /\ Len(jsonl) <= late /\ late <= saved[session]

\* The inductive invariant.
LogInv == LogTypeOK /\ TracesInv /\ WorkersInv /\ DiskInv /\ ExportIsTheSession

-----------------------------------------------------------------------------
(* Tallies and records.                                                    *)

\* Counting one more for a session changes its tally and no other.
LEMMA CountOne ==
  ASSUME NEW n \in [Sessions -> Nat], NEW s \in Sessions
  PROVE  LET m == [n EXCEPT ![s] = @ + 1]
         IN  /\ m \in [Sessions -> Nat]
             /\ m[s] = n[s] + 1
             /\ \A p \in Sessions : p # s => m[p] = n[p]
OBVIOUS

\* A record appended to the session's own records leaves them its own.
LEMMA AppendOwned ==
  ASSUME NEW s \in Sessions, NEW q \in Seq(Sessions), OwnedBy(q, s)
  PROVE  /\ Append(q, s) \in Seq(Sessions)
         /\ Append(q, s) # Nothing
         /\ Len(Append(q, s)) = Len(q) + 1
         /\ OwnedBy(Append(q, s), s)
BY DEF OwnedBy, Nothing

\* A worker appends, or finds the directory gone; either way the program is
\* running under a session number, and the tallies go up together.
LEMMA AppendEffect ==
  ASSUME LogInv, AppendRecord
  PROVE  /\ Enabled /\ session \in Sessions
         /\ saving' = saving - 1 /\ saving' \in Nat
         /\ saved' \in [Sessions -> Nat]
         /\ \A p \in Sessions : p # session => saved'[p] = saved[p]
         /\ saved[session] <= saved'[session]
         /\ saved'[session] + creating + saving' <= saves[session]
         /\ jsonl' \in Seq(Sessions) /\ OwnedBy(jsonl', session)
         /\ ~dir => jsonl' = jsonl /\ file' = file
         /\ dir => file' /\ saved'[session] = saved[session] + 1 /\ Len(jsonl') = Len(jsonl) + 1
         /\ file' \in BOOLEAN /\ (~file' => jsonl' = Nothing)
         /\ phase \in {"rmdir", "last"} => Len(jsonl') <= late' /\ late' <= saved'[session]
         /\ late' \in 0 .. MaxSaves
<1>1. Enabled /\ session \in Sessions /\ OwnedBy(jsonl, session) /\ jsonl \in Seq(Sessions)
  BY DEF LogInv, LogTypeOK, WorkersInv, TracesInv, DiskInv, AppendRecord, Enabled
<1>2. saved \in [Sessions -> Nat] /\ saves[session] \in 0 .. MaxSaves /\ creating \in Nat /\ saving \in Nat
  BY <1>1 DEF LogInv, LogTypeOK, TracesInv
<1>3. saved[session] + creating + saving <= saves[session]
  BY <1>1 DEF LogInv, WorkersInv
<1>4. saving > 0 /\ saving' = saving - 1
  BY DEF LogInv, LogTypeOK, AppendRecord
<1>5. late \in 0 .. MaxSaves
  BY DEF LogInv, LogTypeOK
<1>6. phase \in {"rmdir", "last"} => Len(jsonl) <= late /\ late <= saved[session]
  BY DEF LogInv, DiskInv
<1>7. CASE dir
  <2>1. /\ file' = TRUE
        /\ jsonl' = Append(jsonl, session)
        /\ saved' = [saved EXCEPT ![session] = @ + 1]
        /\ late' = IF phase \in {"rmdir", "last"} THEN late + 1 ELSE late
    BY <1>7 DEF AppendRecord
  <2>2. /\ saved' \in [Sessions -> Nat]
        /\ saved'[session] = saved[session] + 1
        /\ \A p \in Sessions : p # session => saved'[p] = saved[p]
    BY <1>1, <1>2, <2>1, CountOne
  <2>3. /\ jsonl' \in Seq(Sessions) /\ OwnedBy(jsonl', session)
        /\ Len(jsonl') = Len(jsonl) + 1
    BY <1>1, <2>1, AppendOwned
  <2>4. saved[session] \in Nat /\ Len(jsonl) \in Nat
    BY <1>1, <1>2
  <2>5. /\ saving' \in Nat /\ saved[session] <= saved'[session]
        /\ saved'[session] + creating + saving' <= saves[session]
    BY <1>2, <1>3, <1>4, <2>2, <2>4
  <2>6. phase \in {"rmdir", "last"} => Len(jsonl') <= late' /\ late' <= saved'[session]
    BY <1>5, <1>6, <2>1, <2>2, <2>3, <2>4
  <2>7. late' \in 0 .. MaxSaves
    BY <1>2, <1>5, <2>1, <2>2, <2>4, <2>5, <2>6
  <2>8. QED
    BY <1>1, <1>4, <1>7, <2>1, <2>2, <2>3, <2>5, <2>6, <2>7
<1>8. CASE ~dir
  <2>1. UNCHANGED <<file, jsonl, saved, late>>
    BY <1>8 DEF AppendRecord
  <2>2. saved[session] \in Nat /\ file \in BOOLEAN /\ (~file => jsonl = Nothing)
    BY <1>1, <1>2 DEF LogInv, LogTypeOK
  <2>3. saving' \in Nat /\ saved'[session] + creating + saving' <= saves[session]
    BY <1>2, <1>3, <1>4, <2>1, <2>2
  <2>4. /\ saved' \in [Sessions -> Nat] /\ saved[session] <= saved'[session]
        /\ \A p \in Sessions : p # session => saved'[p] = saved[p]
    BY <1>2, <2>1, <2>2
  <2>5. QED
    BY <1>1, <1>4, <1>5, <1>6, <1>8, <2>1, <2>2, <2>3, <2>4
<1>9. QED
  BY <1>7, <1>8

\* A worker creates the file, or finds the directory gone: it goes on or is done,
\* and no more workers are inside save_session than before.
LEMMA CreateEffect ==
  ASSUME LogInv, CreateFile
  PROVE  /\ Enabled /\ session \in Sessions
         /\ creating' \in Nat /\ saving' \in Nat
         /\ creating' + saving' <= creating + saving
         /\ creating' + saving' <= MaxWorkers
         /\ saved[session] + creating' + saving' <= saves[session]
         /\ UNCHANGED <<session, phase, dir, tmpCsv, saves, saved, atExit, late, crowded, given, exported>>
<1>1. creating \in Nat /\ saving \in Nat /\ creating + saving <= MaxWorkers /\ MaxWorkers \in Nat
  BY DEF LogInv, LogTypeOK
<1>2. creating > 0 /\ creating' = creating - 1 /\ (saving' = saving + 1 \/ saving' = saving)
  BY DEF CreateFile
<1>3. Enabled /\ session \in Sessions
  BY <1>2 DEF LogInv, WorkersInv, TracesInv, Enabled
<1>4. saved[session] + creating + saving <= saves[session] /\ saved[session] \in Nat /\ saves[session] \in Nat
  BY <1>3 DEF LogInv, WorkersInv, TracesInv, LogTypeOK
<1>5. UNCHANGED <<session, phase, dir, tmpCsv, saves, saved, atExit, late, crowded, given, exported>>
  BY DEF CreateFile, tallies, exits
<1>6. QED
  BY <1>1, <1>2, <1>3, <1>4, <1>5

-----------------------------------------------------------------------------
(* The invariant is inductive.                                             *)

\* Every step keeps the type invariant.
LEMMA TypeStep == LogInv /\ LogNext => LogTypeOK'
<1> SUFFICES ASSUME LogInv, LogNext PROVE LogTypeOK'
  OBVIOUS
<1> USE DEF LogInv, LogTypeOK, TracesInv, WorkersInv, DiskInv, Enabled, workVars, diskVars, exits, tallies, Nothing
<1>1. CASE Launch
  BY <1>1, SMTT(30) DEF Launch
<1>2. CASE Refuse
  BY <1>2 DEF Refuse
<1>3. CASE Enable
  <2>1. jsonl' \in Seq(Sessions) /\ tmpCsv' \in Seq(Sessions)
    BY <1>3 DEF Enable
  <2>2. QED
    BY <1>3, <2>1 DEF Enable
<1>4. CASE SaveBegin
  <2>1. session \in Sessions
    BY <1>4 DEF SaveBegin
  <2>2. /\ saves' \in [Sessions -> 0 .. MaxSaves]
        /\ \A p \in Sessions : saves[p] <= saves'[p]
    BY <1>4, <2>1, SMTT(30) DEF SaveBegin
  <2>3. creating' \in Nat /\ saving' \in Nat /\ creating' + saving' <= MaxWorkers /\ crowded' \subseteq Sessions
    <3>1. creating \in Nat /\ saving \in Nat /\ creating + saving < MaxWorkers /\ MaxWorkers \in Nat
      BY <1>4 DEF SaveBegin
    <3>2. \/ saving' = saving + 1 /\ creating' = creating /\ crowded' = crowded
          \/ saving' = saving /\ creating' = creating + 1
             /\ crowded' = IF creating > 0 THEN crowded \cup {session} ELSE crowded
      BY <1>4 DEF SaveBegin
    <3> HIDE DEF LogInv
    <3>3. creating' \in Nat /\ saving' \in Nat /\ creating' + saving' <= MaxWorkers
      BY <3>1, <3>2
    <3>4. crowded \subseteq Sessions
      BY DEF LogInv
    <3>5. QED
      BY <2>1, <3>2, <3>3, <3>4
  <2>4. \A p \in Sessions : /\ atExit'[p] = atExit[p] /\ saved'[p] = saved[p]
                            /\ atExit[p] \in Nat /\ saved[p] \in Nat
                            /\ saves[p] \in Nat /\ saves'[p] \in Nat
    BY <1>4, <2>2 DEF SaveBegin
  <2>5. \A p \in Sessions : atExit'[p] <= saved'[p] /\ saved'[p] <= saves'[p]
    <3> SUFFICES ASSUME NEW p \in Sessions
                 PROVE  atExit'[p] <= saved'[p] /\ saved'[p] <= saves'[p]
      OBVIOUS
    <3>1. atExit[p] <= saved[p] /\ saved[p] <= saves[p] /\ saves[p] <= saves'[p]
      BY <2>2
    <3> HIDE DEF LogInv
    <3>2. QED
      BY <2>4, <3>1
  <2>6. QED
    BY <1>4, <2>2, <2>3, <2>5 DEF SaveBegin
<1>5. CASE AppendRecord
  <2> HIDE DEF LogInv, LogTypeOK, WorkersInv, DiskInv, TracesInv, Enabled
  <2>1. UNCHANGED <<session, phase, creating, dir, tmpCsv, saves, atExit, crowded, exits>>
    BY <1>5 DEF AppendRecord
  <2>2. \A p \in Sessions : atExit'[p] <= saved'[p] /\ saved'[p] <= saves'[p]
    <3> SUFFICES ASSUME NEW p \in Sessions
                 PROVE  atExit'[p] <= saved'[p] /\ saved'[p] <= saves'[p]
      OBVIOUS
    <3>1. /\ atExit[p] \in Nat /\ saved[p] \in Nat /\ saves[p] \in Nat /\ saved'[p] \in Nat
          /\ atExit[p] <= saved[p] /\ saved[p] <= saves[p]
      BY <1>5, AppendEffect DEF LogInv, LogTypeOK, TracesInv
    <3>2. CASE p = session
      <4>1. saving' \in Nat /\ creating \in Nat /\ saved'[p] + creating + saving' <= saves[p] /\ saved[p] <= saved'[p]
        BY <1>5, <3>2, AppendEffect DEF LogInv, LogTypeOK
      <4>2. QED
        BY <2>1, <3>1, <4>1
    <3>3. CASE p # session
      BY <1>5, <2>1, <3>1, <3>3, AppendEffect
    <3>4. QED
      BY <3>2, <3>3
  <2>3. ~dir' => ~file' /\ tmpCsv' = Nothing
    BY <1>5, <2>1, AppendEffect DEF LogInv, LogTypeOK
  <2>4. creating' + saving' <= MaxWorkers
    BY <1>5, <2>1, AppendEffect, BoundsAssumption DEF LogInv, LogTypeOK
  <2>5. QED
    BY <1>5, <2>1, <2>2, <2>3, <2>4, AppendEffect DEF LogInv, LogTypeOK, exits
<1>6. CASE ExitOff
  BY <1>6 DEF ExitOff
<1>7. CASE Export
  <2>1. session \in Sessions /\ dir
    BY <1>7 DEF Export
  <2>2. /\ UNCHANGED <<session, workVars, diskVars, saves, saved, late, crowded, exits>>
        /\ phase' \in {"purge", "convert"}
    BY <1>7 DEF Export
  <2>3. \A p \in Sessions : atExit'[p] <= saved'[p] /\ saved'[p] <= saves'[p]
    BY <1>7, <2>1 DEF Export
  <2> HIDE DEF TracesInv, WorkersInv, DiskInv, Enabled
  <2>4. /\ session' \in 0 .. MaxSessions
        /\ phase' \in {"none", "asking", "off", "on", "convert", "dialog", "purge", "rmdir", "last"}
        /\ creating' \in Nat /\ saving' \in Nat /\ creating' + saving' <= MaxWorkers
        /\ saves' \in [Sessions -> 0 .. MaxSaves] /\ late' \in 0 .. MaxSaves
        /\ crowded' \subseteq Sessions /\ given' \subseteq Sessions
        /\ exported' \in [Sessions -> Seq(Sessions)]
    BY <2>2
  <2>5. /\ dir' \in BOOLEAN /\ file' \in BOOLEAN
        /\ jsonl' \in Seq(Sessions) /\ tmpCsv' \in Seq(Sessions)
        /\ ~dir' => ~file' /\ tmpCsv' = Nothing
        /\ ~file' => jsonl' = Nothing
    BY <2>2
  <2> HIDE DEF LogInv
  <2>6. QED
    BY <2>3, <2>4, <2>5
<1>8. CASE Keep
  <2>1. session \in Sessions /\ tmpCsv \in Seq(Sessions) /\ exported \in [Sessions -> Seq(Sessions)]
    BY <1>8 DEF Keep
  <2>2. given' \subseteq Sessions /\ exported' \in [Sessions -> Seq(Sessions)]
    BY <1>8, <2>1 DEF Keep
  <2>3. /\ UNCHANGED <<session, workVars, dir, file, jsonl, saves, saved, late, crowded, atExit>>
        /\ phase' = "purge" /\ tmpCsv' = << >> /\ << >> \in Seq(Sessions)
    BY <1>8 DEF Keep
  <2> HIDE DEF TracesInv, WorkersInv, DiskInv, Enabled
  <2>4. QED
    BY <2>2, <2>3
<1>9. CASE Cancel
  BY <1>9 DEF Cancel
<1>10. CASE Purge
  <2>1. jsonl' \in Seq(Sessions) /\ tmpCsv' \in Seq(Sessions) /\ late' \in 0 .. MaxSaves
    BY <1>10 DEF Purge
  <2>2. UNCHANGED <<creating, saving, saves, saved, atExit, crowded, given, exported>>
    BY <1>10 DEF Purge
  <2>3. QED
    BY <1>10, <2>1, <2>2 DEF Purge
<1>11. CASE RemoveDir
  BY <1>11 DEF RemoveDir
<1>12. CASE ProcessEnds
  <2>1. creating' \in Nat /\ saving' \in Nat /\ creating' + saving' <= MaxWorkers
    BY <1>12 DEF ProcessEnds
  <2>2. UNCHANGED <<session, diskVars, tallies>> /\ phase' = "none"
    BY <1>12 DEF ProcessEnds
  <2>3. QED
    BY <2>1, <2>2
<1>13. CASE Crash
  <2>1. creating' \in Nat /\ saving' \in Nat /\ creating' + saving' <= MaxWorkers
    BY <1>13 DEF Crash
  <2>2. UNCHANGED <<session, diskVars, tallies>> /\ phase' = "none"
    BY <1>13 DEF Crash
  <2>3. QED
    BY <2>1, <2>2
<1>14. CASE CreateFile
  <2>1. file' \in BOOLEAN /\ jsonl' \in Seq(Sessions) /\ (~file' => jsonl' = Nothing) /\ (~dir => ~file')
    <3>1. CASE dir
      <4>1. file' = TRUE /\ jsonl' = << >> /\ << >> \in Seq(Sessions)
        BY <1>14, <3>1 DEF CreateFile
      <4>2. QED
        BY <3>1, <4>1
    <3>2. CASE ~dir
      <4>1. file' = file /\ jsonl' = jsonl
        BY <1>14, <3>2 DEF CreateFile
      <4>2. QED
        BY <3>2, <4>1
    <3>3. QED
      BY <3>1, <3>2
  <2>2. creating' \in Nat /\ saving' \in Nat /\ creating' + saving' <= MaxWorkers
    BY <1>14, CreateEffect
  <2>3. UNCHANGED <<session, phase, dir, tmpCsv, saves, saved, atExit, late, crowded, given, exported>>
    BY <1>14, CreateEffect
  <2> HIDE DEF LogInv, TracesInv, WorkersInv, DiskInv, Enabled
  <2>4. LogTypeOK
    BY DEF LogInv
  <2>5. QED
    BY <2>1, <2>2, <2>3, <2>4
<1>15. CASE Convert
  BY <1>15 DEF Convert
<1>16. QED
  BY <1>1, <1>2, <1>3, <1>4, <1>5, <1>6, <1>7, <1>8, <1>9, <1>10, <1>11, <1>12, <1>13, <1>14, <1>15 DEF LogNext

\* Every step keeps unused session numbers without a trace.
LEMMA TracesStep == LogInv /\ LogNext => TracesInv'
<1> SUFFICES ASSUME LogInv, LogNext PROVE TracesInv'
  OBVIOUS
<1> USE DEF LogInv, LogTypeOK, TracesInv, WorkersInv, DiskInv, Enabled, Fresh, workVars, diskVars, exits, tallies, Nothing
<1>1. CASE Launch
  <2>1. session' \in Sessions
    BY <1>1 DEF Launch, Sessions
  <2>2. \A p \in Sessions : (p > session' \/ p = session') => p > session
    BY <1>1 DEF Launch, Sessions
  <2>3. QED
    BY <1>1, <2>1, <2>2 DEF Launch
<1>2. CASE Refuse
  BY <1>2 DEF Refuse
<1>3. CASE Enable
  BY <1>3 DEF Enable
<1>4. CASE SaveBegin
  <2>1. session \in Sessions
    BY <1>4 DEF SaveBegin
  <2>2. \A p \in Sessions : p > session => saves'[p] = saves[p]
    BY <1>4, <2>1 DEF SaveBegin, Sessions
  <2>3. QED
    BY <1>4, <2>1, <2>2 DEF SaveBegin
<1>5. CASE AppendRecord
  <2>1. UNCHANGED <<session, phase, saves, atExit, given>>
    BY <1>5 DEF AppendRecord
  <2>2. \A p \in Sessions : p > session => p # session
    BY DEF Sessions
  <2> HIDE DEF LogInv
  <2>3. QED
    BY <1>5, <2>1, <2>2, AppendEffect DEF LogInv, exits
<1>6. CASE ExitOff
  BY <1>6 DEF ExitOff
<1>7. CASE Export
  BY <1>7 DEF Export
<1>8. CASE Keep
  <2>1. session \in Sessions
    BY <1>8 DEF Keep
  <2>2. \A p \in Sessions : p > session => (p \in given' <=> p \in given)
    BY <1>8, <2>1 DEF Keep, Sessions
  <2>3. QED
    BY <1>8, <2>1, <2>2 DEF Keep
<1>9. CASE Cancel
  BY <1>9 DEF Cancel
<1>10. CASE Purge
  BY <1>10 DEF Purge
<1>11. CASE RemoveDir
  BY <1>11 DEF RemoveDir
<1>12. CASE ProcessEnds
  BY <1>12 DEF ProcessEnds
<1>13. CASE Crash
  BY <1>13 DEF Crash
<1>14. CASE CreateFile
  BY <1>14 DEF CreateFile
<1>15. CASE Convert
  BY <1>15 DEF Convert
<1>16. QED
  BY <1>1, <1>2, <1>3, <1>4, <1>5, <1>6, <1>7, <1>8, <1>9, <1>10, <1>11, <1>12, <1>13, <1>14, <1>15 DEF LogNext

\* Every step keeps the count of the workers inside save_session.
LEMMA WorkersStep == LogInv /\ LogNext => WorkersInv'
<1> SUFFICES ASSUME LogInv, LogNext PROVE WorkersInv'
  OBVIOUS
<1> USE DEF LogInv, LogTypeOK, TracesInv, WorkersInv, DiskInv, Enabled, workVars, diskVars, exits, tallies, Nothing
<1>1. CASE Launch
  BY <1>1 DEF Launch
<1>2. CASE Refuse
  BY <1>2 DEF Refuse
<1>3. CASE Enable
  BY <1>3 DEF Enable
<1>4. CASE SaveBegin
  <2>1. session \in Sessions
    BY <1>4 DEF SaveBegin
  <2>2. saves'[session] = saves[session] + 1
    BY <1>4, <2>1 DEF SaveBegin
  <2>3. saved[session] \in Nat /\ saves[session] \in Nat
    BY <2>1
  <2>4. QED
    BY <1>4, <2>1, <2>2, <2>3 DEF SaveBegin
<1>5. CASE AppendRecord
  <2>1. UNCHANGED <<session, phase, creating, saves>>
    BY <1>5 DEF AppendRecord
  <2> HIDE DEF LogInv
  <2>2. QED
    BY <1>5, <2>1, AppendEffect
<1>6. CASE ExitOff
  BY <1>6 DEF ExitOff
<1>7. CASE Export
  BY <1>7 DEF Export
<1>8. CASE Keep
  BY <1>8 DEF Keep
<1>9. CASE Cancel
  BY <1>9 DEF Cancel
<1>10. CASE Purge
  BY <1>10 DEF Purge
<1>11. CASE RemoveDir
  BY <1>11 DEF RemoveDir
<1>12. CASE ProcessEnds
  BY <1>12 DEF ProcessEnds
<1>13. CASE Crash
  <2>1. ~Enabled' /\ creating' = 0 /\ saving' = 0
    BY <1>13 DEF Crash
  <2>2. QED
    BY <2>1
<1>14. CASE CreateFile
  BY <1>14, CreateEffect
<1>15. CASE Convert
  BY <1>15 DEF Convert
<1>16. QED
  BY <1>1, <1>2, <1>3, <1>4, <1>5, <1>6, <1>7, <1>8, <1>9, <1>10, <1>11, <1>12, <1>13, <1>14, <1>15 DEF LogNext

\* Every step keeps the directory what its stage needs.
LEMMA DiskStep == LogInv /\ LogNext => DiskInv'
<1> SUFFICES ASSUME LogInv, LogNext PROVE DiskInv'
  OBVIOUS
<1> USE DEF LogInv, LogTypeOK, TracesInv, WorkersInv, DiskInv, Enabled, Fresh, OwnedBy, workVars, diskVars, exits, tallies, Nothing
<1>1. CASE Launch
  BY <1>1 DEF Launch
<1>2. CASE Refuse
  BY <1>2 DEF Refuse
<1>3. CASE Enable
  BY <1>3 DEF Enable
<1>4. CASE SaveBegin
  <2>1. session \in Sessions /\ UNCHANGED <<session, phase, dir, file, jsonl, tmpCsv, saved, atExit, late, given>>
    BY <1>4 DEF SaveBegin
  <2>2. CASE file
    BY <1>4, <2>1, <2>2 DEF SaveBegin
  <2>3. CASE ~file /\ creating > 0
    BY <1>4, <2>1, <2>3 DEF SaveBegin
  <2>4. CASE ~file /\ creating = 0
    BY <1>4, <2>1, <2>4 DEF SaveBegin
  <2>5. QED
    BY <2>2, <2>3, <2>4
<1>5. CASE AppendRecord
  <2>1. UNCHANGED <<session, phase, creating, dir, tmpCsv, atExit, crowded, given>>
    BY <1>5 DEF AppendRecord
  <2>2. /\ saving > 0 /\ (phase \in {"on", "convert"} => file /\ dir)
        /\ (phase \in {"on", "convert"} /\ session \notin crowded =>
              creating <= 1 /\ (creating = 1 => ~file) /\ Len(jsonl) = saved[session])
    BY <1>5 DEF AppendRecord
  <2> HIDE DEF LogInv
  <2>3. QED
    BY <1>5, <2>1, <2>2, AppendEffect DEF LogInv, exits
<1>6. CASE ExitOff
  BY <1>6 DEF ExitOff
<1>7. CASE Export
  <2>1. session \in Sessions /\ (session \notin crowded => saved[session] = Len(jsonl))
    BY <1>7 DEF Export
  <2>2. atExit'[session] = saved[session]
    BY <1>7, <2>1 DEF Export
  <2>3. Len(jsonl) \in Nat
    OBVIOUS
  <2>4. QED
    BY <1>7, <2>1, <2>2, <2>3 DEF Export
<1>8. CASE Keep
  BY <1>8 DEF Keep
<1>9. CASE Cancel
  BY <1>9 DEF Cancel
<1>10. CASE Purge
  BY <1>10 DEF Purge
<1>11. CASE RemoveDir
  BY <1>11 DEF RemoveDir
<1>12. CASE ProcessEnds
  BY <1>12 DEF ProcessEnds
<1>13. CASE Crash
  <2>1. phase' = "none" /\ saved' = saved
    BY <1>13 DEF Crash
  <2> HIDE DEF LogInv, LogTypeOK, TracesInv, WorkersInv
  <2>2. QED
    BY <2>1
<1>14. CASE CreateFile
  BY <1>14 DEF CreateFile
<1>15. CASE Convert
  BY <1>15 DEF Convert
<1>16. QED
  BY <1>1, <1>2, <1>3, <1>4, <1>5, <1>6, <1>7, <1>8, <1>9, <1>10, <1>11, <1>12, <1>13, <1>14, <1>15 DEF LogNext

\* Every step keeps each export the session's own records.
LEMMA ExportStep == LogInv /\ LogNext => ExportIsTheSession'
<1> SUFFICES ASSUME LogInv, LogNext PROVE ExportIsTheSession'
  OBVIOUS
<1> USE DEF LogInv, LogTypeOK, TracesInv, WorkersInv, DiskInv, ExportIsTheSession, Fresh, Enabled, OwnedBy, workVars, diskVars, exits, tallies, Nothing
<1>1. CASE Launch
  BY <1>1 DEF Launch
<1>2. CASE Refuse
  BY <1>2 DEF Refuse
<1>3. CASE Enable
  BY <1>3 DEF Enable
<1>4. CASE SaveBegin
  BY <1>4 DEF SaveBegin
<1>5. CASE AppendRecord
  BY <1>5 DEF AppendRecord
<1>6. CASE ExitOff
  BY <1>6 DEF ExitOff
<1>7. CASE Export
  BY <1>7 DEF Export
<1>8. CASE Keep
  BY <1>8 DEF Keep
<1>9. CASE Cancel
  BY <1>9 DEF Cancel
<1>10. CASE Purge
  BY <1>10 DEF Purge
<1>11. CASE RemoveDir
  BY <1>11 DEF RemoveDir
<1>12. CASE ProcessEnds
  BY <1>12 DEF ProcessEnds
<1>13. CASE Crash
  BY <1>13 DEF Crash
<1>14. CASE CreateFile
  BY <1>14 DEF CreateFile
<1>15. CASE Convert
  BY <1>15 DEF Convert
<1>16. QED
  BY <1>1, <1>2, <1>3, <1>4, <1>5, <1>6, <1>7, <1>8, <1>9, <1>10, <1>11, <1>12, <1>13, <1>14, <1>15 DEF LogNext

\* The invariant holds at the start and every step keeps it.
LEMMA LogInductive == (LogInit => LogInv) /\ (LogInv /\ [LogNext]_logVars => LogInv')
<1>1. LogInit => LogInv
  <2> SUFFICES ASSUME LogInit PROVE LogInv
    OBVIOUS
  <2>1. LogTypeOK
    <3>1. /\ 0 \in 0 .. MaxSessions /\ 0 + 0 <= MaxWorkers /\ 0 \in 0 .. MaxSaves
          /\ Nothing \in Seq(Sessions)
      BY DEF Nothing
    <3>2. saves \in [Sessions -> 0 .. MaxSaves] /\ exported \in [Sessions -> Seq(Sessions)]
      BY <3>1 DEF LogInit
    <3>3. \A q \in Sessions : atExit[q] <= saved[q] /\ saved[q] <= saves[q]
      BY DEF LogInit
    <3>4. QED
      BY <3>1, <3>2, <3>3 DEF LogInit, LogTypeOK
  <2>2. TracesInv /\ WorkersInv /\ DiskInv
    BY DEF LogInit, TracesInv, WorkersInv, DiskInv, Fresh, Enabled
  <2>3. ExportIsTheSession
    BY DEF LogInit, ExportIsTheSession
  <2>4. QED
    BY <2>1, <2>2, <2>3 DEF LogInv
<1>2. LogInv /\ LogNext => LogInv'
  BY TypeStep, TracesStep, WorkersStep, DiskStep, ExportStep DEF LogInv
<1>3. LogInv /\ UNCHANGED logVars => LogInv'
  <2> SUFFICES ASSUME LogInv, UNCHANGED logVars PROVE LogInv'
    OBVIOUS
  <2>1. UNCHANGED <<session, phase, creating, saving, dir, file, jsonl, tmpCsv, saves, saved, atExit, late,
                    crowded, given, exported>>
    BY DEF logVars, workVars, diskVars, exits, tallies
  <2>2. LogTypeOK'
    BY <2>1 DEF LogInv, LogTypeOK
  <2>3. TracesInv'
    BY <2>1 DEF LogInv, TracesInv, Fresh
  <2>4. WorkersInv'
    BY <2>1 DEF LogInv, WorkersInv, Enabled
  <2>5. DiskInv'
    BY <2>1 DEF LogInv, DiskInv, OwnedBy, Enabled
  <2>6. ExportIsTheSession'
    BY <2>1 DEF LogInv, ExportIsTheSession, OwnedBy
  <2>7. QED
    BY <2>2, <2>3, <2>4, <2>5, <2>6 DEF LogInv
<1>4. QED
  BY <1>1, <1>2, <1>3

-----------------------------------------------------------------------------
(* The theorems.                                                           *)

\* The session log's variables keep their types; a directory that is gone
\* holds nothing, and no session has more records at exit than it saved.
THEOREM LogTypeCorrect == LogSpec => []LogTypeOK
<1>1. LogInv => LogTypeOK
  BY DEF LogInv
<1>2. QED
  BY <1>1, LogInductive, PTL DEF LogSpec

\* The file _export_and_purge hands the user holds only records of the session
\* just ended, none of an earlier one that crashed and left its file in the
\* directory; and all that were saved before it began to exit, unless two
\* workers of save_session had found no file at once.
THEOREM ExportsAreTheSessions == LogSpec => []ExportIsTheSession
<1>1. LogInv => ExportIsTheSession
  BY DEF LogInv
<1>2. QED
  BY <1>1, LogInductive, PTL DEF LogSpec

\* When the purge is over, the directory holds nothing but what daemon workers
\* appended after it began.
THEOREM CleanExits == LogSpec => []CleanExitLeavesNothing
<1>1. LogInv => CleanExitLeavesNothing
  <2> SUFFICES ASSUME LogInv, phase = "last"
               PROVE  Len(jsonl) + Len(tmpCsv) <= late
    BY DEF CleanExitLeavesNothing
  <2>1. tmpCsv = Nothing /\ Len(jsonl) <= late /\ late \in Nat
    BY DEF LogInv, LogTypeOK, DiskInv
  <2>2. QED
    BY <2>1 DEF Nothing
<1>2. QED
  BY <1>1, LogInductive, PTL DEF LogSpec
=============================================================================
