---------------------------- MODULE DiagServices ----------------------------
(***************************************************************************)
(* The diagnostic services of UDSClient (protocol/uds.py), KWP2000Client   *)
(* (protocol/kwp2000.py) and FordGDS (protocol/ford_gds.py): the bytes     *)
(* each call sends and what it makes of the bytes that come back, over the *)
(* FakeTransport of transport/fake.py and an ECU that reads and writes the *)
(* same bytes.  UdsClient has the request/response core in time; here one  *)
(* call is one step.                                                       *)
(*                                                                         *)
(* A call is a record: the request (sid, data), whether a response is      *)
(* expected, and how it is read (as, after skipping skip bytes).  reads    *)
(* and writes are history: what the caller asks of the ECU, as keys of     *)
(* ledger, which no step of the client reads.                              *)
(***************************************************************************)
EXTENDS ObdCodec, FiniteSets

CONSTANTS
  Languages,    \* the clients that call: "uds", "kwp"
  UdsCalls,     \* the calls of each
  KwpCalls,
  EcuData,      \* what the ECU holds at first under each key of ledger
  MaxSteps,     \* bound: calls made in a behaviour
  Pendings,     \* bound: how often the ECU may say 0x78 in one call
  MaxDisturbed, \* bound: exchanges with a 0x78, a lost answer or a refusal
  MaxPending    \* max_pending of both clients

VARIABLES
  lang,         \* the client in use, which is also the ECU's language
  isOpen,       \* FakeTransport._open
  followups,    \* FakeTransport._followups
  ecu,          \* the ECU: its data and the transfer in progress
  ledger,       \* history: what the ECU holds, going by the calls' results
  said,         \* the last call and what came of it, until the caller looks
  steps,        \* number of calls made
  disturbed     \* number of those the ECU did not answer at once

svcVars == <<lang, isOpen, followups, ecu, ledger, said, steps, disturbed>>

-----------------------------------------------------------------------------
(* Bytes.                                                                  *)

U16(n) == <<(n \div 256) % 256, n % 256>>
U24(n) == <<(n \div 65536) % 256>> \o U16(n)

\* int.to_bytes: a number too wide raises, like a byte above 255 in bytes([..]).
TooWide == <<256>>
ToBytes(n, width) ==
  IF n \div 256 ^ (width - 1) > 255 THEN TooWide
  ELSE [i \in 1 .. width |-> (n \div 256 ^ (width - i)) % 256]
FromBytes(s) == SumFunction([i \in DOMAIN s |-> s[i] * 256 ^ (Len(s) - i)])
Fits(s) == \A i \in DOMAIN s : s[i] \in 0 .. 255

SubFn(value, quiet) == IF quiet /\ value < 128 THEN value + 128 ELSE value

StatusBits == <<"testFailed", "testFailedThisOperationCycle", "pendingDTC", "confirmedDTC",
  "testNotCompletedSinceLastClear", "testFailedSinceLastClear",
  "testNotCompletedThisOperationCycle", "warningIndicatorRequested">>
DecodeStatus(s) == {StatusBits[i] : i \in {j \in 1 .. 8 : (s \div 2 ^ (j - 1)) % 2 = 1}}
DecodeUdsDtc(hi, mid, lo) == <<DecodeDtc(hi, mid), lo>>

-----------------------------------------------------------------------------
(* Calls.                                                                  *)

Call(sid, data) == [sid |-> sid, data |-> data, expect |-> TRUE, skip |-> 0, as |-> "bytes",
                    reads |-> << >>, writes |-> << >>]
Returning(c, as, skip) == [c EXCEPT !.as = as, !.skip = skip]
Quietly(c, quiet) == [c EXCEPT !.expect = ~quiet]
About(c, keys) == [c EXCEPT !.reads = keys]
Putting(c, pairs) == [c EXCEPT !.writes = pairs]
NoResult(c) == Returning(c, "none", 0)

MemKeys(addr, n) == [i \in 1 .. n |-> <<"mem", addr + i - 1>>]
Bytewise(addr, data) == [i \in DOMAIN data |-> <<<<"mem", addr + i - 1>>, <<data[i]>>>>]

(* UDSClient.                                                              *)

UdsSession(s, quiet) ==
  About(Returning(Quietly(Call(\h10, <<SubFn(s, quiet)>>), quiet), "timings", 0), <<<<"timings">>>>)
UdsReset(type, quiet) == Quietly(Call(\h11, <<SubFn(type, quiet)>>), quiet)
UdsClear(group) == Putting(NoResult(Call(\h14, U24(group))), <<<<<<"codes">>, << >>>>>>)
UdsDtcsByMask(mask) == Returning(Call(\h19, <<2, mask>>), "uds_dtcs", 2)
UdsSupportedDtcs == Returning(Call(\h19, <<\h0A>>), "uds_dtcs", 2)
UdsReadId(did) == About(Returning(Call(\h22, U16(did)), "bytes", 2), <<<<"did", did>>>>)
UdsReadMemory(addr, size, aw, sw) ==
  About(Call(\h23, <<sw * 16 + aw>> \o ToBytes(addr, aw) \o ToBytes(size, sw)), MemKeys(addr, size))
UdsScaling(did) == Call(\h24, U16(did))
RequestSeed(level) ==
  About(Returning(Call(\h27, <<level>>), "bytes", 1), <<<<"seed", level>>>>)
SendKey(level, key) == NoResult(Call(\h27, <<level + 1>> \o key))
UdsCommunication(type, comm, quiet) == Quietly(Call(\h28, <<SubFn(type, quiet), comm>>), quiet)
UdsAuthentication(sub, data) == Call(\h29, <<sub>> \o data)
UdsPeriodic(mode, dids) == Call(\h2A, <<mode>> \o dids)
UdsDefineId(sub, data) == Call(\h2C, <<sub>> \o data)
UdsWriteId(did, data) ==
  Putting(NoResult(Call(\h2E, U16(did) \o data)), <<<<<<"did", did>>, data>>>>)
UdsIoControl(did, param, data) == Call(\h2F, U16(did) \o <<param>> \o data)
UdsRoutine(type, id, data) == Call(\h31, <<type>> \o U16(id) \o data)
UdsTransfer(sid, addr, size, aw, sw) ==
  About(Returning(Call(sid, <<0, sw * 16 + aw>> \o ToBytes(addr, aw) \o ToBytes(size, sw)),
                  "block", 0), <<<<"block">>>>)
UdsTransferData(counter, addr, data) ==
  Putting(Call(\h36, <<counter % 256>> \o data), Bytewise(addr, data))
TransferExit(data) == Call(\h37, data)
UdsFileTransfer(mode, data) == Call(\h38, <<mode>> \o data)
UdsWriteMemory(addr, data, aw, sw) ==
  Putting(Call(\h3D, <<sw * 16 + aw>> \o ToBytes(addr, aw) \o ToBytes(Len(data), sw) \o data),
          Bytewise(addr, data))
UdsTesterPresent(quiet) == NoResult(Quietly(Call(\h3E, <<SubFn(0, quiet)>>), quiet))
UdsTiming(type, data) == Call(\h83, <<type>> \o data)
UdsSecured(data) == Call(\h84, data)
UdsDtcSetting(type, data, quiet) == NoResult(Quietly(Call(\h85, <<SubFn(type, quiet)>> \o data), quiet))
UdsOnEvent(type, data, quiet) == Quietly(Call(\h86, <<SubFn(type, quiet)>> \o data), quiet)
UdsLinkControl(type, data, quiet) == Quietly(Call(\h87, <<SubFn(type, quiet)>> \o data), quiet)

(* KWP2000Client.  Its clear_diagnostic_information sends a group of two   *)
(* bytes, its transfers name the format between address and size.          *)

KwpSession(s, data) == Call(\h10, <<s>> \o data)
KwpStopSession == NoResult(Call(\h20, << >>))
KwpReset(type) == Call(\h11, <<type>>)
KwpEcuId(option) ==
  About(Returning(Call(\h1A, <<option>>), "bytes", 1), <<<<"option", option>>>>)
KwpClear(group) == Putting(NoResult(Call(\h14, U16(group))), <<<<<<"codes">>, << >>>>>>)
\* Mutation of KwpDtcsByStatus: the count is taken for the first byte of a code.
KwpDtcsWithCount(status, group) == Returning(Call(\h18, <<status>> \o U16(group)), "kwp_dtcs", 0)
KwpDtcsByStatus(status, group) == Returning(Call(\h18, <<status>> \o U16(group)), "kwp_dtcs", 1)
KwpStatusOfDtc(dtc) == Returning(Call(\h17, U16(dtc)), "kwp_dtcs", 0)
KwpReadLocal(lid) ==
  About(Returning(Call(\h21, <<lid % 256>>), "bytes", 1), <<<<"lid", lid>>>>)
KwpReadCommon(did) == About(Returning(Call(\h22, U16(did)), "bytes", 2), <<<<"did", did>>>>)
KwpReadMemory(addr, size) ==
  About(Call(\h23, ToBytes(addr, 3) \o ToBytes(size, 1)), MemKeys(addr, size))
KwpDefineLocal(lid, data) == Call(\h2C, <<lid % 256>> \o data)
KwpWriteCommon(did, data) ==
  Putting(NoResult(Call(\h2E, U16(did) \o data)), <<<<<<"did", did>>, data>>>>)
KwpWriteLocal(lid, data) ==
  Putting(NoResult(Call(\h3B, <<lid % 256>> \o data)), <<<<<<"lid", lid>>, data>>>>)
KwpIoControl(lid, param, data) == Call(\h30, <<lid % 256, param>> \o data)
KwpRoutine(sid, id, data) ==
  About(Returning(Call(sid, <<id % 256>> \o data), "bytes", 1), <<<<"routine", id>>>>)
KwpTransfer(sid, addr, size) ==
  About(Call(sid, ToBytes(addr, 3) \o <<0>> \o ToBytes(size, 3)), <<<<"block">>>>)
KwpTransferData(addr, data) == Putting(Call(\h36, data), Bytewise(addr, data))
\* Mutation of KwpTesterPresent: 0x01 and 0x02 the other way round.
KwpTesterPresentSwapped(required) ==
  NoResult(Quietly(Call(\h3E, <<IF required THEN 2 ELSE 1>>), ~required))
KwpTesterPresent(required) ==
  NoResult(Quietly(Call(\h3E, <<IF required THEN 1 ELSE 2>>), ~required))

(* FordGDS: a KWP2000 client with Ford's identifiers.                      *)

FORD_DID_VIN == \hF190
FORD_DID_CALIBRATION_LEVEL == \hF124
FORD_DID_STRATEGY_PART_NUMBER == \hF111
GdsExtended == KwpSession(\h92, << >>)
GdsDefault == KwpSession(\h81, << >>)
GdsText(did) == Returning(KwpReadCommon(did), "text", 2)

-----------------------------------------------------------------------------
(* What a call makes of the response, without its service id.              *)

\* rstrip of NULs, non-ASCII characters dropped, strip of white space.
TextOf(s) ==
  LET Others(t, cs) == {i \in DOMAIN t : t[i] \notin cs}
      Cut(t, cs) == SubSeq(t, 1, Max({0} \cup Others(t, cs)))
      Strip(t, cs) == SubSeq(t, Min({Len(t) + 1} \cup Others(t, cs)), Max({0} \cup Others(t, cs)))
  IN  Strip(Where(Cut(s, {0}), LAMBDA b : b < 128), (9 .. 13) \cup (28 .. 32))

Records(data, c) == Chunks(Drop(data, c.skip), IF c.as = "uds_dtcs" THEN 4 ELSE 3)

Parse(c, data) ==
  CASE c.as = "none" -> << >>
    [] c.as = "bytes" -> Drop(data, c.skip)
    [] c.as = "text" -> TextOf(Drop(data, c.skip))
    [] c.as = "timings" ->
         IF Len(data) < 5 THEN << >>
         ELSE <<FromBytes(SubSeq(data, 2, 3)), FromBytes(SubSeq(data, 4, 5)) * 10>>
    [] c.as = "block" ->
         <<IF data = << >> THEN 0 ELSE FromBytes(SubSeq(data, 2, 1 + data[1] \div 16))>>
    [] c.as = "uds_dtcs" ->
         [k \in DOMAIN Records(data, c) |-> LET r == Records(data, c)[k] IN
            [code |-> DecodeUdsDtc(r[1], r[2], r[3])[1], fault |-> r[3], flags |-> DecodeStatus(r[4])]]
    [] c.as = "kwp_dtcs" ->
         [k \in DOMAIN Records(data, c) |-> LET r == Records(data, c)[k] IN
            [code |-> DecodeDtc(r[1], r[2]), fault |-> 0, flags |-> DecodeStatus(r[3])]]

KnownNrc == {0} \cup (\h10 .. \h14) \cup {\h21, \h22} \cup (\h24 .. \h26)
  \cup {\h31} \cup (\h33 .. \h3A) \cup (\h50 .. \h5D) \cup (\h70 .. \h79)
  \cup {\h7E, \h7F} \cup ((\h81 .. \h94) \ {\h8E})

IsPending(r) == Len(r) >= 3 /\ r[1] = \h7F /\ r[3] = \h78

\* _pick, _await_final and _check on the replies that request() and receive()
\* deliver one by one: the result, and how many of them were taken.
Outcome(c, replies) ==
  LET waits == Min({Len(replies) + 1} \cup {k \in DOMAIN replies : ~IsPending(replies[k])})
      last == replies[waits]
      code == IF Len(last) >= 3 THEN last[3] ELSE \h10
      Got(kind, value) == [kind |-> kind, value |-> value, took |-> waits]
  IN  IF waits > MaxPending + 1 THEN [Got("tooManyPending", << >>) EXCEPT !.took = MaxPending + 1]
      ELSE IF waits > Len(replies) THEN [Got("timeout", << >>) EXCEPT !.took = Len(replies)]
      ELSE IF last[1] = \h7F THEN Got("refused", <<code, code \in KnownNrc>>)
      ELSE IF last[1] = (c.sid + 64) % 256 THEN Got("value", Parse(c, Tail(last)))
      ELSE Got("unexpected", << >>)

-----------------------------------------------------------------------------
(* Data under keys, as the ECU and the caller of the client keep it.       *)

\* f with the value of each pair under its key.
PutAll(f, pairs) ==
  LET keys == {pairs[i][1] : i \in DOMAIN pairs}
  IN  [k \in DOMAIN f \cup keys |->
         IF k \in keys THEN pairs[CHOOSE i \in DOMAIN pairs : pairs[i][1] = k][2] ELSE f[k]]

-----------------------------------------------------------------------------
(* The ECU: data under keys, among them a list of codes, in the formats of *)
(* ISO 14229-1 and ISO 14230-3.                                            *)

Say(e, bytes) == [say |-> bytes, ecu |-> e]
Deny(e, sid, nrc) == Say(e, <<\h7F, sid, nrc>>)
Give(e, sid, echo, key) ==
  IF key \in DOMAIN e.data THEN Say(e, <<sid + 64>> \o echo \o e.data[key]) ELSE Deny(e, sid, \h31)
Take(e, sid, echo, pairs) ==
  IF \A i \in DOMAIN pairs : pairs[i][1] \in DOMAIN e.data
  THEN Say([e EXCEPT !.data = PutAll(@, pairs)], <<sid + 64>> \o echo)
  ELSE Deny(e, sid, \h31)
GiveMemory(e, sid, addr, n) ==
  IF \A i \in 1 .. n : <<"mem", addr + i - 1>> \in DOMAIN e.data
  THEN Say(e, <<sid + 64>> \o FlattenSeq([i \in 1 .. n |-> e.data[<<"mem", addr + i - 1>>]]))
  ELSE Deny(e, sid, \h31)

StatusByte(flags) == SumFunction([i \in 1 .. 8 |-> IF StatusBits[i] \in flags THEN 2 ^ (i - 1) ELSE 0])
Matching(codes, mask) == Where(codes, LAMBDA c : mask = 0 \/ c.flags \cap DecodeStatus(mask) # {})
WithBytes(codes, bytes) == Where(codes, LAMBDA c : EncodeDtc(c.code) = bytes)
CodeBytes(codes, withFault) == FlattenSeq([i \in DOMAIN codes |->
  EncodeDtc(codes[i].code) \o (IF withFault THEN <<codes[i].fault>> ELSE << >>)
                           \o <<StatusByte(codes[i].flags)>>])

\* A request for a transfer, and a block of it.
Begin(e, sid, addr, n, answer) ==
  Say([data |-> e.data, at |-> addr, left |-> n], <<sid + 64>> \o answer)
Block(e, sid, data, echo) ==
  IF e.left = 0 \/ Len(data) # e.left THEN Deny(e, sid, \h24)
  ELSE Take([e EXCEPT !.left = 0], sid, echo, Bytewise(e.at, data))

\* Services that the two languages share.
EcuShared(e, sid, d) ==
  CASE sid = \h22 -> Give(e, sid, d, <<"did", FromBytes(d)>>)
    [] sid = \h2E -> Take(e, sid, SubSeq(d, 1, 2), <<<<<<"did", FromBytes(SubSeq(d, 1, 2))>>, Drop(d, 2)>>>>)
    [] sid = \h27 /\ d[1] % 2 = 1 -> Give(e, sid, d, <<"seed", d[1]>>)
    [] OTHER -> Say(e, <<(sid + 64) % 256>> \o d)

EcuUds(e, sid, d) ==
  LET aw == d[1] % 16
      sw == d[1] \div 16
      At(n) == FromBytes(SubSeq(d, n, n + aw - 1))
      Size(n) == FromBytes(SubSeq(d, n + aw, n + aw + sw - 1))
      timings == e.data[<<"timings">>]
      codes == e.data[<<"codes">>]
  IN CASE sid = \h10 -> Say(e, <<\h50, d[1] % 128>> \o U16(timings[1]) \o U16(timings[2] \div 10))
       [] sid = \h14 -> IF d = <<255, 255, 255>> THEN Take(e, sid, << >>, <<<<<<"codes">>, << >>>>>>)
                        ELSE Deny(e, sid, \h31)
       [] sid = \h19 -> Say(e, <<\h59, d[1], 255>> \o
                             CodeBytes(IF d[1] = 2 THEN Matching(codes, d[2]) ELSE codes, TRUE))
       [] sid = \h23 -> GiveMemory(e, sid, At(2), Size(2))
       [] sid = \h3D -> Take(e, sid, SubSeq(d, 1, 1 + aw + sw), Bytewise(At(2), Drop(d, 1 + aw + sw)))
       [] sid \in {\h34, \h35} ->
            LET w == d[2] % 16
                v == d[2] \div 16
            IN  Begin(e, sid, FromBytes(SubSeq(d, 3, 2 + w)), FromBytes(SubSeq(d, 3 + w, 2 + w + v)),
                      <<\h20>> \o U16(e.data[<<"block">>][1]))
       [] sid = \h36 -> IF d[1] = 1 THEN Block(e, sid, Tail(d), <<1>>) ELSE Deny(e, sid, \h73)
       [] OTHER -> EcuShared(e, sid, d)

EcuKwp(e, sid, d) ==
  LET codes == e.data[<<"codes">>]
  IN CASE sid = \h14 -> IF d = <<255, 0>> THEN Take(e, sid, d, <<<<<<"codes">>, << >>>>>>)
                        ELSE Deny(e, sid, \h31)
       [] sid = \h17 -> Say(e, <<\h57>> \o CodeBytes(WithBytes(codes, d), FALSE))
       [] sid = \h18 -> Say(e, <<\h58, Len(Matching(codes, d[1]))>> \o CodeBytes(Matching(codes, d[1]), FALSE))
       [] sid = \h1A -> Give(e, sid, d, <<"option", d[1]>>)
       [] sid = \h21 -> Give(e, sid, d, <<"lid", d[1]>>)
       [] sid = \h3B -> Take(e, sid, <<d[1]>>, <<<<<<"lid", d[1]>>, Tail(d)>>>>)
       [] sid \in \h31 .. \h33 -> Give(e, sid, <<d[1]>>, <<"routine", d[1]>>)
       [] sid = \h23 -> GiveMemory(e, sid, FromBytes(SubSeq(d, 1, 3)), d[4])
       [] sid \in {\h34, \h35} ->
            Begin(e, sid, FromBytes(SubSeq(d, 1, 3)), FromBytes(SubSeq(d, 5, 7)), e.data[<<"block">>])
       [] sid = \h36 -> Block(e, sid, d, << >>)
       [] OTHER -> EcuShared(e, sid, d)

\* Does the request ask for no positive response?
HasSubFunction == {\h10, \h11, \h28, \h3E, \h85, \h86, \h87}
AskedToKeepQuiet(l, sid, d) ==
  IF l = "uds" THEN sid \in HasSubFunction /\ d[1] >= 128 ELSE sid = \h3E /\ d = <<2>>

\* The ECU says 0x78 n times, then acts and answers; its answer may be lost, or
\* it refuses and does nothing.
Serve(c, n, fault) ==
  LET act == IF lang = "uds" THEN EcuUds(ecu, c.sid, c.data) ELSE EcuKwp(ecu, c.sid, c.data)
      quiet == AskedToKeepQuiet(lang, c.sid, c.data)
      pend == [i \in 1 .. n |-> <<\h7F, c.sid, \h78>>]
  IN  IF fault = "refuses" THEN [say |-> pend \o <<<<\h7F, c.sid, \h22>>>>, ecu |-> ecu]
      ELSE [ecu |-> act.ecu,
            say |-> IF fault = "loses" \/ (quiet /\ act.say[1] # \h7F) THEN pend
                    ELSE Append(pend, act.say)]

-----------------------------------------------------------------------------
(* FakeTransport and the calls over it.                                    *)

NotCalled == [call |-> Call(0, << >>), kind |-> "none", value |-> << >>, fault |-> "none", answers |-> 0]

SvcInit ==
  /\ lang \in Languages
  /\ isOpen = FALSE
  /\ followups = << >>
  /\ ecu = [data |-> EcuData, at |-> 0, left |-> 0]
  /\ ledger = EcuData
  /\ said = NotCalled
  /\ steps = 0
  /\ disturbed = 0

OpenFake == ~isOpen /\ said = NotCalled /\ isOpen' = TRUE /\ UNCHANGED <<lang, followups, ecu, ledger, said, steps, disturbed>>
CloseFake == isOpen /\ said = NotCalled /\ isOpen' = FALSE /\ UNCHANGED <<lang, followups, ecu, ledger, said, steps, disturbed>>

\* Mutation of Delivered: request() does not throw away old follow-ups.
DeliveredAfterOld(replies, old) == IF Len(replies) > 1 THEN replies ELSE replies \o old

\* request() gives the first reply and receive() one more at a time.
Delivered(replies, old) == replies

\* What the caller knows the ECU to hold after the call.
Learn(c, kind) ==
  LET touched == {c.writes[i][1] : i \in DOMAIN c.writes}
  IN  CASE kind = "value" -> PutAll(ledger, c.writes)
        [] kind = "refused" -> ledger
        [] OTHER -> [k \in DOMAIN ledger \ touched |-> ledger[k]]

\* The caller has looked at the result of its call.
Consume ==
  /\ said # NotCalled
  /\ said' = NotCalled
  /\ UNCHANGED <<lang, isOpen, followups, ecu, ledger, steps, disturbed>>

\* A call that raises before anything is sent.
NotSent(c) ==
  /\ said = NotCalled /\ steps < MaxSteps
  /\ ~Fits(c.data) \/ ~isOpen
  /\ said' = [NotCalled EXCEPT !.call = c, !.kind = IF Fits(c.data) THEN "transportError" ELSE "valueError"]
  /\ steps' = steps + 1
  /\ UNCHANGED <<lang, isOpen, followups, ecu, ledger, disturbed>>

Exchange(c, n, fault) ==
  /\ said = NotCalled /\ steps < MaxSteps
  /\ isOpen /\ Fits(c.data)
  /\ n > 0 => c.expect
  /\ disturbed' = disturbed + (IF n > 0 \/ fault # "none" THEN 1 ELSE 0)
  /\ disturbed' <= MaxDisturbed
  /\ LET served == Serve(c, n, fault)
         replies == Delivered(served.say, followups)
         got == IF c.expect THEN Outcome(c, replies)
                ELSE [kind |-> "quiet", value |-> << >>, took |-> IF replies = << >> THEN 0 ELSE 1]
     IN  /\ ecu' = served.ecu
         /\ followups' = Drop(replies, got.took)
         /\ said' = [call |-> c, kind |-> got.kind, value |-> got.value, fault |-> fault,
                     answers |-> Len(served.say)]
         /\ ledger' = Learn(c, got.kind)
  /\ steps' = steps + 1
  /\ UNCHANGED <<lang, isOpen>>

SvcNext ==
  \/ OpenFake \/ CloseFake \/ Consume
  \/ \E c \in IF lang = "uds" THEN UdsCalls ELSE KwpCalls :
       \/ NotSent(c)
       \/ \E n \in 0 .. Pendings, fault \in {"none", "loses", "refuses"} : Exchange(c, n, fault)

-----------------------------------------------------------------------------
(* Properties.                                                             *)

\* A read that returns gives what the ECU holds there, going by the calls
\* before it: identifiers, memory, seeds, timings and block lengths, written
\* by whichever service, block by block or at once, unless a write before it
\* raised and left it unknown.  The layouts of the request (widths, order,
\* masks) and of the response (echoes, nibbles, factors) have to agree for
\* that, and no follow-up of an earlier call may be taken for an answer.
ReadsBack ==
  LET keys == said.call.reads
      held == FlattenSeq([i \in DOMAIN keys |-> ledger[keys[i]]])
  IN  said.kind = "value" /\ keys # << >> /\ (\A i \in DOMAIN keys : keys[i] \in DOMAIN ledger) =>
        said.value = IF said.call.as = "text" THEN TextOf(held) ELSE held

\* Those of the codes that a call asks for.
AskedFor(c, codes) ==
  CASE c.sid = \h19 /\ c.data[1] = 2 -> Matching(codes, c.data[2])
    [] c.sid = \h18 -> Matching(codes, c.data[1])
    [] c.sid = \h17 -> WithBytes(codes, c.data)
    [] OTHER -> codes

\* The trouble codes that a call returns are those the ECU holds and was asked
\* for, in its order, with their flags: the same ones through 0x19 of UDS and
\* 0x18 and 0x17 of KWP2000, whose records have four and three bytes behind
\* headers of two, one and none.
CodesAreTheEcus ==
  LET c == said.call
      asked == AskedFor(c, ledger[<<"codes">>])
  IN  said.kind = "value" /\ c.as \in {"uds_dtcs", "kwp_dtcs"} /\ <<"codes">> \in DOMAIN ledger =>
        said.value = [i \in DOMAIN asked |->
                        IF c.as = "uds_dtcs" THEN asked[i] ELSE [asked[i] EXCEPT !.fault = 0]]

\* When no answer gets lost, a call waits for one exactly when the ECU was asked
\* to give one: the suppress bit of UDS and the response-required byte of KWP2000
\* in the request agree with what the call does, so none times out and none
\* leaves an answer of the ECU unread.  It is about calls that the ECU does not
\* refuse; and a 0x78 to a call that asks for silence is not in this model but in
\* UdsClient.
RepliesAreAwaited == said.fault = "none" =>
  /\ said.kind # "timeout"
  /\ said.kind = "quiet" => said.answers = 0
  /\ said.kind = "value" => followups = << >>
=============================================================================
