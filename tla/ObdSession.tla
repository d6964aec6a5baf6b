----------------------------- MODULE ObdSession ----------------------------
(***************************************************************************)
(* A DiagnosticSession (obd/session.py) and the J1979 client on it         *)
(* (protocol/obd2.py), over an Elm327Transport or a SocketCanTransport.    *)
(* One thread calls; between it and the ECUs are the adapter's serial line *)
(* or the socket's queue, which outlive the calls.                         *)
(***************************************************************************)
EXTENDS ObdCodec, ElmFrames

CONSTANTS
  Ecus,        \* the ECUs of the vehicle, as a sequence
  CanId,       \* their response identifiers
  PidData,     \* their data: for each PID supported the bytes of its value
  Shows,       \* the physical value those bytes stand for
  Stored,      \* and the codes they store, as pairs of bytes
  Ops,         \* the operations called, see Request
  Makes,       \* makes the session may have been given
  OemCodes,    \* the library's sheets
  GenericCodes,
  MaxCalls,    \* bound: operations called
  MaxOpens,    \* bound: calls of open()
  MaxCuts,     \* bound: reads that end before the prompt, or before a reply
  MaxLost,     \* bound: frames lost
  Pends        \* do the ECUs say 0x78 before the answer?

ASSUME BoundsAssumption ==
  {MaxCalls, MaxOpens, MaxCuts, MaxLost} \subseteq Nat /\ Pends \in BOOLEAN

\* An ECU has an eleven-bit identifier; a PID has one to four bytes, as in J1979,
\* and its codes fit the byte that counts them.  No two ECUs share an identifier:
\* the reassembly tells them apart by nothing else.
IsEcu(e) ==
  /\ CanId[e] \in Nat /\ CanId[e] < 2048
  /\ DOMAIN PidData[e] \subseteq 0 .. 255
  /\ \A p \in DOMAIN PidData[e] : PidData[e][p] \in Seq(0 .. 255) /\ Len(PidData[e][p]) \in 1 .. 4
  /\ Stored[e] \in Seq(Seq(0 .. 255)) /\ Len(Stored[e]) \in 1 .. 255
  /\ \A i \in 1 .. Len(Stored[e]) : Len(Stored[e][i]) = 2

ASSUME VehicleAssumption ==
  /\ DOMAIN Ecus = 1 .. 2 /\ DOMAIN Stored = 1 .. 2 /\ \A e \in 1 .. 2 : IsEcu(e)
  /\ CanId[1] # CanId[2]

\* The operations of J1979, with the arguments each takes.
ASSUME OpsAssumption ==
  \A o \in Ops :
    /\ o[1] \in {"read_pid", "supported_pids", "live_data", "freeze_frame", "stored_dtcs", "pending_dtcs",
                 "permanent_dtcs", "clear_dtcs", "monitor_test_results", "request_control", "vin",
                 "calibration_ids", "cvn"}
    /\ o[2] \in Seq(0 .. 255)
    /\ CASE o[1] \in {"read_pid", "monitor_test_results"} -> Len(o[2]) = 1
         [] o[1] = "freeze_frame" -> Len(o[2]) = 2
         [] o[1] = "request_control" -> Len(o[2]) >= 1
         [] OTHER -> o[2] = << >>

VARIABLES
  kind,     \* "elm" or "can"
  make,     \* the session's make
  open,     \* the session's flag _open
  port,     \* is _ser, or _sock, set?
  setup,    \* set up commands sent since the port was opened
  line,     \* serial line: the lines printed and not read
  rxq,      \* socket: replies not read
  codes,    \* the ECUs' stored codes
  call,     \* the operation in progress, or "none"
  last,     \* what the last exchange sent and brought
  result,   \* what the last operation returned
  count     \* calls, opens, cuts, losses; clears accepted and reported

vars == <<kind, make, open, port, setup, line, rxq, codes, call, last, result, count>>

INIT_COMMANDS == <<"ATZ", "ATE0", "ATL0", "ATS0", "ATH1", "ATSP0">>
Answering == IF kind = "elm" THEN DOMAIN Ecus ELSE {1}
NoCall == [op |-> "none", arg |-> << >>, todo |-> << >>, found |-> {}, clean |-> FALSE]
NoLast == [sent |-> << >>, got |-> << >>, fresh |-> FALSE, harm |-> "none"]
NoResult == [op |-> "none", arg |-> << >>, answer |-> << >>, clean |-> FALSE]

Init ==
  /\ kind \in {"elm", "can"}
  /\ make \in Makes
  /\ open = FALSE /\ port = FALSE /\ setup = 0
  /\ line = << >> /\ rxq = << >>
  /\ codes = Stored
  /\ call = NoCall /\ last = NoLast /\ result = NoResult
  /\ count = [calls |-> 0, opens |-> 0, cuts |-> 0, torn |-> 0, lost |-> 0,
                acks |-> 0, trues |-> 0]

-----------------------------------------------------------------------------
(* The life of the session and of its transport.                           *)

\* open() does nothing for an open session.  A port starts with an empty input
\* buffer; late says that the adapter's last reply comes after its read.
Open(late) ==
  /\ call = NoCall /\ count.opens < MaxOpens
  /\ count' = [count EXCEPT !.opens = @ + 1, !.cuts = IF late THEN @ + 1 ELSE @]
  /\ late => kind = "elm" /\ count.cuts < MaxCuts /\ ~open
  /\ open' = TRUE
  /\ IF open THEN UNCHANGED <<port, setup, line, rxq>>
     ELSE /\ port' = TRUE
          /\ setup' = IF kind = "elm" THEN Len(INIT_COMMANDS) ELSE 0
          /\ line' = IF late THEN NoData ELSE << >>
          /\ rxq' = << >>
  /\ UNCHANGED <<kind, make, codes, call, last, result>>

\* Mutations of OpenFails: the flag is set before the transport is opened, and
\* a socket that cannot be bound is kept.
OpenFailsFlagged(sent) ==
  /\ call = NoCall /\ count.opens < MaxOpens /\ ~open
  /\ sent \in 0 .. Len(INIT_COMMANDS) - 1
  /\ kind = "can" => sent = 0
  /\ count' = [count EXCEPT !.opens = @ + 1]
  /\ open' = TRUE
  /\ port' = (kind = "elm") /\ setup' = sent /\ line' = << >> /\ rxq' = << >>
  /\ UNCHANGED <<kind, make, codes, call, last, result>>
OpenFailsKeepsSocket(sent) ==
  /\ call = NoCall /\ count.opens < MaxOpens /\ ~open
  /\ kind = "can" => sent = 0
  /\ count' = [count EXCEPT !.opens = @ + 1]
  /\ port' = TRUE /\ setup' = sent /\ line' = << >> /\ rxq' = << >>
  /\ UNCHANGED <<kind, make, open, codes, call, last, result>>

\* A socket that cannot be bound is dropped, a serial port stays open.
KeepsPort == kind = "elm"

\* The transport's open() raises, an adapter's after some of its set up commands.
OpenFails(sent) ==
  /\ call = NoCall /\ count.opens < MaxOpens /\ ~open
  /\ sent \in 0 .. Len(INIT_COMMANDS) - 1
  /\ kind = "can" => sent = 0
  /\ count' = [count EXCEPT !.opens = @ + 1]
  /\ port' = KeepsPort /\ setup' = sent /\ line' = << >> /\ rxq' = << >>
  /\ UNCHANGED <<kind, make, open, codes, call, last, result>>

\* close() does nothing unless the session is open.  The transport has let go of
\* the port when its own close raises, and the session's flag is then kept.
Close(raises) ==
  /\ call = NoCall /\ open
  /\ port' = FALSE
  /\ open' = (raises /\ port)
  /\ UNCHANGED <<kind, make, setup, line, rxq, codes, call, last, result, count>>

-----------------------------------------------------------------------------
(* The J1979 operations.                                                   *)

\* The request of an operation; a walk and a scan ask for one PID at a time.
Request(c) ==
  CASE c.op \in {"read_pid", "supported_pids", "live_data"} -> <<Modes.currentData, c.todo[1]>>
    [] c.op = "freeze_frame" -> <<Modes.freezeFrame>> \o c.arg
    [] c.op = "stored_dtcs" -> <<Modes.storedDtcs>>
    [] c.op = "pending_dtcs" -> <<Modes.pendingDtcs>>
    [] c.op = "permanent_dtcs" -> <<Modes.permanentDtcs>>
    [] c.op = "clear_dtcs" -> <<Modes.clearDtcs>>
    [] c.op = "monitor_test_results" -> <<Modes.monitor>> \o c.arg
    [] c.op = "request_control" -> <<Modes.control>> \o c.arg
    [] c.op = "vin" -> <<Modes.vehicleInfo, 2>>
    [] c.op = "calibration_ids" -> <<Modes.vehicleInfo, 4>>
    [] c.op = "cvn" -> <<Modes.vehicleInfo, 6>>

\* describe_dtcs: each code with the table its text comes from.
Described(cs) ==
  [i \in DOMAIN cs |-> <<cs[i], Lookup(cs[i], make, OemCodes, GenericCodes)>>]

\* What the operation makes of the replies, a walk and a scan apart.
Answer(c, rs) ==
  CASE c.op = "read_pid" -> ReadPid(rs, c.arg[1])
    [] c.op = "freeze_frame" -> FreezeFrame(rs, c.arg[1], c.arg[2])
    [] c.op = "stored_dtcs" -> Described(ReadDtcs(rs, Modes.storedDtcs))
    [] c.op = "pending_dtcs" -> Described(ReadDtcs(rs, Modes.pendingDtcs))
    [] c.op = "permanent_dtcs" -> Described(ReadDtcs(rs, Modes.permanentDtcs))
    [] c.op = "clear_dtcs" -> IF ClearDtcs(rs) THEN <<TRUE>> ELSE << >>
    [] c.op = "monitor_test_results" -> MonitorResults(rs)
    [] c.op = "request_control" -> RequestControl(rs, c.arg[1])
    [] c.op = "vin" -> InfoString(rs, 2)
    [] c.op = "calibration_ids" -> InfoString(rs, 4)
    [] c.op = "cvn" -> ReadCvn(rs)

Begin(op, arg) ==
  /\ call = NoCall /\ count.calls < MaxCalls
  /\ count' = [count EXCEPT !.calls = @ + 1]
  /\ IF port
     THEN /\ call' = [op |-> op, arg |-> arg, found |-> {}, clean |-> TRUE,
                      todo |-> IF op = "read_pid" THEN arg ELSE <<0>>]
          /\ result' = NoResult
     ELSE /\ result' = [NoResult EXCEPT !.op = "TransportError"]
          /\ UNCHANGED call
  /\ last' = NoLast
  /\ UNCHANGED <<kind, make, open, port, setup, line, rxq, codes>>

Return(c, answer) ==
  /\ call' = NoCall
  /\ result' = [op |-> c.op, arg |-> c.arg, answer |-> answer, clean |-> c.clean]

Ascending(S) == [i \in 1 .. Cardinality(S) |-> CHOOSE x \in S : Cardinality({y \in S : y < x}) = i - 1]

\* read_supported_pids after one reply, then read_pid for each PID the table
\* knows when it is a scan: found holds PIDs first, and then their values.
WalkOn(c, rs) ==
  LET base == c.todo[1]
      map == Bitmap(rs, base)
      pids == IF map = << >> THEN {} ELSE BitmapPids(base, map)
      all == c.found \cup pids
      known == Ascending(all \cap Pids)
  IN  CASE WalksOn(base, map) ->
             /\ call' = [c EXCEPT !.todo = <<base + 32>>, !.found = all]
             /\ UNCHANGED result
        [] ~WalksOn(base, map) /\ c.op = "live_data" /\ known # << >> ->
             /\ call' = [c EXCEPT !.todo = known, !.found = {}, !.arg = <<"values">>]
             /\ UNCHANGED result
        [] OTHER -> Return(c, IF c.op = "live_data" THEN {} ELSE all)

\* Mutation of ScanOn: the PID just read stays on the list.
ScanOnStuck(c, rs) ==
  LET v == ReadPid(rs, c.todo[1])
      vals == c.found \cup (IF v = << >> THEN {} ELSE {<<c.todo[1], v[1]>>})
  IN  IF Len(c.todo) > 1
      THEN /\ call' = [c EXCEPT !.found = vals]
           /\ UNCHANGED result
      ELSE Return(c, vals)

ScanOn(c, rs) ==
  LET v == ReadPid(rs, c.todo[1])
      vals == c.found \cup (IF v = << >> THEN {} ELSE {<<c.todo[1], v[1]>>})
  IN  IF Len(c.todo) > 1
      THEN /\ call' = [c EXCEPT !.todo = Tail(@), !.found = vals]
           /\ UNCHANGED result
      ELSE Return(c, vals)

GoOn(c, rs) ==
  CASE c.op = "supported_pids" \/ (c.op = "live_data" /\ c.arg = << >>) -> WalkOn(c, rs)
    [] c.op = "live_data" /\ c.arg # << >> -> ScanOn(c, rs)
    [] OTHER -> Return(c, Answer(c, rs))

-----------------------------------------------------------------------------
(* The vehicle and the adapter.                                            *)

SupportBitmap(pids, base) ==
  [i \in 1 .. 4 |-> SumFunction([j \in 0 .. 7 |->
     IF \E p \in pids : p = base + (i - 1) * 8 + j + 1 \/ (i = 4 /\ j = 7 /\ p > base + 32)
     THEN 2^(7 - j) ELSE 0])]

Flat(pairs) == FlattenSeq(pairs)

\* What an ECU answers, << >> for nothing.
EcuAnswer(e, req, accepts) ==
  LET sid == req[1]
      pids == DOMAIN PidData[e]
      has == Len(req) > 1 /\ req[2] \in pids
  IN  CASE sid = 1 /\ req[2] % 32 = 0 ->
             IF req[2] = 0 \/ \E p \in pids : p > req[2]
             THEN <<65, req[2]>> \o SupportBitmap(pids, req[2]) ELSE << >>
        [] sid = 1 /\ req[2] % 32 # 0 -> IF has THEN <<65, req[2]>> \o PidData[e][req[2]] ELSE << >>
        [] sid = 2 -> IF has THEN <<66, req[2], req[3]>> \o PidData[e][req[2]] ELSE << >>
        [] sid = 3 -> <<67, Len(codes[e])>> \o Flat(codes[e])
        [] sid \in {7, 10} -> <<sid + 64, 1>> \o Stored[e][1]
        [] sid = 4 -> IF accepts THEN <<68>> ELSE <<127, 4, 34>>
        [] sid = 8 -> <<72, req[2], 7>>
        [] sid \in {6, 9} /\ e > 1 -> << >>
        [] sid = 6 /\ e = 1 -> <<70, req[2], 1, 10, 1, 2, 0, 0, 255, 255>>
        [] sid = 9 /\ e = 1 -> <<73, req[2], 1, 0, 65, 32, 66>>

\* All ways to print the frames of a and b that keep the order of each.
Merges(a, b) ==
  {[i \in 1 .. Len(a) + Len(b) |->
      IF i \in S THEN a[Cardinality({j \in S : j <= i})]
      ELSE b[Cardinality({j \in 1 .. i : j \notin S})]] \o << >> :
     S \in {T \in SUBSET (1 .. Len(a) + Len(b)) : Cardinality(T) = Len(a)}}

Printed(e, payloads) ==
  LET fs == FlattenSeq([i \in DOMAIN payloads |-> IsoTp(payloads[i])])
  IN  [i \in DOMAIN fs |-> PrintFrame(CanId[e], fs[i])] \o << >>

\* The replies in the order they were sent, 0x78 first if the ECUs say it.
Sent(e, req, accepts) ==
  LET a == EcuAnswer(e, req, accepts)
  IN  IF a = << >> THEN << >> ELSE IF Pends THEN <<<<127, req[1], 120>>, a>> ELSE <<a>>

Prefix(s, n) == SubSeq(s, 1, n)
FirstPrompt(lines) == Min({i \in DOMAIN lines : lines[i] = <<PROMPT>>})
\* The places where a read may end: after n lines and k characters of the next.
Cuts(lines) == UNION {{<<n, k>> : k \in 0 .. Len(lines[n + 1]) - 1} : n \in 0 .. Len(lines) - 1}

\* The read of what is on the line, up to the end of cut, and what the call makes
\* of it.
ElmReads(sent, who, drop, all, cut) ==
  LET fresh == line = << >>
      n == cut[1]
      whole == n = FirstPrompt(all)
      raw == Prefix(all, n) \o (IF cut[2] = 0 THEN << >> ELSE <<Prefix(all[n + 1], cut[2])>>)
      raises == ParseRaises(raw)
      rs == IF raises THEN << >> ELSE ParseElmResponse(raw)
  IN  /\ line' = IF n = Len(all) THEN << >> ELSE <<Drop(all[n + 1], cut[2])>> \o Drop(all, n + 1)
      /\ codes' = [e \in DOMAIN codes |-> IF e \in who THEN << >> ELSE codes[e]]
      /\ last' = [sent |-> Flat(sent), got |-> rs, fresh |-> fresh,
                  harm |-> IF drop > 0 THEN "lost" ELSE IF whole THEN "none" ELSE "cut"]
      /\ count' = [count EXCEPT
           !.cuts = IF whole THEN @ ELSE @ + 1,
           !.torn = IF cut[2] > 0 THEN @ + 1 ELSE @,
           !.lost = IF drop > 0 THEN @ + 1 ELSE @,
           !.acks = @ + Cardinality(who),
           !.trues = IF call.op = "clear_dtcs" /\ ClearDtcs(rs) THEN @ + 1 ELSE @]
      /\ IF raises
         THEN call' = NoCall /\ result' = [NoResult EXCEPT !.op = "IndexError"]
         ELSE GoOn([call EXCEPT !.clean = @ /\ fresh /\ drop = 0 /\ whole], rs)

\* One request and the read that follows it.  Whatever is on the line from
\* before is read first, up to its prompt; a read with nothing to find but the
\* adapter's new output may end before that is complete.
ElmExchange ==
  /\ kind = "elm" /\ call # NoCall
  /\ \E who \in IF Request(call)[1] = Modes.clearDtcs THEN SUBSET DOMAIN Ecus ELSE {{}} :
       LET sent == [e \in DOMAIN Ecus |-> Sent(e, Request(call), e \in who)] \o << >>
           of(e) == Printed(e, sent[e])
       IN \E lines \in Merges(of(1), of(2)) :
          \E drop \in 0 .. (IF count.lost < MaxLost THEN Len(lines) ELSE 0) :
          LET kept == IF drop = 0 THEN lines ELSE Prefix(lines, drop - 1) \o Drop(lines, drop)
              all == line \o (IF kept = << >> THEN NoData ELSE Append(kept, <<PROMPT>>))
              end == FirstPrompt(all)
          IN \E cut \in {<<end, 0>>} \cup (IF count.cuts < MaxCuts /\ end = Len(all) THEN Cuts(all) ELSE {}) :
             ElmReads(sent, who, drop, all, cut)
  /\ UNCHANGED <<kind, make, open, port, setup, rxq>>

\* The same over the socket, whose peer is the first ECU: one reply is taken,
\* the oldest, or none when the timer runs out first.
CanExchange ==
  /\ kind = "can" /\ call # NoCall
  /\ \E accepts \in BOOLEAN, lost \in BOOLEAN, late \in BOOLEAN :
       LET req == Request(call)
           sent == Sent(1, req, accepts)
           all == rxq \o (IF lost THEN << >> ELSE sent)
           rs == IF late \/ all = << >> THEN << >> ELSE <<Head(all)>>
           ok == rxq = << >> /\ ~lost /\ ~late
       IN  /\ accepts => req[1] = Modes.clearDtcs
           /\ late => rxq = << >> /\ count.cuts < MaxCuts
           /\ lost => sent # << >> /\ count.lost < MaxLost
           /\ rxq' = Drop(all, Len(rs))
           /\ codes' = [codes EXCEPT ![1] = IF accepts THEN << >> ELSE @]
           /\ last' = [sent |-> sent, got |-> rs, fresh |-> rxq = << >>,
                       harm |-> IF lost THEN "lost" ELSE IF late THEN "cut" ELSE "none"]
           /\ count' = [count EXCEPT !.cuts = IF late THEN @ + 1 ELSE @,
                                     !.lost = IF lost THEN @ + 1 ELSE @,
                                     !.acks = IF accepts THEN @ + 1 ELSE @,
                                     !.trues = IF call.op = "clear_dtcs" /\ ClearDtcs(rs) THEN @ + 1 ELSE @]
           /\ GoOn([call EXCEPT !.clean = @ /\ ok], rs)
  /\ UNCHANGED <<kind, make, open, port, setup, line>>

Next ==
  \/ \E late \in BOOLEAN : Open(late)
  \/ \E sent \in 0 .. Len(INIT_COMMANDS) - 1 : OpenFails(sent)
  \/ \E raises \in BOOLEAN : Close(raises)
  \/ \E o \in Ops : Begin(o[1], o[2])
  \/ ElmExchange
  \/ CanExchange

Spec == Init /\ [][Next]_vars

-----------------------------------------------------------------------------
(* Properties.                                                             *)

\* The session, its transport and the counts have their types; each ECU has the
\* codes it stored or none; only an open session holds a socket; an operation in
\* progress has a port, and its next PIDs are bytes if it is a walk or a scan, or
\* else it is one that was called.  Of last and result it says nothing.
SessionTypeOK ==
  /\ kind \in {"elm", "can"} /\ make \in Makes
  /\ open \in BOOLEAN /\ port \in BOOLEAN /\ setup \in 0 .. Len(INIT_COMMANDS)
  /\ line \in Seq(Seq(0 .. OTHERTEXT))
  /\ rxq \in Seq(Seq(0 .. 255))
  /\ kind = "can" /\ port => open
  /\ DOMAIN codes = 1 .. 2 /\ \A e \in 1 .. 2 : codes[e] \in {<< >>, Stored[e]}
  /\ count \in [calls : Nat, opens : Nat, cuts : Nat, torn : Nat, lost : Nat, acks : Nat, trues : Nat]
  /\ call # NoCall =>
       /\ port
       /\ \/ call.op \in {"supported_pids", "live_data"} /\ call.todo # << >> /\ call.todo \in Seq(0 .. 255)
          \/ \E o \in Ops : call.op = o[1] /\ call.arg = o[2]

\* An adapter that an open session has a port to was sent every set up command
\* on that port, whatever failures there were before.
OpenMeansReady == open /\ port /\ kind = "elm" => setup = Len(INIT_COMMANDS)

\* The formula of each PID gives what the vehicle's bytes stand for.
ValuesMatch ==
  \A e \in 1 .. 2 : \A p \in DOMAIN PidData[e] :
    p \in Pids => p \in DOMAIN Shows[e] /\ DecodePid(p, PidData[e][p]) = <<Shows[e][p]>>

Truths(pid) == {Shows[e][pid] : e \in {d \in Answering : pid \in DOMAIN Shows[d]}}
Encoded(answer) == [i \in DOMAIN answer |-> EncodeDtc(answer[i][1])]
RangeOf(e, base) ==
  {p \in base + 1 .. base + 32 : p \in DOMAIN PidData[e] \/ (p % 32 = 0 /\ \E q \in DOMAIN PidData[e] : q > p)}

\* Walk(first) is what a walk finds when first[base] answers first for each base:
\* it goes on for as long as the bitmap says that there is another range.
Repliers(base) == {e \in Answering : base = 0 \/ \E p \in DOMAIN PidData[e] : p > base}
Bases == {b \in {32 * k : k \in 0 .. 7} : Repliers(b) # {}}
Walk(first) ==
  UNION {RangeOf(first[b], b) : b \in {c \in Bases : \A x \in Bases : x < c => x + 32 \in RangeOf(first[x], x)}}
WalksOfEcus == {Walk(first) : first \in {f \in [Bases -> Answering] : \A b \in Bases : f[b] \in Repliers(b)}}

ListedBy(es) == IF Cardinality(es) = 1 THEN {codes[CHOOSE e \in es : TRUE]}
                ELSE {codes[1] \o codes[2], codes[2] \o codes[1]}

\* An operation whose exchanges began on a clear line, lost no frame and were
\* read to the prompt returns what the ECUs hold: the physical value of a PID,
\* the codes of every ECU, each with a text of the make's sheet or the common
\* one, and True for a clear that an ECU accepted; in whatever order the frames
\* of the ECUs were printed.  The supported PIDs are not those of every ECU, as
\* obd2.py:5 has it: they are one ECU's for each range, and the walk ends when
\* that one has no further range.  The scan reads just the known ones of these.
CleanCallIsExact ==
  LET r == result
      a == r.answer
  IN  r.clean =>
      CASE r.op \in {"read_pid", "freeze_frame"} ->
             IF Truths(r.arg[1]) = {} THEN a = << >> ELSE \E v \in Truths(r.arg[1]) : a = <<v>>
        [] r.op = "supported_pids" -> a \in WalksOfEcus
        [] r.op = "live_data" ->
             /\ \A x \in a : x[2] \in Truths(x[1])
             /\ \E w \in WalksOfEcus : {x[1] : x \in a} = w \cap Pids
        [] r.op = "stored_dtcs" ->
             /\ Encoded(a) \in ListedBy(Answering)
             /\ \A x \in ToSet(a) : x[2] = "" => x[1] \notin GenericCodes
        [] r.op = "clear_dtcs" -> (a = <<TRUE>>) = (<<68>> \in ToSet(last.sent))
        [] r.op = "monitor_test_results" ->
             /\ Len(a) = 1
             /\ \A x \in ToSet(a) : x.obdmid = r.arg[1] /\ x.value = 258 /\ x.max = 65535
        [] r.op \in {"vin", "calibration_ids"} -> a = <<65, 32, 66>>
        [] OTHER -> TRUE

\* What the tool takes for an answer on a line that was clear is the whole of
\* an ECU's reply or shorter than it; when the read was cut short it is the
\* beginning of one.  A lost or torn frame never makes a reply longer, or
\* another one of the same length.
WholeOrShort ==
  last.fresh =>
    \A d \in ToSet(last.got) :
      d[1] \in {s[1] : s \in ToSet(last.sent)} =>
        \E s \in ToSet(last.sent) :
          d = s \/ (Len(d) < Len(s) /\ (last.harm = "cut" => IsPrefix(d, s)))

\* clear_dtcs returns True no more often than ECUs have cleared their codes,
\* however late their acknowledgements come, so long as no line is torn.
AcksAreNotReused == count.torn = 0 => count.trues <= count.acks

\* A value returned for a PID is a value of that PID, also when replies to
\* earlier requests are still in the way.
PidAnswersItsPid ==
  result.op = "read_pid" /\ result.answer # << >> /\ count.torn = 0
    => result.answer[1] \in Truths(result.arg[1])

\* A scan on a clear line reads every PID that an ECU supports and the table
\* knows, whichever ECU answers first.
ScanReadsEveryPid ==
  result.clean /\ result.op = "live_data" =>
    \A e \in Answering : DOMAIN PidData[e] \cap Pids \subseteq {x[1] : x \in result.answer}

\* When the ECU says 0x78 first, its answer is among the replies to the request,
\* as the adapter prints both before its prompt.
AnswerFollowsPending ==
  kind = "elm" /\ last.fresh /\ last.harm = "none" =>
    \A s \in ToSet(last.sent) : s[1] # 127 => s \in ToSet(last.got)

\* An operation of several requests gets nearer to its end with each: a walk
\* goes to a higher base below 0x100, whatever the bitmaps say, and then a scan
\* has fewer PIDs left.
ExchangesLeft(c) ==
  IF c.op = "live_data" /\ c.arg # << >> THEN Len(c.todo) ELSE 1000 - c.todo[1]
EveryExchangeAdvances ==
  [][call # NoCall /\ call' # NoCall =>
       /\ ExchangesLeft(call') < ExchangesLeft(call)
       /\ call'.todo[1] < 256]_call
=============================================================================
