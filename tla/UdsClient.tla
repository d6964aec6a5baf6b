----------------------------- MODULE UdsClient -----------------------------
(***************************************************************************)
(* The request/response core of UDSClient (protocol/uds.py) over a         *)
(* SocketCanTransport (transport/socketcan.py): one client thread, one     *)
(* physically addressed ECU and, between them, the receive queue of the    *)
(* kernel's ISO-TP socket, which outlives the calls.                       *)
(*                                                                         *)
(* Calls are numbered in the order they are made.  The number travels with *)
(* the request and with the ECU's replies to it; it is a history value,    *)
(* which no guard of the client reads: on the wire there is only the       *)
(* service id.                                                             *)
(***************************************************************************)
EXTENDS Naturals, Sequences

CONSTANTS
  Sids,            \* service identifiers
  MaxCalls,        \* bound: calls made in a behaviour
  MaxPending,      \* the client's max_pending
  EcuMaxPending,   \* bound: 0x78 replies the ECU sends for one request ...
  Endless,         \* ... unless TRUE: then only RxCap stops it
  RxCap,           \* bound: replies waiting when the ECU adds a 0x78
  Late,            \* may an answer arrive after the p2 / p2* timer?
  Lossy,           \* may a request or a reply get lost, or be ignored?
  Faulty,          \* may the socket raise OSError?
  PendsSuppressed  \* may the ECU answer 0x78 to a suppressed request?

ASSUME CallsAssumption == MaxCalls \in Nat
ASSUME PendingAssumption == MaxPending \in Nat /\ EcuMaxPending \in Nat
ASSUME RxCapAssumption == RxCap \in Nat
ASSUME SwitchAssumption ==
  /\ Late \in BOOLEAN /\ Lossy \in BOOLEAN /\ Faulty \in BOOLEAN
  /\ Endless \in BOOLEAN /\ PendsSuppressed \in BOOLEAN

VARIABLES
  pc,       \* "idle", or the transport call the client is blocked in
  calls,    \* number of calls made; the current or last one has this number
  call,     \* service id of that call and whether it expects a response
  pending,  \* the local variable of _await_final
  outcome,  \* per call: how it ended and which call's reply ended it (0: none)
  rxq,      \* receive queue of the ISO-TP socket
  ecuq,     \* requests the ECU has not finished, oldest first
  ecuPend,  \* 0x78 replies already sent for the oldest of them
  verdict,  \* what the ECU did with each request
  quiet     \* history: calls begun with no request or reply outstanding

clientVars == <<pc, calls, call, pending, outcome, quiet>>
ecuVars == <<ecuq, ecuPend, verdict>>
vars == <<clientVars, rxq, ecuVars>>

Ids == 1 .. MaxCalls
Replies == [id : Ids, sid : Sids, kind : {"positive", "negative", "pending"}]
Requests == [id : Ids, sid : Sids, expect : BOOLEAN]
Ends == {"positive", "negative", "unexpected", "timeout", "suppressed", "transport"}

NotEnded == [kind |-> "open", from |-> 0]

TypeOK ==
  /\ pc \in {"idle", "request", "receive"}
  /\ calls \in 0 .. MaxCalls
  /\ pc # "idle" => calls > 0
  /\ call \in [sid : Sids, expect : BOOLEAN]
  /\ pending \in 0 .. MaxPending
  /\ outcome \in [Ids -> [kind : Ends \cup {"open"}, from : 0 .. MaxCalls]]
  /\ rxq \in Seq(Replies)
  /\ ecuq \in Seq(Requests)
  /\ ecuPend \in Nat
  /\ verdict \in [Ids -> {"open", "accepted", "rejected"}]
  /\ quiet \subseteq Ids

Init ==
  /\ pc = "idle"
  /\ calls = 0
  /\ call \in [sid : Sids, expect : {TRUE}]
  /\ pending = 0
  /\ outcome = [i \in Ids |-> NotEnded]
  /\ rxq = << >>
  /\ ecuq = << >>
  /\ ecuPend = 0
  /\ verdict = [i \in Ids |-> "open"]
  /\ quiet = {}

-----------------------------------------------------------------------------
(* The client thread.                                                      *)

\* The call returns to its caller, or raises.
End(kind, from) ==
  /\ pc' = "idle"
  /\ pending' = 0
  /\ outcome' = [outcome EXCEPT ![calls] = [kind |-> kind, from |-> from]]
  /\ UNCHANGED <<calls, call, quiet>>

\* Mutation of Send: suppress_response returns at once, as the document has it.
SendWithoutWaiting(sid, expect) ==
  /\ pc = "idle"
  /\ calls < MaxCalls
  /\ pc' = IF expect THEN "request" ELSE "idle"
  /\ calls' = calls + 1
  /\ call' = [sid |-> sid, expect |-> expect]
  /\ quiet' = IF rxq = << >> /\ ecuq = << >> THEN quiet \cup {calls + 1} ELSE quiet
  /\ outcome' = IF expect THEN outcome
                ELSE [outcome EXCEPT ![calls + 1] = [kind |-> "suppressed", from |-> 0]]
  /\ ecuq' = Append(ecuq, [id |-> calls + 1, sid |-> sid, expect |-> expect])
  /\ UNCHANGED <<pending, rxq, ecuPend, verdict>>

\* Mutation of Send: the request goes out twice.
SendTwice(sid, expect) ==
  /\ pc = "idle"
  /\ calls < MaxCalls
  /\ pc' = "request"
  /\ calls' = calls + 1
  /\ call' = [sid |-> sid, expect |-> expect]
  /\ quiet' = IF rxq = << >> /\ ecuq = << >> THEN quiet \cup {calls + 1} ELSE quiet
  /\ LET r == [id |-> calls + 1, sid |-> sid, expect |-> expect]
     IN  ecuq' = ecuq \o <<r, r>>
  /\ UNCHANGED <<pending, outcome, rxq, ecuPend, verdict>>

\* _send puts the request on the bus and enters select(); nothing empties the
\* receive queue first.
Send(sid, expect) ==
  /\ pc = "idle"
  /\ calls < MaxCalls
  /\ pc' = "request"
  /\ calls' = calls + 1
  /\ call' = [sid |-> sid, expect |-> expect]
  /\ quiet' = IF rxq = << >> /\ ecuq = << >> THEN quiet \cup {calls + 1} ELSE quiet
  /\ ecuq' = Append(ecuq, [id |-> calls + 1, sid |-> sid, expect |-> expect])
  /\ UNCHANGED <<pending, outcome, rxq, ecuPend, verdict>>

\* socket.send raises OSError: TransportError leaves _send.
SendFails(sid, expect) ==
  /\ Faulty
  /\ pc = "idle"
  /\ calls < MaxCalls
  /\ calls' = calls + 1
  /\ call' = [sid |-> sid, expect |-> expect]
  /\ outcome' = [outcome EXCEPT ![calls + 1] = [kind |-> "transport", from |-> 0]]
  /\ UNCHANGED <<pc, pending, quiet, rxq, ecuVars>>

\* Mutations of Recv: a read that takes the newest reply, and one that peeks.
RecvNewest(m) ==
  /\ pc # "idle"
  /\ rxq # << >>
  /\ m = rxq[Len(rxq)]
  /\ rxq' = SubSeq(rxq, 1, Len(rxq) - 1)
  /\ UNCHANGED ecuVars
RecvPeeks(m) ==
  /\ pc # "idle"
  /\ rxq # << >>
  /\ m = Head(rxq)
  /\ UNCHANGED <<rxq, ecuVars>>

\* select() finds the socket readable and recv() takes the oldest reply m.
Recv(m) ==
  /\ pc # "idle"
  /\ rxq # << >>
  /\ m = Head(rxq)
  /\ rxq' = Tail(rxq)
  /\ UNCHANGED ecuVars

\* A suppressed call drops whatever request() returned.
DropReply == \E m \in Replies :
  /\ Recv(m)
  /\ ~call.expect
  /\ End("suppressed", m.id)

\* Mutations of AwaitFinal: a count that is never advanced, and an off-by-one.
AwaitFinalUncounted == \E m \in Replies :
  /\ Recv(m)
  /\ call.expect
  /\ m.kind = "pending"
  /\ pending < MaxPending
  /\ pc' = "receive"
  /\ UNCHANGED <<calls, call, pending, outcome, quiet>>
AwaitFinalOnceMore == \E m \in Replies :
  /\ Recv(m)
  /\ call.expect
  /\ m.kind = "pending"
  /\ pending <= MaxPending
  /\ pc' = "receive"
  /\ pending' = pending + 1
  /\ UNCHANGED <<calls, call, outcome, quiet>>

\* 7F xx 78 while patience lasts: wait again, with the p2* timer.
AwaitFinal == \E m \in Replies :
  /\ Recv(m)
  /\ call.expect
  /\ m.kind = "pending"
  /\ pending < MaxPending
  /\ pc' = "receive"
  /\ pending' = pending + 1
  /\ UNCHANGED <<calls, call, outcome, quiet>>

\* Mutation of TooManyPending: the limit is reached one 0x78 too early.
TooManyPendingEarly == \E m \in Replies :
  /\ Recv(m)
  /\ call.expect
  /\ m.kind = "pending"
  /\ pending + 1 >= MaxPending
  /\ End("timeout", m.id)

TooManyPending == \E m \in Replies :
  /\ Recv(m)
  /\ call.expect
  /\ m.kind = "pending"
  /\ pending >= MaxPending
  /\ End("timeout", m.id)

\* Mutation of Negative: 0x78 counts as a negative answer.
NegativeOnPending == \E m \in Replies :
  /\ Recv(m)
  /\ call.expect
  /\ m.kind # "positive"
  /\ End("negative", m.id)

\* _check blames every other 7F on the service just called, whichever it names.
Negative == \E m \in Replies :
  /\ Recv(m)
  /\ call.expect
  /\ m.kind = "negative"
  /\ End("negative", m.id)

\* _check compares the service id and nothing else.
Positive == \E m \in Replies :
  /\ Recv(m)
  /\ call.expect
  /\ m.kind = "positive"
  /\ End(IF m.sid = call.sid THEN "positive" ELSE "unexpected", m.id)

\* Mutation of Timeout: no reply means the reply to the call before.
TimeoutReusesReply ==
  /\ pc # "idle"
  /\ rxq = << >>
  /\ Late \/ ecuq = << >>
  /\ End(IF call.expect THEN "negative" ELSE "suppressed", calls - 1)
  /\ UNCHANGED <<rxq, ecuVars>>

\* The p2 or p2* timer expires on an empty queue.
Timeout ==
  /\ pc # "idle"
  /\ rxq = << >>
  /\ Late \/ ecuq = << >>
  /\ End(IF call.expect THEN "timeout" ELSE "suppressed", 0)
  /\ UNCHANGED <<rxq, ecuVars>>

\* recv raises OSError: the queue keeps what it held.
RecvFails ==
  /\ Faulty
  /\ pc # "idle"
  /\ End("transport", 0)
  /\ UNCHANGED <<rxq, ecuVars>>

-----------------------------------------------------------------------------
(* The ECU and the bus, as the client's code expects them to behave.       *)

ReplyTo(r, kind) == [id |-> r.id, sid |-> r.sid, kind |-> kind]

\* 7F <sid> 78: received, still working.
EcuPending ==
  /\ ecuq # << >>
  /\ Head(ecuq).expect \/ PendsSuppressed
  /\ Endless \/ ecuPend < EcuMaxPending
  /\ Len(rxq) < RxCap
  /\ rxq' = Append(rxq, ReplyTo(Head(ecuq), "pending"))
  /\ ecuPend' = IF ecuPend < EcuMaxPending THEN ecuPend + 1 ELSE ecuPend
  /\ UNCHANGED <<clientVars, ecuq, verdict>>

\* The ECU acts on its oldest request.  It leaves out the positive response
\* that the request suppressed, unless it has sent 0x78 before; a reply may
\* be lost.
EcuDecide(v) ==
  /\ ecuq # << >>
  /\ LET r == Head(ecuq)
         silent == v = "accepted" /\ ~r.expect /\ ecuPend = 0
         reply == ReplyTo(r, IF v = "accepted" THEN "positive" ELSE "negative")
     IN  /\ verdict' = [verdict EXCEPT ![r.id] = v]
         /\ \/ ~silent /\ rxq' = Append(rxq, reply)
            \/ (silent \/ Lossy) /\ UNCHANGED rxq
  /\ ecuq' = Tail(ecuq)
  /\ ecuPend' = 0
  /\ UNCHANGED clientVars

\* The request got lost, or the ECU does not answer it.
EcuIgnore ==
  /\ Lossy
  /\ ecuq # << >>
  /\ ecuq' = Tail(ecuq)
  /\ ecuPend' = 0
  /\ UNCHANGED <<clientVars, rxq, verdict>>

-----------------------------------------------------------------------------
Receive == DropReply \/ AwaitFinal \/ TooManyPending \/ Negative \/ Positive

Client ==
  \/ \E sid \in Sids, expect \in BOOLEAN : Send(sid, expect) \/ SendFails(sid, expect)
  \/ Receive
  \/ Timeout
  \/ RecvFails

Ecu == EcuPending \/ EcuDecide("accepted") \/ EcuDecide("rejected") \/ EcuIgnore

Next == Client \/ Ecu

\* select() wakes on a readable socket and its timer runs out otherwise.  The
\* ECU owes nothing: it may fall silent, or keep saying 0x78.
Fairness == WF_vars(Receive) /\ WF_vars(Timeout)

Spec == Init /\ [][Next]_vars /\ Fairness

\* With an ECU that answers in time the timers never run out first, so the ECU
\* may be taken to go on working while it has a request.
TimelySpec == Spec /\ WF_vars(Ecu)

-----------------------------------------------------------------------------
(* Properties.                                                             *)

Answered(i) == outcome[i].kind \in {"positive", "negative"}

\* A call begun while nothing was outstanding, which reports a positive or a
\* negative answer, reports the ECU's answer to its own request, however late
\* or lossy the bus and however patient the ECU is: UDSClient._check compares
\* only service ids, so the order of the queue has to do the rest.
QuietCallOwnAnswer == \A i \in quiet : Answered(i) => outcome[i].from = i

\* A positive or negative report agrees with what the ECU did with the request,
\* for every call, when replies arrive in time.
Truthful == \A i \in Ids :
  /\ outcome[i].kind = "positive" => verdict[i] = "accepted"
  /\ outcome[i].kind = "negative" => verdict[i] = "rejected"

\* With a timely ECU no call leaves a request or a reply behind for the next
\* one, although _send never empties the queue: whatever way a call ends,
\* replies waited for, dropped or given up, the channel is clear again.
LeavesNothingBehind == pc = "idle" => rxq = << >> /\ ecuq = << >>

\* max_pending is the number of 0x78 replies a call survives: when the ECU sends
\* no more of them than that, in time, no call is given up because of a reply; a
\* timeout then means silence.
PatientUpToTheLimit == \A i \in Ids :
  outcome[i].kind = "timeout" => outcome[i].from = 0

\* The replies that ended two calls are in the order of the calls: a call never
\* steps back to a request older than one already answered.
AnswersInOrder == \A i, j \in Ids :
  /\ i < j
  /\ outcome[i].from # 0
  /\ outcome[j].from # 0
  => outcome[i].from <= outcome[j].from

\* One answer of the ECU is not reported by two calls.
NoAnswerTwice == \A i, j \in Ids :
  Answered(i) /\ Answered(j) /\ outcome[i].from = outcome[j].from => i = j

-----------------------------------------------------------------------------
(* Why they hold: the inductive invariants.                                *)

\* Calls not made yet, and the one in progress, have not ended.
NotYetEnded == \A i \in Ids :
  i > calls \/ (i = calls /\ pc # "idle") => outcome[i] = NotEnded

\* While a quiet call is in progress, whatever is outstanding belongs to it.
AllOf(q, i) == \A k \in 1 .. Len(q) : q[k].id = i

QuietChannel ==
  /\ quiet \subseteq 1 .. calls
  /\ pc # "idle" /\ calls \in quiet => AllOf(rxq, calls) /\ AllOf(ecuq, calls)

QuietInv == TypeOK /\ NotYetEnded /\ QuietChannel /\ QuietCallOwnAnswer

\* Requests wait in call order, replies in the order of their requests, and a
\* final reply is the last one to its request.
RequestsSorted == \A k \in 1 .. Len(ecuq) :
  /\ ecuq[k].id <= calls
  /\ \A j \in 1 .. Len(ecuq) : j < k => ecuq[j].id < ecuq[k].id

RepliesSorted == \A k \in 1 .. Len(rxq) :
  /\ rxq[k].id <= calls
  /\ \A j \in 1 .. Len(rxq) : j < k =>
       \/ rxq[j].id < rxq[k].id
       \/ rxq[j].id = rxq[k].id /\ rxq[j].kind = "pending"
  /\ \A j \in 1 .. Len(ecuq) :
       \/ rxq[k].id < ecuq[j].id
       \/ rxq[k].id = ecuq[j].id /\ rxq[k].kind = "pending"

\* Nothing outstanding is older than a reply that ended a call, nor belongs to
\* an answer already reported.
EndsBehind == \A i \in Ids :
  /\ outcome[i].from <= calls
  /\ \A k \in 1 .. Len(rxq) : outcome[i].from <= rxq[k].id
                              /\ (Answered(i) => outcome[i].from < rxq[k].id)
  /\ \A k \in 1 .. Len(ecuq) : outcome[i].from <= ecuq[k].id
                               /\ (Answered(i) => outcome[i].from < ecuq[k].id)

OrderInv ==
  /\ TypeOK /\ NotYetEnded
  /\ RequestsSorted /\ RepliesSorted /\ EndsBehind
  /\ AnswersInOrder /\ NoAnswerTwice

-----------------------------------------------------------------------------
(* Refinement.                                                             *)

\* docs/uds-iso14229.md: the client implements the request/response contract
\* of RequestResponse: the answer it reports is the ECU's decision on the
\* request just made.
Contract == INSTANCE RequestResponse WITH
  waiting <- pc # "idle",
  answer <- [i \in Ids |->
               IF outcome[i].kind \in {"unexpected", "timeout", "transport"}
               THEN "failed" ELSE outcome[i].kind]
ImplementsContract == Contract!Spec
=============================================================================
