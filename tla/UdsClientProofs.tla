-------------------------- MODULE UdsClientProofs --------------------------
(***************************************************************************)
(* Proofs about UdsClient, in three parts.  On any bus and with any ECU: a *)
(* call begun on a quiet channel reports the ECU's answer to its own       *)
(* request; and calls use the ECU's answers in the order they were asked   *)
(* for, none of them twice.  With an ECU that answers in time: calls tell  *)
(* the truth, leave nothing behind, are not given up while the ECU keeps   *)
(* to the limit of 0x78 replies, and every step is a step of the           *)
(* request/response contract.                                              *)
(***************************************************************************)
EXTENDS UdsClient, TLAPS

-----------------------------------------------------------------------------
(* Sequences of messages.                                                  *)

\* The tail of a sequence holds elements of the sequence, one place earlier.
LEMMA TailElements ==
  ASSUME NEW S, NEW q \in Seq(S), q # << >>
  PROVE  /\ Head(q) \in S
         /\ Head(q) = q[1]
         /\ 1 \in 1 .. Len(q)
         /\ Tail(q) \in Seq(S)
         /\ \A k \in 1 .. Len(Tail(q)) : k + 1 \in 1 .. Len(q) /\ Tail(q)[k] = q[k + 1]
OBVIOUS

\* Appending puts the new element last and moves nothing.
LEMMA AppendElements ==
  ASSUME NEW S, NEW q \in Seq(S), NEW e \in S
  PROVE  /\ Append(q, e) \in Seq(S)
         /\ \A k \in 1 .. Len(Append(q, e)) :
              \/ k \in 1 .. Len(q) /\ Append(q, e)[k] = q[k]
              \/ Append(q, e)[k] = e
OBVIOUS

-----------------------------------------------------------------------------
(* The type invariant.                                                     *)

USE CallsAssumption, PendingAssumption, RxCapAssumption, SwitchAssumption

\* Ending the current call keeps the types of the client's variables.
LEMMA EndType ==
  ASSUME TypeOK, pc # "idle", NEW kind \in Ends, NEW from \in 0 .. MaxCalls, End(kind, from)
  PROVE  /\ pc' = "idle"
         /\ calls' \in 0 .. MaxCalls
         /\ call' \in [sid : Sids, expect : BOOLEAN]
         /\ pending' \in 0 .. MaxPending
         /\ outcome' \in [Ids -> [kind : Ends \cup {"open"}, from : 0 .. MaxCalls]]
         /\ quiet' \subseteq Ids
<1>1. [kind |-> kind, from |-> from] \in [kind : Ends \cup {"open"}, from : 0 .. MaxCalls]
  OBVIOUS
<1>2. QED
  BY <1>1 DEF TypeOK, End, Ids

\* Taking the oldest reply keeps the types of the queues.
LEMMA RecvType ==
  ASSUME TypeOK, NEW m \in Replies, Recv(m)
  PROVE  /\ pc # "idle"
         /\ m.id \in 0 .. MaxCalls
         /\ rxq' \in Seq(Replies)
         /\ ecuq' \in Seq(Requests)
         /\ ecuPend' \in Nat
         /\ verdict' \in [Ids -> {"open", "accepted", "rejected"}]
<1>1. rxq' \in Seq(Replies)
  BY TailElements DEF TypeOK, Recv
<1>2. m.id \in 0 .. MaxCalls
  BY DEF Replies, Ids
<1>3. QED
  BY <1>1, <1>2 DEF TypeOK, Recv, ecuVars

\* The receiving actions keep the type invariant.
LEMMA ReceiveType == TypeOK /\ Receive => TypeOK'
<1> SUFFICES ASSUME TypeOK, Receive PROVE TypeOK'
  OBVIOUS
<1>1. ASSUME NEW m \in Replies, Recv(m), NEW kind \in Ends, End(kind, m.id)
      PROVE  TypeOK'
  BY <1>1, RecvType, EndType DEF TypeOK
<1>2. CASE DropReply
  BY <1>1, <1>2 DEF DropReply, Ends
<1>3. CASE AwaitFinal
  <2> PICK m \in Replies : /\ Recv(m)
                           /\ pending < MaxPending
                           /\ pc' = "receive"
                           /\ pending' = pending + 1
                           /\ UNCHANGED <<calls, call, outcome, quiet>>
    BY <1>3 DEF AwaitFinal
  <2>1. pending' \in 0 .. MaxPending
    BY DEF TypeOK
  <2>2. QED
    BY <2>1, RecvType DEF TypeOK
<1>4. CASE TooManyPending
  BY <1>1, <1>4 DEF TooManyPending, Ends
<1>5. CASE Negative
  BY <1>1, <1>5 DEF Negative, Ends
<1>6. CASE Positive
  <2> PICK m \in Replies : /\ Recv(m)
                           /\ End(IF m.sid = call.sid THEN "positive" ELSE "unexpected", m.id)
    BY <1>6 DEF Positive
  <2> DEFINE kind == IF m.sid = call.sid THEN "positive" ELSE "unexpected"
  <2>1. kind \in Ends
    BY DEF Ends
  <2> HIDE DEF kind
  <2>2. QED
    BY <1>1, <2>1 DEF kind
<1>7. QED
  BY <1>2, <1>3, <1>4, <1>5, <1>6 DEF Receive

\* The ECU's actions keep the type invariant.
LEMMA EcuType == TypeOK /\ Ecu => TypeOK'
<1> SUFFICES ASSUME TypeOK, Ecu PROVE TypeOK'
  OBVIOUS
<1>1. ASSUME ecuq # << >>, NEW kind \in {"positive", "negative", "pending"}
      PROVE  /\ Head(ecuq).id \in Ids
             /\ ReplyTo(Head(ecuq), kind) \in Replies
             /\ Append(rxq, ReplyTo(Head(ecuq), kind)) \in Seq(Replies)
             /\ Tail(ecuq) \in Seq(Requests)
  <2>1. Head(ecuq) \in Requests /\ Tail(ecuq) \in Seq(Requests)
    BY <1>1, TailElements DEF TypeOK
  <2>2. ReplyTo(Head(ecuq), kind) \in Replies /\ Head(ecuq).id \in Ids
    BY <1>1, <2>1 DEF Requests, Replies, ReplyTo
  <2>3. QED
    BY <2>1, <2>2, AppendElements DEF TypeOK
<1>2. CASE EcuPending
  BY <1>1, <1>2 DEF EcuPending, TypeOK, clientVars
<1>3. ASSUME NEW v \in {"accepted", "rejected"}, EcuDecide(v) PROVE TypeOK'
  <2>1. rxq' \in Seq(Replies)
    BY <1>1, <1>3 DEF EcuDecide, TypeOK
  <2>2. /\ verdict' \in [Ids -> {"open", "accepted", "rejected"}]
        /\ ecuq' \in Seq(Requests)
        /\ ecuPend' \in Nat
    BY <1>1, <1>3 DEF EcuDecide, TypeOK
  <2>3. UNCHANGED clientVars
    BY <1>3 DEF EcuDecide
  <2>4. QED
    BY <2>1, <2>2, <2>3 DEF TypeOK, clientVars
<1>4. CASE EcuIgnore
  BY <1>1, <1>4 DEF EcuIgnore, TypeOK, clientVars
<1>5. QED
  BY <1>2, <1>3, <1>4 DEF Ecu

\* The client's other actions keep the type invariant.
LEMMA CallType ==
  ASSUME TypeOK, NEW sid \in Sids, NEW expect \in BOOLEAN,
         Send(sid, expect) \/ SendFails(sid, expect)
  PROVE  TypeOK'
<1> DEFINE r == [id |-> calls + 1, sid |-> sid, expect |-> expect]
<1>1. calls + 1 \in Ids /\ calls + 1 \in 0 .. MaxCalls
  BY DEF TypeOK, Send, SendFails, Ids
<1>2. CASE Send(sid, expect)
  <2>1. Append(ecuq, r) \in Seq(Requests)
    <3>1. r \in Requests
      BY <1>1 DEF Requests
    <3> HIDE DEF r
    <3>2. QED
      BY <3>1, AppendElements DEF TypeOK
  <2>2. QED
    BY <1>1, <1>2, <2>1 DEF TypeOK, Send
<1>3. CASE SendFails(sid, expect)
  <2>1. [kind |-> "transport", from |-> 0] \in [kind : Ends \cup {"open"}, from : 0 .. MaxCalls]
    BY DEF Ends
  <2>2. QED
    BY <1>1, <1>3, <2>1 DEF TypeOK, SendFails, ecuVars
<1>4. QED
  BY <1>2, <1>3

\* The types hold at first.
LEMMA TypeInit == Init => TypeOK
<1> SUFFICES ASSUME Init PROVE TypeOK
  OBVIOUS
<1>1. NotEnded \in [kind : Ends \cup {"open"}, from : 0 .. MaxCalls]
  BY DEF NotEnded
<1>2. outcome \in [Ids -> [kind : Ends \cup {"open"}, from : 0 .. MaxCalls]]
  BY <1>1 DEF Init
<1>3. call \in [sid : Sids, expect : BOOLEAN]
  BY DEF Init
<1>4. QED
  BY <1>2, <1>3 DEF Init, TypeOK

\* Every step keeps them.
LEMMA TypeStep == TypeOK /\ [Next]_vars => TypeOK'
<1> SUFFICES ASSUME TypeOK, [Next]_vars PROVE TypeOK'
  OBVIOUS
<1>1. CASE \E sid \in Sids, expect \in BOOLEAN : Send(sid, expect) \/ SendFails(sid, expect)
  BY <1>1, CallType
<1>2. CASE Receive
  BY <1>2, ReceiveType
<1>3. CASE Timeout
  BY <1>3, EndType DEF Timeout, TypeOK, Ends, ecuVars
<1>4. CASE RecvFails
  BY <1>4, EndType DEF RecvFails, TypeOK, Ends, ecuVars
<1>5. CASE Ecu
  BY <1>5, EcuType
<1>6. CASE UNCHANGED vars
  BY <1>6 DEF vars, clientVars, ecuVars, TypeOK
<1>7. QED
  BY <1>1, <1>2, <1>3, <1>4, <1>5, <1>6 DEF Next, Client

\* The client, its socket and the ECU keep their types.
THEOREM TypeCorrect == Spec => []TypeOK
  BY TypeInit, TypeStep, PTL DEF Spec

\* What a step of the ECU does to the two queues.
EcuMoves ==
  /\ ecuq # << >>
  /\ ecuq' = ecuq \/ ecuq' = Tail(ecuq)
  /\ \/ rxq' = rxq
     \/ \E e \in Replies :
          /\ e.id = ecuq[1].id
          /\ rxq' = Append(rxq, e)
          /\ ecuq' = ecuq => e.kind = "pending"

\* Each step of the ECU is one of those that EcuMoves describes.
LEMMA EcuEffect == TypeOK /\ Ecu => EcuMoves
<1> SUFFICES ASSUME TypeOK, Ecu PROVE EcuMoves
  OBVIOUS
<1>1. ecuq # << >>
  BY DEF Ecu, EcuPending, EcuDecide, EcuIgnore
<1>2. ASSUME NEW kind \in {"positive", "negative", "pending"}
      PROVE  /\ ReplyTo(Head(ecuq), kind) \in Replies
             /\ ReplyTo(Head(ecuq), kind).id = ecuq[1].id
             /\ ReplyTo(Head(ecuq), kind).kind = kind
  <2>1. Head(ecuq) \in Requests /\ Head(ecuq) = ecuq[1]
    BY <1>1, TailElements DEF TypeOK
  <2>2. QED
    BY <2>1 DEF Requests, Replies, ReplyTo
<1>3. CASE EcuPending
  BY <1>1, <1>2, <1>3 DEF EcuPending, EcuMoves
<1>4. ASSUME NEW v \in {"accepted", "rejected"}, EcuDecide(v)
      PROVE  /\ ecuq' = Tail(ecuq)
             /\ rxq' = rxq \/ \E e \in Replies : e.id = ecuq[1].id /\ rxq' = Append(rxq, e)
  BY <1>2, <1>4 DEF EcuDecide
<1>5. ecuq' = Tail(ecuq) => ecuq' # ecuq
  BY <1>1 DEF TypeOK
<1>6. QED
  BY <1>1, <1>3, <1>4, <1>5 DEF Ecu, EcuIgnore, EcuMoves

-----------------------------------------------------------------------------
(* A quiet call reports its own answer.                                    *)

\* How the client's steps touch what the invariants speak of.
LEMMA ReceiveEffect ==
  ASSUME Receive
  PROVE  \E m \in Replies :
           /\ Recv(m)
           /\ UNCHANGED <<calls, quiet, ecuq>>
           /\ \/ pc' # "idle" /\ m.kind = "pending" /\ UNCHANGED outcome
              \/ /\ pc' = "idle"
                 /\ \E kind \in Ends :
                      /\ outcome' = [outcome EXCEPT ![calls] = [kind |-> kind, from |-> m.id]]
                      /\ kind \in {"positive", "negative"} => m.kind # "pending"
BY DEF Receive, DropReply, AwaitFinal, TooManyPending, Negative, Positive, End, Recv, ecuVars, Ends

\* A call that ends without a reply leaves the queues alone.
LEMMA TimerEffect ==
  ASSUME Timeout \/ RecvFails
  PROVE  /\ UNCHANGED <<calls, quiet, rxq, ecuq>>
         /\ pc # "idle" /\ pc' = "idle"
         /\ \E kind \in Ends \ {"positive", "negative"} :
              outcome' = [outcome EXCEPT ![calls] = [kind |-> kind, from |-> 0]]
BY DEF Timeout, RecvFails, End, ecuVars, Ends

\* All messages of a queue belong to one call: taking the oldest keeps it so,
\* and so does adding one of that call.
LEMMA TailAllOf ==
  ASSUME NEW S, NEW q \in Seq(S), q # << >>, NEW i, AllOf(q, i)
  PROVE  AllOf(Tail(q), i) /\ q[1].id = i
BY TailElements DEF AllOf

\* The same for adding one.
LEMMA AppendAllOf ==
  ASSUME NEW S, NEW q \in Seq(S), NEW e \in S, NEW i, AllOf(q, i), e.id = i
  PROVE  AllOf(Append(q, e), i)
BY AppendElements DEF AllOf

\* Every step keeps the invariant of quiet calls.
LEMMA QuietStep == QuietInv /\ [Next]_vars => QuietInv'
<1> SUFFICES ASSUME QuietInv, [Next]_vars, TypeOK' PROVE QuietInv'
  BY TypeStep DEF QuietInv
<1> USE DEF QuietInv, NotYetEnded, QuietChannel, QuietCallOwnAnswer, Answered, Ids
<1>1. ASSUME NEW sid \in Sids, NEW expect \in BOOLEAN, Send(sid, expect) PROVE QuietInv'
  <2>1. /\ calls' = calls + 1 /\ pc' # "idle" /\ outcome' = outcome /\ rxq' = rxq
        /\ quiet' = IF rxq = << >> /\ ecuq = << >> THEN quiet \cup {calls + 1} ELSE quiet
    BY <1>1 DEF Send
  <2>2. calls' \in quiet' => AllOf(rxq', calls') /\ AllOf(ecuq', calls')
    BY <1>1, <2>1 DEF Send, TypeOK, AllOf
  <2>3. calls + 1 \in Ids /\ outcome[calls + 1] = NotEnded
    BY <1>1 DEF Send, TypeOK
  <2>4. NotYetEnded'
    BY <2>1, <2>3 DEF TypeOK
  <2>5. QuietCallOwnAnswer'
    BY <2>1, <2>3 DEF NotEnded
  <2>6. quiet' \subseteq 1 .. calls'
    <3>1. calls \in Nat
      BY DEF TypeOK
    <3>2. 1 .. calls \subseteq 1 .. calls + 1 /\ calls + 1 \in 1 .. calls + 1
      BY <3>1
    <3>3. quiet \subseteq 1 .. calls
      OBVIOUS
    <3>4. QED
      BY <2>1, <3>2, <3>3
  <2>7. QuietChannel'
    BY <2>2, <2>6
  <2>8. QED
    BY <2>4, <2>5, <2>7
<1>2. ASSUME NEW sid \in Sids, NEW expect \in BOOLEAN, SendFails(sid, expect) PROVE QuietInv'
  <2>1. /\ calls' = calls + 1 /\ UNCHANGED <<pc, quiet, rxq, ecuq>> /\ pc = "idle"
        /\ outcome' = [outcome EXCEPT ![calls + 1] = [kind |-> "transport", from |-> 0]]
    BY <1>2 DEF SendFails, ecuVars
  <2>2. QuietChannel' /\ NotYetEnded'
    BY <2>1 DEF TypeOK
  <2>3. QuietCallOwnAnswer'
    BY <2>1 DEF TypeOK
  <2>4. QED
    BY <2>2, <2>3
<1>3. CASE Receive
  <2> PICK m \in Replies :
        /\ Recv(m)
        /\ UNCHANGED <<calls, quiet, ecuq>>
        /\ \/ pc' # "idle" /\ m.kind = "pending" /\ UNCHANGED outcome
           \/ /\ pc' = "idle"
              /\ \E kind \in Ends :
                   /\ outcome' = [outcome EXCEPT ![calls] = [kind |-> kind, from |-> m.id]]
                   /\ kind \in {"positive", "negative"} => m.kind # "pending"
    BY <1>3, ReceiveEffect
  <2>1. pc # "idle" /\ calls \in Ids /\ m = rxq[1] /\ 1 \in 1 .. Len(rxq) /\ rxq' = Tail(rxq)
    BY TailElements DEF Recv, TypeOK
  <2>2. rxq # << >> /\ rxq \in Seq(Replies)
    BY DEF Recv, TypeOK
  <2>3. calls \in quiet => m.id = calls /\ AllOf(rxq', calls)
    BY <2>1, <2>2, TailAllOf
  <2>4. QuietChannel'
    BY <2>1, <2>3
  <2>5. CASE pc' # "idle" /\ UNCHANGED outcome
    BY <2>1, <2>4, <2>5
  <2>6. ASSUME pc' = "idle", NEW kind \in Ends,
               outcome' = [outcome EXCEPT ![calls] = [kind |-> kind, from |-> m.id]]
        PROVE  NotYetEnded' /\ QuietCallOwnAnswer'
    <3>1. NotYetEnded'
      BY <2>1, <2>6 DEF TypeOK
    <3>2. QuietCallOwnAnswer'
      BY <2>1, <2>3, <2>6 DEF TypeOK
    <3>3. QED
      BY <3>1, <3>2
  <2>7. QED
    BY <2>4, <2>5, <2>6
<1>4. CASE Timeout \/ RecvFails
  <2> PICK kind \in Ends \ {"positive", "negative"} :
        outcome' = [outcome EXCEPT ![calls] = [kind |-> kind, from |-> 0]]
    BY <1>4, TimerEffect
  <2>1. UNCHANGED <<calls, quiet, rxq, ecuq>> /\ pc # "idle" /\ pc' = "idle"
    BY <1>4, TimerEffect
  <2>2. QuietChannel' /\ NotYetEnded'
    BY <2>1 DEF TypeOK
  <2>3. QuietCallOwnAnswer'
    BY <2>1 DEF TypeOK
  <2>4. QED
    BY <2>2, <2>3
<1>5. CASE Ecu
  <2>1. UNCHANGED <<pc, calls, outcome, quiet>>
    BY <1>5 DEF Ecu, EcuPending, EcuDecide, EcuIgnore, clientVars
  <2>2. EcuMoves
    BY <1>5, EcuEffect
  <2>3. ASSUME pc # "idle", calls \in quiet PROVE AllOf(rxq', calls) /\ AllOf(ecuq', calls)
    <3>1. ecuq[1].id = calls /\ AllOf(Tail(ecuq), calls)
      BY <2>2, <2>3, TailAllOf DEF TypeOK, EcuMoves
    <3>2. AllOf(ecuq', calls)
      BY <2>2, <2>3, <3>1 DEF EcuMoves
    <3>3. ASSUME NEW e \in Replies, e.id = ecuq[1].id, rxq' = Append(rxq, e)
          PROVE  AllOf(rxq', calls)
      BY <2>3, <3>1, <3>3, AppendAllOf DEF TypeOK
    <3>4. QED
      BY <2>2, <2>3, <3>2, <3>3 DEF EcuMoves
  <2>4. QED
    BY <2>1, <2>3
<1>6. CASE UNCHANGED vars
  BY <1>6 DEF vars, clientVars, ecuVars
<1>7. QED
  BY <1>1, <1>2, <1>3, <1>4, <1>5, <1>6 DEF Next, Client

\* A call begun while nothing was outstanding never reports the answer to
\* another request: lost and late replies, 0x78 storms and socket errors
\* included, for every number of calls and every max_pending.
THEOREM QuietCalls == Spec => []QuietCallOwnAnswer
<1>1. Init => QuietInv
  BY TypeInit DEF Init, QuietInv, NotYetEnded, QuietChannel, QuietCallOwnAnswer
<1>2. QuietInv => QuietCallOwnAnswer
  BY DEF QuietInv
<1>3. QED
  BY <1>1, <1>2, QuietStep, PTL DEF Spec

-----------------------------------------------------------------------------
(* Identifiers.                                                            *)

\* Everything in the queues and in the outcomes carries a number.
LEMMA Numbers ==
  ASSUME TypeOK
  PROVE  /\ calls \in Nat
         /\ \A k \in 1 .. Len(rxq) : rxq[k] \in Replies /\ rxq[k].id \in Nat
         /\ \A k \in 1 .. Len(ecuq) : ecuq[k] \in Requests /\ ecuq[k].id \in Nat
         /\ \A i \in Ids : outcome[i].from \in Nat
         /\ Len(rxq) \in Nat /\ Len(ecuq) \in Nat
<1>1. \A k \in 1 .. Len(rxq) : rxq[k] \in Replies
  BY DEF TypeOK
<1>2. \A k \in 1 .. Len(ecuq) : ecuq[k] \in Requests
  BY DEF TypeOK
<1>3. calls \in Nat /\ Len(rxq) \in Nat /\ Len(ecuq) \in Nat
  BY DEF TypeOK
<1>4. \A i \in Ids : outcome[i].from \in Nat
  BY DEF TypeOK
<1>5. QED
  BY <1>1, <1>2, <1>3, <1>4 DEF Replies, Requests, Ids

-----------------------------------------------------------------------------
(* A new request is younger than everything outstanding.                   *)

\* Sending keeps the order.
LEMMA SendOrder ==
  ASSUME OrderInv, TypeOK', NEW sid \in Sids, NEW expect \in BOOLEAN, Send(sid, expect)
  PROVE  OrderInv'
<1> DEFINE r == [id |-> calls + 1, sid |-> sid, expect |-> expect]
<1>1. /\ calls' = calls + 1 /\ pc' # "idle" /\ outcome' = outcome /\ rxq' = rxq
      /\ ecuq' = Append(ecuq, r) /\ pc = "idle" /\ calls < MaxCalls
  BY DEF Send
<1>2. /\ calls \in Nat
      /\ \A k \in 1 .. Len(rxq) : rxq[k].id \in Nat
      /\ \A k \in 1 .. Len(ecuq) : ecuq[k].id \in Nat
      /\ \A i \in Ids : outcome[i].from \in Nat
  BY Numbers DEF OrderInv
<1>3. calls + 1 \in Ids /\ outcome[calls + 1] = NotEnded
  BY <1>1, <1>2 DEF OrderInv, NotYetEnded, Ids, TypeOK
<1>4. /\ Len(ecuq') = Len(ecuq) + 1 /\ Len(ecuq) \in Nat
      /\ ecuq'[Len(ecuq) + 1].id = calls + 1
      /\ \A k \in 1 .. Len(ecuq) : ecuq'[k] = ecuq[k]
  <2>1. r.id = calls + 1 /\ ecuq \in Seq(Requests)
    BY DEF OrderInv, TypeOK
  <2> HIDE DEF r
  <2>2. QED
    BY <1>1, <2>1
<1>5. NotYetEnded'
  BY <1>1, <1>2, <1>3 DEF OrderInv, NotYetEnded, Ids
<1>6. RequestsSorted'
  BY <1>1, <1>2, <1>4 DEF OrderInv, RequestsSorted
<1>7. RepliesSorted'
  BY <1>1, <1>2, <1>4 DEF OrderInv, RepliesSorted
<1>8. EndsBehind'
  BY <1>1, <1>2, <1>4 DEF OrderInv, EndsBehind, Answered
<1>9. AnswersInOrder' /\ NoAnswerTwice'
  BY <1>1 DEF OrderInv, AnswersInOrder, NoAnswerTwice, Answered
<1>10. QED
  BY <1>5, <1>6, <1>7, <1>8, <1>9 DEF OrderInv

-----------------------------------------------------------------------------
(* A call that ends without a reply changes nothing of the order.          *)

\* So does the end of a call without a reply.
LEMMA SilentEndOrder ==
  ASSUME OrderInv, TypeOK', UNCHANGED <<rxq, ecuq>>, pc' = "idle",
         NEW c \in Ids, c = calls', calls <= calls', outcome[c] = NotEnded,
         \A i \in Ids : i > calls' => outcome[i] = NotEnded,
         NEW kind \in Ends \ {"positive", "negative"},
         outcome' = [outcome EXCEPT ![c] = [kind |-> kind, from |-> 0]]
  PROVE  OrderInv'
<1>1. /\ calls \in Nat /\ calls' \in Nat
      /\ \A k \in 1 .. Len(rxq) : rxq[k].id \in Nat
      /\ \A k \in 1 .. Len(ecuq) : ecuq[k].id \in Nat
      /\ \A i \in Ids : outcome[i].from \in Nat
  BY Numbers DEF OrderInv, Ids
<1>2. /\ \A i \in Ids \ {c} : outcome'[i] = outcome[i]
      /\ outcome'[c].from = 0 /\ ~Answered(c)'
  BY DEF OrderInv, TypeOK, Answered
<1>3. NotYetEnded'
  BY <1>1, <1>2 DEF NotYetEnded, Ids
<1>4. RequestsSorted' /\ RepliesSorted'
  BY <1>1 DEF OrderInv, RequestsSorted, RepliesSorted
<1>5. EndsBehind'
  BY <1>1, <1>2 DEF OrderInv, EndsBehind, Answered
<1>6. AnswersInOrder'
  BY <1>1, <1>2 DEF OrderInv, AnswersInOrder
<1>7. NoAnswerTwice'
  BY <1>1, <1>2 DEF OrderInv, NoAnswerTwice, Answered
<1>8. QED
  BY <1>3, <1>4, <1>5, <1>6, <1>7 DEF OrderInv

-----------------------------------------------------------------------------
(* Taking the oldest reply.                                                *)

\* So does a reply that is taken.
LEMMA ReceiveOrder ==
  ASSUME OrderInv, TypeOK', Receive
  PROVE  OrderInv'
<1> PICK m \in Replies :
      /\ Recv(m)
      /\ UNCHANGED <<calls, quiet, ecuq>>
      /\ \/ pc' # "idle" /\ m.kind = "pending" /\ UNCHANGED outcome
         \/ /\ pc' = "idle"
            /\ \E kind \in Ends :
                 /\ outcome' = [outcome EXCEPT ![calls] = [kind |-> kind, from |-> m.id]]
                 /\ kind \in {"positive", "negative"} => m.kind # "pending"
  BY ReceiveEffect
<1>1. /\ calls \in Nat
      /\ \A k \in 1 .. Len(rxq) : rxq[k].id \in Nat
      /\ \A k \in 1 .. Len(ecuq) : ecuq[k].id \in Nat
      /\ \A i \in Ids : outcome[i].from \in Nat
  BY Numbers DEF OrderInv
<1>2. /\ pc # "idle" /\ calls \in Ids /\ outcome[calls] = NotEnded
      /\ rxq \in Seq(Replies) /\ rxq # << >> /\ rxq' = Tail(rxq)
  BY <1>1 DEF OrderInv, TypeOK, NotYetEnded, Recv, Ids
<1>3. /\ m = rxq[1] /\ 1 \in 1 .. Len(rxq)
      /\ \A k \in 1 .. Len(rxq') : /\ k + 1 \in 1 .. Len(rxq)
                                   /\ k + 1 > 1
                                   /\ rxq'[k] = rxq[k + 1]
  BY <1>2, TailElements DEF Recv
<1>4. RequestsSorted'
  BY DEF OrderInv, RequestsSorted
<1>5. RepliesSorted'
  <2>1. ASSUME NEW k \in 1 .. Len(rxq')
        PROVE  /\ rxq'[k].id <= calls
               /\ \A j \in 1 .. Len(ecuq) :
                    \/ rxq'[k].id < ecuq[j].id
                    \/ rxq'[k].id = ecuq[j].id /\ rxq'[k].kind = "pending"
    BY <1>3 DEF OrderInv, RepliesSorted
  <2>2. ASSUME NEW k \in 1 .. Len(rxq'), NEW j \in 1 .. Len(rxq'), j < k
        PROVE  \/ rxq'[j].id < rxq'[k].id
               \/ rxq'[j].id = rxq'[k].id /\ rxq'[j].kind = "pending"
    <3>1. j + 1 < k + 1
      BY <1>2, <2>2
    <3>2. /\ k + 1 \in 1 .. Len(rxq) /\ rxq'[k] = rxq[k + 1]
          /\ j + 1 \in 1 .. Len(rxq) /\ rxq'[j] = rxq[j + 1]
      BY <1>3
    <3>3. \A x, y \in 1 .. Len(rxq) : y < x =>
            \/ rxq[y].id < rxq[x].id
            \/ rxq[y].id = rxq[x].id /\ rxq[y].kind = "pending"
      BY DEF OrderInv, RepliesSorted
    <3>4. QED
      BY ONLY <3>1, <3>2, <3>3
  <2>3. calls' = calls /\ ecuq' = ecuq
    OBVIOUS
  <2>4. QED
    BY <2>1, <2>2, <2>3 DEF RepliesSorted
\* What is left is younger than m, or as old when m is a 0x78.
<1>6. /\ \A k \in 1 .. Len(rxq') : m.id <= rxq'[k].id
                                   /\ (m.kind # "pending" => m.id < rxq'[k].id)
      /\ \A k \in 1 .. Len(ecuq) : m.id <= ecuq[k].id
                                   /\ (m.kind # "pending" => m.id < ecuq[k].id)
      /\ m.id <= calls /\ m.id \in Nat
  BY <1>1, <1>3, SMTT(30) DEF OrderInv, RepliesSorted
<1>7. CASE pc' # "idle" /\ UNCHANGED outcome
  <2>1. NotYetEnded'
    BY <1>2, <1>7 DEF OrderInv, NotYetEnded
  <2>2. EndsBehind'
    BY <1>3, <1>7 DEF OrderInv, EndsBehind, Answered
  <2>3. AnswersInOrder' /\ NoAnswerTwice'
    BY <1>7 DEF OrderInv, AnswersInOrder, NoAnswerTwice, Answered
  <2>4. QED
    BY <1>4, <1>5, <2>1, <2>2, <2>3 DEF OrderInv
<1>8. ASSUME pc' = "idle", NEW kind \in Ends,
             outcome' = [outcome EXCEPT ![calls] = [kind |-> kind, from |-> m.id]],
             kind \in {"positive", "negative"} => m.kind # "pending"
      PROVE  OrderInv'
  <2>1. /\ \A i \in Ids \ {calls} : outcome'[i] = outcome[i] /\ (Answered(i)' <=> Answered(i))
        /\ outcome'[calls].from = m.id
        /\ Answered(calls)' => m.kind # "pending"
    BY <1>2, <1>8 DEF OrderInv, TypeOK, Answered
  \* No earlier end is younger than m, and no earlier answer as young.
  <2>2. \A i \in Ids : outcome[i].from <= m.id /\ (Answered(i) => outcome[i].from < m.id)
    BY <1>3 DEF OrderInv, EndsBehind
  <2>3. NotYetEnded'
    BY <1>1, <1>2, <1>8, <2>1 DEF OrderInv, NotYetEnded, Ids
  <2>4. EndsBehind'
    <3>1. ASSUME NEW i \in Ids, i # calls
          PROVE  /\ outcome'[i].from <= calls
                 /\ \A k \in 1 .. Len(rxq') : outcome'[i].from <= rxq'[k].id
                                       /\ (Answered(i)' => outcome'[i].from < rxq'[k].id)
                 /\ \A k \in 1 .. Len(ecuq) : outcome'[i].from <= ecuq[k].id
                                       /\ (Answered(i)' => outcome'[i].from < ecuq[k].id)
      BY <1>3, <2>1, <3>1 DEF OrderInv, EndsBehind
    <3>2. QED
      BY <1>6, <2>1, <3>1 DEF EndsBehind
  <2>5. \A i \in Ids : i > calls => outcome'[i].from = 0 /\ ~Answered(i)'
    <3>1. ASSUME NEW i \in Ids, i > calls
          PROVE  outcome'[i].from = 0 /\ ~Answered(i)'
      <4>1. outcome[i].from = 0 /\ ~Answered(i)
        BY <3>1 DEF OrderInv, NotYetEnded, NotEnded, Answered
      <4>2. i # calls
        BY <1>2, <3>1 DEF OrderInv, TypeOK, Ids
      <4>3. outcome'[i] = outcome[i] /\ (Answered(i)' <=> Answered(i))
        BY <2>1, <3>1, <4>2
      <4>4. QED
        BY <4>1, <4>3
    <3>2. QED
      BY <3>1
  <2>6. AnswersInOrder'
    <3>1. ASSUME NEW i \in Ids, NEW j \in Ids, i < j,
                 outcome'[i].from # 0, outcome'[j].from # 0
          PROVE  outcome'[i].from <= outcome'[j].from
      <4>1. CASE j = calls
        BY <1>1, <1>2, <2>1, <2>2, <3>1, <4>1 DEF Ids
      <4>2. CASE i = calls
        BY <1>1, <2>5, <3>1, <4>2 DEF Ids
      <4>3. CASE i # calls /\ j # calls
        BY <2>1, <3>1, <4>3 DEF OrderInv, AnswersInOrder
      <4>4. QED
        BY <4>1, <4>2, <4>3
    <3>2. QED
      BY <3>1 DEF AnswersInOrder
  <2>7. NoAnswerTwice'
    <3>1. ASSUME NEW i \in Ids, NEW j \in Ids, Answered(i)', Answered(j)',
                 outcome'[i].from = outcome'[j].from
          PROVE  i = j
      BY <1>1, <1>6, <2>1, <2>2, <3>1 DEF OrderInv, NoAnswerTwice
    <3>2. QED
      BY <3>1 DEF NoAnswerTwice, Answered
  <2>8. QED
    BY <1>4, <1>5, <2>3, <2>4, <2>6, <2>7 DEF OrderInv
<1>9. QED
  BY <1>7, <1>8

-----------------------------------------------------------------------------
(* The ECU answers its oldest request.                                     *)

\* So does each step of the ECU.
LEMMA EcuOrder ==
  ASSUME OrderInv, TypeOK', Ecu
  PROVE  OrderInv'
<1>1. UNCHANGED <<pc, calls, outcome>>
  BY DEF Ecu, EcuPending, EcuDecide, EcuIgnore, clientVars
<1>2. EcuMoves
  BY EcuEffect DEF OrderInv
<1>3. /\ calls \in Nat
      /\ \A k \in 1 .. Len(rxq) : rxq[k].id \in Nat
      /\ \A k \in 1 .. Len(ecuq) : ecuq[k].id \in Nat
      /\ \A i \in Ids : outcome[i].from \in Nat
  BY Numbers DEF OrderInv
<1>4. /\ ecuq \in Seq(Requests) /\ ecuq # << >> /\ 1 \in 1 .. Len(ecuq)
      /\ rxq \in Seq(Replies)
  BY <1>2 DEF OrderInv, TypeOK, EcuMoves
\* What is left of the requests keeps its order, and is younger than the one
\* answered unless that is still there.
<1>5. /\ \A k \in 1 .. Len(ecuq') : \E l \in 1 .. Len(ecuq) :
           /\ ecuq'[k] = ecuq[l]
           /\ (l = k /\ ecuq' = ecuq) \/ (l = k + 1 /\ ecuq' # ecuq)
      /\ RequestsSorted'
  <2>1. CASE ecuq' = ecuq
    BY <1>1, <2>1 DEF OrderInv, RequestsSorted
  <2>2. CASE ecuq' = Tail(ecuq)
    <3>1. \A k \in 1 .. Len(ecuq') : k + 1 \in 1 .. Len(ecuq) /\ ecuq'[k] = ecuq[k + 1]
      BY <1>4, <2>2, TailElements
    <3>2. ecuq' # ecuq
      BY <1>4, <2>2
    <3>3. ASSUME NEW k \in 1 .. Len(ecuq'), NEW j \in 1 .. Len(ecuq'), j < k
          PROVE  ecuq'[j].id < ecuq'[k].id
      <4>1. j + 1 < k + 1
        BY <1>4, <3>3
      <4>2. QED
        BY <3>1, <3>3, <4>1 DEF OrderInv, RequestsSorted
    <3>4. RequestsSorted'
      BY <1>1, <3>1, <3>3 DEF OrderInv, RequestsSorted
    <3>5. QED
      BY <3>1, <3>2, <3>4
  <2>3. QED
    BY <1>2, <2>1, <2>2 DEF EcuMoves
<1>6. \A k \in 1 .. Len(rxq), j \in 1 .. Len(ecuq') :
        \/ rxq[k].id < ecuq'[j].id
        \/ rxq[k].id = ecuq'[j].id /\ rxq[k].kind = "pending"
  BY <1>5 DEF OrderInv, RepliesSorted
<1>7. \A i \in Ids, k \in 1 .. Len(ecuq') :
        outcome[i].from <= ecuq'[k].id /\ (Answered(i) => outcome[i].from < ecuq'[k].id)
  BY <1>5 DEF OrderInv, EndsBehind
<1>8. RepliesSorted' /\ EndsBehind'
  <2>1. CASE rxq' = rxq
    BY <1>1, <1>6, <1>7, <2>1 DEF OrderInv, RepliesSorted, EndsBehind, Answered
  <2>2. ASSUME NEW e \in Replies, e.id = ecuq[1].id, rxq' = Append(rxq, e),
               ecuq' = ecuq => e.kind = "pending"
        PROVE  RepliesSorted' /\ EndsBehind'
    <3>1. /\ Len(rxq') = Len(rxq) + 1 /\ Len(rxq) \in Nat
          /\ rxq'[Len(rxq) + 1] = e
          /\ \A k \in 1 .. Len(rxq) : rxq'[k] = rxq[k]
      BY <1>4, <2>2
    <3>2. /\ e.id \in Nat /\ e.id <= calls
          /\ \A k \in 1 .. Len(rxq) : \/ rxq[k].id < e.id
                                      \/ rxq[k].id = e.id /\ rxq[k].kind = "pending"
          /\ \A i \in Ids : outcome[i].from <= e.id /\ (Answered(i) => outcome[i].from < e.id)
      BY <1>3, <1>4, <2>2 DEF OrderInv, RepliesSorted, RequestsSorted, EndsBehind
    <3>3. \A j \in 1 .. Len(ecuq') : \/ e.id < ecuq'[j].id
                                     \/ e.id = ecuq'[j].id /\ e.kind = "pending"
      <4>1. ASSUME NEW j \in 1 .. Len(ecuq'), NEW l \in 1 .. Len(ecuq),
                   ecuq'[j] = ecuq[l],
                   (l = j /\ ecuq' = ecuq) \/ (l = j + 1 /\ ecuq' # ecuq)
            PROVE  \/ e.id < ecuq'[j].id
                   \/ e.id = ecuq'[j].id /\ e.kind = "pending"
        <5>1. CASE l = 1
          <6>1. ecuq' = ecuq
            BY <1>4, <4>1, <5>1
          <6>2. QED
            BY <2>2, <4>1, <5>1, <6>1
        <5>2. CASE l # 1
          BY <1>4, <2>2, <4>1, <5>2 DEF OrderInv, RequestsSorted
        <5>3. QED
          BY <5>1, <5>2
      <4>2. QED
        BY <1>5, <4>1
    <3>4. RepliesSorted'
      BY <1>1, <1>6, <3>1, <3>2, <3>3 DEF OrderInv, RepliesSorted
    <3>5. EndsBehind'
      BY <1>1, <1>7, <3>1, <3>2 DEF OrderInv, EndsBehind, Answered
    <3>6. QED
      BY <3>4, <3>5
  <2>3. QED
    BY <1>2, <2>1, <2>2 DEF EcuMoves
<1>9. NotYetEnded' /\ AnswersInOrder' /\ NoAnswerTwice'
  BY <1>1 DEF OrderInv, NotYetEnded, AnswersInOrder, NoAnswerTwice, Answered
<1>10. QED
  BY <1>5, <1>8, <1>9 DEF OrderInv

-----------------------------------------------------------------------------
(* The invariant and what it gives.                                        *)

\* Every step keeps the order.
LEMMA OrderStep == OrderInv /\ [Next]_vars => OrderInv'
<1> SUFFICES ASSUME OrderInv, [Next]_vars, TypeOK' PROVE OrderInv'
  BY TypeStep DEF OrderInv
<1>1. ASSUME NEW sid \in Sids, NEW expect \in BOOLEAN, Send(sid, expect) PROVE OrderInv'
  BY <1>1, SendOrder
<1>2. ASSUME NEW sid \in Sids, NEW expect \in BOOLEAN, SendFails(sid, expect) PROVE OrderInv'
  <2>1. /\ calls' = calls + 1 /\ UNCHANGED <<pc, rxq, ecuq>> /\ pc = "idle"
        /\ outcome' = [outcome EXCEPT ![calls + 1] = [kind |-> "transport", from |-> 0]]
    BY <1>2 DEF SendFails, ecuVars
  <2>2. calls \in Nat /\ calls + 1 \in Ids
    BY <1>2 DEF OrderInv, TypeOK, SendFails, Ids
  <2>3. \A i \in Ids : i > calls => outcome[i] = NotEnded
    BY DEF OrderInv, NotYetEnded
  <2>4. "transport" \in Ends \ {"positive", "negative"}
    BY DEF Ends
  <2>5. outcome[calls + 1] = NotEnded /\ calls <= calls + 1
        /\ \A i \in Ids : i > calls + 1 => outcome[i] = NotEnded
    BY <2>2, <2>3 DEF Ids
  <2>6. QED
    BY <2>1, <2>2, <2>4, <2>5, SilentEndOrder
<1>3. CASE Receive
  BY <1>3, ReceiveOrder
<1>4. CASE Timeout \/ RecvFails
  <2> PICK kind \in Ends \ {"positive", "negative"} :
        outcome' = [outcome EXCEPT ![calls] = [kind |-> kind, from |-> 0]]
    BY <1>4, TimerEffect
  <2>1. UNCHANGED <<calls, rxq, ecuq>> /\ pc # "idle" /\ pc' = "idle"
    BY <1>4, TimerEffect
  <2>2. /\ calls \in Ids /\ outcome[calls] = NotEnded /\ calls <= calls
        /\ \A i \in Ids : i > calls => outcome[i] = NotEnded
    BY <2>1 DEF OrderInv, TypeOK, NotYetEnded, Ids
  <2>3. QED
    BY <2>1, <2>2, SilentEndOrder
<1>5. CASE Ecu
  BY <1>5, EcuOrder
<1>6. CASE UNCHANGED vars
  BY <1>6 DEF vars, clientVars, ecuVars, OrderInv, NotYetEnded, RequestsSorted,
              RepliesSorted, EndsBehind, AnswersInOrder, NoAnswerTwice, Answered
<1>7. QED
  BY <1>1, <1>2, <1>3, <1>4, <1>5, <1>6 DEF Next, Client

\* It holds at first.
LEMMA OrderInit == Init => OrderInv
  BY TypeInit DEF Init, OrderInv, NotYetEnded, NotEnded, RequestsSorted, RepliesSorted,
                  EndsBehind, AnswersInOrder, NoAnswerTwice, Answered

\* Replies that end calls are used in the order of the calls they answer: a
\* stale answer can be late, but a call never steps back behind one already
\* used, whatever the bus and the ECU do.
THEOREM AnswersStayInOrder == Spec => []AnswersInOrder
<1>1. OrderInv => AnswersInOrder
  BY DEF OrderInv
<1>2. QED
  BY <1>1, OrderInit, OrderStep, PTL DEF Spec

\* No answer of the ECU is reported by two calls.
THEOREM AnswersUsedOnce == Spec => []NoAnswerTwice
<1>1. OrderInv => NoAnswerTwice
  BY DEF OrderInv
<1>2. QED
  BY <1>1, OrderInit, OrderStep, PTL DEF Spec

-----------------------------------------------------------------------------
(* An ECU that answers in time.  Requests and replies may still be lost,   *)
(* and the ECU may fall silent.                                            *)

\* The bus and the ECU the contract is about: no answer comes after the timer,
\* the socket works, and the ECU sends 0x78 where one is expected and no more
\* often than the client's max_pending.
TimelyEcu ==
  /\ ~Late /\ ~Faulty /\ ~PendsSuppressed /\ ~Endless
  /\ EcuMaxPending <= MaxPending

\* What the ECU still owes the call in progress: at most one request, with its
\* 0x78 replies counted.
OwesOneRequest ==
  /\ Len(ecuq) <= 1
  /\ ecuq # << >> =>
       /\ ecuq[1] = [id |-> calls, sid |-> call.sid, expect |-> call.expect]
       /\ verdict[calls] = "open"
       /\ ecuPend = pending + Len(rxq)
       /\ \A k \in 1 .. Len(rxq) : rxq[k].kind = "pending"

\* The replies waiting for the call in progress: 0x78 within the limit, then
\* perhaps a final one, which says what the ECU decided.
RepliesTellTheTruth == \A k \in 1 .. Len(rxq) :
  /\ rxq[k].id = calls /\ rxq[k].sid = call.sid
  /\ rxq[k].kind = "pending" => call.expect /\ pending + k <= EcuMaxPending
  /\ rxq[k].kind = "positive" => verdict[calls] = "accepted"
  /\ rxq[k].kind = "negative" => verdict[calls] = "rejected"
  /\ k < Len(rxq) => rxq[k].kind = "pending"

CallInProgress == pc # "idle" => OwesOneRequest /\ RepliesTellTheTruth

\* Nothing is counted or decided that has not been asked.
NothingUnasked ==
  /\ pc = "idle" => pending = 0
  /\ ecuq = << >> => ecuPend = 0
  /\ \A i \in Ids : i > calls => verdict[i] = "open"

\* The inductive invariant.
TimelyInv ==
  /\ QuietInv
  /\ LeavesNothingBehind /\ CallInProgress /\ NothingUnasked
  /\ Truthful /\ PatientUpToTheLimit

-----------------------------------------------------------------------------
(* The client's steps.                                                     *)

\* A queue that is not empty but holds at most one message.
LEMMA SingleElement ==
  ASSUME NEW S, NEW q \in Seq(S), q # << >>, Len(q) <= 1
  PROVE  Len(q) = 1 /\ Tail(q) = << >>
<1>1. Len(q) \in Nat /\ Len(q) # 0
  OBVIOUS
<1>2. Len(q) = 1
  <2> DEFINE n == Len(q)
  <2>1. n \in Nat /\ n # 0 /\ n <= 1
    BY <1>1
  <2> HIDE DEF n
  <2>2. n = 1
    BY <2>1
  <2> QED
    BY <2>2 DEF n
<1>3. Tail(q) \in Seq(S) /\ Len(Tail(q)) = 0
  BY <1>2
<1>4. \A t \in Seq(S) : Len(t) = 0 => t = << >>
  OBVIOUS
<1>5. QED
  BY <1>2, <1>3, <1>4

\* A request meets an empty channel and is all that is outstanding.
LEMMA SendTimely ==
  ASSUME TimelyEcu, TimelyInv, QuietInv', NEW sid \in Sids, NEW expect \in BOOLEAN,
         Send(sid, expect)
  PROVE  TimelyInv'
<1> DEFINE r == [id |-> calls + 1, sid |-> sid, expect |-> expect]
<1>1. /\ pc = "idle" /\ pc' = "request" /\ calls < MaxCalls /\ calls' = calls + 1
      /\ call' = [sid |-> sid, expect |-> expect]
      /\ ecuq' = Append(ecuq, r)
      /\ UNCHANGED <<pending, outcome, rxq, ecuPend, verdict>>
  BY DEF Send
<1>2. ecuq = << >> /\ rxq = << >> /\ pending = 0 /\ ecuPend = 0
  BY <1>1 DEF TimelyInv, LeavesNothingBehind, NothingUnasked
<1>3. calls + 1 \in Ids /\ calls + 1 > calls /\ calls \in Nat
  BY <1>1 DEF TimelyInv, QuietInv, TypeOK, Ids
<1>4. ecuq' = <<r>> /\ Len(ecuq') = 1 /\ ecuq' # << >>
  BY <1>1, <1>2
<1>5. verdict'[calls'] = "open"
  BY <1>1, <1>3 DEF TimelyInv, NothingUnasked
<1>6. OwesOneRequest'
  <2>1. Len(rxq') = 0
    BY <1>1, <1>2
  <2>2. ecuq'[1] = [id |-> calls', sid |-> call'.sid, expect |-> call'.expect]
    BY <1>1, <1>4
  <2>3. QED
    BY <1>1, <1>2, <1>4, <1>5, <2>1, <2>2 DEF OwesOneRequest
<1>7. RepliesTellTheTruth'
  BY <1>1, <1>2 DEF RepliesTellTheTruth
<1>8. NothingUnasked'
  BY <1>1, <1>3, <1>4 DEF TimelyInv, NothingUnasked, Ids
<1>9. LeavesNothingBehind' /\ Truthful' /\ PatientUpToTheLimit'
  BY <1>1 DEF TimelyInv, LeavesNothingBehind, Truthful, PatientUpToTheLimit
<1>10. QED
  BY <1>6, <1>7, <1>8, <1>9 DEF TimelyInv, CallInProgress

\* Taking a reply either counts a 0x78 within the limit or ends the call with
\* what the ECU decided, and the channel is clear again.
LEMMA ReceiveTimely ==
  ASSUME TimelyEcu, TimelyInv, Receive
  PROVE  /\ pc # "idle" /\ calls \in Ids
         /\ rxq # << >> /\ rxq \in Seq(Replies) /\ rxq' = Tail(rxq)
         /\ UNCHANGED <<calls, call, ecuq, ecuPend, verdict>>
         /\ \/ /\ pc' = "receive" /\ pending' = pending + 1
               /\ UNCHANGED outcome
            \/ /\ pc' = "idle" /\ pending' = 0
               /\ rxq' = << >> /\ ecuq = << >>
               /\ \E kind \in {"positive", "negative", "suppressed"} :
                    /\ outcome' = [outcome EXCEPT ![calls] = [kind |-> kind, from |-> calls]]
                    /\ kind = "positive" => verdict[calls] = "accepted"
                    /\ kind = "negative" => verdict[calls] = "rejected"
<1>1. /\ pc # "idle" /\ rxq # << >> /\ rxq' = Tail(rxq)
      /\ UNCHANGED <<calls, call, ecuq, ecuPend, verdict>>
  BY DEF Receive, DropReply, AwaitFinal, TooManyPending, Negative, Positive, Recv, End, ecuVars
<1>2. /\ calls \in Ids /\ rxq \in Seq(Replies) /\ ecuq \in Seq(Requests)
      /\ pending \in Nat /\ OwesOneRequest /\ RepliesTellTheTruth
  BY <1>1 DEF TimelyInv, QuietInv, TypeOK, CallInProgress, Ids
<1> DEFINE m == Head(rxq)
<1>3. /\ m = rxq[1] /\ 1 \in 1 .. Len(rxq) /\ m \in Replies
      /\ m.kind \in {"positive", "negative", "pending"}
  <2>1. m = rxq[1] /\ 1 \in 1 .. Len(rxq) /\ m \in Replies
    BY <1>1, <1>2, TailElements
  <2> HIDE DEF m
  <2>2. QED
    BY <2>1 DEF Replies
<1> HIDE DEF m
<1>4. /\ m.id = calls /\ m.sid = call.sid
      /\ m.kind = "pending" => call.expect /\ pending < MaxPending
      /\ m.kind = "positive" => verdict[calls] = "accepted"
      /\ m.kind = "negative" => verdict[calls] = "rejected"
  BY <1>2, <1>3, PendingAssumption DEF RepliesTellTheTruth, TimelyEcu
<1>5. ASSUME m.kind # "pending" PROVE rxq' = << >> /\ ecuq = << >>
  <2>1. Len(rxq) = 1
    <3>1. Len(rxq) \in Nat /\ ~(1 < Len(rxq))
      BY <1>2, <1>3, <1>5 DEF RepliesTellTheTruth
    <3>2. QED
      BY <1>1, <1>2, <3>1, SingleElement
  <2>2. rxq' = << >>
    BY <1>1, <1>2, <2>1
  <2>3. ecuq = << >>
    BY <1>2, <1>3, <1>5 DEF OwesOneRequest
  <2>4. QED
    BY <2>2, <2>3
<1>6. ASSUME NEW kind \in {"positive", "negative", "suppressed"}, End(kind, m.id),
             m.kind # "pending",
             kind = "positive" => m.kind = "positive",
             kind = "negative" => m.kind = "negative"
      PROVE  /\ pc' = "idle" /\ pending' = 0
             /\ rxq' = << >> /\ ecuq = << >>
             /\ outcome' = [outcome EXCEPT ![calls] = [kind |-> kind, from |-> calls]]
             /\ kind = "positive" => verdict[calls] = "accepted"
             /\ kind = "negative" => verdict[calls] = "rejected"
  BY <1>4, <1>5, <1>6 DEF End
<1>7. CASE DropReply
  BY <1>1, <1>2, <1>3, <1>4, <1>6, <1>7 DEF DropReply, Recv, m
<1>8. CASE AwaitFinal
  BY <1>1, <1>2, <1>8 DEF AwaitFinal
<1>9. CASE TooManyPending
  <2>1. m.kind = "pending" /\ pending >= MaxPending
    BY <1>9 DEF TooManyPending, Recv, m
  <2>2. QED
    BY <1>2, <1>4, <2>1, PendingAssumption
<1>10. CASE Negative
  BY <1>1, <1>2, <1>6, <1>10 DEF Negative, Recv, m
<1>11. CASE Positive
  <2>1. m.kind = "positive" /\ End(IF m.sid = call.sid THEN "positive" ELSE "unexpected", m.id)
    BY <1>11 DEF Positive, Recv, m
  <2>2. End("positive", m.id)
    BY <1>4, <2>1
  <2>3. QED
    BY <1>1, <1>2, <1>6, <2>1, <2>2
<1>12. QED
  BY <1>7, <1>8, <1>9, <1>10, <1>11 DEF Receive

\* What is left after a 0x78 is still owed to the same call.
LEMMA AwaitTimely ==
  ASSUME TimelyEcu, TimelyInv, QuietInv', Receive
  PROVE  TimelyInv'
<1>1. /\ pc # "idle" /\ calls \in Ids
      /\ rxq # << >> /\ rxq \in Seq(Replies) /\ rxq' = Tail(rxq)
      /\ UNCHANGED <<calls, call, ecuq, ecuPend, verdict>>
  BY ReceiveTimely
<1>2. /\ pending \in Nat /\ ecuPend \in Nat /\ OwesOneRequest /\ RepliesTellTheTruth
      /\ outcome \in [Ids -> [kind : Ends \cup {"open"}, from : 0 .. MaxCalls]]
  BY <1>1 DEF TimelyInv, QuietInv, TypeOK, CallInProgress
<1>3. CASE pc' = "receive" /\ pending' = pending + 1 /\ UNCHANGED outcome
  <2>1. /\ Len(rxq') = Len(rxq) - 1 /\ Len(rxq) \in Nat
        /\ \A k \in 1 .. Len(rxq') : k + 1 \in 1 .. Len(rxq) /\ rxq'[k] = rxq[k + 1]
    BY <1>1, TailElements
  <2>2. OwesOneRequest'
    <3>1. Len(ecuq) <= 1 /\ UNCHANGED <<ecuq, calls, call, verdict, ecuPend>>
      BY <1>1, <1>2 DEF OwesOneRequest
    <3> SUFFICES ASSUME ecuq # << >>
                 PROVE  /\ ecuq[1] = [id |-> calls, sid |-> call.sid, expect |-> call.expect]
                        /\ verdict[calls] = "open"
                        /\ ecuPend = pending' + Len(rxq')
                        /\ \A k \in 1 .. Len(rxq') : rxq'[k].kind = "pending"
      BY <3>1, Zenon DEF OwesOneRequest
    <3>2. /\ ecuq[1] = [id |-> calls, sid |-> call.sid, expect |-> call.expect]
          /\ verdict[calls] = "open" /\ ecuPend = pending + Len(rxq)
          /\ \A k \in 1 .. Len(rxq) : rxq[k].kind = "pending"
      BY <1>2, Zenon DEF OwesOneRequest
    <3>3. ecuPend = pending' + Len(rxq')
      BY <1>2, <1>3, <2>1, <3>2
    <3> QED
      BY <2>1, <3>2, <3>3
  <2>3. RepliesTellTheTruth'
    <3> SUFFICES ASSUME NEW k \in 1 .. Len(rxq')
                 PROVE  /\ rxq'[k].id = calls /\ rxq'[k].sid = call.sid
                        /\ rxq'[k].kind = "pending" =>
                             call.expect /\ pending + 1 + k <= EcuMaxPending
                        /\ rxq'[k].kind = "positive" => verdict[calls] = "accepted"
                        /\ rxq'[k].kind = "negative" => verdict[calls] = "rejected"
                        /\ k < Len(rxq') => rxq'[k].kind = "pending"
      BY <1>1, <1>3 DEF RepliesTellTheTruth
    <3>1. k + 1 \in 1 .. Len(rxq) /\ rxq'[k] = rxq[k + 1] /\ k \in Nat
      BY <2>1
    <3>2. /\ rxq[k + 1].id = calls /\ rxq[k + 1].sid = call.sid
          /\ rxq[k + 1].kind = "pending" =>
               call.expect /\ pending + (k + 1) <= EcuMaxPending
          /\ rxq[k + 1].kind = "positive" => verdict[calls] = "accepted"
          /\ rxq[k + 1].kind = "negative" => verdict[calls] = "rejected"
          /\ k + 1 < Len(rxq) => rxq[k + 1].kind = "pending"
      BY <1>2, <3>1 DEF RepliesTellTheTruth
    <3>3. /\ pending + (k + 1) = pending + 1 + k
          /\ k < Len(rxq') => k + 1 < Len(rxq)
      BY <1>2, <2>1, <3>1
    <3>4. QED
      BY <3>1, <3>2, <3>3
  <2>4. LeavesNothingBehind' /\ NothingUnasked' /\ Truthful' /\ PatientUpToTheLimit'
    BY <1>1, <1>3
       DEF TimelyInv, LeavesNothingBehind, NothingUnasked, Truthful, PatientUpToTheLimit
  <2>5. QED
    BY <2>2, <2>3, <2>4 DEF TimelyInv, CallInProgress
<1>4. ASSUME pc' = "idle", pending' = 0, rxq' = << >>, ecuq = << >>,
             NEW kind \in {"positive", "negative", "suppressed"},
             outcome' = [outcome EXCEPT ![calls] = [kind |-> kind, from |-> calls]],
             kind = "positive" => verdict[calls] = "accepted",
             kind = "negative" => verdict[calls] = "rejected"
      PROVE  TimelyInv'
  <2>1. /\ outcome'[calls].kind = kind
        /\ \A i \in Ids : i # calls => outcome'[i] = outcome[i]
    BY <1>1, <1>2, <1>4
  <2>2. Truthful' /\ PatientUpToTheLimit'
    BY <1>1, <1>4, <2>1 DEF TimelyInv, Truthful, PatientUpToTheLimit
  <2>3. LeavesNothingBehind' /\ CallInProgress'
    BY <1>1, <1>4 DEF LeavesNothingBehind, CallInProgress
  <2>4. NothingUnasked'
    BY <1>1, <1>4 DEF TimelyInv, NothingUnasked
  <2>5. QED
    BY <2>2, <2>3, <2>4 DEF TimelyInv
<1>5. QED
  BY <1>3, <1>4, ReceiveTimely

\* The timer runs out only when the ECU owes nothing: the call ends in silence.
LEMMA TimeoutTimely ==
  ASSUME TimelyEcu, TimelyInv, Timeout
  PROVE  /\ pc # "idle" /\ pc' = "idle" /\ pending' = 0 /\ calls \in Ids
         /\ rxq = << >> /\ ecuq = << >>
         /\ UNCHANGED <<calls, call, rxq, ecuq, ecuPend, verdict>>
         /\ \E kind \in {"timeout", "suppressed"} :
              outcome' = [outcome EXCEPT ![calls] = [kind |-> kind, from |-> 0]]
<1>1. calls \in Ids
  BY DEF TimelyInv, QuietInv, TypeOK, Timeout, Ids
<1>2. QED
  BY <1>1 DEF Timeout, End, ecuVars, TimelyEcu

\* The timer runs out.
LEMMA SilenceTimely ==
  ASSUME TimelyEcu, TimelyInv, QuietInv', Timeout
  PROVE  TimelyInv'
<1>1. /\ pc' = "idle" /\ pending' = 0 /\ calls \in Ids
      /\ rxq = << >> /\ ecuq = << >>
      /\ UNCHANGED <<calls, call, rxq, ecuq, ecuPend, verdict>>
  BY TimeoutTimely
<1> PICK kind \in {"timeout", "suppressed"} :
      outcome' = [outcome EXCEPT ![calls] = [kind |-> kind, from |-> 0]]
  BY TimeoutTimely
<1>2. /\ outcome'[calls] = [kind |-> kind, from |-> 0]
      /\ \A i \in Ids : i # calls => outcome'[i] = outcome[i]
  BY <1>1 DEF TimelyInv, QuietInv, TypeOK
<1>3. Truthful' /\ PatientUpToTheLimit'
  BY <1>1, <1>2 DEF TimelyInv, Truthful, PatientUpToTheLimit
<1>4. LeavesNothingBehind' /\ CallInProgress' /\ NothingUnasked'
  BY <1>1 DEF TimelyInv, LeavesNothingBehind, CallInProgress, NothingUnasked
<1>5. QED
  BY <1>3, <1>4 DEF TimelyInv

-----------------------------------------------------------------------------
(* The ECU's steps.                                                        *)

\* An ECU with a request to answer serves the call in progress; it says 0x78,
\* or the request is over and decided at most once.
LEMMA EcuTimely ==
  ASSUME TimelyEcu, TimelyInv, Ecu
  PROVE  /\ pc # "idle" /\ calls \in Ids
         /\ ecuq # << >> /\ ecuq[1].id = calls /\ verdict[calls] = "open"
         /\ UNCHANGED <<pc, calls, call, pending, outcome>>
         /\ \/ verdict' = verdict
            \/ \E v \in {"accepted", "rejected"} :
                 verdict' = [verdict EXCEPT ![calls] = v]
<1>1. ecuq # << >> /\ UNCHANGED <<pc, calls, call, pending, outcome>>
  BY DEF Ecu, EcuPending, EcuDecide, EcuIgnore, clientVars
<1>2. pc # "idle" /\ calls \in Ids
  BY <1>1 DEF TimelyInv, LeavesNothingBehind, QuietInv, TypeOK, Ids
<1>3. ecuq[1].id = calls /\ verdict[calls] = "open" /\ Head(ecuq) = ecuq[1]
  <2>1. Head(ecuq) = ecuq[1]
    BY <1>1, TailElements DEF TimelyInv, QuietInv, TypeOK
  <2>2. QED
    BY <1>1, <1>2, <2>1 DEF TimelyInv, CallInProgress, OwesOneRequest
<1>4. ASSUME NEW v \in {"accepted", "rejected"}, EcuDecide(v)
      PROVE  verdict' = [verdict EXCEPT ![calls] = v]
  BY <1>3, <1>4 DEF EcuDecide
<1>5. QED
  BY <1>1, <1>2, <1>3, <1>4 DEF Ecu, EcuPending, EcuIgnore

\* A reply added to 0x78 replies is the last one.
LEMMA AppendLast ==
  ASSUME NEW S, NEW q \in Seq(S), NEW e \in S
  PROVE  /\ Len(Append(q, e)) = Len(q) + 1 /\ Len(q) \in Nat
         /\ Append(q, e)[Len(q) + 1] = e
         /\ \A k \in 1 .. Len(q) : Append(q, e)[k] = q[k]
OBVIOUS

\* The ECU answers, says 0x78 or ignores the request.
LEMMA ServeTimely ==
  ASSUME TimelyEcu, TimelyInv, QuietInv', Ecu
  PROVE  TimelyInv'
<1>1. /\ pc # "idle" /\ calls \in Ids /\ ecuq # << >> /\ verdict[calls] = "open"
      /\ UNCHANGED <<pc, calls, call, pending, outcome>>
      /\ verdict' = verdict \/ \E v \in {"accepted", "rejected"} :
                                 verdict' = [verdict EXCEPT ![calls] = v]
  BY EcuTimely
<1>2. /\ rxq \in Seq(Replies) /\ ecuq \in Seq(Requests) /\ Len(ecuq) = 1
      /\ pending \in Nat /\ ecuPend \in Nat /\ calls \in Nat
      /\ verdict \in [Ids -> {"open", "accepted", "rejected"}]
      /\ outcome[calls] = NotEnded
      /\ OwesOneRequest /\ RepliesTellTheTruth
  <2>1. Len(ecuq) <= 1 /\ ecuq \in Seq(Requests)
    BY <1>1 DEF TimelyInv, QuietInv, TypeOK, CallInProgress, OwesOneRequest
  <2>2. Len(ecuq) = 1
    BY <1>1, <2>1, SingleElement
  <2>3. outcome[calls] = NotEnded
    BY <1>1 DEF TimelyInv, QuietInv, NotYetEnded, Ids
  <2>4. QED
    BY <1>1, <2>2, <2>3 DEF TimelyInv, QuietInv, TypeOK, CallInProgress
<1>3. /\ Head(ecuq) = [id |-> calls, sid |-> call.sid, expect |-> call.expect]
      /\ ecuPend = pending + Len(rxq)
      /\ \A k \in 1 .. Len(rxq) : rxq[k].kind = "pending"
  BY <1>1, <1>2, TailElements DEF OwesOneRequest
<1>4. Tail(ecuq) = << >>
  <2>1. ecuq # << >> /\ ecuq \in Seq(Requests) /\ Len(ecuq) <= 1
    BY <1>1, <1>2
  <2>2. QED
    BY <2>1, SingleElement
\* Only the call in progress is decided, and it has reported nothing yet.
<1>5. /\ \A i \in Ids : i # calls => verdict'[i] = verdict[i]
      /\ Truthful' /\ PatientUpToTheLimit' /\ LeavesNothingBehind'
  <2>1. \A i \in Ids : i # calls => verdict'[i] = verdict[i]
    BY <1>1, <1>2
  <2>2. Truthful'
    BY <1>1, <1>2, <2>1 DEF TimelyInv, Truthful, NotEnded
  <2>3. PatientUpToTheLimit' /\ LeavesNothingBehind'
    BY <1>1 DEF TimelyInv, PatientUpToTheLimit, LeavesNothingBehind
  <2>4. QED
    BY <2>1, <2>2, <2>3
\* It is enough to know the two queues.
<1>6. ASSUME OwesOneRequest', RepliesTellTheTruth', ecuq' = << >> => ecuPend' = 0
      PROVE  TimelyInv'
  <2>1. NothingUnasked'
    BY <1>1, <1>2, <1>5, <1>6 DEF TimelyInv, NothingUnasked, Ids
  <2>2. QED
    BY <1>5, <1>6, <2>1 DEF TimelyInv, CallInProgress
\* The channel after the request is over without a reply.
<1>7. ASSUME rxq' = rxq, ecuq' = << >>, ecuPend' = 0 PROVE TimelyInv'
  <2>1. OwesOneRequest'
    BY <1>7 DEF OwesOneRequest
  <2>2. RepliesTellTheTruth'
    BY <1>1, <1>2, <1>3, <1>7 DEF RepliesTellTheTruth
  <2>3. QED
    BY <1>6, <1>7, <2>1, <2>2
\* The channel after one more reply e.
<1>8. ASSUME NEW e \in Replies, rxq' = Append(rxq, e), e.id = calls, e.sid = call.sid,
             e.kind = "pending" => call.expect /\ ecuPend < EcuMaxPending,
             e.kind = "positive" => verdict'[calls] = "accepted",
             e.kind = "negative" => verdict'[calls] = "rejected"
      PROVE  RepliesTellTheTruth'
  <2>1. /\ Len(rxq') = Len(rxq) + 1 /\ Len(rxq) \in Nat
        /\ rxq'[Len(rxq) + 1] = e
        /\ \A k \in 1 .. Len(rxq) : rxq'[k] = rxq[k]
    BY <1>2, <1>8, AppendLast
  <2>2. e.kind = "pending" => call.expect /\ pending + (Len(rxq) + 1) <= EcuMaxPending
    BY <1>2, <1>3, <1>8, <2>1, PendingAssumption
  <2>3. ASSUME NEW k \in 1 .. Len(rxq)
        PROVE  /\ rxq[k].id = calls /\ rxq[k].sid = call.sid /\ rxq[k].kind = "pending"
               /\ call.expect /\ pending + k <= EcuMaxPending
    BY <1>2, <1>3 DEF RepliesTellTheTruth
  <2>4. \A k \in 1 .. Len(rxq') : k \in 1 .. Len(rxq) \/ k = Len(rxq) + 1
    BY <2>1
  <2>5. QED
    BY <1>1, <1>8, <2>1, <2>2, <2>3, <2>4 DEF RepliesTellTheTruth
<1>9. ASSUME NEW kind \in {"positive", "negative", "pending"}
      PROVE  /\ ReplyTo(Head(ecuq), kind) \in Replies
             /\ ReplyTo(Head(ecuq), kind).id = calls
             /\ ReplyTo(Head(ecuq), kind).sid = call.sid
             /\ ReplyTo(Head(ecuq), kind).kind = kind
  <2>1. call.sid \in Sids
    BY DEF TimelyInv, QuietInv, TypeOK
  <2>2. QED
    BY <1>1, <1>3, <2>1 DEF ReplyTo, Replies
<1>10. CASE EcuPending
  <2> DEFINE e == ReplyTo(Head(ecuq), "pending")
  <2>1. /\ rxq' = Append(rxq, e) /\ ecuPend < EcuMaxPending /\ ecuPend' = ecuPend + 1
        /\ ecuq' = ecuq /\ verdict' = verdict /\ call.expect
    BY <1>3, <1>10, SwitchAssumption DEF EcuPending, TimelyEcu
  <2>2. e \in Replies /\ e.id = calls /\ e.sid = call.sid /\ e.kind = "pending"
    BY <1>9
  <2> HIDE DEF e
  <2>3. RepliesTellTheTruth'
    BY <1>8, <2>1, <2>2
  <2>4. /\ Len(rxq') = Len(rxq) + 1 /\ Len(rxq) \in Nat
        /\ rxq'[Len(rxq) + 1] = e
        /\ \A k \in 1 .. Len(rxq) : rxq'[k] = rxq[k]
    BY <1>2, <2>1, <2>2, AppendLast
  <2>5. /\ \A k \in 1 .. Len(rxq') : rxq'[k].kind = "pending"
        /\ ecuPend' = pending + Len(rxq')
    BY <1>2, <1>3, <2>1, <2>2, <2>4
  <2>6. OwesOneRequest'
    BY <1>1, <1>2, <2>1, <2>5 DEF OwesOneRequest
  <2>7. QED
    BY <1>1, <1>6, <2>1, <2>3, <2>6
<1>11. ASSUME NEW v \in {"accepted", "rejected"}, EcuDecide(v) PROVE TimelyInv'
  <2> DEFINE e == ReplyTo(Head(ecuq), IF v = "accepted" THEN "positive" ELSE "negative")
  <2>1. /\ ecuq' = << >> /\ ecuPend' = 0 /\ verdict'[calls] = v
        /\ rxq' = Append(rxq, e) \/ rxq' = rxq
    BY <1>1, <1>2, <1>3, <1>4, <1>11 DEF EcuDecide
  <2>2. /\ e \in Replies /\ e.id = calls /\ e.sid = call.sid
        /\ e.kind = IF v = "accepted" THEN "positive" ELSE "negative"
    BY <1>9
  <2> HIDE DEF e
  <2>3. CASE rxq' = Append(rxq, e)
    <3>1. RepliesTellTheTruth'
      BY <1>8, <2>1, <2>2, <2>3
    <3>2. OwesOneRequest'
      BY <2>1 DEF OwesOneRequest
    <3>3. QED
      BY <1>6, <2>1, <3>1, <3>2
  <2>4. QED
    BY <1>7, <2>1, <2>3
<1>12. CASE EcuIgnore
  BY <1>4, <1>7, <1>12 DEF EcuIgnore
<1>13. QED
  BY <1>10, <1>11, <1>12 DEF Ecu

-----------------------------------------------------------------------------
(* The invariant and what it gives.                                        *)

\* The invariant holds at first.
LEMMA TimelyInit == TimelyEcu /\ Init => TimelyInv
<1> SUFFICES ASSUME Init PROVE TimelyInv
  OBVIOUS
<1>1. QuietInv
  BY TypeInit DEF Init, QuietInv, NotYetEnded, QuietChannel, QuietCallOwnAnswer
<1>2. QED
  BY <1>1 DEF Init, TimelyInv, LeavesNothingBehind, CallInProgress, NothingUnasked,
              Truthful, PatientUpToTheLimit, NotEnded

\* Every step keeps it.
LEMMA TimelyStep == TimelyEcu /\ TimelyInv /\ [Next]_vars => TimelyInv'
<1> SUFFICES ASSUME TimelyEcu, TimelyInv, [Next]_vars, QuietInv' PROVE TimelyInv'
  BY QuietStep DEF TimelyInv
<1>1. ASSUME NEW sid \in Sids, NEW expect \in BOOLEAN, Send(sid, expect) PROVE TimelyInv'
  BY <1>1, SendTimely
<1>2. CASE Receive
  BY <1>2, AwaitTimely
<1>3. CASE Timeout
  BY <1>3, SilenceTimely
<1>4. CASE Ecu
  BY <1>4, ServeTimely
<1>5. CASE UNCHANGED vars
  BY <1>5 DEF vars, clientVars, ecuVars, TimelyInv, LeavesNothingBehind, CallInProgress,
              OwesOneRequest, RepliesTellTheTruth, NothingUnasked, Truthful,
              PatientUpToTheLimit
<1>6. QED
  BY <1>1, <1>2, <1>3, <1>4, <1>5 DEF Next, Client, SendFails, RecvFails, TimelyEcu

\* A call reports acceptance or refusal only when the ECU decided so on that
\* very request, when replies arrive in time, however many get lost.
THEOREM CallsTellTheTruth == ASSUME TimelyEcu PROVE Spec => []Truthful
<1>1. TimelyInv => Truthful
  BY DEF TimelyInv
<1>2. QED
  BY <1>1, TimelyInit, TimelyStep, PTL DEF Spec

\* Although _send never empties the receive queue, no call leaves a request or
\* a reply behind for the next one, whatever way it ends.
THEOREM ChannelClears == ASSUME TimelyEcu PROVE Spec => []LeavesNothingBehind
<1>1. TimelyInv => LeavesNothingBehind
  BY DEF TimelyInv
<1>2. QED
  BY <1>1, TimelyInit, TimelyStep, PTL DEF Spec

\* No call is given up because of a 0x78 reply while the ECU sends no more of
\* them than max_pending.
THEOREM PatienceLasts == ASSUME TimelyEcu PROVE Spec => []PatientUpToTheLimit
<1>1. TimelyInv => PatientUpToTheLimit
  BY DEF TimelyInv
<1>2. QED
  BY <1>1, TimelyInit, TimelyStep, PTL DEF Spec

-----------------------------------------------------------------------------
(* The client implements the contract.                                     *)

\* What the contract sees of the outcomes, as Contract maps them.
Seen(kind) == IF kind \in {"unexpected", "timeout", "transport"} THEN "failed" ELSE kind
Answers == [i \in Ids |-> Seen(outcome[i].kind)]

\* Ending one call reports one answer.
LEMMA AnswerOfEnd ==
  ASSUME NEW c \in Ids, \A i \in Ids : i # c => outcome'[i] = outcome[i]
  PROVE  Answers' = [Answers EXCEPT ![c] = Seen(outcome'[c].kind)]
<1>1. /\ Answers'[c] = Seen(outcome'[c].kind)
      /\ \A i \in Ids : i # c => Answers'[i] = Answers[i]
  BY DEF Answers
<1>2. Answers = [i \in Ids |-> Answers[i]] /\ Answers' = [i \in Ids |-> Answers'[i]]
  BY DEF Answers
<1>3. QED
  BY <1>1, <1>2

\* The client starts where the contract does.
LEMMA ContractInit == Init => Contract!Init
BY DEF Init, Contract!Init, Contract!Ids, NotEnded, Ids

\* A step of the client, its socket or the ECU asks, decides or reports for the
\* contract, or is none of its business.
LEMMA ContractStep ==
  ASSUME TimelyEcu, TimelyInv, [Next]_vars
  PROVE  [Contract!Next]_(Contract!vars)
<1> USE DEF Contract!Next, Contract!vars
<1>1. ASSUME UNCHANGED <<calls, pc, verdict, outcome>> PROVE UNCHANGED Contract!vars
  BY <1>1
<1>2. TypeOK
  BY DEF TimelyInv, QuietInv
<1>3. ASSUME NEW a \in {"positive", "negative", "suppressed", "failed"},
             pc # "idle", pc' = "idle", UNCHANGED <<calls, verdict>>,
             Contract!Vouches(a, verdict[calls]),
             Answers' = [Answers EXCEPT ![calls] = a]
      PROVE  Contract!Next
  BY <1>3 DEF Contract!Report, Answers, Seen
<1>4. ASSUME NEW sid \in Sids, NEW expect \in BOOLEAN, Send(sid, expect)
      PROVE  Contract!Next
  BY <1>4 DEF Send, Contract!Ask
<1>5. CASE Receive
  <2>1. /\ pc # "idle" /\ calls \in Ids /\ UNCHANGED <<calls, verdict>>
        /\ \/ pc' = "receive" /\ UNCHANGED outcome
           \/ /\ pc' = "idle"
              /\ \E kind \in {"positive", "negative", "suppressed"} :
                   /\ outcome' = [outcome EXCEPT ![calls] = [kind |-> kind, from |-> calls]]
                   /\ kind = "positive" => verdict[calls] = "accepted"
                   /\ kind = "negative" => verdict[calls] = "rejected"
    BY <1>5, ReceiveTimely
  <2>2. CASE pc' = "receive" /\ UNCHANGED outcome
    BY <2>1, <2>2
  <2>3. ASSUME pc' = "idle", NEW kind \in {"positive", "negative", "suppressed"},
               outcome' = [outcome EXCEPT ![calls] = [kind |-> kind, from |-> calls]],
               kind = "positive" => verdict[calls] = "accepted",
               kind = "negative" => verdict[calls] = "rejected"
        PROVE  Contract!Next
    <3>1. Answers' = [Answers EXCEPT ![calls] = kind]
      <4>1. /\ outcome'[calls].kind = kind
            /\ \A i \in Ids : i # calls => outcome'[i] = outcome[i]
        BY <1>2, <2>1, <2>3 DEF TypeOK
      <4>2. QED
        BY <2>1, <4>1, AnswerOfEnd DEF Seen
    <3>2. Contract!Vouches(kind, verdict[calls])
      BY <2>3 DEF Contract!Vouches
    <3>3. QED
      BY <1>3, <2>1, <2>3, <3>1, <3>2
  <2>4. QED
    BY <2>1, <2>2, <2>3
<1>6. CASE Timeout
  <2>1. pc # "idle" /\ pc' = "idle" /\ calls \in Ids /\ UNCHANGED <<calls, verdict>>
    BY <1>6, TimeoutTimely
  <2> PICK kind \in {"timeout", "suppressed"} :
        outcome' = [outcome EXCEPT ![calls] = [kind |-> kind, from |-> 0]]
    BY <1>6, TimeoutTimely
  <2>2. Answers' = [Answers EXCEPT ![calls] = Seen(kind)]
    <3>1. /\ outcome'[calls].kind = kind
          /\ \A i \in Ids : i # calls => outcome'[i] = outcome[i]
      BY <1>2, <2>1 DEF TypeOK
    <3>2. QED
      BY <2>1, <3>1, AnswerOfEnd
  <2>3. Contract!Vouches(Seen(kind), verdict[calls]) /\ Seen(kind) \in {"suppressed", "failed"}
    BY DEF Contract!Vouches, Seen
  <2>4. QED
    BY <1>3, <2>1, <2>2, <2>3
<1>7. CASE Ecu
  <2>1. /\ calls \in Ids /\ verdict[calls] = "open"
        /\ UNCHANGED <<pc, calls, outcome>>
        /\ \/ verdict' = verdict
           \/ \E v \in {"accepted", "rejected"} :
                verdict' = [verdict EXCEPT ![calls] = v]
    BY <1>7, EcuTimely
  <2>2. CASE verdict' = verdict
    BY <1>1, <2>1, <2>2
  <2>3. ASSUME NEW v \in {"accepted", "rejected"}, verdict' = [verdict EXCEPT ![calls] = v]
        PROVE  Contract!Next
    <3>1. Contract!Decide(calls, v)
      BY <1>2, <2>1, <2>3 DEF Contract!Decide, TypeOK
    <3>2. QED
      BY <2>1, <3>1 DEF Contract!Ids, Ids
  <2>4. QED
    BY <2>1, <2>2, <2>3
<1>8. CASE UNCHANGED vars
  BY <1>1, <1>8 DEF vars, clientVars, ecuVars
<1>9. QED
  BY <1>4, <1>5, <1>6, <1>7, <1>8 DEF Next, Client, SendFails, RecvFails, TimelyEcu

\* docs/uds-iso14229.md, for an ECU that answers in time: every behaviour of the
\* client, its socket and the ECU is one the contract allows.  (That a call
\* ends is liveness, and left to TLC.)
THEOREM KeepsTheContract ==
  ASSUME TimelyEcu
  PROVE  Spec => Contract!Init /\ [][Contract!Next]_(Contract!vars)
<1>1. TimelyInv /\ [Next]_vars => [Contract!Next]_(Contract!vars)
  BY ContractStep
<1>2. QED
  BY <1>1, TimelyInit, TimelyStep, ContractInit, PTL DEF Spec
=============================================================================
