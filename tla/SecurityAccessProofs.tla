------------------------ MODULE SecurityAccessProofs ------------------------
(***************************************************************************)
(* Proofs about SecurityAccess: an attempt that starts on a quiet channel  *)
(* gets its own seed, sends the key for it while the channel is still      *)
(* quiet, and is told the truth about the lock, for every number of calls, *)
(* every delay and loss, and an ECU that locks itself between attempts.    *)
(***************************************************************************)
EXTENDS SecurityAccess, UdsClientProofs

\* The ECU decides a request once: one it has not finished is undecided, and a
\* positive reply, waiting or reported, is of a request it accepted.
DecidedOnce ==
  /\ \A i \in Ids : i > calls => verdict[i] = "open"
  /\ \A k \in 1 .. Len(ecuq) : verdict[ecuq[k].id] = "open"
  /\ \A k \in 1 .. Len(rxq) :
       rxq[k].kind = "positive" => verdict[rxq[k].id] = "accepted"
  /\ \A i \in Ids :
       outcome[i].kind = "positive" =>
         outcome[i].from \in Ids /\ verdict[outcome[i].from] = "accepted"

\* Seeds are fresh, and calls not made have none and carry no key.
SeedsInv ==
  /\ \A i \in Ids : seed[i] \in {0, i}
  /\ \A i \in Ids : i > calls => content[i] = 0

\* What the two calls of a running attempt know of the ECU's lock.
AttemptInv ==
  /\ ustep \in {"seed", "key"} => calls \in Ids
  /\ ustep = "seed" =>
       /\ content[calls] = 0
       /\ verdict[calls] = "accepted" /\ seed[calls] = 0 => ~locked
       /\ calls \in quiet => AllOf(ecuq, calls)
       /\ calls \in quiet /\ verdict[calls] = "accepted" => issued = seed[calls]
  /\ ustep = "key" =>
       /\ content[calls] # 0
       /\ verdict[calls] = "accepted" => ~locked
       /\ calls - 1 \in quiet =>
            calls \in quiet \/ (pc = "idle" /\ outcome[calls].kind = "transport")
  /\ QuietAttemptIsRight

\* A key for the seed of a quiet request is the oldest thing the ECU has to do,
\* and no other seed has been issued since.
QuietKeys == \A k \in 1 .. Len(ecuq) :
  content[ecuq[k].id] # 0 /\ ecuq[k].id - 1 \in quiet =>
    k = 1 /\ content[ecuq[k].id] = ecuq[k].id - 1 /\ issued \in {0, ecuq[k].id - 1}

\* The inductive invariant.
UnlockInv ==
  /\ UnlockTypeOK /\ QuietInv /\ OrderInv /\ DecidedOnce
  /\ SeedsInv /\ AttemptInv /\ QuietKeys

-----------------------------------------------------------------------------
(* What the steps do.                                                      *)

\* The number of the next call, and the numbers in the queues.
LEMMA NextId ==
  ASSUME TypeOK
  PROVE  calls \in Nat /\ (calls < MaxCalls => calls + 1 \in Ids)
<1>1. calls \in 0 .. MaxCalls
  BY DEF TypeOK
<1>2. QED
  BY <1>1, CallsAssumption DEF Ids

\* What waits in the queues belongs to calls that were made.
LEMMA QueueIds ==
  ASSUME TypeOK
  PROVE  /\ \A k \in 1 .. Len(rxq) : rxq[k].id \in Ids
         /\ \A k \in 1 .. Len(ecuq) : ecuq[k].id \in Ids
<1>1. \A k \in 1 .. Len(rxq) : rxq[k] \in Replies
  BY DEF TypeOK
<1>2. \A k \in 1 .. Len(ecuq) : ecuq[k] \in Requests
  BY DEF TypeOK
<1>3. QED
  BY <1>1, <1>2 DEF Replies, Requests

\* The handshake is a use of the client: it takes no other steps of it.
LEMMA UnlockUsesClient == (UnlockInit => Init) /\ (UnlockNext => [Next]_vars)
<1>1. UnlockInit => Init
  BY DEF UnlockInit
<1>2. UnlockNext => [Next]_vars
  BY DEF UnlockNext, Unlock, RequestSeed, AlreadyUnlocked, SendKey, NoKey, KeyReply,
         CallRaised, EcuSeed, EcuNoSeed, EcuKey, EcuLocks, Next, Client, Ecu
<1>3. QED
  BY <1>1, <1>2

\* A call of the handshake begins: its request goes out last, or not at all.
CallBegins ==
  /\ pc = "idle" /\ calls < MaxCalls /\ calls' = calls + 1
  /\ UNCHANGED <<rxq, verdict>>
  /\ \/ /\ pc' # "idle" /\ outcome' = outcome
        /\ \E r \in Requests : r.id = calls + 1 /\ ecuq' = Append(ecuq, r)
        /\ quiet' = IF rxq = << >> /\ ecuq = << >> THEN quiet \cup {calls + 1} ELSE quiet
     \/ /\ pc' = "idle" /\ UNCHANGED <<ecuq, quiet>>
        /\ outcome' = [outcome EXCEPT ![calls + 1] = [kind |-> "transport", from |-> 0]]

\* Both ways a call begins are CallBegins.
LEMMA BeginEffect ==
  ASSUME TypeOK, NEW sid \in Sids, NEW expect \in BOOLEAN,
         Send(sid, expect) \/ SendFails(sid, expect)
  PROVE  CallBegins
<1>1. CASE Send(sid, expect)
  <2> DEFINE r == [id |-> calls + 1, sid |-> sid, expect |-> expect]
  <2>1. r \in Requests /\ r.id = calls + 1
    <3>1. calls + 1 \in Ids
      BY <1>1, NextId DEF Send
    <3>2. QED
      BY <3>1 DEF Requests
  <2>2. ecuq' = Append(ecuq, r)
    BY <1>1 DEF Send
  <2> HIDE DEF r
  <2>3. QED
    BY <1>1, <2>1, <2>2 DEF Send, CallBegins
<1>2. CASE SendFails(sid, expect)
  BY <1>2 DEF SendFails, CallBegins, ecuVars
<1>3. QED
  BY <1>1, <1>2

\* The client waits on, or its call ends; a positive report is of a positive
\* reply, which was the oldest one waiting.
ClientGoesOn ==
  /\ pc # "idle"
  /\ UNCHANGED <<calls, quiet, ecuq, verdict>>
  /\ rxq' = rxq \/ (rxq # << >> /\ rxq' = Tail(rxq))
  /\ \/ outcome' = outcome /\ pc' # "idle"
     \/ \E e \in [kind : Ends, from : 0 .. MaxCalls] :
          /\ pc' = "idle"
          /\ outcome' = [outcome EXCEPT ![calls] = e]
          /\ e.kind = "positive" =>
               rxq # << >> /\ rxq[1].kind = "positive" /\ e.from = rxq[1].id

\* Whatever the client does in a call is ClientGoesOn.
LEMMA ClientEffect ==
  ASSUME TypeOK, Receive \/ Timeout \/ RecvFails
  PROVE  ClientGoesOn
<1>1. ASSUME NEW m \in Replies, Recv(m)
      PROVE  /\ pc # "idle" /\ rxq # << >> /\ m = rxq[1] /\ rxq' = Tail(rxq)
             /\ m.id \in 0 .. MaxCalls /\ UNCHANGED <<ecuq, verdict>>
  BY <1>1, TailElements DEF Recv, TypeOK, Replies, Ids, ecuVars
<1>2. ASSUME NEW m \in Replies, Recv(m), NEW kind \in Ends, End(kind, m.id),
             kind = "positive" => m.kind = "positive"
      PROVE  ClientGoesOn
  <2> DEFINE e == [kind |-> kind, from |-> m.id]
  <2>1. e \in [kind : Ends, from : 0 .. MaxCalls]
    BY <1>1, <1>2
  <2>2. e.kind = kind /\ e.from = m.id
    OBVIOUS
  <2>3. pc' = "idle" /\ outcome' = [outcome EXCEPT ![calls] = e] /\ UNCHANGED <<calls, quiet>>
    BY <1>2 DEF End
  <2> HIDE DEF e
  <2>4. QED
    BY <1>1, <1>2, <2>1, <2>2, <2>3 DEF ClientGoesOn
<1>3. CASE DropReply
  BY <1>2, <1>3 DEF DropReply, Ends
<1>4. CASE AwaitFinal
  BY <1>1, <1>4 DEF AwaitFinal, ClientGoesOn
<1>5. CASE TooManyPending
  BY <1>2, <1>5 DEF TooManyPending, Ends
<1>6. CASE Negative
  BY <1>2, <1>6 DEF Negative, Ends
<1>7. CASE Positive
  <2> PICK m \in Replies :
        /\ Recv(m) /\ m.kind = "positive"
        /\ End(IF m.sid = call.sid THEN "positive" ELSE "unexpected", m.id)
    BY <1>7 DEF Positive
  <2> DEFINE kind == IF m.sid = call.sid THEN "positive" ELSE "unexpected"
  <2>1. kind \in Ends /\ End(kind, m.id)
    BY DEF Ends
  <2> HIDE DEF kind
  <2>2. QED
    BY <1>2, <2>1
<1>8. ASSUME NEW kind \in Ends \ {"positive"}, End(kind, 0), pc # "idle", UNCHANGED <<rxq, ecuVars>>
      PROVE  ClientGoesOn
  <2> DEFINE e == [kind |-> kind, from |-> 0]
  <2>1. e \in [kind : Ends, from : 0 .. MaxCalls] /\ e.kind # "positive"
    BY CallsAssumption
  <2>2. pc' = "idle" /\ outcome' = [outcome EXCEPT ![calls] = e] /\ UNCHANGED <<calls, quiet>>
    BY <1>8 DEF End
  <2> HIDE DEF e
  <2>3. QED
    BY <1>8, <2>1, <2>2 DEF ClientGoesOn, ecuVars
<1>9. CASE Timeout
  BY <1>8, <1>9 DEF Timeout, Ends
<1>10. CASE RecvFails
  BY <1>8, <1>10 DEF RecvFails, Ends
<1>11. QED
  BY <1>3, <1>4, <1>5, <1>6, <1>7, <1>9, <1>10 DEF Receive

\* The ECU finishes its oldest request, deciding it or not.
Finishes ==
  /\ ecuq # << >> /\ Head(ecuq) = ecuq[1] /\ ecuq[1].id \in Ids /\ 1 \in 1 .. Len(ecuq)
  /\ ecuq' = Tail(ecuq)
  /\ \A k \in 1 .. Len(ecuq') : k + 1 \in 1 .. Len(ecuq) /\ ecuq'[k] = ecuq[k + 1]
  /\ UNCHANGED <<pc, calls, outcome, quiet>>

\* The ECU takes up its oldest request and decides on it or ignores it.
LEMMA FinishEffect ==
  ASSUME TypeOK, NEW v \in {"accepted", "rejected"}, EcuDecide(v) \/ EcuIgnore
  PROVE  /\ Finishes
         /\ EcuIgnore => UNCHANGED <<rxq, verdict>>
         /\ EcuDecide(v) =>
              /\ verdict' = [verdict EXCEPT ![ecuq[1].id] = v]
              /\ \/ rxq' = rxq
                 \/ \E e \in Replies :
                      /\ e.id = ecuq[1].id /\ (e.kind = "positive" => v = "accepted")
                      /\ rxq' = Append(rxq, e)
<1>1. ecuq # << >> /\ ecuq \in Seq(Requests)
  BY DEF TypeOK, EcuDecide, EcuIgnore
<1>2. /\ Head(ecuq) = ecuq[1] /\ ecuq[1] \in Requests /\ 1 \in 1 .. Len(ecuq)
      /\ \A k \in 1 .. Len(Tail(ecuq)) : k + 1 \in 1 .. Len(ecuq) /\ Tail(ecuq)[k] = ecuq[k + 1]
  BY <1>1, TailElements
<1>3. ecuq[1].id \in Ids /\ ecuq[1].sid \in Sids
  BY <1>2 DEF Requests
<1>4. Finishes
  BY <1>1, <1>2, <1>3 DEF Finishes, EcuDecide, EcuIgnore, clientVars
<1>5. ASSUME EcuDecide(v)
      PROVE  /\ verdict' = [verdict EXCEPT ![ecuq[1].id] = v]
             /\ \/ rxq' = rxq
                \/ \E e \in Replies :
                     /\ e.id = ecuq[1].id /\ (e.kind = "positive" => v = "accepted")
                     /\ rxq' = Append(rxq, e)
  <2> DEFINE e == ReplyTo(ecuq[1], IF v = "accepted" THEN "positive" ELSE "negative")
  <2>1. /\ verdict' = [verdict EXCEPT ![ecuq[1].id] = v]
        /\ rxq' = rxq \/ rxq' = Append(rxq, e)
    BY <1>2, <1>5 DEF EcuDecide
  <2>2. e \in Replies /\ e.id = ecuq[1].id /\ (e.kind = "positive" => v = "accepted")
    BY <1>3 DEF ReplyTo, Replies
  <2> HIDE DEF e
  <2>3. QED
    BY <2>1, <2>2
<1>6. QED
  BY <1>4, <1>5 DEF EcuIgnore

\* The ECU says 0x78 and keeps the request.
LEMMA PendingEffect ==
  ASSUME TypeOK, EcuPending
  PROVE  /\ UNCHANGED <<pc, calls, outcome, quiet, ecuq, verdict>>
         /\ \E e \in Replies : e.kind = "pending" /\ rxq' = Append(rxq, e)
<1> DEFINE e == ReplyTo(Head(ecuq), "pending")
<1>1. Head(ecuq) \in Requests
  BY TailElements DEF TypeOK, EcuPending
<1>2. e \in Replies /\ e.kind = "pending"
  BY <1>1 DEF Requests, Replies, ReplyTo
<1>3. rxq' = Append(rxq, e) /\ UNCHANGED <<pc, calls, outcome, quiet, ecuq, verdict>>
  BY DEF EcuPending, clientVars
<1> HIDE DEF e
<1>4. QED
  BY <1>2, <1>3

-----------------------------------------------------------------------------
(* The ECU decides once.                                                   *)

\* A verdict on the oldest request does not touch the others waiting, nor any
\* request a positive reply vouches for.
LEMMA DecisionIsNew ==
  ASSUME OrderInv, ecuq # << >>, ecuq[1].id \in Ids, 1 \in 1 .. Len(ecuq)
  PROVE  /\ \A k \in 1 .. Len(ecuq) : k # 1 => ecuq[k].id # ecuq[1].id
         /\ \A k \in 1 .. Len(rxq) : rxq[k].kind = "positive" => rxq[k].id # ecuq[1].id
         /\ \A i \in Ids : outcome[i].kind = "positive" => outcome[i].from # ecuq[1].id
         /\ \A i \in Ids : i > calls => i # ecuq[1].id
<1>1. /\ calls \in Nat
      /\ \A k \in 1 .. Len(rxq) : rxq[k].id \in Nat
      /\ \A k \in 1 .. Len(ecuq) : ecuq[k].id \in Nat
      /\ \A i \in Ids : outcome[i].from \in Nat
  BY Numbers DEF OrderInv
<1>2. \A k \in 1 .. Len(ecuq) : k # 1 => ecuq[k].id # ecuq[1].id
  <2>1. \A k \in 1 .. Len(ecuq) : k # 1 => 1 < k
    OBVIOUS
  <2>2. QED
    BY <1>1, <2>1 DEF OrderInv, RequestsSorted
<1>3. \A k \in 1 .. Len(rxq) : rxq[k].kind = "positive" => rxq[k].id # ecuq[1].id
  BY <1>1 DEF OrderInv, RepliesSorted
<1>4. \A i \in Ids : outcome[i].kind = "positive" => outcome[i].from # ecuq[1].id
  BY <1>1 DEF OrderInv, EndsBehind, Answered
<1>5. \A i \in Ids : i > calls => i # ecuq[1].id
  BY <1>1 DEF OrderInv, RequestsSorted, Ids
<1>6. QED
  BY <1>2, <1>3, <1>4, <1>5

\* Every step of client and ECU keeps the decisions.
LEMMA DecidedStep ==
  ASSUME OrderInv, DecidedOnce,
         \/ CallBegins \/ ClientGoesOn \/ EcuPending
         \/ \E v \in {"accepted", "rejected"} : EcuDecide(v) \/ EcuIgnore
         \/ UNCHANGED vars
  PROVE  DecidedOnce'
<1>1. /\ TypeOK /\ calls \in Nat
      /\ rxq \in Seq(Replies) /\ ecuq \in Seq(Requests)
      /\ verdict \in [Ids -> {"open", "accepted", "rejected"}]
      /\ outcome \in [Ids -> [kind : Ends \cup {"open"}, from : 0 .. MaxCalls]]
  BY DEF OrderInv, TypeOK
<1>2. CASE CallBegins
  <2>1. calls' = calls + 1 /\ rxq' = rxq /\ verdict' = verdict /\ calls < MaxCalls
    BY <1>2 DEF CallBegins
  <2>2. calls + 1 \in Ids /\ verdict[calls + 1] = "open"
    <3>1. calls + 1 \in Ids /\ calls + 1 > calls
      BY <1>1, <2>1, NextId
    <3>2. QED
      BY <3>1 DEF DecidedOnce
  <2>3. \A k \in 1 .. Len(ecuq') : verdict[ecuq'[k].id] = "open"
    <3>1. CASE ecuq' = ecuq
      BY <3>1 DEF DecidedOnce
    <3>2. ASSUME NEW r \in Requests, r.id = calls + 1, ecuq' = Append(ecuq, r)
          PROVE  \A k \in 1 .. Len(ecuq') : verdict[ecuq'[k].id] = "open"
      BY <1>1, <2>2, <3>2, AppendElements DEF DecidedOnce
    <3>3. QED
      BY <1>2, <3>1, <3>2 DEF CallBegins
  <2>4. \A i \in Ids : outcome'[i].kind = "positive" => outcome'[i] = outcome[i]
    BY <1>1, <1>2, <2>2 DEF CallBegins
  <2>5. \A i \in Ids : i > calls' => i > calls
    BY <1>1, <2>1 DEF Ids
  <2>6. QED
    BY <2>1, <2>3, <2>4, <2>5 DEF DecidedOnce
<1>3. CASE ClientGoesOn
  <2>1. /\ UNCHANGED <<calls, ecuq, verdict>> /\ pc # "idle"
        /\ rxq' = rxq \/ (rxq # << >> /\ rxq' = Tail(rxq))
    BY <1>3 DEF ClientGoesOn
  <2>2. \A k \in 1 .. Len(rxq') : \E j \in 1 .. Len(rxq) : rxq'[k] = rxq[j]
    <3>1. CASE rxq' = rxq
      BY <3>1
    <3>2. CASE rxq # << >> /\ rxq' = Tail(rxq)
      <4>1. \A k \in 1 .. Len(rxq') : k + 1 \in 1 .. Len(rxq) /\ rxq'[k] = rxq[k + 1]
        BY <1>1, <3>2, TailElements
      <4>2. QED
        BY <4>1
    <3>3. QED
      BY <2>1, <3>1, <3>2
  <2>3. calls \in Ids
    BY <1>1, <2>1 DEF TypeOK, Ids
  <2>4. ASSUME NEW i \in Ids, outcome'[i].kind = "positive"
        PROVE  outcome'[i].from \in Ids /\ verdict[outcome'[i].from] = "accepted"
    <3>1. CASE outcome'[i] = outcome[i]
      BY <2>4, <3>1 DEF DecidedOnce
    <3>2. ASSUME NEW e \in [kind : Ends, from : 0 .. MaxCalls],
                 outcome' = [outcome EXCEPT ![calls] = e], i = calls,
                 e.kind = "positive" =>
                   rxq # << >> /\ rxq[1].kind = "positive" /\ e.from = rxq[1].id
          PROVE  outcome'[i].from \in Ids /\ verdict[outcome'[i].from] = "accepted"
      <4>1. outcome'[i] = e
        BY <1>1, <3>2
      <4>2. rxq # << >> /\ rxq[1].kind = "positive" /\ e.from = rxq[1].id
        BY <2>4, <3>2, <4>1
      <4>3. rxq[1] \in Replies /\ 1 \in 1 .. Len(rxq)
        BY <1>1, <4>2, TailElements
      <4>4. QED
        BY <4>1, <4>2, <4>3 DEF DecidedOnce, Replies
    <3>3. QED
      BY <1>1, <1>3, <2>3, <3>1, <3>2 DEF ClientGoesOn
  <2>5. QED
    BY <2>1, <2>2, <2>4 DEF DecidedOnce
<1>4. CASE EcuPending
  <2>1. UNCHANGED <<calls, outcome, ecuq, verdict>>
    BY <1>1, <1>4, PendingEffect
  <2> PICK e \in Replies : e.kind = "pending" /\ rxq' = Append(rxq, e)
    BY <1>1, <1>4, PendingEffect
  <2>2. \A k \in 1 .. Len(rxq') : rxq'[k] = e \/ (k \in 1 .. Len(rxq) /\ rxq'[k] = rxq[k])
    BY <1>1, AppendElements
  <2>3. QED
    BY <2>1, <2>2 DEF DecidedOnce
<1>5. ASSUME NEW v \in {"accepted", "rejected"}, EcuDecide(v) PROVE DecidedOnce'
  <2>1. Finishes /\ verdict' = [verdict EXCEPT ![ecuq[1].id] = v]
    BY <1>1, <1>5, FinishEffect
  <2>2. /\ ecuq # << >> /\ ecuq[1].id \in Ids /\ 1 \in 1 .. Len(ecuq)
        /\ \A k \in 1 .. Len(ecuq') : k + 1 \in 1 .. Len(ecuq) /\ ecuq'[k] = ecuq[k + 1]
        /\ UNCHANGED <<calls, outcome>>
    BY <2>1 DEF Finishes
  <2>3. /\ verdict'[ecuq[1].id] = v
        /\ \A i \in Ids : i # ecuq[1].id => verdict'[i] = verdict[i]
    BY <1>1, <2>1, <2>2
  <2>4. \A k \in 1 .. Len(ecuq') : verdict'[ecuq'[k].id] = "open"
    <3>1. \A k \in 1 .. Len(ecuq) : k # 1 =>
            ecuq[k].id \in Ids /\ verdict'[ecuq[k].id] = "open"
      <4>1. \A k \in 1 .. Len(ecuq) : ecuq[k].id \in Ids
        BY <1>1, QueueIds
      <4>2. QED
        BY <2>2, <2>3, <4>1, DecisionIsNew DEF DecidedOnce
    <3>2. \A k \in 1 .. Len(ecuq') : k + 1 # 1
      OBVIOUS
    <3>3. QED
      BY <2>2, <3>1, <3>2
  <2>5. \A i \in Ids : i > calls => verdict'[i] = "open"
    BY <2>2, <2>3, DecisionIsNew DEF DecidedOnce
  <2>6. \A i \in Ids : outcome[i].kind = "positive" =>
          outcome[i].from \in Ids /\ verdict'[outcome[i].from] = "accepted"
    BY <2>2, <2>3, DecisionIsNew DEF DecidedOnce
  <2>7. \A k \in 1 .. Len(rxq) : rxq[k].kind = "positive" =>
          verdict'[rxq[k].id] = "accepted"
    <3>1. \A k \in 1 .. Len(rxq) : rxq[k].id \in Ids
      BY <1>1, QueueIds
    <3>2. QED
      BY <2>2, <2>3, <3>1, DecisionIsNew DEF DecidedOnce
  <2>8. \A k \in 1 .. Len(rxq') : rxq'[k].kind = "positive" =>
          verdict'[rxq'[k].id] = "accepted"
    <3>1. CASE rxq' = rxq
      BY <2>7, <3>1
    <3>2. ASSUME NEW e \in Replies, e.id = ecuq[1].id, e.kind = "positive" => v = "accepted",
                 rxq' = Append(rxq, e)
          PROVE  \A k \in 1 .. Len(rxq') : rxq'[k].kind = "positive" =>
                   verdict'[rxq'[k].id] = "accepted"
      <4>1. \A k \in 1 .. Len(rxq') : rxq'[k] = e \/ (k \in 1 .. Len(rxq) /\ rxq'[k] = rxq[k])
        BY <1>1, <3>2, AppendElements
      <4>2. QED
        BY <2>3, <2>7, <3>2, <4>1
    <3>3. \/ rxq' = rxq
          \/ \E e \in Replies :
               /\ e.id = ecuq[1].id /\ (e.kind = "positive" => v = "accepted")
               /\ rxq' = Append(rxq, e)
      BY <1>1, <1>5, FinishEffect
    <3>4. QED
      BY <3>1, <3>2, <3>3
  <2>9. QED
    BY <2>2, <2>4, <2>5, <2>6, <2>8 DEF DecidedOnce
<1>6. CASE EcuIgnore
  <2>1. Finishes /\ UNCHANGED <<rxq, verdict>>
    BY <1>1, <1>6, FinishEffect
  <2>2. QED
    BY <2>1 DEF Finishes, DecidedOnce
<1>7. CASE UNCHANGED vars
  BY <1>7 DEF vars, clientVars, ecuVars, DecidedOnce
<1>8. QED
  BY <1>2, <1>3, <1>4, <1>5, <1>6, <1>7

-----------------------------------------------------------------------------
(* The handshake.                                                          *)

\* The part of the invariant that is the handshake's own.
HandshakeInv == UnlockTypeOK /\ SeedsInv /\ AttemptInv /\ QuietKeys

\* What the handshake's invariant says of the calls, in the form the proofs use.
LEMMA UnlockFacts ==
  ASSUME UnlockInv
  PROVE  /\ TypeOK /\ calls \in Nat
         /\ (calls < MaxCalls => calls + 1 \in Ids)
         /\ ecuq \in Seq(Requests) /\ rxq \in Seq(Replies)
         /\ quiet \subseteq 1 .. calls /\ quiet \subseteq Ids
         /\ \A k \in 1 .. Len(ecuq) : ecuq[k].id \in Ids /\ ecuq[k].id \in Nat
                                      /\ ecuq[k].id <= calls
         /\ content \in [Ids -> 0 .. MaxCalls] /\ seed \in [Ids -> 0 .. MaxCalls]
         /\ outcome \in [Ids -> [kind : Ends \cup {"open"}, from : 0 .. MaxCalls]]
         /\ verdict \in [Ids -> {"open", "accepted", "rejected"}]
<1>1. /\ TypeOK /\ OrderInv
      /\ quiet \subseteq 1 .. calls
      /\ content \in [Ids -> 0 .. MaxCalls] /\ seed \in [Ids -> 0 .. MaxCalls]
  BY DEF UnlockInv, UnlockTypeOK, QuietInv, QuietChannel
<1>2. /\ ecuq \in Seq(Requests) /\ rxq \in Seq(Replies) /\ quiet \subseteq Ids
      /\ outcome \in [Ids -> [kind : Ends \cup {"open"}, from : 0 .. MaxCalls]]
      /\ verdict \in [Ids -> {"open", "accepted", "rejected"}]
  BY <1>1 DEF TypeOK
<1>3. \A k \in 1 .. Len(ecuq) : ecuq[k].id \in Ids /\ ecuq[k].id \in Nat
                                 /\ ecuq[k].id <= calls
  BY <1>1, QueueIds, Numbers DEF OrderInv, RequestsSorted
<1>4. QED
  BY <1>1, <1>2, <1>3, NextId

\* The reply that brought the seed is the reply to a request the ECU accepted;
\* to the call itself when that began on a quiet channel, which is then quiet
\* again.
LEMMA SeedReply ==
  ASSUME UnlockInv, pc = "idle", calls \in Ids, outcome[calls].kind = "positive"
  PROVE  /\ outcome[calls].from \in Ids /\ verdict[outcome[calls].from] = "accepted"
         /\ calls \in quiet =>
              outcome[calls].from = calls /\ rxq = << >> /\ ecuq = << >>
<1>1. outcome[calls].from \in Ids /\ verdict[outcome[calls].from] = "accepted"
  BY DEF UnlockInv, DecidedOnce
<1>2. ASSUME calls \in quiet
      PROVE  outcome[calls].from = calls /\ rxq = << >> /\ ecuq = << >>
  <2>1. Answered(calls)
    BY DEF Answered
  <2>2. outcome[calls].from = calls
    BY <1>2, <2>1 DEF UnlockInv, QuietInv, QuietCallOwnAnswer
  <2>3. /\ \A k \in 1 .. Len(rxq) : calls < rxq[k].id /\ rxq[k].id <= calls
        /\ \A k \in 1 .. Len(ecuq) : calls < ecuq[k].id /\ ecuq[k].id <= calls
    BY <2>1, <2>2 DEF UnlockInv, OrderInv, EndsBehind, RepliesSorted, RequestsSorted
  <2>4. /\ calls \in Nat
        /\ \A k \in 1 .. Len(rxq) : rxq[k].id \in Nat
        /\ \A k \in 1 .. Len(ecuq) : ecuq[k].id \in Nat
    BY Numbers DEF UnlockInv, OrderInv
  <2>5. 1 \notin 1 .. Len(rxq) /\ 1 \notin 1 .. Len(ecuq)
    BY <2>3, <2>4
  <2>6. rxq = << >> /\ ecuq = << >>
    BY <2>5, UnlockFacts, TailElements
  <2>7. QED
    BY <2>2, <2>6
<1>3. QED
  BY <1>1, <1>2

\* A call that begins leaves the calls before it as they are.
LEMMA BeginFacts ==
  ASSUME UnlockInv, CallBegins
  PROVE  /\ pc = "idle" /\ calls' = calls + 1 /\ calls + 1 \in Ids /\ calls \in Nat
         /\ UNCHANGED <<rxq, verdict>>
         /\ verdict[calls + 1] = "open" /\ content[calls + 1] = 0
         /\ quiet' \subseteq quiet \cup {calls + 1}
         /\ calls + 1 \in quiet' => ecuq = << >>
         /\ rxq = << >> /\ ecuq = << >> =>
              calls + 1 \in quiet' \/ (pc' = "idle" /\ outcome'[calls + 1].kind = "transport")
         /\ \A k \in 1 .. Len(ecuq') :
              \/ k \in 1 .. Len(ecuq) /\ ecuq'[k] = ecuq[k]
              \/ ecuq'[k].id = calls + 1 /\ (ecuq = << >> => k = 1)
<1>1. /\ pc = "idle" /\ calls' = calls + 1 /\ calls + 1 \in Ids /\ calls \in Nat
      /\ UNCHANGED <<rxq, verdict>> /\ calls + 1 > calls
  BY UnlockFacts DEF CallBegins
<1>2. verdict[calls + 1] = "open" /\ content[calls + 1] = 0
  BY <1>1 DEF UnlockInv, DecidedOnce, SeedsInv
<1>3. /\ calls + 1 \notin quiet
      /\ outcome \in [Ids -> [kind : Ends \cup {"open"}, from : 0 .. MaxCalls]]
      /\ ecuq \in Seq(Requests)
  BY <1>1, UnlockFacts
<1>4. ASSUME NEW r \in Requests, r.id = calls + 1, ecuq' = Append(ecuq, r)
      PROVE  \A k \in 1 .. Len(ecuq') :
               \/ k \in 1 .. Len(ecuq) /\ ecuq'[k] = ecuq[k]
               \/ ecuq'[k].id = calls + 1 /\ (ecuq = << >> => k = 1)
  <2>1. ecuq = << >> => Len(ecuq') = 1
    BY <1>4
  <2>2. QED
    BY <1>3, <1>4, <2>1, AppendElements
<1>5. \A k \in 1 .. Len(ecuq') :
        \/ k \in 1 .. Len(ecuq) /\ ecuq'[k] = ecuq[k]
        \/ ecuq'[k].id = calls + 1 /\ (ecuq = << >> => k = 1)
  BY <1>4 DEF CallBegins
<1>6. /\ quiet' \subseteq quiet \cup {calls + 1}
      /\ calls + 1 \in quiet' => ecuq = << >>
      /\ rxq = << >> /\ ecuq = << >> =>
           calls + 1 \in quiet' \/ (pc' = "idle" /\ outcome'[calls + 1].kind = "transport")
  BY <1>1, <1>3 DEF CallBegins
<1>7. QED
  BY <1>1, <1>2, <1>5, <1>6

\* An attempt asks for its seed.
LEMMA RequestSeedStep ==
  ASSUME UnlockInv, TypeOK', RequestSeed
  PROVE  HandshakeInv'
<1>1. CallBegins /\ ustep' = "seed" /\ UNCHANGED <<content, seed, locked, issued>>
  BY BeginEffect, UnlockFacts DEF RequestSeed
<1>2. /\ calls' = calls + 1 /\ calls + 1 \in Ids /\ calls \in Nat /\ UNCHANGED verdict
      /\ verdict[calls + 1] = "open" /\ content[calls + 1] = 0
      /\ quiet' \subseteq quiet \cup {calls + 1}
      /\ calls + 1 \in quiet' => ecuq = << >>
      /\ \A k \in 1 .. Len(ecuq') :
           \/ k \in 1 .. Len(ecuq) /\ ecuq'[k] = ecuq[k]
           \/ ecuq'[k].id = calls + 1 /\ (ecuq = << >> => k = 1)
  BY <1>1, BeginFacts
<1>3. UnlockTypeOK'
  BY <1>1 DEF UnlockInv, UnlockTypeOK
<1>4. SeedsInv'
  BY <1>1, <1>2 DEF UnlockInv, SeedsInv, Ids
<1>5. AttemptInv'
  <2>1. calls' \in quiet' => AllOf(ecuq', calls')
    BY <1>2 DEF AllOf
  <2>2. QED
    BY <1>1, <1>2, <2>1 DEF AttemptInv, QuietAttemptIsRight
<1>6. QuietKeys'
  <2> SUFFICES ASSUME NEW k \in 1 .. Len(ecuq'),
                      content[ecuq'[k].id] # 0, ecuq'[k].id - 1 \in quiet'
               PROVE  /\ k = 1 /\ content[ecuq'[k].id] = ecuq'[k].id - 1
                      /\ issued \in {0, ecuq'[k].id - 1}
    BY <1>1 DEF QuietKeys
  <2>1. k \in 1 .. Len(ecuq) /\ ecuq'[k] = ecuq[k]
    BY <1>2
  <2>2. ecuq[k].id - 1 \in quiet
    BY <1>2, <2>1, UnlockFacts
  <2>3. QED
    BY <2>1, <2>2 DEF UnlockInv, QuietKeys
<1>7. QED
  BY <1>3, <1>4, <1>5, <1>6 DEF HandshakeInv

\* The key for the seed just received is sent.
LEMMA SendKeyStep ==
  ASSUME UnlockInv, TypeOK', SendKey
  PROVE  HandshakeInv'
<1>1. /\ CallBegins /\ ustep = "seed" /\ ustep' = "key" /\ UNCHANGED <<seed, locked, issued>>
      /\ outcome[calls].kind = "positive" /\ pc = "idle"
      /\ seed[outcome[calls].from] # 0
      /\ content' = [content EXCEPT ![calls + 1] = seed[outcome[calls].from]]
  BY BeginEffect, UnlockFacts DEF SendKey, GotSeed, Reply
<1>2. /\ calls' = calls + 1 /\ calls + 1 \in Ids /\ calls \in Nat /\ UNCHANGED verdict
      /\ verdict[calls + 1] = "open"
      /\ quiet' \subseteq quiet \cup {calls + 1}
      /\ rxq = << >> /\ ecuq = << >> =>
           calls + 1 \in quiet' \/ (pc' = "idle" /\ outcome'[calls + 1].kind = "transport")
      /\ \A k \in 1 .. Len(ecuq') :
           \/ k \in 1 .. Len(ecuq) /\ ecuq'[k] = ecuq[k]
           \/ ecuq'[k].id = calls + 1 /\ (ecuq = << >> => k = 1)
  BY <1>1, BeginFacts
<1>3. calls \in Ids
  BY <1>1 DEF UnlockInv, AttemptInv
<1>4. /\ outcome[calls].from \in Ids /\ verdict[outcome[calls].from] = "accepted"
      /\ calls \in quiet => outcome[calls].from = calls /\ rxq = << >> /\ ecuq = << >>
  BY <1>1, <1>3, SeedReply
<1>5. /\ seed[outcome[calls].from] \in 1 .. MaxCalls
      /\ content \in [Ids -> 0 .. MaxCalls]
  BY <1>1, <1>4, UnlockFacts
<1>6. /\ content'[calls + 1] = seed[outcome[calls].from]
      /\ \A i \in Ids : i # calls + 1 => content'[i] = content[i]
      /\ content' \in [Ids -> 0 .. MaxCalls]
  BY <1>1, <1>2, <1>5
\* When the seed request was quiet the key is for its seed, the last one issued.
<1>7. calls \in quiet => seed[outcome[calls].from] = calls /\ issued = calls
  <2> SUFFICES ASSUME calls \in quiet PROVE seed[calls] = calls /\ issued = calls
    BY <1>4
  <2>1. seed[calls] # 0 /\ verdict[calls] = "accepted"
    BY <1>1, <1>4
  <2>2. seed[calls] = calls
    BY <1>3, <2>1 DEF UnlockInv, SeedsInv
  <2>3. issued = seed[calls]
    BY <1>1, <2>1 DEF UnlockInv, AttemptInv
  <2>4. QED
    BY <2>2, <2>3
<1>8. UnlockTypeOK'
  BY <1>1, <1>6 DEF UnlockInv, UnlockTypeOK
<1>9. SeedsInv'
  BY <1>1, <1>2, <1>6 DEF UnlockInv, SeedsInv, Ids
<1>10. AttemptInv'
  <2>1. calls' - 1 \in quiet' =>
          calls' \in quiet' \/ (pc' = "idle" /\ outcome'[calls'].kind = "transport")
    <3>1. calls' - 1 = calls /\ calls # calls + 1
      BY <1>2
    <3>2. QED
      BY <1>2, <1>4, <3>1
  <2>2. content'[calls'] # 0
    BY <1>1, <1>2, <1>6
  <2>3. QED
    BY <1>1, <1>2, <2>1, <2>2 DEF AttemptInv, QuietAttemptIsRight
<1>11. QuietKeys'
  <2> SUFFICES ASSUME NEW k \in 1 .. Len(ecuq'),
                      content'[ecuq'[k].id] # 0, ecuq'[k].id - 1 \in quiet'
               PROVE  /\ k = 1 /\ content'[ecuq'[k].id] = ecuq'[k].id - 1
                      /\ issued \in {0, ecuq'[k].id - 1}
    BY <1>1 DEF QuietKeys
  <2>1. CASE k \in 1 .. Len(ecuq) /\ ecuq'[k] = ecuq[k]
    <3>1. /\ ecuq[k].id \in Ids /\ ecuq[k].id \in Nat /\ ecuq[k].id <= calls
      BY <2>1, UnlockFacts
    <3>2. ecuq[k].id - 1 \in quiet /\ ecuq[k].id # calls + 1
      BY <1>2, <2>1, <3>1
    <3>3. content[ecuq[k].id] # 0 /\ content'[ecuq[k].id] = content[ecuq[k].id]
      BY <1>6, <2>1, <3>1, <3>2
    <3>4. QED
      BY <2>1, <3>2, <3>3 DEF UnlockInv, QuietKeys
  <2>2. CASE ecuq'[k].id = calls + 1 /\ (ecuq = << >> => k = 1)
    <3>1. ecuq'[k].id - 1 = calls /\ calls \in quiet
      BY <1>2, <2>2
    <3>2. QED
      BY <1>4, <1>6, <1>7, <2>2, <3>1
  <2>3. QED
    BY <1>2, <2>1, <2>2
<1>12. QED
  BY <1>8, <1>9, <1>10, <1>11 DEF HandshakeInv

\* An attempt ends: without a key, with the reply to its key, or with an
\* exception.
LEMMA AttemptEnds ==
  ASSUME UnlockInv, AlreadyUnlocked \/ NoKey \/ KeyReply \/ CallRaised
  PROVE  HandshakeInv'
<1>1. UNCHANGED <<vars, content, seed, locked, issued>> /\ ustep' \in {"true", "raised"}
  BY DEF AlreadyUnlocked, NoKey, KeyReply, CallRaised
<1>2. /\ UNCHANGED <<pc, calls, outcome, quiet, rxq, ecuq, verdict>>
      /\ UNCHANGED <<call, pending, ecuPend>>
  BY <1>1 DEF vars, clientVars, ecuVars
<1>3. UnlockTypeOK' /\ SeedsInv' /\ QuietKeys'
  BY <1>1, <1>2 DEF UnlockInv, UnlockTypeOK, TypeOK, SeedsInv, QuietKeys
<1>4. ASSUME AlreadyUnlocked PROVE AttemptInv'
  <2>1. /\ ustep = "seed" /\ pc = "idle" /\ outcome[calls].kind = "positive"
        /\ seed[outcome[calls].from] = 0
    BY <1>4 DEF AlreadyUnlocked, GotSeed, Reply
  <2>2. calls \in Ids /\ content[calls] = 0
    BY <2>1 DEF UnlockInv, AttemptInv
  <2>3. calls \in quiet => verdict[calls] = "accepted" /\ seed[calls] = 0
    BY <2>1, <2>2, SeedReply
  <2>4. calls \in quiet => ~locked
    BY <2>1, <2>3 DEF UnlockInv, AttemptInv
  <2>5. QED
    BY <1>1, <1>2, <2>2, <2>4 DEF AttemptInv, QuietAttemptIsRight, SeedCall
<1>5. ASSUME KeyReply PROVE AttemptInv'
  <2>1. ustep = "key" /\ pc = "idle" /\ outcome[calls].kind = "positive"
    BY <1>5 DEF KeyReply, Reply
  <2>2. calls \in Ids /\ content[calls] # 0
    BY <2>1 DEF UnlockInv, AttemptInv
  <2>3. calls - 1 \in quiet => calls \in quiet
    BY <2>1 DEF UnlockInv, AttemptInv
  <2>4. calls \in quiet => verdict[calls] = "accepted"
    BY <2>1, <2>2, SeedReply
  <2>5. calls \in quiet => ~locked
    BY <2>1, <2>4 DEF UnlockInv, AttemptInv
  <2>6. QED
    BY <1>1, <1>2, <2>2, <2>3, <2>5 DEF AttemptInv, QuietAttemptIsRight, SeedCall
<1>6. ASSUME NoKey \/ CallRaised PROVE AttemptInv'
  <2>1. ustep' = "raised"
    BY <1>6 DEF NoKey, CallRaised
  <2>2. QED
    BY <2>1 DEF AttemptInv, QuietAttemptIsRight
<1>7. AttemptInv'
  BY <1>4, <1>5, <1>6
<1>8. QED
  BY <1>3, <1>7 DEF HandshakeInv

\* Once the ECU has finished its oldest request no key of a quiet attempt waits.
LEMMA FinishKeys ==
  ASSUME UnlockInv, Finishes, UNCHANGED content
  PROVE  QuietKeys'
<1>1. /\ \A k \in 1 .. Len(ecuq') : k + 1 \in 1 .. Len(ecuq) /\ ecuq'[k] = ecuq[k + 1]
      /\ quiet' = quiet
  BY DEF Finishes
<1>2. \A k \in 1 .. Len(ecuq') : k + 1 # 1
  OBVIOUS
<1>3. QED
  BY <1>1, <1>2 DEF UnlockInv, QuietKeys

\* What a decision of the ECU leaves alone.
LEMMA DecideFacts ==
  ASSUME UnlockInv, NEW v \in {"accepted", "rejected"}, EcuDecide(v)
  PROVE  /\ Finishes /\ ecuq[1].id \in Ids /\ Head(ecuq) = ecuq[1]
         /\ UNCHANGED <<pc, calls, outcome, quiet>>
         /\ verdict'[ecuq[1].id] = v
         /\ \A i \in Ids : i # ecuq[1].id => verdict'[i] = verdict[i]
         /\ \A i : AllOf(ecuq, i) => AllOf(ecuq', i) /\ ecuq[1].id = i
<1>1. Finishes /\ verdict' = [verdict EXCEPT ![ecuq[1].id] = v]
  BY FinishEffect, UnlockFacts
<1>2. \A i : AllOf(ecuq, i) => AllOf(ecuq', i) /\ ecuq[1].id = i
  BY <1>1 DEF Finishes, AllOf
<1>3. QED
  BY <1>1, <1>2, UnlockFacts DEF Finishes

\* The ECU answers a seed request.
LEMMA EcuSeedStep ==
  ASSUME UnlockInv, TypeOK', EcuSeed
  PROVE  HandshakeInv'
<1> DEFINE h == ecuq[1].id
<1>1. /\ Finishes /\ h \in Ids /\ Head(ecuq) = ecuq[1]
      /\ UNCHANGED <<pc, calls, outcome, quiet>>
      /\ verdict'[h] = "accepted"
      /\ \A i \in Ids : i # h => verdict'[i] = verdict[i]
      /\ \A i : AllOf(ecuq, i) => AllOf(ecuq', i) /\ h = i
  BY DecideFacts DEF EcuSeed
<1>2. /\ UNCHANGED <<ustep, content, locked>>
      /\ content[h] = 0
      /\ issued' = IF locked THEN h ELSE 0
      /\ seed' = [seed EXCEPT ![h] = issued']
  BY <1>1 DEF EcuSeed, Asked
<1>3. /\ seed'[h] = issued'
      /\ \A i \in Ids : i # h => seed'[i] = seed[i]
  BY <1>1, <1>2, UnlockFacts
<1>4. issued' \in 0 .. MaxCalls /\ issued' \in {0, h} /\ (issued' = 0 => ~locked)
  BY <1>1, <1>2, CallsAssumption DEF Ids
<1> HIDE DEF h
<1>5. UnlockTypeOK'
  <2>1. seed' \in [Ids -> 0 .. MaxCalls]
    BY <1>2, <1>4, UnlockFacts
  <2>2. QED
    BY <1>2, <1>4, <2>1 DEF UnlockInv, UnlockTypeOK
<1>6. SeedsInv'
  BY <1>1, <1>2, <1>3, <1>4 DEF UnlockInv, SeedsInv
<1>7. AttemptInv'
  <2>1. CASE ustep = "seed"
    <3>1. CASE h = calls
      BY <1>1, <1>2, <1>3, <1>4, <2>1, <3>1 DEF UnlockInv, AttemptInv, QuietAttemptIsRight
    <3>2. CASE h # calls
      BY <1>1, <1>2, <1>3, <2>1, <3>2 DEF UnlockInv, AttemptInv, QuietAttemptIsRight
    <3>3. QED
      BY <3>1, <3>2
  <2>2. CASE ustep = "key"
    BY <1>1, <1>2, <2>2 DEF UnlockInv, AttemptInv, QuietAttemptIsRight
  <2>3. CASE ustep \notin {"seed", "key"}
    BY <1>1, <1>2, <2>3 DEF UnlockInv, AttemptInv, QuietAttemptIsRight, SeedCall
  <2>4. QED
    BY <2>1, <2>2, <2>3
<1>8. QED
  BY <1>1, <1>2, <1>5, <1>6, <1>7, FinishKeys DEF HandshakeInv

\* The ECU refuses a seed.
LEMMA EcuNoSeedStep ==
  ASSUME UnlockInv, TypeOK', EcuNoSeed
  PROVE  HandshakeInv'
<1>1. /\ Finishes /\ UNCHANGED <<pc, calls, outcome, quiet>>
      /\ verdict'[ecuq[1].id] = "rejected"
      /\ \A i \in Ids : i # ecuq[1].id => verdict'[i] = verdict[i]
      /\ \A i : AllOf(ecuq, i) => AllOf(ecuq', i)
  BY DecideFacts DEF EcuNoSeed
<1>2. UNCHANGED <<ustep, content, seed, locked, issued>>
  BY DEF EcuNoSeed, unlockVars
<1>3. UnlockTypeOK' /\ SeedsInv'
  BY <1>1, <1>2 DEF UnlockInv, UnlockTypeOK, SeedsInv
<1>4. calls \in Ids /\ verdict'[calls] = "accepted" => verdict[calls] = "accepted"
  BY <1>1
<1>5. AttemptInv'
  BY <1>1, <1>2, <1>4 DEF UnlockInv, AttemptInv, QuietAttemptIsRight, SeedCall
<1>6. QED
  BY <1>1, <1>2, <1>3, <1>5, FinishKeys DEF HandshakeInv

\* The ECU checks a key.
LEMMA EcuKeyStep ==
  ASSUME UnlockInv, TypeOK', EcuKey
  PROVE  HandshakeInv'
<1> DEFINE v == IF Asked = issued THEN "accepted" ELSE "rejected"
<1> DEFINE h == ecuq[1].id
<1>1. EcuDecide(v) /\ v \in {"accepted", "rejected"}
  BY DEF EcuKey
<1>2. (v = "accepted" <=> Asked = issued)
  OBVIOUS
<1> HIDE DEF v
<1>3. /\ Finishes /\ h \in Ids /\ Head(ecuq) = ecuq[1]
      /\ UNCHANGED <<pc, calls, outcome, quiet>>
      /\ verdict'[h] = v
      /\ \A i \in Ids : i # h => verdict'[i] = verdict[i]
      /\ \A i : AllOf(ecuq, i) => AllOf(ecuq', i) /\ h = i
  BY <1>1, DecideFacts
<1>4. /\ UNCHANGED <<ustep, content, seed>>
      /\ content[h] # 0 /\ issued' = 0
      /\ locked' = (locked /\ Asked # issued)
  BY <1>3 DEF EcuKey, Asked
<1> HIDE DEF h
<1>5. UnlockTypeOK'
  BY <1>4, CallsAssumption DEF UnlockInv, UnlockTypeOK
<1>6. SeedsInv'
  BY <1>3, <1>4 DEF UnlockInv, SeedsInv
<1>7. (locked' => locked) /\ (v = "accepted" => ~locked')
  BY <1>2, <1>4
<1>8. AttemptInv'
  <2>1. CASE ustep = "seed"
    BY <1>3, <1>4, <1>7, <2>1 DEF UnlockInv, AttemptInv, QuietAttemptIsRight
  <2>2. CASE ustep = "key"
    <3>1. CASE h = calls
      BY <1>3, <1>4, <1>7, <2>2, <3>1 DEF UnlockInv, AttemptInv, QuietAttemptIsRight
    <3>2. CASE h # calls
      BY <1>3, <1>4, <1>7, <2>2, <3>2 DEF UnlockInv, AttemptInv, QuietAttemptIsRight
    <3>3. QED
      BY <3>1, <3>2
  <2>3. CASE ustep \notin {"seed", "key"}
    BY <1>3, <1>4, <1>7, <2>3 DEF UnlockInv, AttemptInv, QuietAttemptIsRight, SeedCall
  <2>4. QED
    BY <2>1, <2>2, <2>3
<1>9. QED
  BY <1>3, <1>4, <1>5, <1>6, <1>8, FinishKeys DEF HandshakeInv

\* Steps of the client and the ECU that are not the handshake's business.
LEMMA OtherSteps ==
  ASSUME UnlockInv, TypeOK', UNCHANGED unlockVars,
         \/ Receive \/ Timeout \/ RecvFails
         \/ EcuPending \/ EcuIgnore \/ UNCHANGED vars
  PROVE  HandshakeInv'
<1>1. UNCHANGED <<ustep, content, seed, locked, issued>>
  BY DEF unlockVars
<1>2. TypeOK
  BY UnlockFacts
<1>3. CASE Receive \/ Timeout \/ RecvFails
  <2>1. pc # "idle" /\ UNCHANGED <<calls, quiet, ecuq, verdict>>
    BY <1>2, <1>3, ClientEffect DEF ClientGoesOn
  <2>2. UnlockTypeOK' /\ SeedsInv' /\ QuietKeys'
    BY <1>1, <2>1 DEF UnlockInv, UnlockTypeOK, SeedsInv, QuietKeys
  <2>3. AttemptInv'
    BY <1>1, <2>1 DEF UnlockInv, AttemptInv, QuietAttemptIsRight, SeedCall
  <2>4. QED
    BY <2>2, <2>3 DEF HandshakeInv
<1>4. CASE EcuPending \/ UNCHANGED vars
  <2>1. UNCHANGED <<pc, calls, outcome, quiet, ecuq, verdict>>
    BY <1>2, <1>4, PendingEffect DEF vars, clientVars, ecuVars
  <2>2. QED
    BY <1>1, <2>1 DEF UnlockInv, HandshakeInv, UnlockTypeOK, SeedsInv, QuietKeys,
                      AttemptInv, QuietAttemptIsRight, SeedCall
<1>5. CASE EcuIgnore
  <2>1. Finishes /\ UNCHANGED verdict
    BY <1>2, <1>5, FinishEffect
  <2>2. /\ UNCHANGED <<pc, calls, outcome, quiet, verdict>>
        /\ \A i : AllOf(ecuq, i) => AllOf(ecuq', i)
    BY <2>1 DEF Finishes, AllOf
  <2>3. UnlockTypeOK' /\ SeedsInv'
    BY <1>1, <2>2 DEF UnlockInv, UnlockTypeOK, SeedsInv
  <2>4. AttemptInv'
    BY <1>1, <2>2 DEF UnlockInv, AttemptInv, QuietAttemptIsRight, SeedCall
  <2>5. QED
    BY <1>1, <2>1, <2>3, <2>4, FinishKeys DEF HandshakeInv
<1>6. QED
  BY <1>3, <1>4, <1>5

\* The ECU locks itself between two attempts.
LEMMA EcuLocksStep ==
  ASSUME UnlockInv, TypeOK', EcuLocks
  PROVE  HandshakeInv'
<1>1. /\ ustep' = "start" /\ locked' = TRUE /\ issued' = 0
      /\ UNCHANGED <<content, seed>>
      /\ UNCHANGED <<calls, quiet, ecuq>>
  BY DEF EcuLocks, vars, clientVars, ecuVars
<1>2. UnlockTypeOK'
  BY <1>1, CallsAssumption DEF UnlockInv, UnlockTypeOK
<1>3. SeedsInv' /\ AttemptInv' /\ QuietKeys'
  BY <1>1 DEF UnlockInv, SeedsInv, AttemptInv, QuietAttemptIsRight, QuietKeys
<1>4. QED
  BY <1>2, <1>3 DEF HandshakeInv

-----------------------------------------------------------------------------
(* The invariant and what it gives.                                        *)

\* The invariant holds at first.
LEMMA UnlockBegins == UnlockInit => UnlockInv
<1> SUFFICES ASSUME UnlockInit PROVE UnlockInv
  OBVIOUS
<1>1. TypeOK /\ OrderInv /\ Init
  BY UnlockUsesClient, TypeInit, OrderInit
<1>2. QuietInv
  BY <1>1 DEF Init, QuietInv, NotYetEnded, QuietChannel, QuietCallOwnAnswer
<1>3. UnlockTypeOK
  BY <1>1, CallsAssumption DEF UnlockInit, UnlockTypeOK
<1>4. DecidedOnce
  BY <1>1 DEF Init, DecidedOnce, NotEnded
<1>5. SeedsInv /\ AttemptInv /\ QuietKeys
  BY <1>1 DEF Init, UnlockInit, SeedsInv, AttemptInv, QuietAttemptIsRight, QuietKeys
<1>6. QED
  BY <1>1, <1>2, <1>3, <1>4, <1>5 DEF UnlockInv

\* Every step of the handshake keeps it.
LEMMA UnlockStep == UnlockInv /\ [UnlockNext]_allVars => UnlockInv'
<1> SUFFICES ASSUME UnlockInv, [UnlockNext]_allVars PROVE UnlockInv'
  OBVIOUS
<1>1. [Next]_vars
  BY UnlockUsesClient DEF allVars
<1>2. TypeOK' /\ QuietInv' /\ OrderInv'
  BY <1>1, QuietStep, OrderStep DEF UnlockInv, QuietInv
<1>3. TypeOK /\ OrderInv /\ DecidedOnce
  BY DEF UnlockInv, OrderInv
<1>4. DecidedOnce'
  <2>1. CASE \E sid \in Sids, expect \in BOOLEAN : Send(sid, expect) \/ SendFails(sid, expect)
    BY <1>3, <2>1, BeginEffect, DecidedStep
  <2>2. CASE Receive \/ Timeout \/ RecvFails
    BY <1>3, <2>2, ClientEffect, DecidedStep
  <2>3. CASE Ecu
    BY <1>3, <2>3, DecidedStep DEF Ecu
  <2>4. CASE UNCHANGED vars
    BY <1>3, <2>4, DecidedStep
  <2>5. QED
    BY <1>1, <2>1, <2>2, <2>3, <2>4 DEF Next, Client
<1>5. HandshakeInv'
  <2>1. CASE Unlock
    BY <1>2, <2>1, RequestSeedStep, SendKeyStep, AttemptEnds DEF Unlock
  <2>2. CASE EcuSeed \/ EcuNoSeed \/ EcuKey \/ EcuLocks
    BY <1>2, <2>2, EcuSeedStep, EcuNoSeedStep, EcuKeyStep, EcuLocksStep
  <2>3. CASE (Receive \/ Timeout \/ RecvFails \/ EcuPending \/ EcuIgnore) /\ UNCHANGED unlockVars
    BY <1>2, <2>3, OtherSteps
  <2>4. CASE UNCHANGED allVars
    BY <1>2, <2>4, OtherSteps DEF allVars
  <2>5. QED
    BY <2>1, <2>2, <2>3, <2>4 DEF UnlockNext
<1>6. QED
  BY <1>2, <1>4, <1>5 DEF UnlockInv, HandshakeInv

\* The handshake's variables keep their types: the seed unlock() computes its
\* key from is always the seed of a request that was made.
THEOREM UnlockTypeCorrect == UnlockSpec => []UnlockTypeOK
<1>1. UnlockInv => UnlockTypeOK
  BY DEF UnlockInv
<1>2. QED
  BY <1>1, UnlockBegins, UnlockStep, PTL DEF UnlockSpec

\* When unlock() returns True after an attempt that began on a quiet channel,
\* the ECU is unlocked, however late or lossy the bus and whatever the attempts
\* before left behind.
THEOREM TrueMeansUnlocked == UnlockSpec => []QuietAttemptIsRight
<1>1. UnlockInv => QuietAttemptIsRight
  BY DEF UnlockInv, AttemptInv
<1>2. QED
  BY <1>1, UnlockBegins, UnlockStep, PTL DEF UnlockSpec

\* One quiet moment covers both calls of the handshake: when the seed request
\* found the channel quiet, so does the key.
THEOREM QuietSeedQuietKey == UnlockSpec => []QuietSeedMakesQuietKey
<1>1. UnlockInv => QuietSeedMakesQuietKey
  BY DEF UnlockInv, AttemptInv, QuietSeedMakesQuietKey, SeedCall
<1>2. QED
  BY <1>1, UnlockBegins, UnlockStep, PTL DEF UnlockSpec

\* After a quiet seed request the ECU is never offered a key for another seed
\* than the one it issued last.
THEOREM KeysFit == UnlockSpec => []KeyFitsSeed
<1>1. UnlockInv => KeyFitsSeed
  <2> SUFFICES ASSUME UnlockInv, ecuq # << >>, Asked # 0, Head(ecuq).id - 1 \in quiet,
                      issued # 0
               PROVE  Asked = issued
    BY DEF KeyFitsSeed
  <2>1. Head(ecuq) = ecuq[1] /\ 1 \in 1 .. Len(ecuq)
    BY UnlockFacts, TailElements
  <2>2. QED
    BY <2>1 DEF UnlockInv, QuietKeys, Asked
<1>2. QED
  BY <1>1, UnlockBegins, UnlockStep, PTL DEF UnlockSpec

\* The positive reports of the calls are answers of the ECU.
PositivesAreGenuine == \A i \in Ids :
  outcome[i].kind = "positive" => outcome[i].from \in Ids /\ verdict[outcome[i].from] = "accepted"

\* Late answers may reach the wrong call, but no positive report is made up: for
\* every call of UDSClient that reports one there is a request the ECU accepted.
THEOREM NoPositiveMadeUp == Spec => []PositivesAreGenuine
<1> DEFINE Inv == OrderInv /\ DecidedOnce
<1>1. Init => Inv
  BY OrderInit DEF Init, DecidedOnce, NotEnded
<1>2. Inv /\ [Next]_vars => Inv'
  <2> SUFFICES ASSUME Inv, [Next]_vars PROVE DecidedOnce'
    BY OrderStep
  <2>1. CASE \E sid \in Sids, expect \in BOOLEAN : Send(sid, expect) \/ SendFails(sid, expect)
    BY <2>1, BeginEffect, DecidedStep DEF OrderInv
  <2>2. CASE Receive \/ Timeout \/ RecvFails
    BY <2>2, ClientEffect, DecidedStep DEF OrderInv
  <2>3. CASE Ecu
    BY <2>3, DecidedStep DEF Ecu
  <2>4. CASE UNCHANGED vars
    BY <2>4, DecidedStep
  <2>5. QED
    BY <2>1, <2>2, <2>3, <2>4 DEF Next, Client
<1>3. Inv => PositivesAreGenuine
  BY DEF DecidedOnce, PositivesAreGenuine
<1>4. QED
  BY <1>1, <1>2, <1>3, PTL DEF Spec
=============================================================================
