-------------------------- MODULE RequestResponse --------------------------
(***************************************************************************)
(* What a diagnostic service call promises its caller, with the transport  *)
(* left out.  Calls are numbered 1, 2, ...; one is in progress at a time.  *)
(* The ECU decides each request at most once, in any order and possibly    *)
(* after the caller gave up.  A call that reports a positive or a negative *)
(* answer reports the ECU's decision on that very request; a call that     *)
(* gives up says nothing about it.                                         *)
(***************************************************************************)
EXTENDS Naturals

CONSTANT MaxCalls       \* bound on the number of calls

VARIABLES
  calls,                \* number of calls begun
  waiting,              \* is call number `calls' still in progress?
  verdict,              \* the ECU's decision on each request
  answer                \* what each call reported to its caller

vars == <<calls, waiting, verdict, answer>>

Ids == 1 .. MaxCalls

\* A positive answer vouches for acceptance, a negative one for refusal.
Vouches(a, v) == \/ a = "positive" /\ v = "accepted"
                 \/ a = "negative" /\ v = "rejected"
                 \/ a \in {"suppressed", "failed"}

Init ==
  /\ calls = 0
  /\ waiting = FALSE
  /\ verdict = [i \in Ids |-> "open"]
  /\ answer = [i \in Ids |-> "open"]

Ask ==
  /\ ~waiting
  /\ calls < MaxCalls
  /\ calls' = calls + 1
  /\ waiting' = TRUE
  /\ UNCHANGED <<verdict, answer>>

\* The request never leaves the tester.
FailAtOnce ==
  /\ ~waiting
  /\ calls < MaxCalls
  /\ calls' = calls + 1
  /\ answer' = [answer EXCEPT ![calls + 1] = "failed"]
  /\ UNCHANGED <<waiting, verdict>>

Decide(i, v) ==
  /\ i <= calls
  /\ verdict[i] = "open"
  /\ verdict' = [verdict EXCEPT ![i] = v]
  /\ UNCHANGED <<calls, waiting, answer>>

Report(a) ==
  /\ waiting
  /\ Vouches(a, verdict[calls])
  /\ answer' = [answer EXCEPT ![calls] = a]
  /\ waiting' = FALSE
  /\ UNCHANGED <<calls, verdict>>

Next ==
  \/ Ask
  \/ FailAtOnce
  \/ \E i \in Ids, v \in {"accepted", "rejected"} : Decide(i, v)
  \/ \E a \in {"positive", "negative", "suppressed", "failed"} : Report(a)

Fairness == WF_vars(\E a \in {"positive", "negative", "suppressed", "failed"} : Report(a))

Spec == Init /\ [][Next]_vars /\ Fairness
=============================================================================
