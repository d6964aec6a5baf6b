-------------------------- MODULE DtcScreenProofs --------------------------
(***************************************************************************)
(* Proofs about DtcScreen.  For every number of clicks, screens and set up *)
(* commands: types, the order of the callbacks, the release of the port    *)
(* and the Clear button, whatever the user and the adapter do; and, for a  *)
(* user who waits, the spinner, and the truth of what the screen shows.    *)
(***************************************************************************)
EXTENDS DtcScreen, TLAPS

\* Runs are started in order.
RunsInv == \A r \in Runs : pc[r] = "new" <=> r > runs

\* A callback is queued by a run that has got that far, and on_done follows.
QueueInv ==
  /\ \A k \in 1 .. Len(tkq) :
       /\ pc[tkq[k].run] \in {"reportDone", "over"}
       /\ tkq[k].what = "done" => pc[tkq[k].run] = "over"
       /\ tkq[k].what = "result" /\ pc[tkq[k].run] = "over" =>
            \E j \in 1 .. Len(tkq) : tkq[j] = [run |-> tkq[k].run, what |-> "done"]
  /\ DoneLast

\* The result of run r has not been called.
Due(r) == \E k \in 1 .. Len(tkq) : tkq[k] = [run |-> r, what |-> "result"]
Working == {"open", "flush", "write", "read", "close", "report"}
ResultDue(r) == pc[r] \in Working \/ Due(r)

\* The port is held by runs that talk to it or whose result is due, and by the
\* one kept; an unheld port has nothing under way.
HolderInv ==
  /\ \A r \in Runs : pc[r] \in {"flush", "write", "read", "close"} => r \in holders
  /\ \A r \in holders : ResultDue(r) \/ r = kept
  /\ holders = {} => cmds = << >> /\ rx = << >>

\* A run that reports with its port open has failed; the result kept has been
\* called, and on a screen that was gone.
Reporting == {"report", "reportDone", "over"}
Dropped(r) == pc[r] \in {"reportDone", "over"} /\ ~Due(r) /\ ~Live(r)
KeptInv ==
  /\ \A r \in holders : pc[r] \in Reporting => result[r] = "error"
  /\ \A r \in Runs : pc[r] # "new" => run[r].screen # 0
  /\ kept # 0 => Dropped(kept)

\* Clear is enabled by a read whose result stands.
ClearInv == clearOn => \E r \in 1 .. runs :
  /\ run[r] = [kind |-> "read", screen |-> screen]
  /\ result[r] = "yes"
  /\ pc[r] \in {"reportDone", "over"}
  /\ ~Due(r)

\* The inductive invariant, whatever user and adapter do.
DtcInv == DtcTypeOK /\ RunsInv /\ QueueInv /\ HolderInv /\ KeptInv /\ ClearInv

\* A user who waits has one run in flight, on the screen shown, and it spins.
AloneInv ==
  /\ \A r \in Runs : InFlight(r) =>
       /\ r = runs /\ screen \in Screens
       /\ run[r].screen = screen /\ spinnerOf[screen] = r
       /\ r \in spinning
  /\ \A r \in spinning : InFlight(r)
  /\ kept = 0

\* The adapter the labels can be trusted with: it answers in time, with what the
\* vehicle says, in the form the code looks for.
PlainAdapter == ~Late /\ ~Flaky /\ ~HeadersOn /\ AckIsOK

\* What is under way between run r and the adapter.
Command(r) == IF Connecting(r) THEN "at" ELSE IF run[r].kind = "read" THEN "03" ELSE "04"

Talk(r) ==
  /\ pc[r] = "open" => holders = {}
  /\ pc[r] \in {"flush", "write"} => cmds = << >> /\ rx = << >>
  /\ pc[r] = "read" =>
       \/ cmds = <<Command(r)>> /\ rx = << >>
       \/ /\ cmds = << >> /\ rx = <<AnswerTo(Command(r))>>
          /\ Command(r) = "04" => ~codes
  /\ ResultDue(r) => label = ""
  /\ ResultDue(r) /\ pc[r] \in {"close", "report", "reportDone", "over"} /\ result[r] # "error" =>
       /\ result[r] \in {"yes", "no"}
       /\ cmds = << >> /\ rx = << >>
       /\ run[r].kind = "read" => (result[r] = "yes" <=> codes)
       /\ run[r].kind = "clear" /\ result[r] = "yes" => ~codes
TalkInv == \A r \in Runs : Talk(r)

\* The inductive invariants for a user who waits.
WaitInv == DtcInv /\ AloneInv
TruthInv == WaitInv /\ TalkInv /\ ShownIsTrue

-----------------------------------------------------------------------------
(* Queues.                                                                 *)

\* The elements of a queue with one more, or with its first gone.
LEMMA AppendElements ==
  ASSUME NEW S, NEW q \in Seq(S), NEW e \in S
  PROVE  /\ Append(q, e) \in Seq(S)
         /\ Len(Append(q, e)) = Len(q) + 1
         /\ Append(q, e)[Len(q) + 1] = e
         /\ \A k \in 1 .. Len(q) : Append(q, e)[k] = q[k]
OBVIOUS

\* The empty sequence is a sequence over any set.
LEMMA EmptySeq == \A S : << >> \in Seq(S)
OBVIOUS

\* What the first element and the rest of a sequence are.
LEMMA TailElements ==
  ASSUME NEW S, NEW q \in Seq(S), q # << >>
  PROVE  /\ Head(q) \in S /\ Head(q) = q[1]
         /\ Tail(q) \in Seq(S)
         /\ Len(q) \in Nat /\ Len(q) >= 1
         /\ Len(Tail(q)) = Len(q) - 1
         /\ \A k \in 1 .. Len(Tail(q)) : Tail(q)[k] = q[k + 1]
OBVIOUS

-----------------------------------------------------------------------------
(* What the steps do.                                                      *)

\* The steps of a run before it reports.
Talking == {"flush", "write", "read", "close"}

\* A count below its bound can go one up.
LEMMA OneStepOn == \A m \in 0 .. InitLen : m < InitLen => m + 1 \in 0 .. InitLen
BY BoundsAssumption

\* What is typed stays typed when the text of a reply has been used.
LEMMA UseEffect ==
  ASSUME DtcTypeOK, NEW r \in Runs, NEW t, Use(r, t)
  PROVE  /\ pc' \in [Runs -> {"new", "open", "flush", "write", "read", "close",
                              "report", "reportDone", "over"}]
         /\ pc'[r] \in {"write", "close"} /\ \A q \in Runs \ {r} : pc'[q] = pc[q]
         /\ result' \in [Runs -> {"open", "error", "yes", "no"}]
         /\ \A q \in Runs \ {r} : result'[q] = result[q]
         /\ step' \in [Runs -> 0 .. InitLen]
         /\ UNCHANGED <<screenVars, runs, run, tkq>>
<1> USE DEF DtcTypeOK
<1>1. CASE Connecting(r)
  <2>1. step[r] \in 0 .. InitLen /\ step[r] < InitLen
    BY <1>1 DEF Connecting
  <2>2. step[r] + 1 \in 0 .. InitLen
    BY <2>1, OneStepOn
  <2>3. step' = [step EXCEPT ![r] = step[r] + 1] /\ pc' = [pc EXCEPT ![r] = "write"]
    BY <1>1 DEF Use, Goto
  <2>4. UNCHANGED <<result, screenVars, runs, run, tkq>>
    BY <1>1 DEF Use, Rest
  <2>5. QED
    BY <2>2, <2>3, <2>4
<1>2. CASE ~Connecting(r)
  BY <1>2 DEF Use, Result, Goto, Rest
<1>3. QED
  BY <1>1, <1>2

\* A step of a run that talks to the port.
TalkEffect(r) ==
  /\ pc[r] \in Working \ {"report"}
  /\ pc'[r] \in Talking \cup {"report"}
  /\ tkq' = tkq

\* A step of a run that posts its result or its on_done.
PostEffect(r) ==
  /\ \/ /\ pc[r] = "report" /\ pc'[r] = "reportDone"
        /\ tkq' = Append(tkq, [run |-> r, what |-> "result"])
     \/ /\ pc[r] = "reportDone" /\ pc'[r] = "over"
        /\ tkq' = Append(tkq, [run |-> r, what |-> "done"])
  /\ UNCHANGED <<portVars, step, result>>

\* What a step of run r does: it talks or posts, and leaves everything of the
\* other runs and of the screen alone.
LEMMA WorkerEffect ==
  ASSUME DtcTypeOK, HolderInv, NEW r \in Runs, Worker(r)
  PROVE  /\ TalkEffect(r) \/ PostEffect(r)
         /\ UNCHANGED <<screenVars, runs, run>>
         /\ pc' \in [Runs -> {"new", "open", "flush", "write", "read", "close",
                              "report", "reportDone", "over"}]
         /\ \A q \in Runs \ {r} : pc'[q] = pc[q]
         /\ result' \in [Runs -> {"open", "error", "yes", "no"}]
         /\ \A q \in Runs \ {r} : result'[q] = result[q]
         /\ step' \in [Runs -> 0 .. InitLen]
         /\ PortTypeOK' /\ codes' = codes
         /\ holders' \subseteq holders \cup {r}
         /\ holders \ {r} \subseteq holders'
         /\ pc'[r] \in Talking => r \in holders'
         /\ holders' = {} => cmds' = << >> /\ rx' = << >>
<1> USE DEF DtcTypeOK, PortTypeOK, TalkEffect, PostEffect, Working, Talking, Goto, Result, Rest, portVars
<1>0. pc[r] \in Talking => r \in holders
  BY DEF HolderInv
<1>1. CASE Open(r)
  BY <1>1, <1>0 DEF Open, OpenPort, HolderInv
<1>2. CASE Flush(r)
  <2>1. rx' = << >> /\ rx' \in Seq(Texts)
    BY <1>2, EmptySeq DEF Flush, FlushInput
  <2>2. QED
    BY <1>2, <1>0, <2>1 DEF Flush, FlushInput
<1>3. CASE Write(r)
  <2>1. PICK c \in Commands : WriteCommand(c)
    BY <1>3 DEF Write, Commands
  <2>2. cmds' \in Seq(Commands)
    BY <2>1, AppendElements DEF WriteCommand
  <2>3. UNCHANGED <<rx, holders, codes>>
    BY <2>1 DEF WriteCommand
  <2>4. QED
    BY <1>3, <1>0, <2>2, <2>3 DEF Write
<1>4. CASE Read(r)
  <2>1. pc[r] = "read"
    BY <1>4 DEF Read
  <2>2. PICK t : Use(r, t)
    BY <1>4 DEF Read
  <2>3. CASE ReadNothing
    BY <2>1, <2>2, <2>3, <1>0, UseEffect DEF ReadNothing
  <2>4. CASE \E x : ReadText(x)
    <3>1. rx # << >> /\ rx' = Tail(rx) /\ UNCHANGED <<cmds, holders, codes>>
      BY <2>4 DEF ReadText
    <3>2. rx' \in Seq(Texts)
      BY <3>1, TailElements
    <3>3. holders' # {}
      BY <2>1, <3>1, <1>0
    <3>4. QED
      BY <2>1, <2>2, <3>1, <3>2, <3>3, <1>0, UseEffect
  <2>5. ReadNothing \/ \E x : ReadText(x)
    BY <1>4 DEF Read
  <2>6. QED
    BY <2>3, <2>4, <2>5
<1>5. CASE Close(r)
  <2>1. cmds' \in Seq(Commands) /\ rx' \in Seq(Texts)
    BY <1>5, EmptySeq DEF Close, ClosePort
  <2>2. /\ pc[r] = "close" /\ pc' = [pc EXCEPT ![r] = "report"]
        /\ holders' = holders \ {r} /\ UNCHANGED <<codes, step, result, screenVars, runs, run, tkq>>
        /\ holders' = {} => cmds' = << >> /\ rx' = << >>
    BY <1>5 DEF Close, ClosePort
  <2>3. QED
    BY <2>1, <2>2, <1>0
<1>6. CASE Report(r)
  <2>1. UNCHANGED <<cmds, rx, holders, codes, step, result, screenVars, runs, run>>
    BY <1>6 DEF Report
  <2>2. \/ pc[r] = "report" /\ pc' = [pc EXCEPT ![r] = "reportDone"]
           /\ tkq' = Append(tkq, [run |-> r, what |-> "result"])
        \/ pc[r] = "reportDone" /\ pc' = [pc EXCEPT ![r] = "over"]
           /\ tkq' = Append(tkq, [run |-> r, what |-> "done"])
    BY <1>6 DEF Report, Post
  <2>3. holders = {} => cmds = << >> /\ rx = << >>
    BY DEF HolderInv
  <2>4. QED
    BY <2>1, <2>2, <2>3
<1>7. CASE PortRaises(r)
  BY <1>7, <1>0 DEF PortRaises
<1>8. QED
  BY <1>1, <1>2, <1>3, <1>4, <1>5, <1>6, <1>7 DEF Worker, Proceed

\* A click starts the next run; nothing else changes but its screen.
LEMMA StartEffect ==
  ASSUME DtcTypeOK, NEW kind \in {"read", "clear"}, StartRun(kind)
  PROVE  /\ runs' = runs + 1 /\ runs' \in Runs
         /\ screen \in Screens
         /\ run' \in [Runs -> [kind : {"read", "clear"}, screen : 0 .. screens]]
         /\ run'[runs'] = [kind |-> kind, screen |-> screen]
         /\ \A q \in Runs \ {runs'} : run'[q] = run[q]
         /\ pc' \in [Runs -> {"new", "open", "flush", "write", "read", "close",
                              "report", "reportDone", "over"}]
         /\ pc'[runs'] = "open" /\ \A q \in Runs \ {runs'} : pc'[q] = pc[q]
         /\ spinnerOf' \in [Screens -> 0 .. runs']
         /\ spinnerOf'[screen] = runs'
         /\ spinning' = spinning \cup {runs'} /\ spinning' \subseteq 1 .. runs'
         /\ label' = ""
         /\ UNCHANGED <<portVars, screen, screens, kept, step, result, tkq>>
<1>a. runs \in 0 .. MaxRuns /\ screen \in 0 .. screens /\ screens \in 0 .. MaxScreens
  BY DEF DtcTypeOK
<1>b. screen # 0 /\ runs < MaxRuns /\ runs' = runs + 1
  BY DEF StartRun
<1>1. runs' \in Runs /\ screen \in Screens /\ runs \in Nat
  BY <1>a, <1>b, RunsAssumption, BoundsAssumption DEF Screens
<1>2. spinnerOf' \in [Screens -> 0 .. runs'] /\ spinnerOf'[screen] = runs'
  <2>1. spinnerOf \in [Screens -> 0 .. runs] /\ spinnerOf' = [spinnerOf EXCEPT ![screen] = runs']
    BY DEF DtcTypeOK, StartRun
  <2>2. runs' \in 0 .. runs' /\ \A n \in 0 .. runs : n \in 0 .. runs'
    BY <1>1, <1>b
  <2>3. QED
    BY <1>1, <2>1, <2>2
<1>3. spinning' = spinning \cup {runs'} /\ spinning' \subseteq 1 .. runs'
  <2>1. spinning \subseteq 1 .. runs /\ spinning' = spinning \cup {runs'}
    BY DEF DtcTypeOK, StartRun
  <2>2. runs' \in 1 .. runs' /\ \A n \in 1 .. runs : n \in 1 .. runs'
    BY <1>1, <1>b
  <2>3. QED
    BY <2>1, <2>2
<1>4. [kind |-> kind, screen |-> screen] \in [kind : {"read", "clear"}, screen : 0 .. screens]
  BY DEF DtcTypeOK
<1>5. QED
  BY <1>b, <1>1, <1>2, <1>3, <1>4 DEF DtcTypeOK, StartRun

\* The callback called is gone from the queue, and belongs to a run.
LEMMA CallEffect ==
  ASSUME DtcTypeOK, OnResult \/ OnDone
  PROVE  /\ tkq # << >> /\ tkq' = Tail(tkq)
         /\ tkq[1] = Head(tkq) /\ tkq[1] \in Callbacks
         /\ tkq' \in Seq(Callbacks)
         /\ Len(tkq) \in Nat /\ Len(tkq) >= 1 /\ Len(tkq') = Len(tkq) - 1
         /\ \A k \in 1 .. Len(tkq') : k + 1 \in 2 .. Len(tkq) /\ tkq'[k] = tkq[k + 1]
         /\ \A k \in 2 .. Len(tkq) : k - 1 \in 1 .. Len(tkq') /\ tkq'[k - 1] = tkq[k]
         /\ UNCHANGED <<screen, screens, spinnerOf, workerVars, runs, run>>
<1>1. tkq # << >> /\ tkq' = Tail(tkq) /\ tkq \in Seq(Callbacks)
  BY DEF OnResult, OnDone, DtcTypeOK
<1>2. UNCHANGED <<screen, screens, spinnerOf, workerVars, runs, run>>
  BY DEF OnResult, OnDone
<1>3. /\ Head(tkq) \in Callbacks /\ Head(tkq) = tkq[1]
      /\ Tail(tkq) \in Seq(Callbacks)
      /\ Len(tkq) \in Nat /\ Len(tkq) >= 1
      /\ Len(Tail(tkq)) = Len(tkq) - 1
      /\ \A k \in 1 .. Len(Tail(tkq)) : Tail(tkq)[k] = tkq[k + 1]
  BY <1>1, TailElements
<1>4. \A k \in 1 .. Len(tkq') : k + 1 \in 2 .. Len(tkq) /\ tkq'[k] = tkq[k + 1]
  BY <1>1, <1>3
<1>5. \A k \in 2 .. Len(tkq) : k - 1 \in 1 .. Len(tkq') /\ tkq'[k - 1] = tkq[k]
  <2> SUFFICES ASSUME NEW k \in 2 .. Len(tkq)
               PROVE  k - 1 \in 1 .. Len(tkq') /\ tkq'[k - 1] = tkq[k]
    OBVIOUS
  <2>1. k - 1 \in 1 .. Len(tkq') /\ (k - 1) + 1 = k
    BY <1>1, <1>3
  <2>2. QED
    BY <2>1, <1>4
<1>6. QED
  BY <1>1, <1>2, <1>3, <1>4, <1>5

\* The adapter answers a command it has: the port is open.
LEMMA AnswerEffect ==
  ASSUME DtcTypeOK, HolderInv, Answer
  PROVE  PortTypeOK' /\ holders' = holders /\ holders' # {}
<1>1. cmds # << >> /\ cmds \in Seq(Commands) /\ rx \in Seq(Texts)
  BY DEF Answer, DtcTypeOK, PortTypeOK
<1>2. Head(cmds) \in Commands /\ Tail(cmds) \in Seq(Commands)
  BY <1>1, TailElements
<1>3. AnswerTo(Head(cmds)) \in Texts /\ "error" \in Texts
  BY <1>2 DEF Commands, Texts, AnswerTo
<1>4. /\ Append(rx, AnswerTo(Head(cmds))) \in Seq(Texts)
      /\ Append(rx, "error") \in Seq(Texts)
  BY <1>1, <1>3, AppendElements
<1>5. QED
  BY <1>1, <1>2, <1>4 DEF Answer, DtcTypeOK, PortTypeOK, HolderInv

-----------------------------------------------------------------------------
(* The invariant, part by part.                                            *)

\* A post adds one callback at the end; any other step of a run adds none.
LEMMA PostedEffect ==
  ASSUME DtcTypeOK, HolderInv, NEW r \in Runs, Worker(r), PostEffect(r)
  PROVE  /\ tkq' \in Seq(Callbacks)
         /\ Len(tkq) \in Nat /\ Len(tkq') = Len(tkq) + 1
         /\ \A k \in 1 .. Len(tkq) : tkq'[k] = tkq[k]
         /\ \/ /\ pc[r] = "report" /\ pc'[r] = "reportDone"
               /\ tkq'[Len(tkq')] = [run |-> r, what |-> "result"]
            \/ /\ pc[r] = "reportDone" /\ pc'[r] = "over"
               /\ tkq'[Len(tkq')] = [run |-> r, what |-> "done"]
<1>1. tkq \in Seq(Callbacks)
  BY DEF DtcTypeOK
<1>2. /\ [run |-> r, what |-> "result"] \in Callbacks
      /\ [run |-> r, what |-> "done"] \in Callbacks
  BY DEF Callbacks
<1>3. CASE pc[r] = "report"
  <2>1. tkq' = Append(tkq, [run |-> r, what |-> "result"]) /\ pc'[r] = "reportDone"
    BY <1>3 DEF PostEffect
  <2>2. QED
    BY <1>1, <1>2, <1>3, <2>1, AppendElements
<1>4. CASE pc[r] = "reportDone"
  <2>1. tkq' = Append(tkq, [run |-> r, what |-> "done"]) /\ pc'[r] = "over"
    BY <1>4 DEF PostEffect
  <2>2. QED
    BY <1>1, <1>2, <1>4, <2>1, AppendElements
<1>5. QED
  BY <1>3, <1>4 DEF PostEffect

\* The counters and the queue, as numbers and elements.
LEMMA Counters ==
  ASSUME DtcTypeOK
  PROVE  /\ runs \in Nat /\ runs <= MaxRuns
         /\ screens \in Nat /\ screens <= MaxScreens
         /\ screen \in Nat /\ screen <= screens
         /\ MaxRuns \in Nat /\ MaxScreens \in Nat
         /\ Len(tkq) \in Nat
         /\ \A k \in 1 .. Len(tkq) : tkq[k] \in Callbacks
<1>1. /\ runs \in 0 .. MaxRuns /\ screens \in 0 .. MaxScreens /\ screen \in 0 .. screens
      /\ tkq \in Seq(Callbacks)
  BY DEF DtcTypeOK
<1>2. Len(tkq) \in Nat /\ \A k \in 1 .. Len(tkq) : tkq[k] \in Callbacks
  BY <1>1
<1>3. MaxRuns \in Nat /\ MaxScreens \in Nat
  BY RunsAssumption, BoundsAssumption
<1>4. QED
  BY <1>1, <1>2, <1>3

\* Every step keeps the order in which runs are started.
LEMMA RunsStep == DtcInv /\ Next => RunsInv'
<1> SUFFICES ASSUME DtcInv, Next PROVE RunsInv'
  OBVIOUS
<1>0. DtcTypeOK /\ HolderInv /\ RunsInv
  BY DEF DtcInv
<1>1. CASE ReadDtc \/ ClearDtc
  <2>1. PICK kind \in {"read", "clear"} : StartRun(kind)
    BY <1>1 DEF ReadDtc, ClearDtc
  <2>2. SUFFICES ASSUME NEW q \in Runs PROVE pc'[q] = "new" <=> q > runs'
    BY DEF RunsInv
  <2>3. q \in Nat /\ runs \in Nat /\ (pc[q] = "new" <=> q > runs)
    <3>1. q \in Nat
      BY RunsAssumption
    <3>2. QED
      BY <1>0, <3>1, Counters DEF RunsInv
  <2>4. /\ runs' = runs + 1
        /\ pc'[runs'] = "open" /\ \A p \in Runs \ {runs'} : pc'[p] = pc[p]
    BY <1>0, <2>1, StartEffect
  <2>5. QED
    BY <2>3, <2>4
<1>2. ASSUME NEW r \in Runs, Worker(r) PROVE RunsInv'
  <2>1. pc[r] # "new" /\ pc'[r] # "new" /\ runs' = runs /\ \A q \in Runs \ {r} : pc'[q] = pc[q]
    BY <1>0, <1>2, WorkerEffect DEF TalkEffect, PostEffect, Working, Talking
  <2>2. QED
    BY <1>0, <2>1 DEF RunsInv
<1>3. QED
  BY <1>0, <1>1, <1>2 DEF Next, RunsInv, OpenScreen, Back, OnResult, OnDone, workerVars

\* Every step keeps the order of the callbacks.
LEMMA QueueStep == DtcInv /\ Next => QueueInv'
<1> SUFFICES ASSUME DtcInv, Next PROVE QueueInv'
  OBVIOUS
<1>0. DtcTypeOK /\ HolderInv /\ RunsInv /\ QueueInv
  BY DEF DtcInv
<1>t. Len(tkq) \in Nat /\ \A k \in 1 .. Len(tkq) : tkq[k] \in Callbacks
  BY <1>0, Counters
<1>1. CASE ReadDtc \/ ClearDtc
  <2>1. PICK kind \in {"read", "clear"} : StartRun(kind)
    BY <1>1 DEF ReadDtc, ClearDtc
  <2>2. runs' > runs /\ runs' \in Runs /\ tkq' = tkq /\ \A q \in Runs \ {runs'} : pc'[q] = pc[q]
    <3>1. /\ runs' = runs + 1 /\ runs' \in Runs /\ tkq' = tkq
          /\ \A q \in Runs \ {runs'} : pc'[q] = pc[q]
      BY <1>0, <2>1, StartEffect
    <3>2. runs \in Nat
      BY <1>0, Counters
    <3>3. QED
      BY <3>1, <3>2
  <2>3. pc[runs'] = "new"
    BY <1>0, <2>2 DEF RunsInv
  <2>4. \A k \in 1 .. Len(tkq) : pc'[tkq[k].run] = pc[tkq[k].run]
    BY <1>0, <1>t, <2>2, <2>3 DEF QueueInv, Callbacks
  <2>5. QED
    BY <1>0, <2>2, <2>4 DEF QueueInv, DoneLast
<1>2. CASE OnResult \/ OnDone
  <2>1. /\ Len(tkq') = Len(tkq) - 1
        /\ \A k \in 1 .. Len(tkq') : k + 1 \in 2 .. Len(tkq) /\ tkq'[k] = tkq[k + 1]
        /\ \A k \in 2 .. Len(tkq) : k - 1 \in 1 .. Len(tkq') /\ tkq'[k - 1] = tkq[k]
        /\ pc' = pc
    BY <1>0, <1>2, CallEffect DEF workerVars
  <2>2. DoneLast'
    <3> SUFFICES ASSUME NEW j \in 1 .. Len(tkq'), NEW k \in 1 .. Len(tkq'),
                        tkq'[j].run = tkq'[k].run, j < k
                 PROVE  tkq'[j].what = "result" /\ tkq'[k].what = "done"
      BY DEF DoneLast
    <3>1. j + 1 \in 1 .. Len(tkq) /\ k + 1 \in 1 .. Len(tkq) /\ j + 1 < k + 1
      BY <1>t, <2>1
    <3>2. QED
      BY <1>0, <2>1, <3>1 DEF QueueInv, DoneLast
  <2>3. ASSUME NEW k \in 1 .. Len(tkq')
        PROVE  /\ pc'[tkq'[k].run] \in {"reportDone", "over"}
               /\ tkq'[k].what = "done" => pc'[tkq'[k].run] = "over"
    <3>1. k + 1 \in 1 .. Len(tkq) /\ tkq'[k] = tkq[k + 1]
      BY <1>t, <2>1
    <3>2. QED
      BY <1>0, <2>1, <3>1 DEF QueueInv
  <2>4. ASSUME NEW k \in 1 .. Len(tkq'), tkq'[k].what = "result", pc'[tkq'[k].run] = "over"
        PROVE  \E j \in 1 .. Len(tkq') : tkq'[j] = [run |-> tkq'[k].run, what |-> "done"]
    <3>1. k + 1 \in 1 .. Len(tkq) /\ tkq'[k] = tkq[k + 1] /\ 1 < k + 1 /\ 1 \in 1 .. Len(tkq)
      BY <1>t, <2>1
    <3>2. PICK j \in 1 .. Len(tkq) : tkq[j] = [run |-> tkq[k + 1].run, what |-> "done"]
      BY <1>0, <2>1, <2>4, <3>1 DEF QueueInv
    <3>3. j # 1
      <4>1. ASSUME j = 1 PROVE FALSE
        <5>1. tkq[1].run = tkq[k + 1].run /\ tkq[1].what = "done"
          BY <3>2, <4>1
        <5>2. tkq[1].what = "result"
          BY <1>0, <3>1, <5>1 DEF QueueInv, DoneLast
        <5>3. QED
          BY <5>1, <5>2
      <4>2. QED
        BY <4>1
    <3>4. j \in 2 .. Len(tkq)
      BY <3>3, <1>t
    <3>5. QED
      BY <2>1, <3>1, <3>2, <3>4
  <2>5. QED
    BY <2>2, <2>3, <2>4 DEF QueueInv
<1>3. ASSUME NEW r \in Runs, Worker(r), TalkEffect(r) PROVE QueueInv'
  <2>1. tkq' = tkq /\ \A q \in Runs \ {r} : pc'[q] = pc[q]
    BY <1>0, <1>3, WorkerEffect DEF TalkEffect
  <2>2. pc[r] \notin {"reportDone", "over"}
    BY <1>3 DEF TalkEffect, Working
  <2>3. \A k \in 1 .. Len(tkq) : pc'[tkq[k].run] = pc[tkq[k].run]
    BY <1>0, <1>t, <2>1, <2>2 DEF QueueInv, Callbacks
  <2>4. QED
    BY <1>0, <2>1, <2>3 DEF QueueInv, DoneLast
<1>4. ASSUME NEW r \in Runs, Worker(r), PostEffect(r) PROVE QueueInv'
  <2>1. /\ Len(tkq') = Len(tkq) + 1
        /\ \A k \in 1 .. Len(tkq) : tkq'[k] = tkq[k]
        /\ \/ /\ pc[r] = "report" /\ pc'[r] = "reportDone"
              /\ tkq'[Len(tkq')] = [run |-> r, what |-> "result"]
           \/ /\ pc[r] = "reportDone" /\ pc'[r] = "over"
              /\ tkq'[Len(tkq')] = [run |-> r, what |-> "done"]
    BY <1>0, <1>4, PostedEffect
  <2>2. \A q \in Runs \ {r} : pc'[q] = pc[q]
    BY <1>0, <1>4, WorkerEffect
  <2>3. \A k \in 1 .. Len(tkq) : tkq[k].run = r =>
          pc[r] = "reportDone" /\ tkq[k].what = "result"
    BY <1>0, <1>t, <2>1 DEF QueueInv, Callbacks
  <2>4. \A k \in 1 .. Len(tkq') : k = Len(tkq') \/ k \in 1 .. Len(tkq)
    BY <1>t, <2>1
  <2>5. Len(tkq') \in 1 .. Len(tkq') /\ \A k \in 1 .. Len(tkq) : k \in 1 .. Len(tkq') /\ k < Len(tkq')
    BY <1>t, <2>1
  <2>6. DoneLast'
    <3> SUFFICES ASSUME NEW j \in 1 .. Len(tkq'), NEW k \in 1 .. Len(tkq'),
                        tkq'[j].run = tkq'[k].run, j < k
                 PROVE  tkq'[j].what = "result" /\ tkq'[k].what = "done"
      BY DEF DoneLast
    <3>1. j \in 1 .. Len(tkq)
      BY <1>t, <2>1
    <3>2. CASE k \in 1 .. Len(tkq)
      BY <1>0, <2>1, <3>1, <3>2 DEF QueueInv, DoneLast
    <3>3. CASE k = Len(tkq')
      <4>1. tkq[j].run = r
        BY <2>1, <3>1, <3>3
      <4>2. QED
        BY <2>1, <2>3, <3>1, <3>3, <4>1
    <3>4. QED
      BY <2>4, <3>2, <3>3
  <2>7. ASSUME NEW k \in 1 .. Len(tkq')
        PROVE  /\ pc'[tkq'[k].run] \in {"reportDone", "over"}
               /\ tkq'[k].what = "done" => pc'[tkq'[k].run] = "over"
    <3>1. CASE k = Len(tkq')
      BY <2>1, <3>1
    <3>2. CASE k \in 1 .. Len(tkq)
      <4>1. tkq'[k] = tkq[k] /\ tkq[k].run \in Runs
        BY <1>t, <2>1, <3>2 DEF Callbacks
      <4>2. CASE tkq[k].run = r
        BY <2>1, <2>3, <3>2, <4>1, <4>2
      <4>3. CASE tkq[k].run # r
        BY <1>0, <2>2, <3>2, <4>1, <4>3, ZenonT(40) DEF QueueInv
      <4>4. QED
        BY <4>2, <4>3
    <3>3. QED
      BY <2>4, <3>1, <3>2
  <2>8. ASSUME NEW k \in 1 .. Len(tkq'), tkq'[k].what = "result", pc'[tkq'[k].run] = "over"
        PROVE  \E j \in 1 .. Len(tkq') : tkq'[j] = [run |-> tkq'[k].run, what |-> "done"]
    <3>1. k \in 1 .. Len(tkq)
      BY <2>1, <2>4, <2>8
    <3>2. tkq'[k] = tkq[k] /\ tkq[k].run \in Runs
      BY <1>t, <2>1, <3>1 DEF Callbacks
    <3>3. CASE tkq[k].run = r
      <4>1. tkq'[Len(tkq')] = [run |-> r, what |-> "done"]
        BY <2>1, <2>8, <3>2, <3>3
      <4>2. QED
        BY <2>5, <3>2, <3>3, <4>1
    <3>4. CASE tkq[k].run # r
      <4>1. PICK j \in 1 .. Len(tkq) : tkq[j] = [run |-> tkq[k].run, what |-> "done"]
        BY <1>0, <2>2, <2>8, <3>1, <3>2, <3>4 DEF QueueInv
      <4>2. QED
        BY <2>1, <2>5, <3>2, <4>1
    <3>5. QED
      BY <3>3, <3>4
  <2>9. QED
    BY <2>6, <2>7, <2>8 DEF QueueInv
<1>5. ASSUME NEW r \in Runs, Worker(r) PROVE QueueInv'
  BY <1>0, <1>3, <1>4, <1>5, WorkerEffect
<1>6. CASE UNCHANGED <<pc, tkq>>
  BY <1>0, <1>6 DEF QueueInv, DoneLast
<1>7. QED
  BY <1>1, <1>2, <1>5, <1>6 DEF Next, OpenScreen, Back, workerVars

\* A call takes from what is due the result it shows, once, and nothing else.
LEMMA DueCalled ==
  ASSUME DtcInv, OnResult \/ OnDone, NEW q \in Runs
  PROVE  /\ Due(q)' => Due(q)
         /\ Due(q) /\ tkq[1] # [run |-> q, what |-> "result"] => Due(q)'
         /\ tkq[1] = [run |-> q, what |-> "result"] => Due(q) /\ ~Due(q)'
<1>0. DtcTypeOK /\ HolderInv /\ QueueInv
  BY DEF DtcInv
<1>t. Len(tkq) \in Nat /\ \A k \in 1 .. Len(tkq) : tkq[k] \in Callbacks
  BY <1>0, Counters
<1>1. /\ Len(tkq') = Len(tkq) - 1 /\ Len(tkq) >= 1
      /\ \A k \in 1 .. Len(tkq') : k + 1 \in 2 .. Len(tkq) /\ tkq'[k] = tkq[k + 1]
      /\ \A k \in 2 .. Len(tkq) : k - 1 \in 1 .. Len(tkq') /\ tkq'[k - 1] = tkq[k]
  BY <1>0, CallEffect
<1>2. ASSUME Due(q)' PROVE Due(q)
  <2>1. PICK k \in 1 .. Len(tkq') : tkq'[k] = [run |-> q, what |-> "result"]
    BY <1>2 DEF Due
  <2>2. k + 1 \in 1 .. Len(tkq) /\ tkq[k + 1] = [run |-> q, what |-> "result"]
    BY <1>t, <1>1, <2>1
  <2>3. QED
    BY <2>2 DEF Due
<1>3. ASSUME Due(q), tkq[1] # [run |-> q, what |-> "result"] PROVE Due(q)'
  <2>1. PICK k \in 1 .. Len(tkq) : tkq[k] = [run |-> q, what |-> "result"]
    BY <1>3 DEF Due
  <2>2. k \in 2 .. Len(tkq)
    BY <1>t, <1>3, <2>1
  <2>3. k - 1 \in 1 .. Len(tkq') /\ tkq'[k - 1] = [run |-> q, what |-> "result"]
    BY <1>1, <2>1, <2>2
  <2>4. QED
    BY <2>3 DEF Due
<1>4. ASSUME tkq[1] = [run |-> q, what |-> "result"] PROVE Due(q)
  <2>1. 1 \in 1 .. Len(tkq)
    BY <1>t, <1>1
  <2>2. QED
    BY <1>4, <2>1 DEF Due
<1>5. ASSUME tkq[1] = [run |-> q, what |-> "result"], Due(q)' PROVE FALSE
  <2>1. PICK k \in 1 .. Len(tkq') : tkq'[k] = [run |-> q, what |-> "result"]
    BY <1>5 DEF Due
  <2>2. /\ k + 1 \in 1 .. Len(tkq) /\ 1 \in 1 .. Len(tkq) /\ 1 < k + 1
        /\ tkq[k + 1] = [run |-> q, what |-> "result"]
    BY <1>t, <1>1, <2>1
  <2>3. tkq[1].run = tkq[k + 1].run /\ tkq[k + 1].what = "result"
    BY <1>5, <2>2
  <2>4. tkq[k + 1].what = "done"
    BY <1>0, <2>2, <2>3 DEF QueueInv, DoneLast
  <2>5. QED
    BY <2>3, <2>4
<1>6. QED
  BY <1>2, <1>3, <1>4, <1>5

\* Only the post of a run's result makes it due, and that takes nothing away.
LEMMA DuePosted ==
  ASSUME DtcInv, NEW r \in Runs, Worker(r), NEW q \in Runs
  PROVE  \/ Due(q)' = Due(q)
         \/ q = r /\ pc[r] = "report" /\ pc'[r] = "reportDone" /\ Due(q)'
<1>0. DtcTypeOK /\ HolderInv /\ QueueInv
  BY DEF DtcInv
<1>t. Len(tkq) \in Nat /\ \A k \in 1 .. Len(tkq) : tkq[k] \in Callbacks
  BY <1>0, Counters
<1>1. CASE TalkEffect(r)
  BY <1>1 DEF TalkEffect, Due
<1>2. CASE PostEffect(r)
  <2>1. /\ Len(tkq') = Len(tkq) + 1
        /\ \A k \in 1 .. Len(tkq) : tkq'[k] = tkq[k]
        /\ \/ /\ pc[r] = "report" /\ pc'[r] = "reportDone"
              /\ tkq'[Len(tkq')] = [run |-> r, what |-> "result"]
           \/ /\ pc[r] = "reportDone" /\ pc'[r] = "over"
              /\ tkq'[Len(tkq')] = [run |-> r, what |-> "done"]
    BY <1>0, <1>2, PostedEffect
  <2>2. /\ \A k \in 1 .. Len(tkq') : k = Len(tkq') \/ k \in 1 .. Len(tkq)
        /\ \A k \in 1 .. Len(tkq) : k \in 1 .. Len(tkq')
        /\ Len(tkq') \in 1 .. Len(tkq')
    BY <1>t, <2>1
  <2>3. Due(q) => Due(q)'
    BY <2>1, <2>2 DEF Due
  <2>4. CASE tkq'[Len(tkq')] = [run |-> q, what |-> "result"]
    <3>1. tkq'[Len(tkq')].run = q /\ tkq'[Len(tkq')].what = "result"
      BY <2>4
    <3>2. q = r /\ pc[r] = "report" /\ pc'[r] = "reportDone"
      BY <2>1, <3>1
    <3>3. QED
      BY <2>2, <2>4, <3>2 DEF Due
  <2>5. CASE tkq'[Len(tkq')] # [run |-> q, what |-> "result"]
    <3>1. Due(q)' => Due(q)
      BY <2>1, <2>2, <2>5 DEF Due
    <3>2. Due(q) \in BOOLEAN /\ Due(q)' \in BOOLEAN
      BY DEF Due
    <3>3. QED
      BY <2>3, <3>1, <3>2
  <2>6. QED
    BY <2>4, <2>5
<1>3. QED
  BY <1>0, <1>1, <1>2, WorkerEffect

\* A run whose result is due is not new.
LEMMA DueOld ==
  ASSUME DtcInv, NEW r \in Runs, Due(r)
  PROVE  pc[r] \in {"reportDone", "over"}
<1>1. PICK k \in 1 .. Len(tkq) : tkq[k] = [run |-> r, what |-> "result"]
  BY DEF Due
<1>2. tkq[k].run = r
  BY <1>1
<1>3. QED
  BY <1>2 DEF DtcInv, QueueInv

\* Every step keeps the type invariant.
LEMMA TypeStep == DtcInv /\ Next => DtcTypeOK'
<1> SUFFICES ASSUME DtcInv, Next PROVE DtcTypeOK'
  OBVIOUS
<1>0. DtcTypeOK /\ HolderInv
  BY DEF DtcInv
<1>1. CASE OpenScreen
  <2>1. screens' = screens + 1 /\ screens' \in 0 .. MaxScreens /\ screen' \in 0 .. screens'
    <3>1. screens' = screens + 1 /\ screens < MaxScreens /\ screen' = screens'
      BY <1>1 DEF OpenScreen
    <3>2. QED
      BY <1>0, <3>1, Counters
  <2>2. \A n \in 0 .. screens : n \in 0 .. screens'
    BY <1>0, <2>1, Counters
  <2>3. run' \in [Runs -> [kind : {"read", "clear"}, screen : 0 .. screens']]
    BY <1>0, <1>1, <2>2 DEF OpenScreen, DtcTypeOK
  <2>4. QED
    BY <1>0, <1>1, <2>1, <2>3 DEF OpenScreen, DtcTypeOK, PortTypeOK, portVars, workerVars
<1>2. CASE Back
  <2>1. 0 \in 0 .. screens
    BY <1>0, Counters
  <2>2. QED
    BY <1>0, <1>2, <2>1 DEF Back, DtcTypeOK, PortTypeOK, portVars, workerVars
<1>3. CASE ReadDtc \/ ClearDtc
  <2>1. PICK kind \in {"read", "clear"} : StartRun(kind)
    BY <1>3 DEF ReadDtc, ClearDtc
  <2>2. clearOn' \in BOOLEAN
    BY <1>0, <1>3 DEF ReadDtc, ClearDtc, DtcTypeOK
  <2>3. runs' \in 0 .. MaxRuns
    <3>1. runs' \in Runs
      BY <1>0, <2>1, StartEffect
    <3>2. QED
      BY <3>1, RunsAssumption
  <2>4. QED
    <3>1. kept' \in 0 .. runs'
      <4>1. kept' = kept /\ runs' = runs + 1
        BY <1>0, <2>1, StartEffect
      <4>2. kept \in 0 .. runs /\ runs \in Nat
        BY <1>0, Counters DEF DtcTypeOK
      <4>3. QED
        BY <4>1, <4>2
    <3>2. QED
      BY <1>0, <2>1, <2>2, <2>3, <3>1, StartEffect DEF DtcTypeOK, PortTypeOK, portVars
<1>4. CASE OnResult
  <2>1. /\ tkq' \in Seq(Callbacks)
        /\ UNCHANGED <<screen, screens, spinnerOf, spinning, workerVars, runs, run>>
    BY <1>0, <1>4, CallEffect DEF OnResult
  <2>2. label' \in {"", "codes", "none", "cleared", "notCleared", "error"}
    <3>1. NewLabel(Head(tkq).run) \in {"codes", "none", "cleared", "notCleared", "error"}
      <4>1. Head(tkq).run \in Runs
        BY <1>0, <1>4, CallEffect DEF Callbacks
      <4>2. run[Head(tkq).run].kind \in {"read", "clear"}
        BY <1>0, <4>1 DEF DtcTypeOK
      <4>3. QED
        BY <4>2 DEF NewLabel
    <3>2. label' \in {label, NewLabel(Head(tkq).run)}
      BY <1>4 DEF OnResult
    <3>3. QED
      BY <1>0, <3>1, <3>2 DEF DtcTypeOK
  <2>3. clearOn' \in BOOLEAN
    BY <1>0, <1>4 DEF OnResult, DtcTypeOK
  <2>4. PortTypeOK'
    BY <1>0, <1>4, EmptySeq DEF OnResult, Release, ClosePort, DtcTypeOK, PortTypeOK
  <2>5. kept' \in 0 .. runs'
    <3>1. PICK r \in Runs : tkq[1] = [run |-> r, what |-> "result"]
      BY <1>0, <1>4, CallEffect DEF OnResult, Callbacks
    <3>2. pc[r] # "new" /\ r \in 1 .. MaxRuns /\ MaxRuns \in Nat
      BY <1>4, <3>1, DueCalled, DueOld, RunsAssumption
    <3>3. r \in 0 .. runs
      BY <1>0, <3>2, Counters DEF DtcInv, RunsInv
    <3>4. Head(tkq).run = r
      BY <1>0, <1>4, <3>1, CallEffect
    <3>5. QED
      BY <1>0, <1>4, <2>1, <3>3, <3>4 DEF OnResult, Release, DtcTypeOK
  <2>6. QED
    BY <1>0, <2>1, <2>2, <2>3, <2>4, <2>5 DEF DtcTypeOK, workerVars
<1>5. CASE OnDone
  <2>1. /\ tkq' \in Seq(Callbacks)
        /\ UNCHANGED <<portVars, screen, screens, label, clearOn, spinnerOf, kept, workerVars, runs, run>>
    BY <1>0, <1>5, CallEffect DEF OnDone
  <2>2. spinning' \subseteq 1 .. runs
    BY <1>0, <1>5 DEF OnDone, DtcTypeOK
  <2>3. QED
    BY <1>0, <2>1, <2>2 DEF DtcTypeOK, PortTypeOK, portVars, workerVars
<1>6. ASSUME NEW r \in Runs, Worker(r) PROVE DtcTypeOK'
  <2>1. tkq' \in Seq(Callbacks)
    BY <1>0, <1>6, WorkerEffect, PostedEffect DEF TalkEffect, DtcTypeOK
  <2>2. QED
    BY <1>0, <1>6, <2>1, WorkerEffect DEF DtcTypeOK, screenVars
<1>7. CASE Answer /\ UNCHANGED <<screenVars, workerVars, runs, run, tkq>>
  BY <1>0, <1>7, AnswerEffect DEF DtcTypeOK, screenVars, workerVars
<1>8. QED
  BY <1>1, <1>2, <1>3, <1>4, <1>5, <1>6, <1>7 DEF Next

\* Every step keeps the port with runs that will give it back.
LEMMA HolderStep == DtcInv /\ Next => HolderInv'
<1> SUFFICES ASSUME DtcInv, Next PROVE HolderInv'
  OBVIOUS
<1>0. DtcTypeOK /\ HolderInv /\ RunsInv /\ QueueInv /\ KeptInv
  BY DEF DtcInv
<1>h. /\ holders \subseteq Runs
      /\ \A q \in Runs : pc[q] \in Talking => q \in holders
      /\ \A q \in holders : ResultDue(q) \/ q = kept
      /\ holders = {} => cmds = << >> /\ rx = << >>
  BY <1>0 DEF HolderInv, DtcTypeOK, PortTypeOK, Talking
<1>g. SUFFICES /\ \A q \in Runs : pc'[q] \in Talking => q \in holders'
               /\ \A q \in holders' : ResultDue(q)' \/ q = kept'
               /\ holders' = {} => cmds' = << >> /\ rx' = << >>
  BY DEF HolderInv, Talking
<1>1. CASE ReadDtc \/ ClearDtc
  <2>1. PICK kind \in {"read", "clear"} : StartRun(kind)
    BY <1>1 DEF ReadDtc, ClearDtc
  <2>2. /\ runs' \in Runs /\ UNCHANGED <<portVars, tkq, kept>>
        /\ pc'[runs'] = "open" /\ \A q \in Runs \ {runs'} : pc'[q] = pc[q]
    BY <1>0, <2>1, StartEffect
  <2>3. \A q \in Runs : Due(q)' = Due(q)
    BY <2>2 DEF Due
  <2>4. QED
    BY <1>h, <2>2, <2>3 DEF ResultDue, Talking, Working, portVars
<1>2. CASE OnResult
  <2>1. /\ tkq[1] = Head(tkq) /\ tkq[1] \in Callbacks /\ pc' = pc
    BY <1>0, <1>2, CallEffect DEF workerVars
  <2>2. PICK r \in Runs : tkq[1] = [run |-> r, what |-> "result"]
    BY <1>2, <2>1 DEF OnResult, Callbacks
  <2>3. PICK g : g = IF Live(r) THEN r ELSE kept
    OBVIOUS
  <2>4. /\ holders' = holders \ {g}
        /\ cmds' = IF holders' = {} THEN << >> ELSE cmds
        /\ rx' = IF holders' = {} THEN << >> ELSE rx
        /\ kept' = IF Live(r) THEN kept ELSE r
    <3>1. Head(tkq).run = r
      BY <2>1, <2>2
    <3>2. Release(r)
      BY <1>2, <3>1 DEF OnResult
    <3>3. QED
      BY <2>3, <3>2 DEF Release, ClosePort
  <2>5. pc[r] \in {"reportDone", "over"}
    BY <1>2, <2>2, DueCalled, DueOld
  <2>6. g # 0 => pc[g] \in {"reportDone", "over"}
    BY <1>0, <2>3, <2>5 DEF KeptInv, Dropped
  <2>7. \A q \in Runs : pc'[q] \in Talking => q \in holders'
    <3>1. 0 \notin Runs
      BY RunsAssumption
    <3>2. QED
      BY <1>h, <2>1, <2>4, <2>6, <3>1 DEF Talking
  <2>8. ASSUME NEW q \in holders', q # r, q # kept' PROVE ResultDue(q)'
    <3>1. q \in holders /\ q \in Runs /\ q # kept
      BY <1>h, <2>3, <2>4, <2>8
    <3>2. tkq[1] # [run |-> q, what |-> "result"]
      <4>1. tkq[1].run = r
        BY <2>2
      <4>2. QED
        BY <2>8, <4>1
    <3>3. Due(q) => Due(q)'
      BY <1>2, <3>1, <3>2, DueCalled
    <3>4. QED
      BY <1>h, <2>1, <3>1, <3>3 DEF ResultDue
  <2>9. r \in holders' => r = kept'
    BY <2>3, <2>4
  <2>10. QED
    BY <1>h, <2>4, <2>7, <2>8, <2>9
<1>3. CASE OnDone
  <2>1. /\ tkq[1] = Head(tkq) /\ tkq[1] \in Callbacks /\ pc' = pc
    BY <1>0, <1>3, CallEffect DEF workerVars
  <2>2. tkq[1].what # "result" /\ UNCHANGED <<portVars, kept>>
    BY <1>3, <2>1 DEF OnDone
  <2>3. \A q \in Runs : tkq[1] # [run |-> q, what |-> "result"]
    BY <2>2
  <2>4. \A q \in Runs : Due(q) => Due(q)'
    BY <1>3, <2>3, DueCalled
  <2>5. QED
    BY <1>h, <2>1, <2>2, <2>4 DEF ResultDue, portVars
<1>4. ASSUME NEW r \in Runs, Worker(r)
      PROVE  /\ \A q \in Runs : pc'[q] \in Talking => q \in holders'
             /\ \A q \in holders' : ResultDue(q)' \/ q = kept'
             /\ holders' = {} => cmds' = << >> /\ rx' = << >>
  <2>1. /\ TalkEffect(r) \/ PostEffect(r)
        /\ \A q \in Runs \ {r} : pc'[q] = pc[q]
        /\ kept' = kept
        /\ holders' \subseteq holders \cup {r}
        /\ holders \ {r} \subseteq holders'
        /\ pc'[r] \in Talking => r \in holders'
        /\ holders' = {} => cmds' = << >> /\ rx' = << >>
    BY <1>0, <1>4, WorkerEffect DEF screenVars
  <2>2. \A q \in Runs : pc'[q] \in Talking => q \in holders'
    BY <1>h, <2>1
  <2>3. ASSUME NEW q \in holders', q # r, q # kept' PROVE ResultDue(q)'
    <3>1. q \in holders /\ q \in Runs /\ pc'[q] = pc[q] /\ q # kept
      BY <1>h, <2>1, <2>3
    <3>2. Due(q)' = Due(q)
      BY <1>4, <2>3, <3>1, DuePosted
    <3>3. QED
      BY <1>h, <3>1, <3>2 DEF ResultDue
  <2>4. ASSUME r \in holders', r # kept' PROVE ResultDue(r)'
    <3>1. CASE TalkEffect(r)
      BY <3>1 DEF TalkEffect, ResultDue, Talking, Working
    <3>2. CASE PostEffect(r) /\ pc[r] = "report"
      <4>1. pc'[r] = "reportDone"
        BY <3>2 DEF PostEffect
      <4>2. tkq' \in Seq(Callbacks) /\ Len(tkq) \in Nat /\ Len(tkq') = Len(tkq) + 1 
            /\ tkq'[Len(tkq')] = [run |-> r, what |-> "result"]
        BY <1>0, <1>4, <3>2, PostedEffect
      <4>3. Len(tkq') \in 1 .. Len(tkq')
        BY <4>2
      <4>4. QED
        BY <4>2, <4>3 DEF ResultDue, Due
    <3>3. CASE PostEffect(r) /\ pc[r] = "reportDone"
      <4>1. r \in holders
        BY <2>4, <3>3 DEF PostEffect, portVars
      <4>2. Due(r)
        BY <1>h, <2>1, <2>4, <3>3, <4>1 DEF ResultDue, Working
      <4>3. Due(r)'
        BY <1>4, <3>3, <4>2, DuePosted
      <4>4. QED
        BY <4>3 DEF ResultDue
    <3>4. QED
      BY <2>1, <3>1, <3>2, <3>3 DEF PostEffect
  <2>5. QED
    BY <2>1, <2>2, <2>3, <2>4
<1>5. CASE Answer /\ UNCHANGED <<screenVars, workerVars, runs, run, tkq>>
  <2>1. holders' = holders /\ holders' # {} /\ pc' = pc /\ tkq' = tkq /\ kept' = kept
    BY <1>0, <1>5, AnswerEffect DEF workerVars, screenVars
  <2>2. \A q \in Runs : ResultDue(q)' = ResultDue(q)
    BY <2>1 DEF ResultDue, Due
  <2>3. QED
    BY <1>h, <2>1, <2>2
<1>6. CASE OpenScreen \/ Back
  <2>1. UNCHANGED <<cmds, rx, holders, pc, tkq, kept>>
    BY <1>6 DEF OpenScreen, Back, portVars, workerVars
  <2>2. \A q \in Runs : ResultDue(q)' = ResultDue(q)
    BY <2>1 DEF ResultDue, Due
  <2>3. QED
    BY <1>h, <2>1, <2>2
<1>7. QED
  BY <1>1, <1>2, <1>3, <1>4, <1>5, <1>6 DEF Next

\* A run that reports with its port open has failed to set it up.
LEMMA ReportsFailed ==
  ASSUME DtcTypeOK, HolderInv, KeptInv, NEW r \in Runs, Worker(r),
         r \in holders', pc'[r] \in Reporting
  PROVE  result'[r] = "error"
<1> USE DEF DtcTypeOK, Goto, Result, Reporting
<1>1. CASE Open(r)
  BY <1>1 DEF Open
<1>2. CASE Flush(r) \/ Write(r)
  BY <1>2 DEF Flush, Write
<1>3. CASE Read(r)
  <2>1. PICK t : Use(r, t)
    BY <1>3 DEF Read
  <2>2. pc'[r] \in {"write", "close"}
    BY <2>1, UseEffect
  <2>3. QED
    BY <2>2
<1>4. CASE Close(r)
  BY <1>4 DEF Close, ClosePort
<1>5. CASE Report(r)
  <2>1. UNCHANGED <<result, holders>> /\ pc[r] \in {"report", "reportDone"}
    BY <1>5 DEF Report, portVars
  <2>2. QED
    BY <2>1 DEF KeptInv
<1>6. CASE PortRaises(r)
  BY <1>6 DEF PortRaises
<1>7. QED
  BY <1>1, <1>2, <1>3, <1>4, <1>5, <1>6 DEF Worker, Proceed

\* Every step keeps what is said of the port of a run that has reported.
LEMMA KeptStep == DtcInv /\ Next => KeptInv'
<1> SUFFICES ASSUME DtcInv, Next PROVE KeptInv'
  OBVIOUS
<1>0. DtcTypeOK /\ HolderInv /\ RunsInv /\ QueueInv /\ KeptInv
  BY DEF DtcInv
<1>a. /\ holders \subseteq Runs
      /\ \A q \in holders : pc[q] \in Reporting => result[q] = "error"
      /\ \A q \in Runs : pc[q] # "new" => run[q].screen # 0
      /\ kept # 0 => Dropped(kept)
  BY <1>0 DEF KeptInv, DtcTypeOK, PortTypeOK
<1>b. kept # 0 => kept \in Runs
  <2>1. kept \in 0 .. runs /\ runs \in 0 .. MaxRuns
    BY <1>0 DEF DtcTypeOK
  <2>2. QED
    BY <2>1, RunsAssumption
<1>c. kept # 0 => pc[kept] \in {"reportDone", "over"} /\ ~Due(kept) /\ run[kept].screen # screen
  BY <1>a DEF Dropped, Live
<1>1. CASE ReadDtc \/ ClearDtc
  <2>1. PICK kind \in {"read", "clear"} : StartRun(kind)
    BY <1>1 DEF ReadDtc, ClearDtc
  <2>2. /\ runs' \in Runs /\ runs' = runs + 1 /\ UNCHANGED <<portVars, tkq, screen, kept, result>>
        /\ pc'[runs'] = "open" /\ \A q \in Runs \ {runs'} : pc'[q] = pc[q]
        /\ run'[runs'] = [kind |-> kind, screen |-> screen] /\ screen \in Screens
        /\ \A q \in Runs \ {runs'} : run'[q] = run[q]
    BY <1>0, <2>1, StartEffect
  <2>3. screen # 0
    BY <2>1 DEF StartRun
  <2>4. kept # 0 => kept # runs'
    <3>1. runs' > runs
      BY <1>0, <2>2, Counters
    <3>2. pc[runs'] = "new"
      BY <1>0, <2>2, <3>1 DEF RunsInv
    <3>3. QED
      BY <1>c, <3>2
  <2>5. kept # 0 => Dropped(kept)'
    BY <1>b, <1>c, <2>2, <2>4 DEF Dropped, Live, Due
  <2>6. \A q \in holders' : pc'[q] \in Reporting => result'[q] = "error"
    BY <1>a, <2>2 DEF Reporting, portVars
  <2>7. \A q \in Runs : pc'[q] # "new" => run'[q].screen # 0
    BY <1>a, <2>2, <2>3
  <2>8. QED
    BY <2>2, <2>5, <2>6, <2>7 DEF KeptInv
<1>2. CASE OnResult
  <2>1. tkq[1] = Head(tkq) /\ tkq[1] \in Callbacks /\ UNCHANGED <<screen, pc, result, run>>
    BY <1>0, <1>2, CallEffect DEF workerVars
  <2>2. PICK r \in Runs : tkq[1] = [run |-> r, what |-> "result"]
    BY <1>2, <2>1 DEF OnResult, Callbacks
  <2>3. pc[r] \in {"reportDone", "over"} /\ ~Due(r)'
    BY <1>2, <2>2, DueCalled, DueOld
  <2>4. holders' \subseteq holders /\ kept' = IF Live(r) THEN kept ELSE r
    <3>1. Head(tkq).run = r
      BY <2>1, <2>2
    <3>2. Release(r)
      BY <1>2, <3>1 DEF OnResult
    <3>3. QED
      BY <3>2 DEF Release, ClosePort
  <2>5. kept # 0 => ~(\E k \in 1 .. Len(tkq') : tkq'[k] = [run |-> kept, what |-> "result"])
    <3>1. PICK q : q = kept
      OBVIOUS
    <3>2. q # 0 => ~Due(q)'
      BY <1>2, <1>b, <1>c, <3>1, DueCalled
    <3>3. QED
      BY <3>1, <3>2 DEF Due
  <2>6. CASE Live(r)
    BY <1>a, <1>c, <2>1, <2>4, <2>5, <2>6 DEF KeptInv, Dropped, Live, Due
  <2>7. CASE ~Live(r)
    BY <1>a, <2>1, <2>3, <2>4, <2>7 DEF KeptInv, Dropped, Live
  <2>8. QED
    BY <2>6, <2>7
<1>3. CASE OnDone
  <2>1. UNCHANGED <<screen, pc, result, run, kept, holders>>
    BY <1>3 DEF OnDone, workerVars, portVars
  <2>2. kept # 0 => ~Due(kept)'
    <3>1. PICK q : q = kept
      OBVIOUS
    <3>2. q # 0 => ~Due(q)'
      BY <1>3, <1>b, <1>c, <3>1, DueCalled
    <3>3. QED
      BY <2>1, <3>1, <3>2 DEF Due
  <2>3. QED
    BY <1>a, <1>c, <2>1, <2>2 DEF KeptInv, Dropped, Live
<1>4. ASSUME NEW w \in Runs, Worker(w) PROVE KeptInv'
  <2>1. /\ TalkEffect(w) \/ PostEffect(w)
        /\ UNCHANGED <<screen, kept, run>>
        /\ \A q \in Runs \ {w} : pc'[q] = pc[q]
        /\ \A q \in Runs \ {w} : result'[q] = result[q]
        /\ holders' \subseteq holders \cup {w}
    BY <1>0, <1>4, WorkerEffect DEF screenVars
  <2>2. \A q \in holders' : pc'[q] \in Reporting => result'[q] = "error"
    BY <1>0, <1>4, <1>a, <2>1, ReportsFailed
  <2>3. kept # 0 => Dropped(kept)'
    <3>1. ASSUME kept # 0 PROVE Dropped(kept)'
      <4>1. kept \in Runs /\ pc[kept] \in {"reportDone", "over"} /\ ~Due(kept)
        BY <1>b, <1>c, <3>1
      <4>2. ~Due(kept)'
        <5>1. PICK q : q = kept
          OBVIOUS
        <5>2. ~Due(q)'
          BY <1>4, <4>1, <5>1, DuePosted
        <5>3. QED
          BY <2>1, <5>1, <5>2 DEF Due
      <4>3. pc'[kept] \in {"reportDone", "over"}
        BY <2>1, <4>1 DEF TalkEffect, PostEffect, Working
      <4>4. QED
        BY <1>c, <2>1, <3>1, <4>2, <4>3 DEF Dropped, Live
    <3>2. QED
      BY <3>1
  <2>4. \A q \in Runs : pc'[q] # "new" => run'[q].screen # 0
    <3>1. pc[w] # "new"
      BY <2>1 DEF TalkEffect, PostEffect, Working
    <3>2. QED
      BY <1>a, <2>1, <3>1
  <2>5. QED
    BY <2>1, <2>2, <2>3, <2>4 DEF KeptInv
<1>5. CASE Answer /\ UNCHANGED <<screenVars, workerVars, runs, run, tkq>>
  <2>1. UNCHANGED <<holders, screen, kept, pc, result, run, tkq>>
    BY <1>0, <1>5, AnswerEffect DEF screenVars, workerVars
  <2>2. QED
    BY <1>a, <2>1 DEF KeptInv, Dropped, Due, Live
<1>6. CASE OpenScreen \/ Back
  <2>1. UNCHANGED <<holders, kept, pc, result, run, tkq>>
    BY <1>6 DEF OpenScreen, Back, workerVars, portVars
  <2>2. kept # 0 => run[kept].screen # screen'
    <3>1. CASE OpenScreen
      <4>1. screen' = screens + 1 /\ screens \in Nat
        BY <1>0, <3>1, Counters DEF OpenScreen
      <4>2. \A q \in Runs : run[q].screen \in 0 .. screens
        BY <1>0 DEF DtcTypeOK
      <4>3. \A q \in Runs : run[q].screen # screens + 1
        BY <4>1, <4>2
      <4>4. QED
        BY <1>b, <4>1, <4>3
    <3>2. CASE Back
      BY <1>a, <1>b, <1>c, <3>2 DEF Back
    <3>3. QED
      BY <1>6, <3>1, <3>2
  <2>3. QED
    BY <1>a, <1>c, <2>1, <2>2 DEF KeptInv, Dropped, Due, Live
<1>7. QED
  BY <1>1, <1>2, <1>3, <1>4, <1>5, <1>6 DEF Next

\* The result of run r stands, and is that of a read screen s started.
Standing(r, s) ==
  /\ run[r] = [kind |-> "read", screen |-> s]
  /\ result[r] = "yes"
  /\ pc[r] \in {"reportDone", "over"}
  /\ ~Due(r)

\* A result that stands goes on standing, on whatever screen.
LEMMA StandingStays ==
  ASSUME DtcInv, Next, NEW r \in 1 .. runs, NEW s, Standing(r, s)
  PROVE  r \in 1 .. runs' /\ Standing(r, s)'
<1>0. DtcTypeOK /\ HolderInv /\ RunsInv /\ QueueInv
  BY DEF DtcInv
<1>s. /\ run[r] = [kind |-> "read", screen |-> s] /\ result[r] = "yes"
      /\ pc[r] \in {"reportDone", "over"} /\ ~Due(r)
  BY DEF Standing
<1>r. r \in Runs /\ r \in Nat /\ r >= 1 /\ r <= runs /\ runs \in Nat
  <2>1. runs \in Nat /\ runs <= MaxRuns
    BY <1>0, Counters
  <2>2. QED
    BY <2>1, RunsAssumption
<1>1. CASE ReadDtc \/ ClearDtc
  <2>1. PICK kind \in {"read", "clear"} : StartRun(kind)
    BY <1>1 DEF ReadDtc, ClearDtc
  <2>2. /\ runs' = runs + 1 /\ UNCHANGED <<result, tkq>>
        /\ \A q \in Runs \ {runs'} : run'[q] = run[q]
        /\ \A q \in Runs \ {runs'} : pc'[q] = pc[q]
    BY <1>0, <2>1, StartEffect
  <2>3. r # runs' /\ r \in 1 .. runs'
    BY <1>r, <2>2
  <2>4. QED
    BY <1>s, <1>r, <2>2, <2>3 DEF Standing, Due
<1>2. CASE OnResult \/ OnDone
  <2>1. UNCHANGED <<pc, result, runs, run>>
    BY <1>0, <1>2, CallEffect DEF workerVars
  <2>2. ~Due(r)'
    BY <1>s, <1>r, <1>2, DueCalled
  <2>3. QED
    BY <1>s, <2>1, <2>2 DEF Standing
<1>3. ASSUME NEW w \in Runs, Worker(w) PROVE r \in 1 .. runs' /\ Standing(r, s)'
  <2>1. /\ UNCHANGED <<runs, run>>
        /\ TalkEffect(w) \/ PostEffect(w)
        /\ \A q \in Runs \ {w} : pc'[q] = pc[q]
        /\ \A q \in Runs \ {w} : result'[q] = result[q]
    BY <1>0, <1>3, WorkerEffect
  <2>2. ~Due(r)'
    BY <1>s, <1>r, <1>3, DuePosted
  <2>3. pc'[r] \in {"reportDone", "over"} /\ result'[r] = result[r]
    BY <1>s, <1>r, <2>1 DEF TalkEffect, PostEffect, Working
  <2>4. QED
    BY <1>s, <2>1, <2>2, <2>3 DEF Standing
<1>4. CASE UNCHANGED <<runs, run, result, pc, tkq>>
  BY <1>s, <1>4 DEF Standing, Due
<1>5. QED
  BY <1>1, <1>2, <1>3, <1>4 DEF Next, OpenScreen, Back, workerVars

\* Every step keeps Clear disabled, unless codes have been shown.
LEMMA ClearStep == DtcInv /\ Next => ClearInv'
<1> SUFFICES ASSUME DtcInv, Next, clearOn' PROVE \E r \in 1 .. runs' : Standing(r, screen)'
  BY DEF ClearInv, Standing
<1>0. DtcTypeOK /\ HolderInv /\ RunsInv /\ QueueInv
  BY DEF DtcInv
<1>1. ASSUME clearOn, screen' = screen PROVE \E r \in 1 .. runs' : Standing(r, screen)'
  <2>1. PICK r \in 1 .. runs : Standing(r, screen)
    BY <1>1 DEF DtcInv, ClearInv, Standing
  <2>2. r \in 1 .. runs' /\ Standing(r, screen)'
    BY <1>1, <2>1, StandingStays DEF Standing, Due
  <2>3. QED
    BY <2>2
<1>2. CASE ReadDtc \/ ClearDtc
  <2>1. clearOn /\ screen' = screen
    BY <1>2 DEF ReadDtc, ClearDtc, StartRun
  <2>2. QED
    BY <1>1, <2>1
<1>3. CASE OnResult
  <2>1. /\ tkq[1] = Head(tkq) /\ tkq[1] \in Callbacks /\ UNCHANGED <<screen, pc, result, runs, run>>
    BY <1>0, <1>3, CallEffect DEF workerVars
  <2>2. PICK r \in Runs : tkq[1] = [run |-> r, what |-> "result"]
    BY <1>3, <2>1 DEF OnResult, Callbacks
  <2>3. CASE clearOn
    BY <1>1, <2>1, <2>3
  <2>4. CASE ~clearOn
    <3>1. Head(tkq).run = r
      BY <2>1, <2>2
    <3>2. Live(r) /\ NewLabel(r) = "codes"
      BY <1>3, <2>4, <3>1 DEF OnResult
    <3>3. run[r] \in [kind : {"read", "clear"}, screen : 0 .. screens]
      BY <1>0 DEF DtcTypeOK
    <3>4. run[r].kind = "read" /\ result[r] = "yes"
      BY <3>2, <3>3 DEF NewLabel
    <3>5. run[r] = [kind |-> "read", screen |-> screen]
      BY <3>2, <3>3, <3>4 DEF Live
    <3>6. pc[r] \in {"reportDone", "over"} /\ ~Due(r)'
      BY <1>3, <2>2, DueCalled, DueOld
    <3>7. r \in 1 .. runs
      <4>1. ~(r > runs)
        BY <1>0, <3>6 DEF RunsInv
      <4>2. r \in 1 .. MaxRuns /\ MaxRuns \in Nat
        BY RunsAssumption
      <4>3. runs \in Nat
        BY <1>0, Counters
      <4>4. QED
        BY <4>1, <4>2, <4>3
    <3>8. QED
      BY <2>1, <3>4, <3>5, <3>6, <3>7 DEF Standing
  <2>5. QED
    BY <2>3, <2>4
<1>4. ASSUME NEW r \in Runs, Worker(r) PROVE clearOn /\ screen' = screen
  BY <1>0, <1>4, WorkerEffect DEF screenVars
<1>5. QED
  BY <1>1, <1>2, <1>3, <1>4 DEF Next, OpenScreen, Back, OnDone, screenVars

\* The invariant holds initially, and every step of the specification keeps it.
LEMMA DtcInit == Init => DtcInv
<1> SUFFICES ASSUME Init PROVE DtcInv
  OBVIOUS
<1>1. DtcTypeOK
  <2>1. PortTypeOK
    BY EmptySeq DEF Init, PortInit, PortTypeOK
  <2>2. 0 \in 0 .. 0 /\ 0 \in 0 .. MaxRuns /\ 0 \in 0 .. MaxScreens /\ 0 \in 0 .. InitLen
    BY RunsAssumption, BoundsAssumption
  <2>3. screen \in 0 .. screens /\ screens \in 0 .. MaxScreens /\ runs \in 0 .. MaxRuns
    BY <2>2 DEF Init
  <2>4. spinnerOf \in [Screens -> 0 .. runs] /\ step \in [Runs -> 0 .. InitLen]
    BY <2>2 DEF Init
  <2>5. run \in [Runs -> [kind : {"read", "clear"}, screen : 0 .. screens]]
    BY <2>2 DEF Init
  <2>6. tkq \in Seq(Callbacks)
    BY EmptySeq DEF Init
  <2>7. QED
    BY <2>1, <2>3, <2>4, <2>5, <2>6 DEF Init, DtcTypeOK
<1>2. RunsInv
  <2>1. \A r \in Runs : r > 0
    BY RunsAssumption
  <2>2. QED
    BY <2>1 DEF Init, RunsInv
<1>3. tkq = << >> /\ Len(tkq) = 0
  BY DEF Init
<1>4. QueueInv
  BY <1>3 DEF QueueInv, DoneLast
<1>5. HolderInv /\ KeptInv /\ ClearInv
  BY DEF Init, PortInit, HolderInv, KeptInv, ClearInv
<1>6. QED
  BY <1>1, <1>2, <1>4, <1>5 DEF DtcInv

\* Every step keeps the invariant.
LEMMA DtcStep == DtcInv /\ [Next]_vars => DtcInv'
<1> SUFFICES ASSUME DtcInv, [Next]_vars PROVE DtcInv'
  OBVIOUS
<1>1. CASE Next
  BY <1>1, TypeStep, RunsStep, QueueStep, HolderStep, KeptStep, ClearStep DEF DtcInv
<1>2. CASE UNCHANGED vars
  <2>1. UNCHANGED <<cmds, rx, holders, codes, screen, screens, label, clearOn, spinnerOf,
                    spinning, kept, pc, step, result, runs, run, tkq>>
    BY <1>2 DEF vars, portVars, screenVars, workerVars
  <2>2. \A q : Due(q)' = Due(q) /\ ResultDue(q)' = ResultDue(q)
    BY <2>1 DEF Due, ResultDue
  <2>a. DtcTypeOK'
    BY <2>1 DEF DtcInv, DtcTypeOK, PortTypeOK
  <2>b. RunsInv'
    BY <2>1 DEF DtcInv, RunsInv
  <2>3. QueueInv'
    BY <2>1 DEF DtcInv, QueueInv, DoneLast
  <2>4. HolderInv'
    BY <2>1, <2>2 DEF DtcInv, HolderInv
  <2>5. ClearInv'
    BY <2>1, <2>2 DEF DtcInv, ClearInv
  <2>6. KeptInv'
    BY <2>1, <2>2 DEF DtcInv, KeptInv, Dropped, Live
  <2>7. QED
    BY <2>a, <2>b, <2>3, <2>4, <2>5, <2>6 DEF DtcInv
<1>3. QED
  BY <1>1, <1>2

\* The inductive invariant holds in every behaviour.
LEMMA DtcAlways == Spec => []DtcInv
BY DtcInit, DtcStep, PTL DEF Spec

-----------------------------------------------------------------------------
(* The theorems about every user and every adapter.                        *)

\* Every variable of DtcScreen keeps to its type, for any number of clicks,
\* screens and set up commands.
THEOREM DtcTypeCorrect == Spec => []DtcTypeOK
<1>1. DtcInv => DtcTypeOK
  BY DEF DtcInv
<1>2. QED
  BY <1>1, DtcAlways, PTL

\* run_async posts a run's on_done behind its result, and no interleaving of
\* workers turns the two around or queues either twice.
THEOREM DoneComesLast == Spec => []DoneLast
<1>1. DtcInv => DoneLast
  BY DEF DtcInv, QueueInv
<1>2. QED
  BY <1>1, DtcAlways, PTL

\* dtc_lookup.py:30-44, dtc_interface.py:64-71, :95-102: however many handlers
\* have the port open and however they end, all but one have closed it when the
\* last of their callbacks has been called; the one is a handler whose set up
\* failed and whose error came to a screen that was gone.
THEOREM PortGivenBack == Spec => []PortReleased
<1>1. ASSUME DtcInv PROVE PortReleased
  <2>1. ASSUME NEW r \in holders, ~InFlight(r)
        PROVE  r = kept /\ result[r] = "error" /\ ~Live(r)
    <3>1. /\ r \in Runs /\ (ResultDue(r) \/ r = kept)
          /\ pc[r] \in Reporting => result[r] = "error"
          /\ kept # 0 => Dropped(kept)
      BY <1>1 DEF DtcInv, HolderInv, KeptInv, DtcTypeOK, PortTypeOK
    <3>2. ~ResultDue(r)
      <4>1. pc[r] \notin Working
        BY <2>1 DEF InFlight, Working
      <4>2. ~Due(r)
        <5>1. ~ \E k \in 1 .. Len(tkq) : tkq[k].run = r
          BY <2>1 DEF InFlight, Queued
        <5>2. QED
          BY <5>1 DEF Due
      <4>3. QED
        BY <4>1, <4>2 DEF ResultDue
    <3>3. r # 0
      BY <3>1, RunsAssumption
    <3>4. QED
      BY <3>1, <3>2, <3>3 DEF Dropped, Reporting
  <2>2. QED
    BY <2>1 DEF PortReleased
<1>2. QED
  BY <1>1, DtcAlways, PTL

\* Clear stays disabled on a screen until one of its own reads has shown codes,
\* however clicks and screens overlap.
THEOREM ClearNeedsCodes == Spec => []ClearAfterCodes
<1>1. ASSUME DtcInv PROVE ClearAfterCodes
  BY <1>1 DEF DtcInv, ClearInv, ClearAfterCodes, ShownCodes, Due
<1>2. QED
  BY <1>1, DtcAlways, PTL

-----------------------------------------------------------------------------
(* A user who waits.                                                       *)

\* The menu is no screen.
LEMMA NoScreenZero == 0 \notin Screens
BY BoundsAssumption DEF Screens

\* Runs not started, with nothing queued, are not in flight.
LEMMA NoneInFlight ==
  ASSUME Len(tkq) = 0, \A r \in Runs : pc[r] = "new"
  PROVE  \A r \in Runs : ~InFlight(r)
<1>0. 1 .. 0 = {}
  OBVIOUS
<1>1. \A r : ~Queued(r)
  BY <1>0, Zenon DEF Queued
<1>2. QED
  BY <1>1 DEF InFlight

\* A run that takes a step is in flight before and after it, and no other run's
\* flight changes.
LEMMA FlightOfWorker ==
  ASSUME DtcInv, NEW r \in Runs, Worker(r)
  PROVE  /\ InFlight(r) /\ InFlight(r)'
         /\ \A q \in Runs \ {r} : InFlight(q)' => InFlight(q)
<1>0. DtcTypeOK /\ HolderInv
  BY DEF DtcInv
<1>t. Len(tkq) \in Nat
  BY <1>0, Counters
<1>1. /\ TalkEffect(r) \/ PostEffect(r)
      /\ \A q \in Runs \ {r} : pc'[q] = pc[q]
  BY <1>0, WorkerEffect
<1>2. InFlight(r)
  BY <1>1 DEF TalkEffect, PostEffect, Working, InFlight
<1>3. CASE TalkEffect(r)
  BY <1>1, <1>2, <1>3 DEF TalkEffect, Working, Talking, InFlight, Queued
<1>4. CASE PostEffect(r)
  <2>1. /\ Len(tkq') = Len(tkq) + 1
        /\ \A k \in 1 .. Len(tkq) : tkq'[k] = tkq[k]
        /\ tkq'[Len(tkq')] \in {[run |-> r, what |-> "result"], [run |-> r, what |-> "done"]}
    BY <1>0, <1>4, PostedEffect
  <2>a. tkq'[Len(tkq')].run = r
    BY <2>1
  <2>2. /\ \A k \in 1 .. Len(tkq') : k = Len(tkq') \/ k \in 1 .. Len(tkq)
        /\ Len(tkq') \in 1 .. Len(tkq')
    BY <1>t, <2>1
  <2>3. Queued(r)'
    BY <2>a, <2>2 DEF Queued
  <2>4. ASSUME NEW q \in Runs \ {r}, InFlight(q)' PROVE InFlight(q)
    <3>1. CASE Queued(q)'
      <4>1. PICK k \in 1 .. Len(tkq') : tkq'[k].run = q
        BY <3>1 DEF Queued
      <4>2. k \in 1 .. Len(tkq) /\ tkq[k].run = q
        BY <2>1, <2>2, <4>1
      <4>3. QED
        BY <4>2 DEF InFlight, Queued
    <3>2. CASE ~Queued(q)'
      BY <1>1, <2>4, <3>2 DEF InFlight
    <3>3. QED
      BY <3>1, <3>2
  <2>5. QED
    BY <1>2, <2>3, <2>4 DEF InFlight
<1>5. QED
  BY <1>1, <1>3, <1>4

\* A callback called puts no run into flight; a result leaves its run in flight,
\* and on_done ends its flight.
LEMMA FlightOfCall ==
  ASSUME DtcInv, OnResult \/ OnDone, NEW r, r = tkq[1].run
  PROVE  /\ r \in Runs /\ InFlight(r)
         /\ \A q \in Runs : InFlight(q)' => InFlight(q)
         /\ InFlight(r)' <=> tkq[1].what = "result"
<1>0. DtcTypeOK /\ QueueInv
  BY DEF DtcInv
<1>1. /\ tkq[1] \in Callbacks
      /\ Len(tkq) \in Nat /\ Len(tkq) >= 1 /\ Len(tkq') = Len(tkq) - 1
      /\ \A k \in 1 .. Len(tkq') : k + 1 \in 2 .. Len(tkq) /\ tkq'[k] = tkq[k + 1]
      /\ \A k \in 2 .. Len(tkq) : k - 1 \in 1 .. Len(tkq') /\ tkq'[k - 1] = tkq[k]
      /\ pc' = pc
  BY <1>0, CallEffect DEF workerVars
<1>2. r \in Runs /\ tkq[1].what \in {"result", "done"}
  BY <1>1 DEF Callbacks
<1>3. 1 \in 1 .. Len(tkq) /\ \A k \in 2 .. Len(tkq) : k \in 1 .. Len(tkq) /\ 1 < k
  BY <1>1
<1>4. InFlight(r)
  BY <1>3 DEF InFlight, Queued
<1>5. \A q \in Runs : InFlight(q)' => InFlight(q)
  <2>1. ASSUME NEW q \in Runs, InFlight(q)' PROVE InFlight(q)
    <3>1. CASE Queued(q)'
      <4>1. PICK k \in 1 .. Len(tkq') : tkq'[k].run = q
        BY <3>1 DEF Queued
      <4>2. k + 1 \in 1 .. Len(tkq) /\ tkq[k + 1].run = q
        BY <1>1, <1>3, <4>1
      <4>3. QED
        BY <4>2 DEF InFlight, Queued
    <3>2. CASE ~Queued(q)'
      BY <1>1, <2>1, <3>2 DEF InFlight
    <3>3. QED
      BY <3>1, <3>2
  <2>2. QED
    BY <2>1
<1>6. pc[r] \in {"reportDone", "over"} /\ (tkq[1].what = "done" => pc[r] = "over")
  BY <1>0, <1>3 DEF QueueInv
<1>7. ASSUME tkq[1].what = "result" PROVE InFlight(r)'
  <2>1. CASE pc[r] = "reportDone"
    BY <1>1, <2>1 DEF InFlight
  <2>2. CASE pc[r] = "over"
    <3>1. PICK j \in 1 .. Len(tkq) : tkq[j] = [run |-> r, what |-> "done"]
      BY <1>0, <1>3, <1>7, <2>2 DEF QueueInv
    <3>2. tkq[j].run = r /\ tkq[j].what = "done"
      BY <3>1
    <3>3. j # 1
      BY <1>7, <3>2
    <3>4. j \in 2 .. Len(tkq)
      BY <1>1, <3>3
    <3>5. j - 1 \in 1 .. Len(tkq') /\ tkq'[j - 1].run = r
      BY <1>1, <3>2, <3>4
    <3>6. QED
      BY <3>5 DEF InFlight, Queued
  <2>3. QED
    BY <1>6, <2>1, <2>2
<1>8. ASSUME tkq[1].what = "done", InFlight(r)' PROVE FALSE
  <2>1. Queued(r)'
    BY <1>1, <1>6, <1>8 DEF InFlight
  <2>2. PICK k \in 1 .. Len(tkq') : tkq'[k].run = r
    BY <2>1 DEF Queued
  <2>3. k + 1 \in 2 .. Len(tkq) /\ tkq[k + 1].run = r
    BY <1>1, <2>2
  <2>4. tkq[1].what = "result"
    BY <1>0, <1>3, <2>3 DEF QueueInv, DoneLast
  <2>5. QED
    BY <1>8, <2>4
<1>9. QED
  BY <1>2, <1>4, <1>5, <1>7, <1>8 DEF InFlight

\* A click of a user who waits finds nothing in flight, and puts one run there.
LEMMA FlightOfClick ==
  ASSUME DtcInv, User = "waits", NEW kind \in {"read", "clear"}, StartRun(kind),
         NEW r, r = runs'
  PROVE  /\ \A q \in Runs : ~InFlight(q)
         /\ InFlight(r)'
         /\ \A q \in Runs : InFlight(q)' => q = r
<1>0. DtcTypeOK
  BY DEF DtcInv
<1>1. \A q \in Runs : ~InFlight(q)
  BY DEF StartRun, MayClick
<1>2. /\ runs' \in Runs /\ tkq' = tkq
      /\ pc'[runs'] = "open" /\ \A q \in Runs \ {runs'} : pc'[q] = pc[q]
  BY <1>0, StartEffect
<1>3. QED
  BY <1>1, <1>2 DEF InFlight, Queued

\* For a user who waits, the port is held by runs whose result is due.
LEMMA HoldersWait ==
  ASSUME DtcInv, AloneInv, NEW q \in holders
  PROVE  q \in Runs /\ ResultDue(q)
<1>1. q \in Runs /\ (ResultDue(q) \/ q = kept)
  BY DEF DtcInv, HolderInv, DtcTypeOK, PortTypeOK
<1>2. q # kept
  BY <1>1, RunsAssumption DEF AloneInv
<1>3. QED
  BY <1>1, <1>2

\* Every step of a user who waits keeps one run in flight, whose spinner turns.
LEMMA AloneStep ==
  ASSUME DtcInv, AloneInv, User = "waits", Next
  PROVE  AloneInv'
<1>0. DtcTypeOK /\ HolderInv
  BY DEF DtcInv
<1>a. /\ \A q \in Runs : InFlight(q) =>
           /\ q = runs /\ screen \in Screens
           /\ run[q].screen = screen /\ spinnerOf[screen] = q
           /\ q \in spinning
      /\ \A q \in spinning : InFlight(q)
      /\ spinning \subseteq Runs
      /\ kept = 0
  <2>1. spinning \subseteq 1 .. runs /\ runs \in 0 .. MaxRuns
    BY <1>0 DEF DtcTypeOK
  <2>2. spinning \subseteq Runs
    BY <2>1, RunsAssumption
  <2>3. QED
    BY <2>2 DEF AloneInv
<1>1. CASE ReadDtc \/ ClearDtc
  <2>1. PICK kind \in {"read", "clear"} : StartRun(kind)
    BY <1>1 DEF ReadDtc, ClearDtc
  <2>s. /\ runs' \in Runs /\ screen \in Screens /\ screen' = screen
        /\ run'[runs'] = [kind |-> kind, screen |-> screen]
        /\ spinnerOf'[screen] = runs'
        /\ spinning' = spinning \cup {runs'} /\ kept' = kept
    BY <1>0, <2>1, StartEffect
  <2>r. PICK r \in Runs : r = runs'
    BY <2>s
  <2>2. /\ screen' = screen /\ screen \in Screens
        /\ run'[r].screen = screen
        /\ spinnerOf'[screen] = r
        /\ spinning' = spinning \cup {r}
    BY <2>s, <2>r
  <2>3. /\ \A q \in Runs : ~InFlight(q)
        /\ InFlight(r)'
        /\ \A q \in Runs : InFlight(q)' => q = r
    BY <2>1, <2>r, FlightOfClick
  <2>4. spinning = {}
    BY <1>a, <2>3
  <2>5. spinning' = {r}
    BY <2>2, <2>4
  <2>6. \A q \in spinning' : InFlight(q)'
    BY <2>3, <2>5
  <2>7. QED
    BY <1>a, <2>s, <2>2, <2>3, <2>5, <2>6, <2>r DEF AloneInv
<1>2. CASE OpenScreen \/ Back
  <2>1. \A q \in Runs : ~InFlight(q)
    <3>1. CASE OpenScreen
      <4>1. screen \notin Screens
        BY <3>1, NoScreenZero DEF OpenScreen
      <4>2. QED
        BY <1>a, <4>1
    <3>2. CASE Back
      BY <3>2 DEF Back, MayClick
    <3>3. QED
      BY <1>2, <3>1, <3>2
  <2>2. UNCHANGED <<pc, tkq, spinning, kept>>
    BY <1>2 DEF OpenScreen, Back, workerVars
  <2>3. \A q \in Runs : ~InFlight(q)'
    BY <2>1, <2>2 DEF InFlight, Queued
  <2>4. spinning' = {}
    BY <1>a, <2>1, <2>2
  <2>5. QED
    BY <1>a, <2>2, <2>3, <2>4 DEF AloneInv
<1>3. CASE OnResult \/ OnDone
  <2>r. PICK r : r = tkq[1].run
    OBVIOUS
  <2>1. UNCHANGED <<screen, spinnerOf, runs, run>> /\ tkq[1] = Head(tkq)
    BY <1>0, <1>3, CallEffect
  <2>2. /\ r \in Runs /\ InFlight(r)
        /\ \A q \in Runs : InFlight(q)' => InFlight(q)
        /\ InFlight(r)' <=> tkq[1].what = "result"
    BY <1>3, <2>r, FlightOfCall
  <2>3. r = runs /\ spinnerOf[run[r].screen] = r /\ \A q \in spinning : q = r
    BY <1>a, <2>2
  <2>4. CASE OnResult
    <3>1. spinning' = spinning /\ InFlight(r)'
      BY <2>1, <2>2, <2>4, <2>r DEF OnResult
    <3>2. \A q \in spinning' : InFlight(q)'
      BY <2>3, <3>1
    <3>3. kept' = 0
      <4>1. Live(r) /\ Head(tkq).run = r
        BY <1>a, <2>1, <2>2, <2>r DEF Live
      <4>2. QED
        BY <1>a, <2>4, <4>1 DEF OnResult, Release
    <3>4. QED
      BY <1>a, <2>1, <2>2, <3>1, <3>2, <3>3 DEF AloneInv
  <2>5. CASE OnDone
    <3>1. spinning' = spinning \ {r} /\ ~InFlight(r)'
      BY <2>1, <2>2, <2>3, <2>5, <2>r DEF OnDone
    <3>2. spinning' = {}
      BY <2>3, <3>1
    <3>3. \A q \in Runs : ~InFlight(q)'
      BY <1>a, <2>2, <2>3, <3>1
    <3>4. kept' = 0
      BY <1>a, <2>5 DEF OnDone
    <3>5. QED
      BY <3>2, <3>3, <3>4 DEF AloneInv
  <2>6. QED
    BY <1>3, <2>4, <2>5
<1>4. ASSUME NEW r \in Runs, Worker(r) PROVE AloneInv'
  <2>1. UNCHANGED <<screen, spinnerOf, spinning, runs, run, kept>>
    BY <1>0, <1>4, WorkerEffect DEF screenVars
  <2>2. /\ InFlight(r) /\ InFlight(r)'
        /\ \A q \in Runs \ {r} : InFlight(q)' => InFlight(q)
    BY <1>4, FlightOfWorker
  <2>3. \A q \in spinning : q = r
    BY <1>a, <2>2
  <2>4. \A q \in spinning' : InFlight(q)'
    BY <2>1, <2>2, <2>3
  <2>5. QED
    BY <1>a, <2>1, <2>2, <2>4 DEF AloneInv
<1>5. CASE Answer /\ UNCHANGED <<screenVars, workerVars, runs, run, tkq>>
  BY <1>5 DEF AloneInv, InFlight, Queued, screenVars, workerVars
<1>6. QED
  BY <1>1, <1>2, <1>3, <1>4, <1>5 DEF Next

\* The invariant of a user who waits, in every behaviour.
LEMMA WaitAlways ==
  ASSUME User = "waits"
  PROVE  Spec => []WaitInv
<1>1. Init => WaitInv
  <2>1. Init => AloneInv
    <3> SUFFICES ASSUME Init PROVE AloneInv
      OBVIOUS
    <3>2. Len(tkq) = 0 /\ \A r \in Runs : pc[r] = "new"
      BY DEF Init
    <3>3. \A r \in Runs : ~InFlight(r)
      BY <3>2, NoneInFlight
    <3>4. QED
      BY <3>3 DEF Init, AloneInv
  <2>2. QED
    BY <2>1, DtcInit DEF WaitInv
<1>2. WaitInv /\ [Next]_vars => WaitInv'
  <2> SUFFICES ASSUME WaitInv, [Next]_vars PROVE WaitInv'
    OBVIOUS
  <2>1. DtcInv'
    BY DtcStep DEF WaitInv
  <2>2. CASE Next
    BY <2>1, <2>2, AloneStep DEF WaitInv
  <2>3. CASE UNCHANGED vars
    BY <2>1, <2>3 DEF WaitInv, AloneInv, InFlight, Queued, vars, screenVars, workerVars
  <2>4. QED
    BY <2>2, <2>3
<1>3. QED
  BY <1>1, <1>2, PTL DEF Spec

\* gui/dtc_interface.py:46 and tests/test_ui_worker.py:103: the spinner of the live
\* screen turns exactly while a run is in flight, as long as the user waits.
THEOREM SpinnerIsTrue ==
  ASSUME User = "waits"
  PROVE  Spec => []SpinnerTracksRuns
<1>1. ASSUME WaitInv PROVE SpinnerTracksRuns
  <2>1. runs \in Nat /\ runs <= MaxRuns
    BY <1>1, Counters DEF WaitInv, DtcInv
  <2>2. 1 .. runs \subseteq Runs
    BY <2>1, RunsAssumption
  <2>3. QED
    BY <1>1, <2>2 DEF WaitInv, AloneInv, SpinnerTracksRuns
<1>2. QED
  BY <1>1, WaitAlways, PTL

-----------------------------------------------------------------------------
(* A user who waits, with an adapter that can be trusted.                  *)

\* A run that is not in flight, or whose result has been called, has nothing to
\* say to the adapter or of the screen.
LEMMA NoTalk ==
  ASSUME NEW r \in Runs, pc[r] \in {"new", "reportDone", "over"}, ~Due(r)
  PROVE  Talk(r)
BY DEF Talk, ResultDue, Working

\* A run that is not in flight owes the screen nothing.
LEMMA NoFlightNoTalk ==
  \A r \in Runs : ~InFlight(r) => pc[r] \in {"new", "over"} /\ ~Due(r) /\ Talk(r)
<1> SUFFICES ASSUME NEW r \in Runs, ~InFlight(r)
             PROVE  pc[r] \in {"new", "over"} /\ ~Due(r) /\ Talk(r)
  OBVIOUS
<1>1. pc[r] \in {"new", "over"}
  BY DEF InFlight
<1>2. ~Due(r)
  <2>1. ASSUME NEW k \in 1 .. Len(tkq), tkq[k] = [run |-> r, what |-> "result"] PROVE FALSE
    <3>1. tkq[k].run = r
      BY <2>1
    <3>2. QED
      BY <3>1 DEF InFlight, Queued
  <2>2. QED
    BY <2>1 DEF Due
<1>3. QED
  BY <1>1, <1>2, NoTalk

\* The same of the next state.
LEMMA NoFlightNoTalkNext ==
  (\A r \in Runs : ~InFlight(r) => pc[r] \in {"new", "over"} /\ ~Due(r) /\ Talk(r))'
BY NoFlightNoTalk, PTL

\* The command of run r depends on its set up and its kind alone.
LEMMA CommandKinds ==
  ASSUME DtcTypeOK, NEW r \in Runs
  PROVE  /\ Command(r) \in {"at", "03", "04"}
         /\ ~Connecting(r) /\ run[r].kind = "read" => Command(r) = "03"
         /\ ~Connecting(r) /\ run[r].kind = "clear" => Command(r) = "04"
         /\ run[r].kind \in {"read", "clear"}
<1>1. run[r].kind \in {"read", "clear"}
  BY DEF DtcTypeOK
<1>2. QED
  BY <1>1 DEF Command

\* A reply used by the run it answers: the result is what the vehicle stores.
LEMMA UseTalk ==
  ASSUME TruthInv, PlainAdapter, NEW r \in Runs, pc[r] = "read",
         rx = <<AnswerTo(Command(r))>>, cmds = << >>,
         Command(r) = "04" => ~codes,
         Use(r, AnswerTo(Command(r))),
         rx' = << >>, UNCHANGED <<cmds, holders, codes>>
  PROVE  Talk(r)'
<1>0. DtcTypeOK
  BY DEF TruthInv, WaitInv, DtcInv
<1>1. /\ pc'[r] \in {"write", "close"}
      /\ UNCHANGED <<screenVars, runs, run, tkq>>
  BY <1>0, UseEffect
<1>2. label' = ""
  <2>1. ResultDue(r)
    BY DEF ResultDue, Working
  <2>2. QED
    BY <1>1, <2>1 DEF TruthInv, TalkInv, Talk, screenVars
<1>3. CASE Connecting(r)
  <2>1. pc'[r] = "write"
    BY <1>0, <1>3 DEF Use, Goto, DtcTypeOK
  <2>2. QED
    BY <1>2, <2>1 DEF Talk
<1>4. CASE ~Connecting(r)
  <2>1. pc'[r] = "close"
    BY <1>0, <1>4 DEF Use, Goto, DtcTypeOK
  <2>2. CASE run[r].kind = "read"
    <3>1. Command(r) = "03"
      BY <1>0, <1>4, <2>2, CommandKinds
    <3>2. FindsCodes(AnswerTo(Command(r))) <=> codes
      BY <3>1 DEF FindsCodes, AnswerTo, PlainAdapter
    <3>3. result'[r] = IF codes THEN "yes" ELSE "no"
      BY <1>0, <1>4, <2>2, <3>2 DEF Use, Result, DtcTypeOK
    <3>4. QED
      BY <1>1, <1>2, <2>1, <2>2, <3>3 DEF Talk
  <2>3. CASE run[r].kind = "clear"
    <3>1. Command(r) = "04" /\ ~codes
      BY <1>0, <1>4, <2>3, CommandKinds
    <3>2. result'[r] \in {"yes", "no"}
      BY <1>0, <1>4 DEF Use, Result, DtcTypeOK
    <3>3. QED
      BY <1>1, <1>2, <2>1, <2>3, <3>1, <3>2 DEF Talk
  <2>4. QED
    BY <1>0, <2>2, <2>3, CommandKinds
<1>5. QED
  BY <1>3, <1>4

\* A step of the one run in flight keeps what is said between it and the adapter.
LEMMA WorkerTalk ==
  ASSUME TruthInv, PlainAdapter, NEW r \in Runs, Worker(r)
  PROVE  Talk(r)'
<1>0. DtcInv /\ DtcTypeOK /\ HolderInv /\ AloneInv /\ Talk(r)
  BY DEF TruthInv, WaitInv, DtcInv, TalkInv
<1>t. Talk(r)
  BY <1>0
<1>1. /\ TalkEffect(r) \/ PostEffect(r)
      /\ UNCHANGED <<screenVars, runs, run>> /\ codes' = codes
  BY <1>0, WorkerEffect
<1>2. Due(r)' => Due(r) \/ pc[r] = "report"
  BY <1>0, DuePosted
<1>3. ResultDue(r)' => label' = ""
  <2>1. ResultDue(r)' => ResultDue(r)
    BY <1>1, <1>2 DEF TalkEffect, PostEffect, ResultDue, Working
  <2>2. QED
    BY <1>1, <1>t, <2>1 DEF Talk, screenVars
<1>4. CASE Open(r)
  <2>1. CASE pc' = [pc EXCEPT ![r] = "flush"] /\ UNCHANGED <<cmds, rx>>
    <3>1. cmds = << >> /\ rx = << >>
      BY <1>0, <1>4 DEF Open, Talk, HolderInv
    <3>2. QED
      BY <1>0, <1>3, <2>1, <3>1 DEF Talk, DtcTypeOK
  <2>2. CASE pc' = [pc EXCEPT ![r] = "report"] /\ result' = [result EXCEPT ![r] = "error"]
    BY <1>0, <1>3, <2>2 DEF Talk, DtcTypeOK
  <2>3. QED
    BY <1>4, <2>1, <2>2 DEF Open, OpenPort, Goto, Result
<1>5. CASE Flush(r)
  BY <1>0, <1>3, <1>5 DEF Flush, FlushInput, Goto, Talk, DtcTypeOK
<1>6. CASE Write(r)
  <2>1. pc[r] = "write" /\ cmds' = Append(cmds, Command(r)) /\ pc'[r] = "read"
        /\ UNCHANGED <<rx, step, run>>
    BY <1>0, <1>6 DEF Write, WriteCommand, Goto, Rest, Command, DtcTypeOK
  <2>2. cmds = << >> /\ rx = << >>
    BY <1>0, <2>1 DEF Talk
  <2>3. Command(r)' = Command(r) /\ cmds' = <<Command(r)>>
    BY <2>1, <2>2 DEF Command, Connecting
  <2>4. QED
    BY <1>3, <2>1, <2>2, <2>3 DEF Talk
<1>7. CASE Read(r)
  <2>1. pc[r] = "read"
    BY <1>7 DEF Read
  <2>2. \/ cmds = <<Command(r)>> /\ rx = << >>
        \/ /\ cmds = << >> /\ rx = <<AnswerTo(Command(r))>>
           /\ Command(r) = "04" => ~codes
    BY <1>0, <2>1 DEF Talk
  <2>3. ~ReadNothing
    BY <2>2 DEF ReadNothing, PlainAdapter
  <2>4. ~Contended(r)
    <3>1. ASSUME NEW q \in Runs \ {r}, pc[q] = "read" PROVE FALSE
      BY <1>0, <2>1, <3>1 DEF AloneInv, InFlight
    <3>2. QED
      BY <3>1 DEF Contended
  <2>5. PICK t \in Texts : ReadText(t) /\ Use(r, t)
    BY <1>7, <2>3, <2>4 DEF Read
  <2>6. /\ cmds = << >> /\ rx = <<AnswerTo(Command(r))>>
        /\ Command(r) = "04" => ~codes
    BY <2>2, <2>5 DEF ReadText
  <2>7. /\ t = AnswerTo(Command(r)) /\ rx' = << >> /\ UNCHANGED <<cmds, holders, codes>>
    BY <2>5, <2>6 DEF ReadText
  <2>8. QED
    BY <2>1, <2>5, <2>6, <2>7, UseTalk
<1>8. CASE PortRaises(r)
  <2>1. pc'[r] \in {"report", "close"} /\ result'[r] = "error"
    BY <1>0, <1>8 DEF PortRaises, Goto, Result, DtcTypeOK
  <2>2. QED
    BY <1>3, <2>1 DEF Talk
<1>9. CASE Close(r)
  <2>1. /\ pc[r] = "close" /\ pc'[r] = "report" /\ result'[r] = result[r]
        /\ cmds' \in {<< >>, cmds} /\ rx' \in {<< >>, rx}
    BY <1>0, <1>9 DEF Close, ClosePort, Goto, DtcTypeOK
  <2>2. ResultDue(r)
    BY <2>1 DEF ResultDue, Working
  <2>3. QED
    BY <1>0, <1>1, <1>3, <2>1, <2>2 DEF Talk
<1>10. CASE PostEffect(r)
  <2>1. /\ pc[r] \in {"report", "reportDone"} /\ pc'[r] \in {"reportDone", "over"}
        /\ UNCHANGED <<cmds, rx, codes, run, result>>
    BY <1>1, <1>10 DEF PostEffect, portVars
  <2>2. ResultDue(r)' => ResultDue(r)
    BY <1>2, <2>1 DEF ResultDue, Working
  <2>3. QED
    BY <1>0, <1>3, <2>1, <2>2 DEF Talk
<1>11. CASE Report(r)
  <2>1. UNCHANGED <<portVars, step, result>>
    BY <1>11 DEF Report
  <2>2. \/ pc[r] = "report" /\ pc'[r] = "reportDone"
           /\ tkq' = Append(tkq, [run |-> r, what |-> "result"])
        \/ pc[r] = "reportDone" /\ pc'[r] = "over"
           /\ tkq' = Append(tkq, [run |-> r, what |-> "done"])
    BY <1>0, <1>11 DEF Report, Post, Goto, DtcTypeOK
  <2>3. QED
    BY <1>10, <2>1, <2>2 DEF PostEffect
<1>12. QED
  BY <1>4, <1>5, <1>6, <1>7, <1>8, <1>9, <1>11 DEF Worker, Proceed

\* The adapter's answer to the one command under way is the one awaited.
LEMMA AnswerTalk ==
  ASSUME TruthInv, PlainAdapter, NEW r \in Runs, Answer,
         UNCHANGED <<screenVars, workerVars, runs, run, tkq>>
  PROVE  Talk(r)'
<1>0. DtcTypeOK /\ HolderInv /\ Talk(r)
  BY DEF TruthInv, WaitInv, DtcInv, TalkInv
<1>1. cmds # << >> /\ holders # {} /\ holders' = holders
  BY <1>0, AnswerEffect DEF Answer
<1>2. UNCHANGED <<pc, result, label, run, step, tkq>>
  BY DEF screenVars, workerVars
<1>3. ResultDue(r)' = ResultDue(r) /\ Command(r)' = Command(r)
  BY <1>2 DEF ResultDue, Due, Command, Connecting
<1>4. CASE pc[r] # "read"
  BY <1>0, <1>1, <1>2, <1>3, <1>4 DEF Talk
<1>5. CASE pc[r] = "read"
  <2>1. cmds = <<Command(r)>> /\ rx = << >>
    BY <1>0, <1>1, <1>5 DEF Talk
  <2>2. Command(r) \in {"at", "03", "04"}
    BY <1>0, CommandKinds
  <2>3. /\ cmds' = << >> /\ rx' = <<AnswerTo(Command(r))>>
        /\ codes' = (codes /\ Command(r) # "04")
    BY <2>1 DEF Answer, PlainAdapter
  <2>4. AnswerTo(Command(r))' = AnswerTo(Command(r)) /\ (Command(r) = "04" => ~codes')
    BY <1>3, <2>2, <2>3 DEF AnswerTo
  <2>5. QED
    BY <1>0, <1>2, <1>3, <1>5, <2>3, <2>4 DEF Talk
<1>6. QED
  BY <1>4, <1>5

\* Every step keeps what is said between the runs and the adapter.
LEMMA TalkStep ==
  ASSUME TruthInv, PlainAdapter, User = "waits", Next
  PROVE  TalkInv'
<1>0. DtcInv /\ DtcTypeOK /\ HolderInv /\ AloneInv /\ TalkInv
  BY DEF TruthInv, WaitInv, DtcInv
<1>s. SUFFICES ASSUME NEW r \in Runs PROVE Talk(r)'
  BY DEF TalkInv
<1>f. ~InFlight(r)' => Talk(r)'
  BY NoFlightNoTalkNext
<1>1. CASE ReadDtc \/ ClearDtc
  <2>1. PICK kind \in {"read", "clear"} : StartRun(kind)
    BY <1>1 DEF ReadDtc, ClearDtc
  <2>2. CASE r = runs'
    <3>1. \A q \in Runs : ~InFlight(q)
      BY <1>0, <2>1, <2>2, FlightOfClick
    <3>2. holders = {}
      <4>1. ASSUME NEW q \in holders PROVE FALSE
        <5>1. q \in Runs /\ ResultDue(q)
          BY <1>0, HoldersWait
        <5>2. pc[q] \in {"new", "over"} /\ ~Due(q)
          BY <1>0, <3>1, <5>1, NoFlightNoTalk
        <5>3. QED
          BY <5>1, <5>2 DEF ResultDue, Working
      <4>2. QED
        BY <4>1
    <3>3. pc'[r] = "open" /\ label' = "" /\ holders' = {}
      BY <1>0, <2>1, <2>2, <3>2, StartEffect DEF portVars
    <3>4. QED
      BY <3>3 DEF Talk
  <2>3. CASE r # runs'
    <3>1. PICK q : q = runs'
      OBVIOUS
    <3>2. ~InFlight(r)'
      BY <1>0, <2>1, <2>3, <3>1, FlightOfClick
    <3>3. QED
      BY <1>f, <3>2
  <2>4. QED
    BY <2>2, <2>3
<1>2. CASE OpenScreen \/ Back
  <2>1. ~InFlight(r)
    <3>1. CASE OpenScreen
      <4>1. screen \notin Screens
        BY <3>1, NoScreenZero DEF OpenScreen
      <4>2. QED
        BY <1>0, <4>1 DEF AloneInv
    <3>2. CASE Back
      BY <3>2 DEF Back, MayClick
    <3>3. QED
      BY <1>2, <3>1, <3>2
  <2>2. UNCHANGED <<pc, tkq>>
    BY <1>2 DEF OpenScreen, Back, workerVars
  <2>3. ~InFlight(r)'
    BY <2>1, <2>2 DEF InFlight, Queued
  <2>4. QED
    BY <1>f, <2>3
<1>3. CASE OnResult \/ OnDone
  <2>q. PICK q : q = tkq[1].run
    OBVIOUS
  <2>1. /\ q \in Runs /\ InFlight(q) /\ (InFlight(r)' => InFlight(r))
        /\ InFlight(q)' <=> tkq[1].what = "result"
    BY <1>0, <1>3, <2>q, FlightOfCall
  <2>2. CASE r # q
    <3>1. ~InFlight(r)
      BY <1>0, <2>1, <2>2 DEF AloneInv
    <3>2. QED
      BY <1>f, <2>1, <3>1
  <2>3. CASE r = q /\ OnDone
    <3>1. tkq[1].what # "result"
      BY <1>0, <2>3, CallEffect DEF OnDone
    <3>2. QED
      BY <1>f, <2>1, <2>3, <3>1
  <2>4. CASE r = q /\ OnResult
    <3>1. tkq[1] \in Callbacks /\ tkq[1].what = "result" /\ pc' = pc
      BY <1>0, <2>4, CallEffect DEF OnResult, workerVars
    <3>2. tkq[1] = [run |-> r, what |-> "result"]
      BY <2>q, <2>4, <3>1 DEF Callbacks
    <3>3. Due(r) /\ ~Due(r)'
      BY <1>0, <1>3, <3>2, DueCalled
    <3>4. pc'[r] \in {"reportDone", "over"}
      BY <1>0, <3>1, <3>3, DueOld
    <3>5. QED
      BY <3>3, <3>4, NoTalk DEF Talk, ResultDue, Working
  <2>5. QED
    BY <1>3, <2>2, <2>3, <2>4
<1>4. ASSUME NEW w \in Runs, Worker(w) PROVE Talk(r)'
  <2>1. CASE r = w
    BY <1>4, <2>1, WorkerTalk
  <2>2. CASE r # w
    <3>1. InFlight(w) /\ (InFlight(r)' => InFlight(r))
      BY <1>0, <1>4, <2>2, FlightOfWorker
    <3>2. ~InFlight(r)'
      BY <1>0, <2>2, <3>1 DEF AloneInv
    <3>3. QED
      BY <1>f, <3>2
  <2>3. QED
    BY <2>1, <2>2
<1>5. CASE Answer /\ UNCHANGED <<screenVars, workerVars, runs, run, tkq>>
  BY <1>5, AnswerTalk
<1>6. QED
  BY <1>1, <1>2, <1>3, <1>4, <1>5 DEF Next

\* Every step keeps the label true.
LEMMA ShownStep ==
  ASSUME TruthInv, Next
  PROVE  ShownIsTrue'
<1>0. DtcInv /\ DtcTypeOK /\ HolderInv /\ TalkInv /\ ShownIsTrue
  BY DEF TruthInv, WaitInv, DtcInv
<1>1. CASE ReadDtc \/ ClearDtc \/ OpenScreen \/ Back
  BY <1>1 DEF ReadDtc, ClearDtc, StartRun, OpenScreen, Back, ShownIsTrue
<1>2. CASE OnResult
  <2>1. tkq[1] = Head(tkq) /\ tkq[1] \in Callbacks
    BY <1>0, <1>2, CallEffect
  <2>2. PICK r \in Runs : tkq[1] = [run |-> r, what |-> "result"]
    BY <1>2, <2>1 DEF OnResult, Callbacks
  <2>3. Due(r) /\ pc[r] \in {"reportDone", "over"}
    BY <1>0, <1>2, <2>2, DueCalled, DueOld
  <2>4. result[r] # "error" =>
          /\ result[r] \in {"yes", "no"}
          /\ run[r].kind = "read" => (result[r] = "yes" <=> codes)
          /\ run[r].kind = "clear" /\ result[r] = "yes" => ~codes
    BY <1>0, <2>3 DEF TalkInv, Talk, ResultDue
  <2>5. run[r].kind \in {"read", "clear"}
    BY <1>0 DEF DtcTypeOK
  <2>6. /\ NewLabel(r) = "codes" => codes
        /\ NewLabel(r) \in {"none", "cleared"} => ~codes
    <3>1. CASE result[r] = "error"
      BY <3>1 DEF NewLabel
    <3>2. CASE result[r] # "error" /\ run[r].kind = "read"
      <4>1. NewLabel(r) = IF result[r] = "yes" THEN "codes" ELSE "none"
        BY <3>2 DEF NewLabel
      <4>2. QED
        BY <2>4, <3>2, <4>1
    <3>3. CASE result[r] # "error" /\ run[r].kind = "clear"
      <4>1. NewLabel(r) = IF result[r] = "yes" THEN "cleared" ELSE "notCleared"
        BY <3>3 DEF NewLabel
      <4>2. QED
        BY <2>4, <3>3, <4>1
    <3>4. QED
      BY <2>5, <3>1, <3>2, <3>3
  <2>7. label' \in {label, NewLabel(r)} /\ codes' = codes
    <3>1. Head(tkq).run = r
      BY <2>1, <2>2
    <3>2. codes' = codes
      BY <1>2 DEF OnResult, Release, ClosePort
    <3>3. label' \in {label, NewLabel(r)}
      BY <1>2, <3>1 DEF OnResult
    <3>4. QED
      BY <3>2, <3>3
  <2>8. QED
    BY <1>0, <2>6, <2>7 DEF ShownIsTrue
<1>3. CASE OnDone
  BY <1>0, <1>3 DEF OnDone, ShownIsTrue, portVars
<1>4. ASSUME NEW r \in Runs, Worker(r) PROVE ShownIsTrue'
  <2>1. label' = label /\ codes' = codes
    BY <1>0, <1>4, WorkerEffect DEF screenVars
  <2>2. QED
    BY <1>0, <2>1 DEF ShownIsTrue
<1>5. CASE Answer /\ UNCHANGED <<screenVars, workerVars, runs, run, tkq>>
  <2>1. PICK r \in holders : TRUE
    BY <1>0, <1>5, AnswerEffect
  <2>2. r \in Runs /\ ResultDue(r)
    BY HoldersWait DEF TruthInv, WaitInv
  <2>3. label = ""
    BY <1>0, <2>2 DEF TalkInv, Talk
  <2>4. QED
    BY <1>5, <2>3 DEF ShownIsTrue, screenVars
<1>6. QED
  BY <1>1, <1>2, <1>3, <1>4, <1>5 DEF Next

\* gui/dtc_interface.py:80: what the screen says of the vehicle is so, for a user
\* who waits and an adapter that answers in time and in the form expected, at
\* whatever moment the port may fail.
THEOREM LabelsAreTrue ==
  ASSUME User = "waits", PlainAdapter
  PROVE  Spec => []ShownIsTrue
<1>1. Init => TruthInv
  <2> SUFFICES ASSUME Init PROVE TruthInv
    OBVIOUS
  <2>1. DtcInv /\ DtcTypeOK
    BY DtcInit DEF DtcInv
  <2>2. Len(tkq) = 0 /\ \A r \in Runs : pc[r] = "new"
    BY DEF Init
  <2>3. \A r \in Runs : ~InFlight(r)
    BY <2>2, NoneInFlight
  <2>4. AloneInv
    BY <2>3 DEF Init, AloneInv
  <2>5. TalkInv
    BY <2>1, <2>3, NoFlightNoTalk DEF TalkInv
  <2>6. ShownIsTrue
    BY DEF Init, ShownIsTrue
  <2>7. QED
    BY <2>1, <2>4, <2>5, <2>6 DEF TruthInv, WaitInv
<1>2. TruthInv /\ [Next]_vars => TruthInv'
  <2> SUFFICES ASSUME TruthInv, [Next]_vars PROVE TruthInv'
    OBVIOUS
  <2>1. CASE Next
    <3>1. DtcInv'
      BY <2>1, DtcStep DEF TruthInv, WaitInv
    <3>2. QED
      BY <2>1, <3>1, AloneStep, TalkStep, ShownStep DEF TruthInv, WaitInv
  <2>2. CASE UNCHANGED vars
    <3>1. UNCHANGED <<cmds, rx, holders, codes, screen, screens, label, clearOn, spinnerOf,
                      spinning, kept, pc, step, result, runs, run, tkq>>
      BY <2>2 DEF vars, portVars, screenVars, workerVars
    <3>2. DtcInv'
      BY DtcStep DEF TruthInv, WaitInv
    <3>3. AloneInv'
      BY <3>1 DEF TruthInv, WaitInv, AloneInv, InFlight, Queued
    <3>4. ASSUME NEW r \in Runs PROVE Talk(r)'
      <4>1. Talk(r)
        BY DEF TruthInv, TalkInv
      <4>2. /\ ResultDue(r)' = ResultDue(r) /\ Command(r)' = Command(r)
            /\ AnswerTo(Command(r))' = AnswerTo(Command(r))
        BY <3>1 DEF ResultDue, Due, Command, Connecting, AnswerTo
      <4>3. QED
        BY <3>1, <4>1, <4>2 DEF Talk
    <3>5. ShownIsTrue'
      BY <3>1 DEF TruthInv, ShownIsTrue
    <3>6. QED
      BY <3>2, <3>3, <3>4, <3>5 DEF TruthInv, WaitInv, TalkInv
  <2>3. QED
    BY <2>1, <2>2
<1>3. TruthInv => ShownIsTrue
  BY DEF TruthInv
<1>4. QED
  BY <1>1, <1>2, <1>3, PTL DEF Spec
=============================================================================
