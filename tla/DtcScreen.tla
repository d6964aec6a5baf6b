----------------------------- MODULE DtcScreen -----------------------------
(***************************************************************************)
(* The trouble-code screen (gui/dtc_interface.py) with its workers         *)
(* (utils/ui_worker.py) over the port of ElmPort: the Tk thread with its   *)
(* queue of callbacks, and one background thread for each click on Read or *)
(* Clear.  Leaving the screen destroys its widgets but not its workers,    *)
(* whose callbacks then fail on the dead widgets.                          *)
(***************************************************************************)
EXTENDS ElmPort

CONSTANTS
  MaxRuns,     \* bound: clicks on Read or Clear in a behaviour
  MaxScreens,  \* bound: times the screen is opened
  InitLen,     \* set up commands before the OBD command (5 in the code)
  User         \* "waits", "attentive" or "hasty"

ASSUME RunsAssumption == MaxRuns \in Nat /\ Runs = 1 .. MaxRuns
ASSUME BoundsAssumption == MaxScreens \in Nat /\ InitLen \in Nat
ASSUME UserAssumption == User \in {"waits", "attentive", "hasty"}

VARIABLES
  screen,     \* the live screen, 0 while the menu is shown
  screens,    \* screens opened so far
  label,      \* what result_label says
  clearOn,    \* is clear_button enabled?
  spinnerOf,  \* per screen: the run whose spinner is in _spinner
  spinning,   \* runs whose spinner is _running, and ticks while its screen lives
  kept,       \* the run whose result failed on dead widgets last, 0 for none:
              \* sys.last_traceback keeps that callback's exception
  runs,       \* runs started so far
  run,        \* per run: its kind and the screen that started it
  pc,         \* per run: what its thread does next
  step,       \* per run: set up commands done
  result,     \* per run: what its work returned or raised
  tkq         \* callbacks queued on the Tk thread

screenVars == <<screen, screens, label, clearOn, spinnerOf, spinning, kept>>
workerVars == <<pc, step, result>>
vars == <<portVars, screenVars, workerVars, runs, run, tkq>>

Screens == 1 .. MaxScreens
Callbacks == [run : Runs, what : {"result", "done"}]

DtcTypeOK ==
  /\ PortTypeOK
  /\ screen \in 0 .. screens
  /\ screens \in 0 .. MaxScreens
  /\ label \in {"", "codes", "none", "cleared", "notCleared", "error"}
  /\ clearOn \in BOOLEAN
  /\ spinnerOf \in [Screens -> 0 .. runs]
  /\ spinning \subseteq 1 .. runs
  /\ kept \in 0 .. runs
  /\ runs \in 0 .. MaxRuns
  /\ run \in [Runs -> [kind : {"read", "clear"}, screen : 0 .. screens]]
  /\ pc \in [Runs -> {"new", "open", "flush", "write", "read", "close",
                      "report", "reportDone", "over"}]
  /\ step \in [Runs -> 0 .. InitLen]
  /\ result \in [Runs -> {"open", "error", "yes", "no"}]
  /\ tkq \in Seq(Callbacks)

Init ==
  /\ PortInit
  /\ screen = 0
  /\ screens = 0
  /\ label = ""
  /\ clearOn = FALSE
  /\ spinnerOf = [s \in Screens |-> 0]
  /\ spinning = {}
  /\ kept = 0
  /\ runs = 0
  /\ run = [r \in Runs |-> [kind |-> "read", screen |-> 0]]
  /\ pc = [r \in Runs |-> "new"]
  /\ step = [r \in Runs |-> 0]
  /\ result = [r \in Runs |-> "open"]
  /\ tkq = << >>

\* A run is in flight until its on_done has been called.
Queued(r) == \E k \in 1 .. Len(tkq) : tkq[k].run = r
InFlight(r) == pc[r] \notin {"new", "over"} \/ Queued(r)

\* What the user waits for: nothing, a screen that does not spin, or the end
\* of everything begun.
MayClick ==
  CASE User = "hasty" -> TRUE
    [] User = "attentive" -> \A r \in spinning : run[r].screen # screen
    [] User = "waits" -> \A r \in Runs : ~InFlight(r)

-----------------------------------------------------------------------------
(* The Tk thread: clicks.                                                  *)

\* DTCInterface.build_screen.
OpenScreen ==
  /\ screen = 0
  /\ screens < MaxScreens
  /\ screens' = screens + 1
  /\ screen' = screens'
  /\ label' = ""
  /\ clearOn' = FALSE
  /\ UNCHANGED <<portVars, spinnerOf, spinning, kept, workerVars, runs, run, tkq>>

\* show_diagnostic_menu destroys the screen's widgets.
Back ==
  /\ screen # 0
  /\ User = "waits" => MayClick
  /\ screen' = 0
  /\ label' = ""
  /\ clearOn' = FALSE
  /\ UNCHANGED <<portVars, screens, spinnerOf, spinning, kept, workerVars, runs, run, tkq>>

\* Mutation of StartRun: the label keeps what it said.
StartRunKeepsLabel(kind) ==
  /\ screen # 0
  /\ MayClick
  /\ runs < MaxRuns
  /\ runs' = runs + 1
  /\ run' = [run EXCEPT ![runs'] = [kind |-> kind, screen |-> screen]]
  /\ pc' = [pc EXCEPT ![runs'] = "open"]
  /\ spinnerOf' = [spinnerOf EXCEPT ![screen] = runs']
  /\ spinning' = spinning \cup {runs'}
  /\ UNCHANGED <<portVars, screen, screens, kept, label, step, result, tkq>>

\* A new TkSpinner takes the place of the old one and run_async starts a thread.
StartRun(kind) ==
  /\ screen # 0
  /\ MayClick
  /\ runs < MaxRuns
  /\ runs' = runs + 1
  /\ run' = [run EXCEPT ![runs'] = [kind |-> kind, screen |-> screen]]
  /\ pc' = [pc EXCEPT ![runs'] = "open"]
  /\ label' = ""
  /\ spinnerOf' = [spinnerOf EXCEPT ![screen] = runs']
  /\ spinning' = spinning \cup {runs'}
  /\ UNCHANGED <<portVars, screen, screens, kept, step, result, tkq>>

ReadDtc == StartRun("read") /\ clearOn' = FALSE
ClearDtc == clearOn /\ StartRun("clear") /\ UNCHANGED clearOn

-----------------------------------------------------------------------------
(* The worker threads.                                                     *)

Goto(r, where) == pc' = [pc EXCEPT ![r] = where]
Result(r, value) == result' = [result EXCEPT ![r] = value]
Rest == <<screenVars, runs, run, tkq>>

\* Mutation of Connecting: one set up command too many.
ConnectingOnceMore(r) == step[r] <= InitLen

Connecting(r) == step[r] < InitLen

Open(r) ==
  /\ pc[r] = "open"
  /\ \/ OpenPort(r) /\ Goto(r, "flush") /\ UNCHANGED result
     \/ Faulty /\ Result(r, "error") /\ Goto(r, "report") /\ UNCHANGED portVars
  /\ UNCHANGED <<step, Rest>>

\* After two seconds connect() empties the input queue.
Flush(r) ==
  /\ pc[r] = "flush"
  /\ FlushInput
  /\ Goto(r, "write")
  /\ UNCHANGED <<step, result, Rest>>

Write(r) ==
  /\ pc[r] = "write"
  /\ WriteCommand(IF Connecting(r) THEN "at" ELSE IF run[r].kind = "read" THEN "03" ELSE "04")
  /\ Goto(r, "read")
  /\ UNCHANGED <<step, result, Rest>>

\* send_command returns text t: connect() ignores it, the OBD commands judge it.
Use(r, t) ==
  /\ IF Connecting(r)
     THEN /\ step' = [step EXCEPT ![r] = @ + 1]
          /\ Goto(r, "write")
          /\ UNCHANGED result
     ELSE /\ LET yes == IF run[r].kind = "read" THEN FindsCodes(t) ELSE LooksCleared(t)
             IN  Result(r, IF yes THEN "yes" ELSE "no")
          /\ Goto(r, "close")
          /\ UNCHANGED step
  /\ UNCHANGED Rest

\* Two threads in read_until at once share out the bytes of a reply.
Contended(r) == \E q \in Runs \ {r} : pc[q] = "read"

Read(r) ==
  /\ pc[r] = "read"
  /\ \/ \E t \in Texts : ReadText(t) /\ (Use(r, t) \/ (Contended(r) /\ Use(r, "error")))
     \/ ReadNothing /\ Use(r, "error")

\* pyserial raises.  connect() turns that into False and leaves the port open;
\* an OBD command is followed by disconnect().
PortRaises(r) ==
  /\ pc[r] \in {"flush", "write", "read"}
  /\ Faulty \/ (pc[r] = "read" /\ Contended(r))
  /\ Result(r, "error")
  /\ Goto(r, IF pc[r] = "flush" \/ Connecting(r) THEN "report" ELSE "close")
  /\ UNCHANGED <<portVars, step, Rest>>

Close(r) ==
  /\ pc[r] = "close"
  /\ ClosePort(r)
  /\ Goto(r, "report")
  /\ UNCHANGED <<step, result, Rest>>

Post(r, what) == tkq' = Append(tkq, [run |-> r, what |-> what])

\* Mutation of Report: on_done is posted before the result.
ReportDoneFirst(r) ==
  /\ \/ pc[r] = "report" /\ Post(r, "done") /\ Goto(r, "reportDone")
     \/ pc[r] = "reportDone" /\ Post(r, "result") /\ Goto(r, "over")
  /\ UNCHANGED <<portVars, screenVars, step, result, runs, run>>

\* root.after with the result or the exception, then (finally) with on_done.
Report(r) ==
  /\ \/ pc[r] = "report" /\ Post(r, "result") /\ Goto(r, "reportDone")
     \/ pc[r] = "reportDone" /\ Post(r, "done") /\ Goto(r, "over")
  /\ UNCHANGED <<portVars, screenVars, step, result, runs, run>>

Proceed(r) == Open(r) \/ Flush(r) \/ Write(r) \/ Read(r) \/ Close(r) \/ Report(r)

Worker(r) == Proceed(r) \/ PortRaises(r)

-----------------------------------------------------------------------------
(* The Tk thread: callbacks.                                               *)

Live(r) == run[r].screen = screen

NewLabel(r) ==
  IF result[r] = "error" THEN "error"
  ELSE IF run[r].kind = "read" THEN IF result[r] = "yes" THEN "codes" ELSE "none"
  ELSE IF result[r] = "yes" THEN "cleared" ELSE "notCleared"

\* Mutation of Release: the exception is kept for later.
ReleaseKeepsException(r) == UNCHANGED <<portVars, kept>>

\* The exception of a callback shown goes with it, and with it a handler that a
\* failed connect() left open.  The result of a screen that is gone makes its
\* callback raise: that failure, with all its frames hold, takes the place of the
\* last one in sys.last_traceback.
Release(r) ==
  /\ ClosePort(IF Live(r) THEN r ELSE kept)
  /\ kept' = IF Live(r) THEN kept ELSE r

\* Mutation of OnResult: any result but an empty one enables Clear.
OnResultKeepsClear ==
  /\ tkq # << >>
  /\ Head(tkq).what = "result"
  /\ tkq' = Tail(tkq)
  /\ LET r == Head(tkq).run
     IN  /\ IF Live(r)
            THEN label' = NewLabel(r) /\ clearOn' = (clearOn \/ label' # "none")
            ELSE UNCHANGED <<label, clearOn>>
         /\ Release(r)
  /\ UNCHANGED <<screen, screens, spinnerOf, spinning, workerVars, runs, run>>

\* on_success and on_error: shown, or failing on widgets that are gone.
OnResult ==
  /\ tkq # << >>
  /\ Head(tkq).what = "result"
  /\ tkq' = Tail(tkq)
  /\ LET r == Head(tkq).run
     IN  /\ IF Live(r)
            THEN /\ label' = NewLabel(r)
                 /\ clearOn' = CASE label' = "codes" -> TRUE
                                 [] label' \in {"none", "cleared"} -> FALSE
                                 [] OTHER -> clearOn
            ELSE UNCHANGED <<label, clearOn>>
         /\ Release(r)
  /\ UNCHANGED <<screen, screens, spinnerOf, spinning, workerVars, runs, run>>

\* on_done: _stop_spinner stops whichever spinner the screen has by now.
OnDone ==
  /\ tkq # << >>
  /\ Head(tkq).what = "done"
  /\ tkq' = Tail(tkq)
  /\ spinning' = spinning \ {spinnerOf[run[Head(tkq).run].screen]}
  /\ UNCHANGED <<portVars, screen, screens, label, clearOn, spinnerOf, kept,
                 workerVars, runs, run>>

-----------------------------------------------------------------------------
Next ==
  \/ OpenScreen \/ Back \/ ReadDtc \/ ClearDtc
  \/ OnResult \/ OnDone
  \/ \E r \in Runs : Worker(r)
  \/ Answer /\ UNCHANGED <<screenVars, workerVars, runs, run, tkq>>

\* The main loop runs what is queued and every thread goes on: a read ends with
\* a prompt or its timeout, an open succeeds or raises.  Nothing ends for the
\* sake of a fault: PortRaises is never owed.
Fairness == WF_vars(OnResult \/ OnDone) /\ \A r \in Runs : WF_vars(Proceed(r))

Spec == Init /\ [][Next]_vars /\ Fairness

-----------------------------------------------------------------------------
(* Properties.                                                             *)

\* What the screen says of the vehicle is so, as long as the user waits for one
\* operation to end before beginning the next: each result is shown together
\* with the codes it is about, and the label is emptied before they change.
ShownIsTrue ==
  /\ label = "codes" => codes
  /\ label \in {"none", "cleared"} => ~codes

\* The Clear button is enabled only on a screen that has shown codes, of a read
\* it started itself, however many clicks and screens overlap.
ShownCodes == \E r \in 1 .. runs :
  /\ run[r] = [kind |-> "read", screen |-> screen]
  /\ result[r] = "yes"
  /\ ~ \E k \in 1 .. Len(tkq) : tkq[k] = [run |-> r, what |-> "result"]
ClearAfterCodes == clearOn => ShownCodes

\* utils/ui_worker.py:31, "on_done always fires last": when a run's on_done is
\* queued or called, its result has been queued before it, whatever other runs
\* put in between.
DoneLast == \A j, k \in 1 .. Len(tkq) :
  tkq[j].run = tkq[k].run /\ j < k => tkq[j].what = "result" /\ tkq[k].what = "done"

\* Once everything a run queued has been called its port is closed, but for one
\* handler at most: the one whose set up failed, and whose error came to a screen
\* the user had left, no other callback having failed since.
PortReleased == \A r \in holders :
  InFlight(r) \/ (r = kept /\ result[r] = "error" /\ ~Live(r))

\* Every click leads to a result shown or dropped and to on_done.
EveryRunEnds == \A r \in Runs : InFlight(r) ~> ~InFlight(r)

\* The live screen spins exactly while one of its runs is in flight (docs:
\* utils/ui_worker.py:31, tests/test_ui_worker.py:111 "guards against zombie
\* loops").
SpinnerTracksRuns ==
  \A r \in 1 .. runs : screen # 0 /\ Live(r) => (r \in spinning <=> InFlight(r))

\* gui/dtc_interface.py:80, "No trouble codes found.": there are none.
NoneMeansNone == label = "none" => ~codes
=============================================================================
