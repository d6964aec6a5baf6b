----------------------------- MODULE MainScreen -----------------------------
(***************************************************************************)
(* LibreDiagnosticGUI (gui/main_interface.py): the main screen, from which *)
(* the user scans for an adapter (adapter/connection.py), binds it         *)
(* (adapter/initialization.py) and gets to the menu with live data, and    *)
(* the screens reached from there (gui/brand_interface.py,                 *)
(* gui/simulator_interface*.py).  The Tk thread runs clicks and callbacks, *)
(* also while a popup or a message box waits for the user; each scan, bind *)
(* and fetch is a thread of utils/ui_worker.py.                            *)
(*                                                                         *)
(* A screen that is built destroys the widgets of the one before: gen      *)
(* numbers the screens, and a widget lives while its number is gen.        *)
(***************************************************************************)
EXTENDS LiveData, SequencesExt

CONSTANTS
  Makes,       \* simulated brands
  MaxScreens   \* bound: screens built

ASSUME RunsAssumption == IsFiniteSet(Runs) /\ Runs = 1 .. Cardinality(Runs)
ASSUME ScreensAssumption == MaxScreens \in Nat

VARIABLES
  screen,      \* the screen shown
  gen,         \* its number
  buttons,     \* buttons of the main screen that are packed
  scanOn,      \* is scan_button enabled?
  labelGen,    \* the screen that loading_label belongs to
  spinner,     \* the run whose TkSpinner is in _spinner
  spinning,    \* runs whose spinner is _running
  modals,      \* popups and message boxes, in the order they were opened
  mac,         \* connection.elm_mac: has a device been stored?
  runs,        \* number of runs started
  run,         \* per run: its kind, the screen it belongs to, its result
  overlapped,  \* history: has a bind overlapped another, or begun away from the main screen?
  dismissed,   \* history: was the popup of this screen closed instead of OK pressed?
  shown,       \* the run whose data the live screen shows, 0 for none
  make,        \* the simulated brand whose menu is shown
  picker,      \* the number of the screen that the simulated brands' menus belong to
  memory,      \* _sim_memory: what each simulated brand has stored
  clearable,   \* is the menu's Clear button shown?
  crossed,     \* history: was a clear begun on another menu answered over this one?
  tkq,         \* callbacks queued on the Tk thread
  patient      \* is the user one who starts nothing while something goes on?

screenVars == <<screen, gen, buttons, scanOn, labelGen, shown, dismissed, picker>>
runVars == <<runs, run, spinner, spinning, overlapped>>
simVars == <<make, memory, clearable, crossed>>
vars == <<liveVars, screenVars, runVars, simVars, modals, mac, tkq, patient>>

Init ==
  /\ LiveInit
  /\ screen = "main" /\ gen = 1 /\ buttons = {"sim", "scan"} /\ scanOn = TRUE /\ labelGen = 1
  /\ spinner = 0 /\ spinning = {}
  /\ modals = << >> /\ mac = FALSE
  /\ runs = 0 /\ run = [r \in Runs |-> [kind |-> "scan", gen |-> 0, result |-> "open"]]
  /\ overlapped = FALSE /\ shown = 0 /\ dismissed = FALSE
  /\ make = None /\ memory = [b \in Makes |-> "unasked"] /\ clearable = FALSE
  /\ picker = 0 /\ crossed = FALSE
  /\ tkq = << >> /\ patient \in BOOLEAN

Queued(r) == \E k \in DOMAIN tkq : tkq[k].run = r
InFlight(r) == pc[r] \notin {"new", "over"} \/ Queued(r)
Ticks(r) == r \in spinning /\ run[r].gen = gen

-----------------------------------------------------------------------------
(* Screens.                                                                *)

\* All widgets are destroyed and those of the next screen made.
Build(to) ==
  /\ screen' = to
  /\ gen' = gen + 1
  /\ buttons' = IF to = "main" THEN {"sim", "scan"} ELSE {}
  /\ scanOn' = (to = "main")
  /\ labelGen' = IF to \in {"main", "live"} THEN gen + 1 ELSE labelGen
  /\ shown' = 0 /\ dismissed' = FALSE
  /\ picker' = IF to = "makes" THEN gen + 1 ELSE picker

-----------------------------------------------------------------------------
(* Windows.  A popup takes the grab, which keeps clicks from the screen and  *)
(* every other window, from the window that had it, and gives it to nobody   *)
(* when it goes; a message box gives it back.  Tk names all message boxes    *)
(* alike: one destroys the one before.  The handler that opened a box or     *)
(* asked for the password goes on once it is answered and the handlers that  *)
(* started under it have ended.                                              *)

Boxes == {"box", "noDevice", "brandCodes", "cleared"}
Window(what, brand, menu) ==
  [what |-> what, answer |-> "open", grab |-> "has", brand |-> brand, menu |-> menu]
Plain(what) == Window(what, None, 0)
IsBox(w) == w.what \in Boxes
Waiting(w) == IsBox(w) \/ w.what = "password"

Opened(m, w) ==
  Append([k \in DOMAIN m |->
            [m[k] EXCEPT
               !.answer = IF IsBox(w) /\ IsBox(m[k]) THEN "yes" ELSE @,
               !.grab = IF @ = "has"
                        THEN IF IsBox(w) /\ \A j \in DOMAIN m : ~IsBox(m[j]) THEN "saved" ELSE "no"
                        ELSE @]], w)

\* What RestoreFocusGrab does.
GivenBack(m) ==
  IF \A k \in DOMAIN m : m[k].grab # "saved" THEN m
  ELSE [k \in DOMAIN m |-> [m[k] EXCEPT !.grab = IF @ = "saved" THEN "has" ELSE "no"]]

IsOpen(k, what) == k \in DOMAIN modals /\ modals[k].what = what /\ modals[k].answer = "open"
Waits(what) == \E k \in DOMAIN modals : modals[k].what = what

MayClick == \A k \in DOMAIN modals : modals[k].grab # "has"
MayAnswer(k, what) == IsOpen(k, what) /\ (MayClick \/ modals[k].grab = "has")

\* The handler that goes on: of those that wait, the one that started last.
Returns(k) ==
  /\ k \in DOMAIN modals /\ Waiting(modals[k]) /\ modals[k].answer # "open"
  /\ \A j \in DOMAIN modals : j > k => ~Waiting(modals[j])

-----------------------------------------------------------------------------
(* Clicks on the screen.                                                     *)

\* The buttons that lead from one screen to another; live data has its own, and
\* Back of a simulated brand, which destroys nothing, too.
MenuLeads == {"diag"} \X {"main", "brand", "dtc"}
LiveLeads == {<<"live", "diag">>}
DtcLeads == {<<"dtc", "diag">>}
BrandLeads == {<<"brand", "diag">>, <<"brand", "actions">>, <<"actions", "brand">>}
SimLeads == ({"sim"} \X {"main", "simdata", "makes"}) \cup ({"simdata"} \X {"sim", "simdata"})
MakeLeads == {"makes", "stacked"} \X {"main"}

Go(from, to) ==
  /\ MayClick /\ gen < MaxScreens
  /\ screen = from
  /\ \/ <<from, to>> \in MenuLeads \cup LiveLeads \cup DtcLeads \cup BrandLeads \cup SimLeads \cup MakeLeads
     \/ from = "main" /\ to = "sim" /\ "sim" \in buttons
     \/ from = "main" /\ to = "main" /\ "back" \in buttons
  /\ Build(to)
  /\ UNCHANGED <<liveVars, runVars, simVars, modals, mac, tkq>>

\* read_brand_dtcs: the words of a reply from the third on, in pairs.  The screen
\* passes no adapter, so that there is no reply and no code is ever found.
BrandDtcs(known, reply) ==
  IF ~known THEN << >>
  ELSE [i \in 1 .. (Len(reply) - 1) \div 2 |->
          SubSeq(reply, 2 * i + 1, IF 2 * i + 2 > Len(reply) THEN Len(reply) ELSE 2 * i + 2)]

ReadBrand(known) ==
  /\ MayClick /\ screen = "actions"
  /\ modals' = Opened(modals, Plain(IF BrandDtcs(known, << >>) = << >> THEN "box" ELSE "brandCodes"))
  /\ UNCHANGED <<liveVars, screenVars, runVars, simVars, mac, tkq>>

-----------------------------------------------------------------------------
(* Runs.                                                                   *)

\* The label is packed, a new TkSpinner starts, and run_async a thread.
StartRun(kind, first, label) ==
  /\ runs < Cardinality(Runs)
  /\ runs' = runs + 1
  /\ run' = [run EXCEPT ![runs'] = [kind |-> kind, gen |-> label, result |-> "open"]]
  /\ pc' = [pc EXCEPT ![runs'] = first]
  /\ spinner' = runs'
  /\ spinning' = spinning \cup {runs'}
  /\ overlapped' = (overlapped \/ (kind = "bind" /\ (screen # "main" \/ \E r \in Runs : run[r].kind = "bind" /\ InFlight(r))))
  /\ UNCHANGED <<bound, step, supports, data, inq, slow, sharing>>

\* A patient user starts nothing while a spinner ticks or the password is asked for.
MayStart == MayClick /\ (patient => ~Waits("password") /\ \A r \in Runs : ~Ticks(r))

StartScan ==
  /\ MayStart /\ screen = "main" /\ "scan" \in buttons /\ scanOn
  /\ StartRun("scan", "scan", labelGen)
  /\ scanOn' = FALSE
  /\ UNCHANGED <<screen, gen, buttons, labelGen, shown, dismissed, picker, simVars, modals, mac, tkq>>

\* start_bind_thread asks for the password first.
AskPassword ==
  /\ MayStart /\ screen = "main" /\ "connect" \in buttons
  /\ modals' = Opened(modals, Plain(IF mac THEN "password" ELSE "box"))
  /\ UNCHANGED <<liveVars, screenVars, runVars, simVars, mac, tkq>>

EnterLive ==
  /\ MayStart /\ screen = "diag" /\ gen < MaxScreens
  /\ Build("live")
  /\ StartRun("live", "open", gen + 1)
  /\ UNCHANGED <<simVars, modals, mac, tkq>>

Rerun ==
  /\ MayStart /\ screen = "live"
  /\ StartRun("live", "open", gen)
  /\ UNCHANGED <<screenVars, simVars, modals, mac, tkq>>

-----------------------------------------------------------------------------
(* Windows answered.  Any can be closed by its title bar, whoever has the  *)
(* grab.  OK of the found popup fails on the buttons of a screen that is    *)
(* gone, and the password is asked for in vain when no loading_label is left. *)

FoundOk(k) ==
  /\ MayAnswer(k, "found") /\ modals' = RemoveAt(modals, k)
  /\ buttons' = IF screen = "main" THEN (buttons \ {"sim", "scan"}) \cup {"connect", "back"} ELSE buttons
  /\ UNCHANGED <<liveVars, screen, gen, scanOn, labelGen, shown, dismissed, picker, runVars, simVars, mac, tkq>>

FoundClosed(k) ==
  /\ IsOpen(k, "found") /\ modals' = RemoveAt(modals, k)
  /\ dismissed' = TRUE
  /\ UNCHANGED <<liveVars, screen, gen, buttons, scanOn, labelGen, shown, picker, runVars, simVars, mac, tkq>>

PasswordAnswered(k, answer) ==
  /\ IF answer = "yes" THEN MayAnswer(k, "password") ELSE IsOpen(k, "password")
  /\ modals' = [modals EXCEPT ![k].answer = answer, ![k].grab = "no"]
  /\ UNCHANGED <<liveVars, screenVars, runVars, simVars, mac, tkq>>

BoxOk(k) ==
  /\ \E what \in Boxes : IsOpen(k, what)
  /\ modals' = [modals EXCEPT ![k].answer = "yes"]
  /\ UNCHANGED <<liveVars, screenVars, runVars, simVars, mac, tkq>>

\* start_bind_thread goes on.
PasswordReturns(k) ==
  /\ Returns(k) /\ modals[k].what = "password"
  /\ modals' = RemoveAt(modals, k)
  /\ IF modals[k].answer = "yes" /\ labelGen = gen THEN StartRun("bind", "release", gen)
     ELSE UNCHANGED <<liveVars, runVars>>
  /\ UNCHANGED <<screenVars, simVars, mac, tkq>>

\* After the box that says that no device was found the button comes back.
NoDeviceReturns(k) ==
  /\ Returns(k) /\ modals[k].what = "noDevice"
  /\ modals' = GivenBack(RemoveAt(modals, k))
  /\ scanOn' = (screen = "main")
  /\ UNCHANGED <<liveVars, screen, gen, buttons, labelGen, shown, dismissed, picker, runVars, simVars, mac, tkq>>

BoxReturns(k) ==
  /\ Returns(k) /\ modals[k].what \in {"box", "brandCodes"}
  /\ modals' = GivenBack(RemoveAt(modals, k))
  /\ UNCHANGED <<liveVars, screenVars, runVars, simVars, mac, tkq>>

-----------------------------------------------------------------------------
(* The simulated brands (gui/simulator_interface_brand_specific.py).  A    *)
(* popup or a box redraws the Clear button of the newest menu of its own   *)
(* picker, whatever brand that is of, and fails when it is gone.           *)

InMake == screen \in {"make", "stacked"}
HasActiveCodes(b) == memory'[b] = "codes"

ShowBrandMenu(b) ==
  /\ MayClick /\ screen \in {"makes", "stacked"} /\ gen < MaxScreens
  /\ Build("make")
  /\ make' = b /\ UNCHANGED memory /\ clearable' = HasActiveCodes(b) /\ crossed' = FALSE
  /\ UNCHANGED <<liveVars, runVars, modals, mac, tkq>>

\* Back builds the list of brands below the menu, which stays.
BackToMakes ==
  /\ MayClick /\ InMake
  /\ screen' = "stacked"
  /\ UNCHANGED <<gen, buttons, scanOn, labelGen, shown, dismissed, picker, liveVars, runVars, simVars, modals, mac, tkq>>

\* The first read of a brand draws its codes, maybe none.
SimulateRead(b) ==
  memory' \in IF memory[b] # "unasked" THEN {memory}
              ELSE {[memory EXCEPT ![b] = c] : c \in {"codes", "none"}}

\* The popup has its Clear Codes button if there were codes when it opened.
ReadDtcPopup ==
  /\ MayClick /\ InMake
  /\ SimulateRead(make)
  /\ modals' = Opened(modals, Window(IF HasActiveCodes(make) THEN "codes" ELSE "noCodes", make, gen))
  /\ clearable' = HasActiveCodes(make) /\ crossed' = FALSE
  /\ UNCHANGED <<make, liveVars, screenVars, runVars, mac, tkq>>

ClearBrandDtc(b) == memory' = [memory EXCEPT ![b] = "none"]

ClearAndClose(k) ==
  /\ MayAnswer(k, "codes")
  /\ ClearBrandDtc(modals[k].brand)
  /\ modals' = Opened(RemoveAt(modals, k), Window("cleared", modals[k].brand, modals[k].menu))
  /\ UNCHANGED <<make, clearable, crossed, liveVars, screenVars, runVars, mac, tkq>>

\* A button that another brand's popup has drawn is none: that brand has no codes.
ClearCodes ==
  /\ MayClick /\ InMake /\ clearable
  /\ ClearBrandDtc(make)
  /\ modals' = Opened(modals, Window("cleared", make, gen))
  /\ UNCHANGED <<make, clearable, crossed, liveVars, screenVars, runVars, mac, tkq>>

CloseCodes(k) ==
  /\ \E what \in {"codes", "noCodes"} : IsOpen(k, what)
  /\ modals' = RemoveAt(modals, k)
  /\ UNCHANGED <<liveVars, screenVars, runVars, simVars, mac, tkq>>

\* Mutation of ClearedReturns: the Clear button is not drawn anew.
ClearedReturnsOnly(k) ==
  /\ Returns(k) /\ modals[k].what = "cleared"
  /\ modals' = GivenBack(RemoveAt(modals, k))
  /\ crossed' = (crossed \/ modals[k].menu # gen)
  /\ UNCHANGED <<make, memory, clearable, liveVars, screenVars, runVars, mac, tkq>>

ClearedReturns(k) ==
  /\ Returns(k) /\ modals[k].what = "cleared"
  /\ modals' = GivenBack(RemoveAt(modals, k))
  /\ UNCHANGED <<make, memory>>
  /\ clearable' = IF InMake /\ modals[k].menu > picker THEN HasActiveCodes(modals[k].brand) ELSE clearable
  /\ crossed' = (crossed \/ modals[k].menu # gen)
  /\ UNCHANGED <<liveVars, screenVars, runVars, mac, tkq>>

-----------------------------------------------------------------------------
(* Threads.                                                                *)

Ends(r, result) == run' = [run EXCEPT ![r].result = result]

\* A device is found, paired, trusted and connected; its address is stored.
ScanFinds(r) ==
  /\ run[r].kind = "scan" /\ pc[r] = "scan"
  /\ mac' = TRUE
  /\ pc' = [pc EXCEPT ![r] = "report"]
  /\ Ends(r, "yes")
  /\ UNCHANGED <<bound, step, supports, data, inq, slow, sharing, screenVars, simVars, runs, spinner, spinning,
                 overlapped, modals, tkq>>

\* bluetoothctl ends, or something raises, before the address is stored or after.
ScanFails(r) ==
  /\ run[r].kind = "scan" /\ pc[r] = "scan"
  /\ mac' \in {mac, TRUE}
  /\ pc' = [pc EXCEPT ![r] = "report"]
  /\ Ends(r, "no")
  /\ UNCHANGED <<bound, step, supports, data, inq, slow, sharing, screenVars, simVars, runs, spinner, spinning,
                 overlapped, modals, tkq>>

\* rfcomm release all, of which the result is not looked at, and rfcomm bind.
BindReleases(r) ==
  /\ pc[r] = "release"
  /\ bound' \in {bound, FALSE}
  /\ pc' = [pc EXCEPT ![r] = "bind"]
  /\ UNCHANGED <<step, supports, data, inq, slow, sharing, screenVars, runVars, simVars, mac, modals, tkq>>

BindEnds(r, ok) ==
  /\ pc[r] = "bind"
  /\ bound' = (ok \/ bound)
  /\ pc' = [pc EXCEPT ![r] = "report"]
  /\ Ends(r, IF ok THEN "yes" ELSE "no")
  /\ UNCHANGED <<step, supports, data, inq, slow, sharing, screenVars, simVars, runs, spinner, spinning, overlapped,
                 mac, modals, tkq>>

\* run_async: the result goes to the Tk thread, and then on_done.
Report(r) ==
  /\ pc[r] \in {"report", "reportDone"}
  /\ pc' = [pc EXCEPT ![r] = IF @ = "report" THEN "reportDone" ELSE "over"]
  /\ tkq' = Append(tkq, [run |-> r, what |-> pc[r]])
  /\ UNCHANGED <<bound, step, supports, data, inq, slow, sharing, screenVars, runVars, simVars, mac, modals>>

Thread(r) ==
  \/ ScanFinds(r) \/ ScanFails(r) \/ BindReleases(r) \/ Report(r)
  \/ \E ok \in BOOLEAN : BindEnds(r, ok)
  \/ Fetch(r) /\ UNCHANGED <<screenVars, runVars, simVars, mac, modals, tkq>>

-----------------------------------------------------------------------------
(* Callbacks.                                                              *)

Deliver(r, what) == tkq # << >> /\ Head(tkq) = [run |-> r, what |-> what] /\ tkq' = Tail(tkq)

\* _on_scan_result.
ScanResult(r) ==
  /\ Deliver(r, "report") /\ run[r].kind = "scan"
  /\ modals' = Opened(modals, Plain(IF run[r].result = "yes" THEN "found" ELSE "noDevice"))
  /\ UNCHANGED <<liveVars, screenVars, runVars, simVars, mac>>

\* _on_bind_result: the menu takes the place of whatever screen is shown.
BindResult(r) ==
  /\ Deliver(r, "report") /\ run[r].kind = "bind"
  /\ IF run[r].result = "yes" THEN Build("diag") /\ UNCHANGED modals
     ELSE modals' = Opened(modals, Plain("box")) /\ UNCHANGED screenVars
  /\ UNCHANGED <<liveVars, runVars, simVars, mac>>

\* _render_live_data raises when the run's screen is gone.
LiveResult(r) ==
  /\ Deliver(r, "report") /\ run[r].kind = "live"
  /\ shown' = IF run[r].gen = gen THEN r ELSE shown
  /\ UNCHANGED <<liveVars, screen, gen, buttons, scanOn, labelGen, dismissed, picker, runVars, simVars, mac, modals>>

\* Mutation of StopSpinner: the spinner is stopped with the result only.
StopSpinnerNever(r) ==
  /\ Deliver(r, "reportDone")
  /\ UNCHANGED <<liveVars, screenVars, runVars, simVars, mac, modals>>

\* _stop_spinner stops the newest spinner.
StopSpinner(r) ==
  /\ Deliver(r, "reportDone")
  /\ spinning' = spinning \ {spinner}
  /\ UNCHANGED <<liveVars, screenVars, simVars, runs, run, spinner, overlapped, mac, modals>>

-----------------------------------------------------------------------------
Screens == {"main", "diag", "live", "dtc", "brand", "actions", "sim", "simdata", "makes", "make", "stacked"}

Answer(k) ==
  \/ FoundOk(k) \/ FoundClosed(k) \/ BoxOk(k) \/ ClearAndClose(k) \/ CloseCodes(k)
  \/ \E answer \in {"yes", "no"} : PasswordAnswered(k, answer)

Click ==
  \/ \E to \in Screens : Go(screen, to)
  \/ StartScan \/ AskPassword \/ EnterLive \/ Rerun
  \/ \E known \in BOOLEAN : ReadBrand(known)
  \/ \E b \in Makes : ShowBrandMenu(b)
  \/ BackToMakes \/ ReadDtcPopup \/ ClearCodes
  \/ \E k \in DOMAIN modals : Answer(k)

Return(k) == PasswordReturns(k) \/ NoDeviceReturns(k) \/ BoxReturns(k) \/ ClearedReturns(k)

Callback(r) == ScanResult(r) \/ BindResult(r) \/ LiveResult(r) \/ StopSpinner(r)

\* The Tk thread does one thing at a time: a handler that can go on does so first.
TkThread ==
  IF \E k \in DOMAIN modals : Returns(k) THEN \E k \in DOMAIN modals : Return(k)
  ELSE Click \/ \E r \in Runs : Callback(r)

Next ==
  /\ \/ TkThread
     \/ \E r \in Runs : Thread(r)
     \/ Arrive /\ UNCHANGED <<screenVars, runVars, simVars, mac, modals, tkq>>
  /\ patient' = patient

Spec == Init /\ [][Next]_vars

-----------------------------------------------------------------------------
(* Properties.                                                             *)

\* The live screen shows under each name the value of that PID, or nothing,
\* whatever replies another fetch on the same device or a read that gave up too
\* soon leaves in the queue, unless two reads tore a reply between them.  A
\* temperature, whose parser takes any PID, only when its fetch shared the device
\* with no other and met no late reply; and such a fetch never gets a torn one.
LiveValuesAreTheirs ==
  /\ torn \subseteq disturbed
  /\ shown # 0 =>
       \A l \in DOMAIN data[shown] :
         (l \notin Temperatures /\ shown \notin torn) \/ shown \notin disturbed => data[shown][l] \in {l, None}

\* What a screen offers is there: Connect is offered when an adapter has been
\* found, and the diagnostic menu and its screens when one is bound, whatever the
\* user left or opened meanwhile, unless a bind overlaps another or begins away from
\* the main screen: it releases the device, and may fail.  A simulated brand offers
\* to clear its codes exactly when it has some, unless a clear begun on one menu was
\* answered over another.
ScreensKeepTheirWord ==
  /\ "connect" \in buttons => mac
  /\ screen \in {"diag", "live", "brand", "actions", "dtc"} /\ ~overlapped => bound
  /\ InMake /\ ~crossed /\ ~Waits("cleared") => (clearable <=> memory[make] = "codes")

\* When nothing is in flight and no window waits, nothing looks busy to a patient
\* user: no spinner ticks on the screen, and the scan button, if shown, can be
\* pressed, unless the popup about the device that was found was closed.
IdleLooksIdle ==
  patient /\ modals = << >> /\ (\A r \in Runs : ~InFlight(r)) =>
    /\ \A r \in Runs : ~Ticks(r)
    /\ "scan" \in buttons => scanOn \/ dismissed
=============================================================================
