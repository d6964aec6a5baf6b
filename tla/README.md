# Verification of Libre Automotive Diagnostic

Libre Automotive Diagnostic is a Python scan tool: a Tk program that talks to a
car through an ELM327 adapter on a serial line, and a library that speaks UDS,
KWP2000 and OBD-II over SocketCAN or an ELM327.  This directory holds TLA+
models of the parts of it that have state, TLC configurations that check them on
small instances, and proofs that TLAPS checks for every value of the constants.

* To model-check: `tlc -config UdsTimely.cfg MCUdsClient` and so on, with the
  pairs of the table under *Runs*.
* To check the proofs: `tlapm UdsClientProofs.tla` and so on with the seven
  modules `*Proofs`, and `tlapm DataLemmas.tla` for the lemmas about sequences
  that two of them share; `SessionProofs`, `ReadProofs` and `MainScreenProofs`
  take some minutes each.

`PROJECT.json` lists the components, the runs, the lines each definition stands
for, the hazards and the theorems.

## 1. The system

The program has two diagnostic stacks that share little.

The **library stack** is layered:

    DiagnosticSession                    obd/session.py
      J1979 | UDSClient | KWP2000Client  protocol/obd2.py, uds.py, kwp2000.py
        unlock()                         protocol/security/unlock.py + algorithms/
      Transport: SocketCan | Elm327 | Fake     transport/*.py
        kernel ISO-TP socket | serial port     | dictionary

A call goes down the layers on one thread and blocks in the transport; the only
thing that outlives a call is what the transport still holds.  The tests run it
against `simulator/ecu_sim.py`, a server thread on a virtual bus.

The **GUI stack** does not use the library's transports: each screen starts a
worker thread (`utils/ui_worker.py`) that opens the serial port itself
(`obd/dtc_lookup.py`, `obd/live_diagnostic_commands.py`) and posts callbacks to
the Tk thread.  What a session did is logged by `utils/log_manager.py`, which
exports and purges when the process exits.

| Component | State | Operations | Interacts with | What makes it hard | Correct when | Model |
|---|---|---|---|---|---|---|
| UDS client core `protocol/uds.py` | local 0x78 count; nothing between calls | `_send`, `_pick`, `_await_final`, `_check` | calls the transport | a reply is known by its service id only; 0x78 without end; suppressed replies; `max_pending` | a call reports the ECU's answer to its own request, every call ends | `UdsClient` |
| UDS services `protocol/uds.py` | none | 30 service methods | client core | widths and masks of arguments, headers of responses, the suppress bit | bytes sent and read agree with the ECU's | `DiagServices` |
| SocketCAN transport | socket; the kernel's receive queue | `open`, `close`, `request`, `receive` | bus, ECU | late replies wait for the next call; OSError | replies are taken in order, none twice | `UdsClient`, `ObdSession` |
| `unlock()` | seed, key; the ECU's lock | seed request, key | UDS client | two calls with one service id | True only for an unlocked ECU; no key for an old seed | `SecurityAccess` |
| Seed/key provider, algorithms, definitions | tables | `generate_key` | `unlock()` | width of integers, padding | equals the reference vectors | not modelled |
| KWP2000 client | as UDS | as UDS, and its services | transport | as UDS; layouts that differ a little from UDS | as UDS | `DiagServices` |
| Ford GDS | module, session | sessions, identifiers | KWP2000 | text of identifiers, addressing of modules | text is what the module holds | partly, `DiagServices` |
| J1979 | none | ten modes, PID walk, scan | transport | replies matched by mode, sometimes by PID | result of this request; codes of every ECU, PIDs of one | `ObdCodec`, `ObdSession` |
| ELM327 transport | port | `open`, `request`, `receive`, reassembly | serial line | torn and late replies, lost frames, several ECUs | payloads whole or short, attributed to the right ECU | `ElmFrames`, `ObdSession` |
| Session | `_open` | `open`, `close`, factories | transport | failure in the middle of `open` and of `close` | an open session's port is set up | `ObdSession` |
| Fake transport | follow-ups | `request`, `receive` | tests | differs from the socket: a request empties it | no follow-up answers a later call | `DiagServices` |
| Legacy ELM327 handler `obd/dtc_lookup.py` | port | connect, send, read, clear, disconnect | tty shared by all who open it | timeouts, no exclusive open, errors half-way | port given back, answers judged correctly | `ElmPort`, `DtcScreen` |
| Worker threads `utils/ui_worker.py` | Tk queue, spinner flag | `run_async`, `TkSpinner` | every screen | callbacks come between other callbacks, after the screen has gone, while a popup waits | on_done last, spinner stops | `DtcScreen`, `MainScreen` |
| Trouble-code screen | label, Clear button, spinner | read, clear, back | workers, handler | results of an earlier operation or screen | the label is true of the vehicle | `DtcScreen` |
| Main screen, scan, bind | buttons, spinner, popups and which has the grab, `elm_mac` | scan, connect, password, navigation | workers, bluetoothctl, rfcomm | navigation and popups during work, a popup over a popup | a screen offers what is there, nothing looks busy when idle | `MainScreen` |
| Live data | labels; `data` of a fetch | fetch, rerun, back | the rfcomm device, shared by fetches | two fetches on one device tear replies between them, late replies | a value stands under its own name | `LiveData`, `MainScreen` |
| Brand and simulation screens | `_sim_memory`, Clear button | read, clear, back | message boxes | codes change through a popup in front of the button, or behind it | Clear is offered when there are codes | `MainScreen` |
| Session log | `_enabled`, runtime directory | configure, save, export and purge | workers, exit hook, next launch | crash, workers that outlive the main thread | the export is the session's, nothing is left | `SessionLog` |
| Simulated ECU | socket, thread, stop event | start, stop, serve | tests | stop while serving, restart | no thread after stop, advertises what it answers | `SimEcu` |
| VIN decoder | none | `decode_vin` | user | check digit, year codes used twice | a slip of the typist shows | `Vin` |
| DTC, PID, NRC tables, DTC library | none | pure functions | all | boundaries of bytes | inverse of the encoding | `ObdCodec` |

The places where the difficulties bite are the `hazards` of `PROJECT.json`, each
at its line and with the properties that watch it.

## 2. Modules

| Module | Stands for |
|---|---|
| `RequestResponse` | abstract contract of a service call: what an answer vouches for |
| `UdsClient` | UDS client core, SocketCAN transport, receive queue, ECU and bus |
| `UdsClientProofs` | proofs about `UdsClient`: on any bus, the order of answers, and with an ECU in time |
| `SecurityAccess` | `unlock()`, EXTENDS `UdsClient` |
| `SecurityAccessProofs` | proofs about it; EXTENDS `UdsClientProofs` too |
| `ElmPort` | serial port shared by legacy handlers, adapter and vehicle |
| `DtcScreen`, `DtcScreenProofs` | trouble-code screen, workers and handler, EXTENDS `ElmPort`; and the proofs |
| `SessionLog` | log over several launches |
| `Selection` | the members of a sequence that pass a test, as the list comprehensions of the code pick them |
| `ObdCodec` | trouble codes, PID formulas, what each J1979 mode makes of replies, DTC library look-up |
| `ElmFrames` | lines of an ELM327, ISO-TP reassembly; and their inverse, segmentation and printing |
| `ObdSession` | session, both transports, J1979 calls, ECUs; EXTENDS `ObdCodec` and `ElmFrames` |
| `DataLemmas` | what selecting, flattening, summing and induction over sequences give, for the proofs below |
| `SessionProofs` | proofs about `ObdSession` |
| `ReadProofs` | proofs about it where a read ends too early; EXTENDS `SessionProofs` |
| `DiagServices` | every UDS and KWP2000 service and the Ford layer, on the fake transport |
| `SimEcu` | the simulated ECU, its thread and who starts and stops it |
| `Vin` | the VIN decoder and a person who types |
| `PartsProofs` | proofs about `SimEcu`, `Vin`, `DiagServices` and `SessionLog` |
| `LiveData` | `fetch_live_data`, several at a time on one device |
| `MainScreen` | the application's screens, scan, bind, popups, workers; EXTENDS `LiveData` |
| `MainScreenProofs` | proofs about both |
| `MC*` | a module for TLC to each model; `MCParts` holds `DiagServices`, `SimEcu`, `Vin` and `SessionLog` |

Every mutation (an operator with a comment "Mutation of ...") stands before the
definition it varies; no definition of a model uses it.  It says which mistake a
property would catch.

### UdsClient

One client thread, one physically addressed ECU.  `pc` is the blocking call the
thread is in: the `select` of `request` or that of `receive`.  `rxq` is the
socket's receive queue, which `_send` does not empty.  `ecuq` holds the requests
the ECU has not finished.  Each operation of the code is an action: `Send` and
`SendFails` (the two ends of `socket.send`), `DropReply` (a suppressed call
drops what `request` returned), `AwaitFinal` and `TooManyPending` (the 0x78
loop, below and at `max_pending`), `Negative` and `Positive` (`_check`),
`Timeout`, `RecvFails`.  `_pick` chooses the first of a list of at most one reply
here, since the socket has a single peer.

Abstractions.  A reply is whole: ISO-TP segmentation is the kernel's.  Data bytes
are left out, and so is the length of a reply, which the services above `_send`
only cut.  Calls carry a number, a history value that no guard of the client reads; it
tells the properties whose answer a call got.  Time is left out: `Late` says
whether an answer may come after the timer, and with `Late = FALSE` the timer
runs out only when the ECU has nothing left to say.

### SecurityAccess

`unlock()` is `ustep` on top of the client's actions: `RequestSeed`, then
`AlreadyUnlocked`, `SendKey` or `NoKey`, then `KeyReply` or, after any failed
call, `CallRaised`.  A seed is the number of the request that asked for it, so
seeds are fresh; a key is the seed it was computed from, and the 41 algorithms
stay outside.  The ECU decides as a lock does: the right key for its last seed
opens it, any key uses the seed up, and it may lock itself between attempts.

### ElmPort and DtcScreen

`ElmPort` is the tty: one queue of commands, one of replies, and the set of
handlers that have it open.  It is opened without `exclusive=True`, so a second
handler shares the queues, and two threads in `read_until` at once may tear a
reply, which appears as an error.  A reply is one of five texts, by what the
code's tests on it tell apart.  `Late`, `Flaky` and `Faulty` admit late replies,
error texts of the adapter and exceptions of pyserial; `HeadersOn` and `AckIsOK`
say what the adapter makes of ATH1 and of Mode 04, which the code takes for
granted in two different ways.

`DtcScreen` has the Tk thread (`OpenScreen`, `Back`, `ReadDtc`, `ClearDtc`,
`OnResult`, `OnDone`) and one thread for each click (`Open`, `Flush`, `Write`,
`Read`, `PortRaises`, `Close`, `Report`).  `tkq` is the queue behind
`root.after`.  A callback on a destroyed screen fails on its widgets and changes
nothing there, as Tk reports it and goes on.  A handler left open by a failed
`connect()` is closed when its exception is dropped, as CPython's reference
counting does (`Release`).  On a live screen that is when `on_error` returns.  On
one that is gone `on_error` raises on its label (`dtc_interface.py:60`), and
`sys.last_traceback` keeps the frames, the first exception and the handler
until another callback fails: `kept` is the run that it keeps.  The `User` is the other actor: `waits` clicks when all is over,
`attentive` does not click on a screen that spins but may leave it, `hasty`
clicks whenever a button is enabled.  Exit ends the process and is left out.

### SessionLog

Launches one after the other: the question, `Enable` or `Refuse`, the workers
(`SaveBegin` asks whether the file exists, `CreateFile` writes an empty one over
whatever is there by then, `AppendRecord` adds the line), and the exit hook in its
steps: `Export` looks at the file, `Convert` reads it, then `Keep` or `Cancel`, `Purge`
of the files and `RemoveDir`, with daemon workers going on in between; `Crash` may
come at any point.  A record is the session that wrote it.  `debug.log` goes
with the directory and is not told apart.  One program runs at a time: two at
once, which share the directory, are left out.

### ObdSession, ElmFrames and ObdCodec

The other half of the library stack: one thread, a `DiagnosticSession` with an
ELM327 or a socket (`kind`), and two ECUs.  `open` is the session's flag, `port`
whether the transport has a port; `Open`, `OpenFails` and `Close` keep them as
the code does, apart where it lets them differ: an adapter whose set up raises
keeps its port, a close that raises lets go of it and leaves the flag.  A reopened
port starts empty.

`Begin` calls an operation of J1979; each `ElmExchange` or `CanExchange` is one
`transport.request` and the code up to the next one, so a PID walk or a scan is
as many steps as it has requests.  `line` is what the adapter has printed and
the tool has not read, character by character, since a timed read may end within
a line: `request()` does not empty it, so the rest is read as the beginning of
the next reply.  `Merges` lets the frames of two ECUs come in any order that
keeps each ECU's own.  A frame may be lost.  On the socket a request takes the oldest
reply in `rxq` or none.

What the tool makes of the text is `ElmFrames!ParseElmResponse`, a translation of
`_parse_elm_response` and `_reassemble_isotp` on the digits, IndexError
included; what each mode makes of the payloads is in `ObdCodec`.  A physical value is a
numerator and a denominator instead of a float.  Bitmaps and codes are computed
bit by bit, since they are what the code does.

### DiagServices

Every service method as a record: what is sent, whether a reply is awaited, how
the response is read.  `Exchange` is a whole call, with up to `Pendings` 0x78
replies, a refusal or a lost answer; `NotSent` is a call that raises before it
sends.  The ECU is written from ISO 14229-1 and ISO 14230-3 and decodes the
request by its own reading of it; `ledger` is what the caller should believe the
ECU holds, by the results of its calls alone.  A read that agrees with the
ledger is the round trip of both encodings.  The interleavings of a call are
those of `UdsClient`, whose core KWP2000 repeats line for line.

### SimEcu and Vin

`SimEcu` has the serving thread in the steps between which `stop()` can come:
the check of the event, the entry to `select`, the wait, `recv`, the answer;
`stop()` is three steps.  Each use of `self._sock` reads it anew.  `Vin` takes a VIN off a car
and lets a person type it with one slip; the manufacturer table is a set of the
prefixes, since only their presence has an effect on the result.

### LiveData and MainScreen

`MainScreen` is the Tk thread: `screen` is what is shown, and `gen` counts screens
built, since building one destroys the widgets of the last.  `modals` are the windows
in front of it in the order they were opened: the popups of the program (the device
found, the password, a simulated brand's codes) and message boxes.  Each opening
takes the grab from the window that had it (`Opened`).  A popup that is destroyed
gives it to nobody, a message box gives it back (`GivenBack`).  So a click on the
screen is possible when no window has the grab (`MayClick`), which is not the same as no
window being open; any window can be closed by its title bar.

Callbacks run whatever is open.  A handler that opened a message box or asked for the
password waits in an event loop of its own; it goes on when its window has
been answered and every handler that began to wait after it has ended (`Returns`),
before anything else happens (`TkThread`), on whatever screen is there by then
(`PasswordReturns`, `NoDeviceReturns`, `BoxReturns`, `ClearedReturns`).  Each run is a
thread of scan, bind or fetch: `ScanFinds`, `ScanFails`, `BindReleases`, `BindEnds`,
`Fetch`, then `Report` twice (the result, then on_done).  The dialogue with
bluetoothctl is a single step that need not come.  `patient` is the user's kind, chosen
at first: a patient one starts nothing while a spinner ticks on the screen shown or
the password is asked for (`MayStart`), a hasty one whatever a button allows.

`LiveData` is `fetch_live_data` request by request.  The device is opened by each
fetch for itself and the input queue is one for all.  A reply is named by what it
answers; `Parses` says which replies each parser accepts, and the one for temperatures
accepts nearly all.  A reply may come after the read has given up
(`MaxLate`).  The device is opened without exclusive access.  When a second thread
reads, or flushes, while one reads, its read is `mixed`: it may get nothing, or part of a reply,
or one that has run into the next ("torn"), and may leave part of one
(`Taken`, `Rests`); pyserial may raise, which ends the fetch (`PortLost`).  Whether a
parser finds a number in a torn reply is anybody's guess, so both are possible, and
then the number stands under the name of the PID that was asked for.

History variables (`disturbed`, `torn`, `overlapped`, `dismissed`, `crossed`) name the
exceptions that the properties of the run make, as `crowded` does in `SessionLog`; no
guard reads them.

## 3. Runs

| Run | Module, configuration | Question |
|---|---|---|
| `uds_timely` | `MCUdsClient`, `UdsTimely` | With an ECU that answers in time, even on a bus that loses messages: reports are true (`Truthful`), each call leaves a clear channel (`LeavesNothingBehind`), `max_pending` 0x78 replies are survived (`PatientUpToTheLimit`), and the client implements `RequestResponse` (`ImplementsContract`, safety and liveness) |
| `uds_hostile` | `MCUdsClient`, `UdsHostile` | Late, lost, surplus and failing replies at once: calls begun on a quiet channel get their own answers, answers keep the order of calls, none is used twice |
| `unlock` | `MCSecurityAccess`, `Unlock` | The handshake under the same faults, with 0x78 without end: an attempt begun on a quiet channel ends right, and every attempt ends |
| `dtc_waits` | `MCDtcScreen`, `DtcWaits` | A user who waits and an adapter that answers as the code expects: the screen says what is so, and spins exactly while it works, also when the port fails |
| `dtc_hasty` | `MCDtcScreen`, `DtcHasty` | Overlapping operations on two screens with every fault: Clear only after codes, results before on_done, every operation ends, and the port is given back but by the one handler that `sys.last_traceback` may keep |
| `session` | `MCObdSession`, `Session` | Two ECUs, every J1979 operation, both transports: an undisturbed call returns what the ECUs hold, in whatever order their frames come (`CleanCallIsExact`), but for the PIDs of the ECU whose bitmap came later, which `elm_ecus` is about; a cut read or a lost frame gives a shorter reply or none, never another of the same length (`WholeOrShort`); an acknowledgement of a clear counts once (`AcksAreNotReused`); a value is of the PID asked for, also behind stale replies (`PidAnswersItsPid`); walks and scans advance (`EveryExchangeAdvances`); an open session's adapter was set up, after any failures (`OpenMeansReady`) |
| `parts` | `MCParts`, `Parts` | Reads give back what was written through any service (`ReadsBack`), the same codes through three services (`CodesAreTheEcus`), calls wait exactly for replies they asked for (`RepliesAreAwaited`); a typing slip shows in a VIN but for three kinds of slip (`SlipsShow`) and does not move its year (`YearsApart`); the simulated ECU stops cleanly whatever `stop()` meets (`StopIsClean`) and answers what it advertises (`AnswersAgree`); over two launches with crashes and workers that outlive the main thread the log's export is the session's own (`ExportIsTheSession`), a clean exit leaves nothing (`CleanExitLeavesNothing`), and its types hold (`LogTypeOK`) |
| `app` | `MCMainScreen`, `App` | A patient or a hasty user who scans, binds, reads live data, reads and clears the codes of two simulated brands, leaves and returns while workers run and windows wait: values stand under their names (`LiveValuesAreTheirs`), screens offer what is there (`ScreensKeepTheirWord`), an idle program looks idle to the patient one (`IdleLooksIdle`) |

Four runs state what a document, a comment or a text on the screen says, and
find that the code does otherwise:

| Run | What the counterexample shows |
|---|---|
| `uds_suppress_pending` | An ECU that says 0x78 to a suppressed request leaves its final reply to the next call, with everything in time (`protocol/uds.py:174`) |
| `dtc_headers` | After the ATH1 the handler itself sends, its parser finds no codes: "No trouble codes found." (`obd/dtc_lookup.py:67`) |
| `elm_pending` | Over an ELM327 an ECU that says 0x78 has its answer dropped: both are lines of one reply, and reassembly keeps the first single frame (`transport/elm327.py:165`), although line 100 there counts on the adapter to handle 0x78 |
| `elm_ecus` | With two ECUs a scan reads the PIDs of the one whose bitmap came first (`protocol/obd2.py:70`), although line 5 there says that responses of several ECUs are aggregated and line 86 "every supported, known PID" |

Disagreements met on the way that have no run:

* the late acknowledgement of an earlier key passes for the zero seed of an
  unlocked ECU, and `unlock()` returns True for a locked one
  (`protocol/security/unlock.py:55`); `QuietAttemptIsRight` is about attempts
  begun on a quiet channel for this reason;
* leaving the trouble-code screen during a read and reading on a new one gives two threads
  one port, and stored codes may be reported as none (`obd/dtc_lookup.py:32`);
* leaving it during a read whose set-up fails leaves the port open: nobody disconnects
  (`obd/dtc_lookup.py:38`), and the error's callback fails on the label that is gone
  (`gui/dtc_interface.py:60`), whose traceback keeps the handler;
* two fetches of live data on one device, after Rerun or a second visit, share out the
  bytes of a reply, and what a parser finds in its part is shown as the value
  (`obd/live_diagnostic_commands.py:85`, `:121`);
* a first record may be erased by a second worker, which found no file either and
  creates it again, empty (`utils/log_manager.py:36`);
* the popup about a device found takes the grab from a simulated brand's codes
  popup (`gui/main_interface.py:179`).  Afterwards the menus can be clicked behind it, and
  its Clear Codes draws the Clear button of the brand shown anew as if it were
  its own: the button goes although there are codes
  (`gui/simulator_interface_brand_specific.py:173`), against the comment at line 88 there;
* in the same way the screens can be left while the password is asked for, and a bind begins
  on the live screen whose device it releases (`gui/main_interface.py:188`);
* two different digits swapped in places 8 and 9 of a VIN always pass the check, since ten is
  minus one modulo 11 and the check digit's own weight is 0, and so do 4 and X
  swapped in places 9 and 10 (`protocol/vin.py:42`, `:437`);
* the records of a crashed session stay when the next launch declines logging
  (`utils/log_manager.py:17`);
* `_check` raises any late negative response as the refusal of the service
  called next, without comparing the service id it carries
  (`protocol/uds.py:204`);
* `suppress_response` waits for the whole p2 timer (`protocol/uds.py:172`)
  where `docs/uds-iso14229.md:80` has it skip the wait;
* a late `OK` of a set up command passes for a clear (`obd/dtc_lookup.py:60`);
* a second click leaves the first spinner ticking (`gui/dtc_interface.py:54`),
  and so does Rerun during a fetch (`gui/main_interface.py:346`);
* the popup about a found device, closed without OK, leaves the scan button
  disabled and Connect hidden until the screen is rebuilt
  (`gui/main_interface.py:161`);
* a first frame of a single byte makes `request()` raise IndexError
  (`transport/elm327.py:169`);
* a simulated ECU started a second time answers nothing, since its stop event
  stays set (`simulator/ecu_sim.py:92`);
* `FordGDS` keeps a module's ids and does not give them to the transport
  (`protocol/ford_gds.py:160`);
* blocks of the VIN table that end in 0 are empty, since `_char_ord` puts 0
  before 1 (`protocol/vin.py:352`).

### Bounds, and why they are enough

* `UdsClient`: three calls are one to leave something behind, one to be misled
  by it, and one behind both; two service ids are the same or different, and are
  symmetric.  `EcuMaxPending` reaches `max_pending` in `uds_timely` (2 and 2) and
  passes it in `uds_hostile` (2 and 1), so giving up with the ECU still at work
  happens there.  `RxCap` (9) is above what the queue can hold in the runs of
  the client; in `unlock` it is the only limit of an ECU that never stops saying
  0x78 (`Endless`).
* `SecurityAccess`: three calls are a whole attempt and the seed request of
  another, begun with or without leftovers of the first.
* `DtcScreen`: with `User = "waits"` three operations are read, clear, read again;
  otherwise two operations and two screens, enough for any pair to overlap.
  `InitLen` is 1 or 2 set-up commands of the code's five: they differ in nothing
  the handler looks at, and two make a first and a last one.
* `ObdSession`: two calls, one to leave something on the line and one to meet it,
  of twelve operations; two opens, so that a failure is followed by another try;
  one cut and one lost frame, together in one behaviour.  The first ECU has three
  codes, which take two frames, and PIDs in two ranges, so that a walk has
  two steps; the second shares a PID and has one code, in a single frame.  1.05 million states.  `ElmEcus` is the same vehicle with one call.
* `MCParts`: three calls are a write, a write and a read, or a transfer, its block
  and a read; `MaxPending = 1` and `Pendings = 2` reach and pass the limit.
  Three VINs, with a digit and a letter in the seventh place, digits in places 8 and 9,
  and a 4 and an X in places 9 and 10, with every slip; two starts and two
  requests of the simulated ECU.  Of the log, two launches are a crash and the launch
  after it; two workers at once are enough to find no file together, and three records
  one for each of them and one later.  0.3 million states.
* `MainScreen`: five screens are main, menu, live and one more of each; two simulated
  brands are the one shown and the one whose popup is left open.  The user is on one of
  three trips, each with the runs it needs.  `AllScreens`: both kinds of user, every
  screen and window, three runs of any kind: a scan, a bind and a fetch, two of
  a kind, or a scan whose popup opens over others.  `TwoFetches`: a hasty user, a device
  bound without ado and two fetches; either reads overlap or a reply is late, as
  either is enough for a wrong value, and two replies at most wait in the queue.
  `TwoBinds`: a hasty user who comes back to the main screen, which takes the two
  scans whose popups lie over each other, asks for a bind twice and opens the live
  screen in between.  There are two data points, a temperature and another,
  because the two parsers differ, and one late reply.  No set-up command is sent
  (`InitCmds = 0`): their replies are read and dropped like the one to 0100, which is
  there, and the proofs are for any number.  The brands are symmetric.  2.9 million states.

Deadlock is not checked: a behaviour stops at the bound on calls, clicks or
launches, and a program with nothing to do stands still.

### Fairness

* `UdsClient!Spec` is weakly fair to `Receive` and to `Timeout`: `select` wakes
  on a readable socket and returns at its timer otherwise.  The ECU owes
  nothing.  `TimelySpec` adds weak fairness of the ECU, since with `Late = FALSE`
  the timer does not run out before it; an ECU that never acts would then be a
  timer that never ends.  The client's caller is under no obligation to call.
* `UnlockSpec` adds that `unlock()` goes on when its call has returned.
* `DtcScreen`: the main loop runs what is queued and each thread goes on
  (`Proceed`).  Faults are never owed, nor are clicks, nor the adapter's
  answers: a read ends with its timeout.
* `SessionLog`, `ObdSession`, `MCParts` and `MainScreen` have safety properties
  only and assume no fairness.  In `MainScreen` that is a fact about the code: a
  scan reads from bluetoothctl without a timeout (`adapter/connection.py:64` and
  `:84`), so neither it nor its spinner need end, and `IdleLooksIdle` speaks of
  runs that are over.  `EveryExchangeAdvances` is how the end of a walk or scan is
  stated without fairness: each exchange lowers a bound.

### Assumptions about the user

`DtcWaits` has a user who waits.  Without, a second click is enough to leave the first
spinner ticking.  `App` has both kinds: the first two of its properties are about
either, and `IdleLooksIdle` is about the patient one, who starts nothing while a
spinner ticks on the screen shown or the password is asked for, but leaves and opens
screens at any time.

## 4. Proofs

TLC checks small instances; the theorems hold for every value of the constants
that the named assumptions of the models admit (`CallsAssumption`, `RunsAssumption` and the like:
bounds are naturals, switches are Booleans).  No bound on calls, clicks, launches,
workers, screens or late replies is used but that it is a number.  A hypothesis
beyond that is in the column *if*, and stands in the theorem after `ASSUME`.

| Theorem | Says, for every reachable state | If |
|---|---|---|
| *UdsClientProofs* | | |
| `TypeCorrect` | `TypeOK` | |
| `QuietCalls` | `QuietCallOwnAnswer`: a call begun with nothing outstanding reports only the ECU's answer to its own request | |
| `AnswersStayInOrder` | `AnswersInOrder`: calls use replies in the order of the requests they answer | |
| `AnswersUsedOnce` | `NoAnswerTwice`: one answer is not reported by two calls | |
| `CallsTellTheTruth` | `Truthful`: acceptance and refusal are reported as the ECU decided | `TimelyEcu` |
| `ChannelClears` | `LeavesNothingBehind` | `TimelyEcu` |
| `PatienceLasts` | `PatientUpToTheLimit` | `TimelyEcu` |
| `KeepsTheContract` | the initial states are the contract's, every step is a step of `RequestResponse` or a stutter | `TimelyEcu` |
| *SecurityAccessProofs* | | |
| `UnlockTypeCorrect` | `UnlockTypeOK` | |
| `TrueMeansUnlocked` | `QuietAttemptIsRight`: True after an attempt begun on a quiet channel means unlocked | |
| `QuietSeedQuietKey` | `QuietSeedMakesQuietKey` | |
| `KeysFit` | `KeyFitsSeed` | |
| `NoPositiveMadeUp` | every positive report is the answer to a request that the ECU accepted | |
| *DtcScreenProofs* | | |
| `DtcTypeCorrect` | `DtcTypeOK` | |
| `DoneComesLast` | `DoneLast` | |
| `PortGivenBack` | `PortReleased`: once its callbacks have run a handler has closed the port, but for one at most, that of a failed set-up whose screen was gone | |
| `ClearNeedsCodes` | `ClearAfterCodes` | |
| `SpinnerIsTrue` | `SpinnerTracksRuns` | the user waits |
| `LabelsAreTrue` | `ShownIsTrue` | the user waits, `PlainAdapter` |
| *SessionProofs* | | |
| `OpenSessionsAreReady` | `OpenMeansReady` | |
| `OperationsEnd` | `EveryExchangeAdvances`, an action property | |
| `SessionTypeCorrect` | `SessionTypeOK`: of the wire, the sockets, the counts and the operation in progress; results are not its subject | |
| `AcksAreUsedOnce` | `AcksAreNotReused`: `clear_dtcs` is True no more often than an ECU cleared its codes | |
| `PidsGetTheirValues` | `PidAnswersItsPid`: what `read_pid` returns is a value of that PID | `ValuesMatch` |
| *ReadProofs* | | |
| `WholeAnswersOrShorter` | `WholeOrShort`: what passes for an answer on a clear line is a whole reply or shorter | |
| *PartsProofs* | | |
| `StoppedIsStopped` | `StopIsClean` of the simulated ECU | |
| `AnswersFitTogether` | `AnswersAgree` of the simulated ECU | |
| `SlipsOfTheTypist` | `SlipsShow`: the check digit is right exactly after the three kinds of slip it names | `StampedRight` |
| `NoAnswerIsMissed` | `RepliesAreAwaited`: a service call waits for an answer exactly when the ECU gives one | `AsTheClientsCall` |
| `CodesAreReadRight` | `CodesAreTheEcus`: trouble codes returned are those the ECU holds and was asked for | `AsTheClientsCall` |
| `LogTypeCorrect` | `LogTypeOK` of the session log | |
| `ExportsAreTheSessions` | `ExportIsTheSession`: nothing of another session, and nothing missing unless two workers found no file at once | |
| `CleanExits` | `CleanExitLeavesNothing` | |
| *MainScreenProofs* | | |
| `ValuesKeepTheirNames` | `LiveValuesAreTheirs`: whatever is in the queue, but for torn replies and disturbed temperatures | |
| `OffersAreKept` | `ScreensKeepTheirWord`: whichever windows are open and have the grab | |
| `IdleScreensLookIdle` | `IdleLooksIdle`, which is about a patient user | |

The hypotheses are those of the runs that check the same properties; what goes
wrong when they fail is in the runs that find a violation and in the list of
disagreements above.

* `TimelyEcu`: no answer after the timer (`~Late`), a working socket
  (`~Faulty`), 0x78 only where an answer is expected and no more often than
  `max_pending`.  Requests and replies may still get lost and the ECU may fall
  silent.  `_send` cannot tell a late answer from a timely one.
* *The user waits* (`User = "waits"`): one operation at a time, ended before the
  next.  Two overlapping ones write one label and one spinner.
* `PlainAdapter`: answers in time, no error texts, headers off, and `OK` for a
  clear: what the handler's parser takes for granted.  The port may fail at any
  moment.
* `ValuesMatch`: the formula of each PID gives what the bytes in the vehicle
  stand for.  It compares the table of formulas with the vehicle of the run, so it
  is evaluated there (`MCValuesMatch`) and not part of what is proved; that the
  right bytes reach the right formula is.
* `StampedRight`: the VINs that cars are given have the right check digit, by the
  tables of the code.  `Parts` has such VINs: a VIN that was not mistyped
  satisfies `SlipsShow` only so.

* `AsTheClientsCall`: every call is made by a method of the two clients (`MadeByUds`,
  `MadeByKwp`), with any identifier, mask, address, size or bytes.  Two
  limits are the clients' own: a sub-function is below 0x80, since bit 7 is what
  `suppress` is for, and a width fits the nibble it is sent in.  Arguments that do not
  fit their bytes are included: those calls raise and send nothing.  The ECU has a list
  of real codes, and bytes under its other keys.  The calls and the data of `Parts` are
  such; TLC cannot evaluate the assumption itself, which ranges over all numbers
  and all sequences of bytes.

The vehicle is a constant too, and these assumptions on it are evaluated by TLC with
the model's others.  `VehicleAssumption`: there are two ECUs with different 11-bit
identifiers, their PIDs have 1 to 4 bytes, and each stores 1 to 255 codes of two bytes.
ISO-TP gives each ECU an identifier of its own; with one for both, `_reassemble` would
join the frames of two replies, and `WholeOrShort` would be false.  `OpsAssumption`: the operations are those of `J1979` with a byte
for each argument.  `SimAssumption`: the codes given to `SimulatedEcu` are real
ones, at most 255, and requests are bytes.  `VinsAssumption`: VINs have 17
characters and mistypes are letters or digits.

### The arguments

*Quiet calls.*  The property speaks of outcomes only, so a step cannot see that
it holds.  `QuietInv` adds that calls in progress and calls to come have no
outcome (`NotYetEnded`) and that while a quiet call is in progress everything in
`rxq` and `ecuq` carries its number (`QuietChannel`).  `Send` establishes this,
because the queues of a quiet call hold its request alone; the ECU adds replies
only to the oldest request; a step of the client only removes one.  `QuietStep`
has one step for each action.

*Order.*  `OrderInv` says that requests wait in call order
(`RequestsSorted`), that replies are in the order of their requests and no
final reply is followed by another to the same request (`RepliesSorted`), and
that whatever is outstanding is no older than a reply that ended a call and
younger than an answer reported (`EndsBehind`).  Then the head of the queue
cannot step back behind an outcome, and cannot repeat an answer.

*An ECU in time.*  `LeavesNothingBehind` is not inductive: nothing in it keeps an
ECU from adding a reply after the one that ends the call.  `TimelyInv` counts
what the ECU owes: at most one request, of the call in progress, undecided,
with as many 0x78 said as the client has counted or has waiting
(`OwesOneRequest`), and replies that are 0x78 within the limit with perhaps one
final reply behind them, which says what was decided (`RepliesTellTheTruth`).
Then `TooManyPending` is never enabled, the timer runs out on empty queues only,
and each step maps to the contract: a request to its begin, the ECU's decision to
the contract's, the end of a call to its report, everything else to a stutter.

*The handshake.*  `UnlockInv` puts `QuietInv` and `OrderInv` of the client
together with the lock: a request is decided once and positive replies are of
accepted ones (`DecidedOnce`), a running attempt knows what its seed says of the
lock (`AttemptInv`), and a key that follows a quiet seed is the oldest thing the
ECU has to do (`QuietKeys`).  The order of replies is what makes the second call
of an attempt quiet: the seed's answer was the last thing outstanding.

*The trouble-code screen.*  `DtcInv` has the queue of callbacks (`QueueInv`: what
is queued was queued by a run that got there), the port (`HolderInv`: a handler
in possession is talking, or its result is due, or it is the one `kept`, whose set-up
failed and whose screen is gone for good) and the button (`ClearInv`: the
read that enabled it was the screen's own).  For a user who waits `AloneInv` adds
that one run is in flight, and `TalkInv` what is between it and the adapter at
each point of its thread, so that what it reports is what the vehicle said after
the operation before it.

*The log.*  `ExportIsTheSession` needs the tallies (`WorkersInv`: a worker inside
`save_session` has been counted and has not appended; of two that found no file the
session is `crowded`), what the directory holds at each stage of a session's life
(`DiskInv`: unless the session is crowded, a worker that is to create the file has
nothing to erase, and so the file has all that was saved), and that a session not
yet enabled has left no trace (`TracesInv`), which is what keeps a crashed predecessor's
records out.

*The session.*  `OpenMeansReady` needs that a socket belongs to an open session
(`PortInv`).  For `OperationsEnd`, `TodoInv` says that the base of a walk and the
PIDs of a scan are bytes; that the PIDs put in ascending order are the ones
that were found rests on `Ranked`: in a set of n successive numbers each rank is
taken.  It holds of one number and of 2n if of n, so eight steps reach the 256 bytes,
without induction.

`SessionInv` adds to these what is on the wire.  `OpInv` says that the operation
in progress is one of the calls with its argument.  `WireInv` says that what the
serial line and the socket's queue hold is bytes that some ECU sent in answer to some
request: on the line, unless a read has torn one, each text is the print of one
frame of such an answer (`AllSent`).  `PidsGetTheirValues` follows a value
from the ECU through that invariant: the answer is cut into frames, frames are
printed, lines of two ECUs interleave or get lost and wait behind a call that gave
up; the parser takes the source and the bytes back out of each line, reassembly
joins frames of one source and cuts at the announced length, and `_positive`
compares the echoed PID.  What passes for a PID's reply is then the whole of a
single frame, which an ECU sent for that PID: no line that is left over, and no
join of frames of a longer answer, begins like one.  `AckInv` counts for `AcksAreUsedOnce`:
clears reported, and acknowledgements still on the line or in the queue, are together
no more than the clears that ECUs accepted; each exchange moves an acknowledgement
from the one to the other or drops it, and no other answer reassembles to one.

*A read that ends too early.*  `WholeOrShort` compares what a call takes for its answer
with what the ECUs sent after it, so `WholeAnswersOrShorter` needs no more of the state
than that the line was clear; the work is in one exchange.  A merge of two ECUs' lines
takes each ECU's in their order (`MergePlaces`), a lost line leaves the others' order
(`KeptPlaces`), and a read that ends early leaves whole lines and perhaps the beginning
of one more (`CutLines`).  So the lines that are frames come from frames at rising
places of each ECU's replies, and all but the last are whole (`Traced`).  A line that
ends in half a byte has an even number of digits and is passed over; one that ends
in a whole byte is read as the beginning of its frame (`PrintIsRead`).  The frames of one
source are then such a selection of one ECU's frames (`Group`), because the ECUs
have different identifiers.  If it begins with a single frame, the rest is dropped.
If it begins with a first frame, either every frame behind it is there, and byte i of
the result is byte i of the reply (`ReassembleLong`), or one is missing and the bytes
are fewer than the length announced (`TooFew`), since an ECU sends one reply that
takes several frames at most, and last.  If the first frame is missing, what is left is a
frame that begins with a byte from 0x20 to 0x2F, which no reply does (`IsSid`).  When no
line was lost, the selection has no gap, and the result is the beginning of a reply.

*The simulated ECU.*  `ThreadInv` counts: until the event is set, requests taken
are answers given and the one being handled; a thread that finds the socket gone
finds the event set, since `stop()` sets it first.  `AnswersAgree` speaks of
every request of a tester at once, so nothing inductive is needed beyond the type
of what was answered; the work is in the data: the bitmap's four bytes have bit
i set exactly for the PIDs in the table, a request beyond the table gets
nothing, and `decode_dtc` undoes `encode_dtc` on every real code, which is what makes
the bytes after the count the codes in their order.

*The VIN.*  The check digit is a sum of products of values and weights modulo 11.
Two VINs that differ in one place other than the ninth differ in the sum by the
difference of the values times a weight from 2 to 10, which shares no factor with
11; a swap of two others changes it by that difference times the difference of two
neighbouring weights, never 0 and never a multiple of 11 either.  The values are
0 to 9, so equal remainders mean equal values.  In place 9 stands the remainder itself,
which another character there contradicts, the sum being the same.  A swap of places 8 and
9 changes the sum by ten times a difference, which is minus the difference modulo 11: the
remainder becomes the digit that was moved there, always, if both are digits.
A swap of places 9 and 10 changes it by nine times a difference, and that meets the character
moved there for 4 and X alone.  A missing character fails on the length.  `SumOffOne` and `SumOffTwo` of `DataLemmas` say what a sum over places does
when it changes in one or two of them.

*The services.*  A call that can be sent is `Proper`: its request is long enough for
its service, it waits for an answer exactly if the request does not ask for silence,
and it writes the trouble codes only if it clears them.  That is a case for each method
(`UdsCallsAreProper`, `KwpCallsAreProper`); memory requests need that a number too wide
for its bytes raises, since the widths are in the first of them.  To a proper
request each ECU says yes with its service id plus 0x40, or no with a reason other than
0x78, and keeps or clears its codes (`CallsAreAnswered`); it says yes to what asks for
silence (`QuietIsPositive`), so a call that does not wait leaves nothing unread.
0x3F is no service of either client, whose positive answer would begin like a refusal.
However many 0x78 come first, the call takes the answer and all of
them (`OutcomeOfAnswer`).  `SvcInv` adds that what the caller knows of the codes is what
the ECU holds: a clear that was refused changed nothing, and one whose answer was lost
leaves the caller knowing nothing (`CodesStayKnown`).  Codes come back as they were
because records of three or four bytes, laid one after the other, are cut apart at the
same places (`ChunksOfEqual`), the header has one byte more than the client skips
(`HeaderOff`), and `decode_dtc` and `decode_dtc_status` undo the encodings on every code
and every set of flags.

*The main screen.*  `FetchInv` tells the one quiet fetch from those that met
another: it is alone on the device and the queue holds the reply to its last
command and nothing else, so its read is not mixed (`mixed \subseteq disturbed`) and what
it takes is not torn.  A value under another name would have to be accepted by that
name's parser; only the one for temperatures accepts others, and a torn reply may hold
anything, which are the exceptions in the property.  `WordInv` follows a found address
through thread, callback and popup to the button (`FoundInv`), one bind at a time to the
menu (`BindInv`), and a brand's codes to its Clear button (`ClearInv`).  No step of it
relies on a window keeping clicks away: a window of a brand remembers the menu it was opened
from, and is the shown brand's if that menu still is (`Fits`).  `BusyInv` says
that what ticks for a patient user is the newest spinner, that its run is in flight, and
that nothing ticks while the password is asked for, once (`TickInv`); and that for
a disabled scan button somebody is on the way to enable it (`ScanInv`).

### What the proofs changed in the models

`NewLabel` of `DtcScreen` was a CASE whose arms overlapped, where TLC takes the
first and the prover any; it is a nested IF now, as in the code.  `LiveData` says
that its labels are a sequence of names and `MainScreen` that its runs are the
first numbers, which both used without saying.  The read of a line in
`ObdSession` has a definition of its own (`ElmReads`).  List comprehensions are
`Selection!Select` and `Where`, written with a recursive function, where they were
`SelectSeq`, of which the prover knows nothing.  The vehicle, the operations, the codes of the
simulated ECU and the VINs have their assumptions named; both models used them without
saying.  `DiagServices!FromBytes` was a fold and is a sum, and `Outcome` was a CASE
whose arms overlapped, like `NewLabel`; the codes a call asks for have a name
(`AskedFor`).  These changes left the properties as they were.

### What stays with TLC

* Liveness under fairness: `UnlockEnds`, `EveryRunEnds` and the part of
  `ImplementsContract` that says every call ends.
* `CleanCallIsExact` of `ObdSession`: it needs the answer of each of twelve
  operations, from the vehicle's data through both transports to the decoded result.
  The proofs say which reply a payload is and what a PID's value is of; that nothing is
  missing when nothing was lost, and that the codes come out as they were stored, TLC
  checks on the vehicle of the run.
* `ReadsBack` of `DiagServices`: the address of a block of a transfer is not in the
  block, it is what the caller asked for in the request before.  So it is not
  true of calls in any order with any argument, only of those that keep to the
  transfer they requested, as the calls of the run do.
* `YearsApart` of `Vin`: one lookup in a table of constants, which TLC evaluates in
  full for each VIN of the run.

Induction over data is used where it can be stated of a set instead of an operator:
the smallest number that fails, for sums, flattened and selected sequences
(`DataLemmas`).  The library's induction theorems take an operator, which the
installed provers cannot instantiate.

## 5. Not modelled, and what is left

* **Seed/key provider, definitions and algorithms** (`protocol/security/`): bit
  arithmetic without state, which the repository checks against vectors, and
  parameter tables.  `SecurityAccess` takes a key to be the seed it was computed
  from.  The helpers (padding, rotation, length of the key) could be operators
  compared with definitions over short words.
* **The dialogue with bluetoothctl and rfcomm**: what the lines say.  The model
  has what a scan and a bind leave behind and that they may never end.
* **The Ford table of modules**, and physical addressing, which the layer does
  not use.
* **Two programs at once**, which share the runtime directory of the log
  (`utils/log_manager.py:48`).
* **29-bit and K-line headers** of an ELM327: a line of even length is passed over
  and one of odd length read with a wrong source (`transport/elm327.py:139`).
  The adapter of the model prints 11-bit headers.
* **Texts**: names of NRCs, units of PIDs, descriptions of codes and the scripts
  that generate their table; random values of the simulation screens.
* **The C# tree under `0x27` and the archived C code**, neither of which the
  program runs.
