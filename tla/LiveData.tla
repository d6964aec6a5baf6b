------------------------------ MODULE LiveData ------------------------------
(***************************************************************************)
(* fetch_live_data (obd/live_diagnostic_commands.py): worker threads that  *)
(* each set up the adapter, ask which PIDs the vehicle supports and read   *)
(* them one by one, over one rfcomm device.  The device is opened without  *)
(* exclusive access: its input is one queue for all of them, which is kept *)
(* here, at worst, over a close and a bind until a fetch flushes it.  Two  *)
(* threads that read at a time share out its bytes.  A reply is named for  *)
(* its request: "ok" for a set up command, "bits" for 0100, and the data   *)
(* point otherwise; "torn" is part of one, or of several.                  *)
(***************************************************************************)
EXTENDS Integers, Sequences, FiniteSets

CONSTANTS
  Runs,        \* worker threads
  InitCmds,    \* bound: set up commands (5 in the code)
  Labels,      \* data points of pid_map, in its order
  Supported,   \* those the vehicle supports
  MaxLate      \* bound: replies that come after the read's timeout

None == "None"

ASSUME LiveAssumption ==
  /\ InitCmds \in Nat /\ MaxLate \in Nat /\ Labels \in Seq(STRING)
  /\ \A i \in DOMAIN Labels : Labels[i] \notin {"ok", "bits", "torn", None}

VARIABLES
  bound,       \* is the device bound to the adapter?
  pc,          \* per run: what its thread does next
  step,        \* per run: the request it is at
  supports,    \* per run: did 0100 bring a list of PIDs?
  data,        \* per run: what it has read for each data point
  inq,         \* replies in the device's input queue
  slow,        \* replies that come later
  late,        \* number of replies that were late
  disturbed,   \* history: runs that shared the device or met a late reply
  mixed,       \* runs whose read shares out the queue with another thread
  torn         \* history: runs that took part of a reply for the whole

sharing == <<late, disturbed, mixed, torn>>
liveVars == <<bound, pc, step, supports, data, inq, slow, sharing>>

Script == [i \in 1 .. InitCmds |-> "ok"] \o <<"bits">> \o Labels

\* The parsers search their reply for the PID they asked for, but the one for
\* temperatures takes any PID from 00 to 5F.
Temperatures == {"Coolant Temp", "Intake Temp"}
\* Mutation of Parses: a parser that takes whatever comes.
ParsesAnything(label, reply) == reply # "ok"
Parses(label, reply) == reply = label \/ (label \in Temperatures /\ reply # "ok")

LiveInit ==
  /\ bound = FALSE
  /\ pc = [r \in Runs |-> "new"]
  /\ step = [r \in Runs |-> 0]
  /\ supports = [r \in Runs |-> FALSE]
  /\ data = [r \in Runs |-> [l \in {Labels[i] : i \in DOMAIN Labels} |-> None]]
  /\ inq = << >> /\ slow = << >> /\ late = 0
  /\ disturbed = {} /\ mixed = {} /\ torn = {}

Fetching(r) == pc[r] \in {"flush", "write", "read", "close"}
Readers == {q \in Runs : pc[q] = "read"}

\* serial.Serial opens the device, or raises: then there is nothing to show.
OpenPort(r) ==
  /\ pc[r] = "open"
  /\ pc' = [pc EXCEPT ![r] = IF bound THEN "flush" ELSE "close"]
  /\ disturbed' = IF \E q \in Runs : Fetching(q)
                  THEN disturbed \cup {r} \cup {q \in Runs : Fetching(q)} ELSE disturbed
  /\ UNCHANGED <<bound, step, supports, data, inq, slow, late, mixed, torn>>

\* reset_input_buffer, two seconds later, also under the reads of other threads.
Flush(r) ==
  /\ pc[r] = "flush"
  /\ pc' = [pc EXCEPT ![r] = "write"]
  /\ mixed' = mixed \cup Readers
  /\ step' = [step EXCEPT ![r] = 1]
  /\ inq' = << >>
  /\ disturbed' = IF slow # << >> THEN disturbed \cup {r} ELSE disturbed
  /\ UNCHANGED <<bound, supports, data, slow, late, torn>>

\* A request: the reply is in the queue by the end of the read, or comes later.
\* A data point that 0100 does not list is passed over.  Reads that overlap are mixed.
Write(r, isLate) ==
  /\ pc[r] = "write" /\ bound
  /\ LET reply == Script[step[r]]
         asks == step[r] <= InitCmds + 1 \/ (supports[r] /\ reply \in Supported)
     IN  /\ isLate => asks /\ late < MaxLate
         /\ inq' = IF asks /\ ~isLate THEN Append(inq, reply) ELSE inq
         /\ slow' = IF isLate THEN Append(slow, reply) ELSE slow
         /\ late' = IF isLate THEN late + 1 ELSE late
         /\ disturbed' = IF isLate THEN disturbed \cup {q \in Runs : Fetching(q)} ELSE disturbed
         /\ mixed' = IF asks /\ Readers # {} THEN mixed \cup Readers \cup {r} ELSE mixed
         /\ IF asks THEN pc' = [pc EXCEPT ![r] = "read"] /\ UNCHANGED step
            ELSE IF step[r] = Len(Script) THEN pc' = [pc EXCEPT ![r] = "close"] /\ UNCHANGED step
            ELSE step' = [step EXCEPT ![r] = @ + 1] /\ UNCHANGED pc
  /\ UNCHANGED <<bound, supports, data, torn>>

\* What a thread may leave of the queue that reads some characters of it.
Rests(q) == {q} \cup (IF q = << >> THEN {} ELSE {<<"torn">> \o Tail(q)})

\* What read_until may take, with what it leaves: the oldest reply, or nothing when
\* it times out; a torn one may have lost its prompt and run into the next; and if
\* the read is mixed, part of one.
Taken(r) ==
  {IF inq = << >> THEN <<None, inq>> ELSE <<Head(inq), Tail(inq)>>} \cup
  (IF Len(inq) < 2 \/ Head(inq) # "torn" THEN {} ELSE {<<"torn", Tail(Tail(inq))>>}) \cup
  (IF r \notin mixed THEN {}
   ELSE {None, "torn"} \X (Rests(inq) \cup (IF inq = << >> THEN {} ELSE {Tail(inq)})))

\* The value is stored if the parser finds one, which is anybody's guess in a torn
\* reply; a torn list of PIDs counts as none or as the whole.
Read(r) ==
  /\ pc[r] = "read" /\ bound
  /\ mixed' = mixed \ {r}
  /\ \E t \in Taken(r) :
       LET want == Script[step[r]]
           got == t[1]
           last == step[r] = Len(Script)
           stored == [data EXCEPT ![r][want] = got]
       IN  /\ inq' = t[2]
           /\ supports' \in {[supports EXCEPT ![r] = b] :
                b \in IF want # "bits" THEN {supports[r]} ELSE IF got = "torn" THEN BOOLEAN ELSE {got = "bits"}}
           /\ data' \in IF step[r] <= InitCmds + 1 \/ got = None THEN {data}
                        ELSE IF got = "torn" THEN {data, stored}
                        ELSE IF Parses(want, got) THEN {stored} ELSE {data}
           /\ torn' = IF got = "torn" THEN torn \cup {r} ELSE torn
           /\ pc' = [pc EXCEPT ![r] = IF last THEN "close" ELSE "write"]
           /\ step' = IF last THEN step ELSE [step EXCEPT ![r] = @ + 1]
  /\ UNCHANGED <<bound, slow, late, disturbed>>

\* The device goes away under the thread, or pyserial finds nothing to read where
\* there was something: the exception ends the fetch.
PortLost(r) ==
  /\ pc[r] \in {"write", "read"} /\ (~bound \/ r \in mixed)
  /\ pc' = [pc EXCEPT ![r] = "close"]
  /\ inq' \in IF r \in mixed THEN Rests(inq) ELSE {inq}
  /\ mixed' = mixed \ {r}
  /\ UNCHANGED <<bound, step, supports, data, slow, late, disturbed, torn>>

\* The port is closed, the data saved and returned, whatever happened.
CloseAndSave(r) ==
  /\ pc[r] = "close"
  /\ pc' = [pc EXCEPT ![r] = "report"]
  /\ UNCHANGED <<bound, step, supports, data, inq, slow, sharing>>

\* A late reply arrives.
Arrive ==
  /\ slow # << >>
  /\ inq' = IF bound THEN Append(inq, Head(slow)) ELSE inq
  /\ slow' = Tail(slow)
  /\ UNCHANGED <<bound, pc, step, supports, data, sharing>>

Fetch(r) ==
  \/ OpenPort(r) \/ Flush(r) \/ Read(r) \/ PortLost(r) \/ CloseAndSave(r)
  \/ \E isLate \in BOOLEAN : Write(r, isLate)
=============================================================================
