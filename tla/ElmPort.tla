------------------------------ MODULE ElmPort ------------------------------
(***************************************************************************)
(* The serial port to the ELM327 as DTCHandler (obd/dtc_lookup.py) uses    *)
(* it: any number of handlers may have it open, and all of them share the  *)
(* one input queue of the tty.  A command is "at" for each of the five set *)
(* up commands, "03" to read and "04" to clear the trouble codes; a reply  *)
(* is everything up to the prompt.                                         *)
(***************************************************************************)
EXTENDS Naturals, Sequences

CONSTANTS
  Runs,       \* identities of the handlers
  Late,       \* may a reply come after the read's timeout?
  Flaky,      \* may the adapter answer an OBD command with an error text?
  Faulty,     \* may the port fail to open, or raise?
  HeadersOn,  \* does the adapter obey ATH1?
  AckIsOK     \* does it report a clear as OK (or only as the ECU's 44)?

ASSUME PortSwitches ==
  /\ Late \in BOOLEAN /\ Flaky \in BOOLEAN /\ Faulty \in BOOLEAN
  /\ HeadersOn \in BOOLEAN /\ AckIsOK \in BOOLEAN

VARIABLES
  cmds,     \* commands the adapter has not answered, oldest first
  rx,       \* replies in the tty's input queue
  holders,  \* handlers that have the port open
  codes     \* does the vehicle store trouble codes?

portVars == <<cmds, rx, holders, codes>>

Commands == {"at", "03", "04"}
Texts == {"ok", "codes", "empty", "cleared", "error"}

PortTypeOK ==
  /\ cmds \in Seq(Commands)
  /\ rx \in Seq(Texts)
  /\ holders \subseteq Runs
  /\ codes \in BOOLEAN

PortInit ==
  /\ cmds = << >>
  /\ rx = << >>
  /\ holders = {}
  /\ codes \in BOOLEAN

\* serial.Serial(port): not exclusive.
OpenPort(r) ==
  /\ holders' = holders \cup {r}
  /\ UNCHANGED <<cmds, rx, codes>>

\* The last close drops the link, and with it all that was under way.
ClosePort(r) ==
  /\ holders' = holders \ {r}
  /\ cmds' = IF holders' = {} THEN << >> ELSE cmds
  /\ rx' = IF holders' = {} THEN << >> ELSE rx
  /\ UNCHANGED codes

FlushInput ==
  /\ rx' = << >>
  /\ UNCHANGED <<cmds, holders, codes>>

WriteCommand(c) ==
  /\ cmds' = Append(cmds, c)
  /\ UNCHANGED <<rx, holders, codes>>

\* read_until finds a prompt.
ReadText(t) ==
  /\ rx # << >>
  /\ t = Head(rx)
  /\ rx' = Tail(rx)
  /\ UNCHANGED <<cmds, holders, codes>>

\* Mutation of ReadNothing: the port is opened without a timeout.
ReadBlocks == FALSE /\ UNCHANGED portVars

\* read_until gives up and returns what little there is.
ReadNothing ==
  /\ rx = << >>
  /\ Late \/ cmds = << >>
  /\ UNCHANGED portVars

\* _parse_dtcs finds the codes only in lines that begin with 43; ATH1 puts the
\* message header first.
FindsCodes(t) == t = "codes" /\ ~HeadersOn

\* "Cleared" in raw or "OK" in raw.
LooksCleared(t) == t = "ok" \/ (t = "cleared" /\ AckIsOK)

-----------------------------------------------------------------------------
(* The adapter and the vehicle behind it.                                  *)

AnswerTo(c) ==
  CASE c = "at" -> "ok"
    [] c = "03" -> IF codes THEN "codes" ELSE "empty"
    [] c = "04" -> "cleared"

Answer ==
  /\ cmds # << >>
  /\ cmds' = Tail(cmds)
  /\ \/ /\ rx' = Append(rx, AnswerTo(Head(cmds)))
        /\ codes' = (codes /\ Head(cmds) # "04")
     \/ /\ Flaky /\ Head(cmds) # "at"
        /\ rx' = Append(rx, "error")
        /\ UNCHANGED codes
  /\ UNCHANGED holders
=============================================================================
