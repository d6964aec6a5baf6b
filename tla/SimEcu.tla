------------------------------- MODULE SimEcu -------------------------------
(***************************************************************************)
(* SimulatedEcu (simulator/ecu_sim.py): a thread that answers OBD-II       *)
(* requests on a socket, and the caller that starts and stops it.          *)
(***************************************************************************)
EXTENDS ObdCodec

CONSTANTS
  SimCodes,    \* the codes it is told to store
  SimRequests, \* requests of a tester
  SimVin,      \* the bytes of its VIN
  MaxStarts,   \* bound: calls of start()
  MaxAsks      \* bound: requests sent to it

\* The reply to Mode 03 counts the codes in a byte.
ASSUME SimAssumption ==
  /\ SimCodes \in Seq(Codes \ {P0000}) /\ Len(SimCodes) < 256
  /\ SimRequests \subseteq Seq(0 .. 255)

VARIABLES
  simCaller,   \* the caller: "idle", or how far it is in stop()
  simPc,       \* the thread
  simSock,     \* the socket: "open", "closed", or "none" for None
  simStop,     \* the event _stop
  simIn,       \* requests in the socket
  simReq,      \* the request being handled
  simOut,      \* history: requests answered, with their answers
  simTaken,    \* history: number of requests received
  simStarts    \* number of calls of start()

simVars == <<simCaller, simPc, simSock, simStop, simIn, simReq, simOut, simTaken, simStarts>>

SimMode01 == [p \in {\h04, \h05, \h0C, \h0D, \h0F, \h11} |->
  CASE p = \h04 -> <<\h7F>> [] p = \h05 -> <<\h5A>> [] p = \h0C -> <<\h1A, \hF8>>
    [] p = \h0D -> <<\h50>> [] p = \h0F -> <<\h46>> [] p = \h11 -> <<\h33>>]

\* Mutation of SimBitmap: the first bit stands for the base itself.
SimBitmapFromBase(base) ==
  [n \in 1 .. 4 |-> SumFunction([b \in 1 .. 8 |->
     IF base + 8 * (n - 1) + b - 1 \in DOMAIN SimMode01 THEN 2 ^ (8 - b) ELSE 0])]

SimBitmap(base) ==
  [n \in 1 .. 4 |-> SumFunction([b \in 1 .. 8 |->
     IF base + 8 * (n - 1) + b \in DOMAIN SimMode01 THEN 2 ^ (8 - b) ELSE 0])]

SimHandle(r) ==
  CASE r[1] = 9 /\ Len(r) >= 2 /\ r[2] = 2 -> <<\h49, 2, 1>> \o SimVin
    [] r[1] = 3 -> <<\h43, Len(SimCodes)>> \o FlattenSeq([i \in DOMAIN SimCodes |-> EncodeDtc(SimCodes[i])])
    [] r[1] = 1 /\ Len(r) >= 2 /\ r[2] \in {0, \h20, \h40} -> <<\h41, r[2]>> \o SimBitmap(r[2])
    [] r[1] = 1 /\ Len(r) >= 2 /\ r[2] \in DOMAIN SimMode01 -> <<\h41, r[2]>> \o SimMode01[r[2]]
    [] OTHER -> <<\h7F, r[1], \h12>>

SimInit ==
  /\ simCaller = "idle" /\ simPc = "none" /\ simSock = "none" /\ simStop = FALSE
  /\ simIn = << >> /\ simReq = << >> /\ simOut = << >> /\ simTaken = 0 /\ simStarts = 0

-----------------------------------------------------------------------------
(* The caller.  It may start the ECU again after stop(); nothing clears    *)
(* the event then.                                                         *)

SimStart ==
  /\ simCaller = "idle" /\ simSock = "none" /\ simStarts < MaxStarts
  /\ simSock' = "open" /\ simPc' = "check" /\ simIn' = << >>
  /\ simStarts' = simStarts + 1
  /\ UNCHANGED <<simCaller, simStop, simReq, simOut, simTaken>>

SimStopSets ==
  /\ simCaller = "idle"
  /\ simStop' = TRUE
  /\ simCaller' = IF simSock = "none" THEN "joining" ELSE "closing"
  /\ UNCHANGED <<simPc, simSock, simIn, simReq, simOut, simTaken, simStarts>>

\* close(), and then the assignment of None.
SimStopCloses ==
  /\ simCaller = "closing"
  /\ simSock' = IF simSock = "open" THEN "closed" ELSE "none"
  /\ simCaller' = IF simSock = "open" THEN "closing" ELSE "joining"
  /\ UNCHANGED <<simPc, simStop, simIn, simReq, simOut, simTaken, simStarts>>

\* Mutation of SimJoin: stop() does not wait for the thread.
SimJoinAtOnce ==
  /\ simCaller = "joining"
  /\ simCaller' = "idle"
  /\ UNCHANGED <<simPc, simSock, simStop, simIn, simReq, simOut, simTaken, simStarts>>

\* join(timeout=1.0): select() gives up after 0.2 s, so the thread gets there.
SimJoin ==
  /\ simCaller = "joining" /\ simPc \in {"none", "ended"}
  /\ simCaller' = "idle"
  /\ UNCHANGED <<simPc, simSock, simStop, simIn, simReq, simOut, simTaken, simStarts>>

SimAsk(r) ==
  /\ simSock = "open" /\ simTaken + Len(simIn) < MaxAsks
  /\ simIn' = Append(simIn, r)
  /\ UNCHANGED <<simCaller, simPc, simSock, simStop, simReq, simOut, simTaken, simStarts>>

-----------------------------------------------------------------------------
(* The thread.  It reads self._sock anew at each use: on None or a closed  *)
(* socket select raises out of it, recv and send end the loop or raise.    *)

SimThread(from, to) == simPc = from /\ simPc' = to /\ UNCHANGED <<simCaller, simSock, simStop, simStarts>>

SimCheck ==
  /\ SimThread("check", IF simStop THEN "ended" ELSE "select")
  /\ UNCHANGED <<simIn, simReq, simOut, simTaken>>

SimSelect ==
  /\ SimThread("select", IF simSock = "open" THEN "selecting" ELSE "ended")
  /\ UNCHANGED <<simIn, simReq, simOut, simTaken>>

SimWake ==
  /\ \/ simSock = "open" /\ simIn # << >> /\ SimThread("selecting", "recv")
     \/ SimThread("selecting", "check")
  /\ UNCHANGED <<simIn, simReq, simOut, simTaken>>

SimRecv ==
  \/ /\ simSock = "open"
     /\ SimThread("recv", IF Head(simIn) = << >> THEN "check" ELSE "handle")
     /\ simReq' = Head(simIn) /\ simIn' = Tail(simIn) /\ simTaken' = simTaken + 1
     /\ simOut' = IF Head(simIn) = << >> THEN Append(simOut, <<Head(simIn), << >>>>) ELSE simOut
  \/ /\ simSock # "open"
     /\ SimThread("recv", "ended")
     /\ UNCHANGED <<simIn, simReq, simOut, simTaken>>

SimSend ==
  /\ SimThread("handle", IF simSock = "open" THEN "check" ELSE "ended")
  /\ simOut' = IF simSock = "open" THEN Append(simOut, <<simReq, SimHandle(simReq)>>) ELSE simOut
  /\ UNCHANGED <<simIn, simReq, simTaken>>

SimNext ==
  \/ SimStart \/ SimStopSets \/ SimStopCloses \/ SimJoin
  \/ \E r \in SimRequests : SimAsk(r)
  \/ SimCheck \/ SimSelect \/ SimWake \/ SimRecv \/ SimSend

-----------------------------------------------------------------------------
(* Properties.                                                             *)

\* When stop() has returned no thread runs, whichever of its reads of the socket
\* the close met, and a request was left without an answer only by a stop.
StopIsClean ==
  /\ simCaller = "idle" /\ simSock = "none" => simPc \in {"none", "ended"}
  /\ simPc = "ended" /\ simTaken # Len(simOut) => simStop

\* A tester that reads the answers with the J1979 client finds just the PIDs
\* advertised that are answered when asked for, in all three ranges, and the
\* codes that the ECU was told to store.
AnswersAgree == \A i, j \in DOMAIN simOut :
  LET p == simOut[i][1]
      r == simOut[j][1]
      answer == <<simOut[i][2]>>
  IN  /\ p = <<3>> => ReadDtcs(answer, 3) = SimCodes
      /\ Len(p) = 2 /\ Len(r) = 2 /\ p[1] = 1 /\ r[1] = 1 /\ r[2] \in {0, \h20, \h40} /\ p[2] \in r[2] + 1 .. r[2] + 31 =>
           (ReadPid(answer, p[2]) # << >> <=> p[2] \in BitmapPids(r[2], Bitmap(<<simOut[j][2]>>, r[2])))
=============================================================================
