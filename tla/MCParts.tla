------------------------------ MODULE MCParts ------------------------------
(* The parts that keep little state, each explored by itself: job names the *)
(* one, and the others stay as they begin.                                  *)
EXTENDS DiagServices, SimEcu, Vin, SessionLog

VARIABLE job

MCData ==
  <<"did", FORD_DID_VIN>> :> <<32, 84, 50, 32, 0, 0>> @@ <<"did", 513>> :> <<7>> @@ <<"lid", 1>> :> <<5>> @@
  <<"mem", 258>> :> <<17>> @@ <<"mem", 259>> :> <<18>> @@
  <<"timings">> :> <<50, 5000>> @@ <<"block">> :> <<202>> @@ <<"option", \h87>> :> <<1, 2>> @@
  <<"seed", 1>> :> <<9, 9>> @@ <<"routine", 3>> :> <<4, 0>> @@
  <<"codes">> :> <<[code |-> <<"P", 0, 3, 0, 1>>, fault |-> 0, flags |-> {"testFailed", "confirmedDTC"}],
                  [code |-> <<"U", 3, 15, 10, 12>>, fault |-> 17, flags |-> {"pendingDTC"}]>>

MCUdsCalls ==
  {UdsReadId(FORD_DID_VIN), UdsReadId(513), UdsReadId(2), UdsReadMemory(258, 2, 4, 2),
   UdsReadMemory(65536, 1, 2, 1), UdsScaling(513), RequestSeed(1), SendKey(1, <<3, 4>>),
   SendKey(255, <<3>>), UdsClear(16777215), UdsClear(256), UdsDtcsByMask(255), UdsDtcsByMask(8),
   UdsSupportedDtcs, UdsWriteId(513, <<8, 0>>), UdsWriteMemory(258, <<33, 34>>, 4, 2),
   UdsWriteMemory(259, <<35>>, 2, 1), UdsTransfer(\h34, 258, 2, 4, 4), UdsTransfer(\h35, 259, 1, 2, 1),
   UdsTransferData(1, 258, <<51, 52>>), UdsTransferData(258, 258, <<53, 54>>), TransferExit(<< >>),
   UdsCommunication(3, 1, FALSE), UdsAuthentication(8, << >>), UdsPeriodic(1, <<9>>), UdsDefineId(1, <<242, 0>>),
   UdsIoControl(513, 3, <<1>>), UdsRoutine(1, 515, << >>), UdsFileTransfer(1, <<0, 1>>), UdsTiming(1, << >>),
   UdsSecured(<<1, 2>>), UdsOnEvent(0, <<2>>, TRUE), UdsLinkControl(1, <<5>>, TRUE), UdsDtcSetting(2, << >>, TRUE)}
  \cup UNION {{UdsSession(3, q), UdsReset(1, q), UdsTesterPresent(q)} : q \in BOOLEAN}

MCKwpCalls ==
  {GdsText(FORD_DID_VIN), GdsText(FORD_DID_CALIBRATION_LEVEL), GdsExtended, GdsDefault, KwpStopSession, KwpReset(1),
   KwpEcuId(\h87), KwpClear(65280), KwpClear(1), KwpDtcsByStatus(4, 65280),
   KwpStatusOfDtc(769), KwpStatusOfDtc(770), KwpReadLocal(1), KwpReadCommon(513), KwpReadMemory(258, 2),
   KwpReadMemory(258, 256), KwpTransfer(\h35, 259, 1), KwpDtcsByStatus(0, 65280), RequestSeed(1), SendKey(1, <<3, 4>>), KwpDefineLocal(1, <<2>>),
   KwpWriteCommon(513, <<8, 0>>), KwpWriteLocal(1, <<6, 6>>), KwpIoControl(1, 3, <<1>>), KwpRoutine(\h31, 3, << >>),
   KwpRoutine(\h33, 3, << >>), KwpTransfer(\h34, 258, 2), KwpTransferData(258, <<51, 52>>),
   TransferExit(<< >>), KwpTesterPresent(TRUE), KwpTesterPresent(FALSE)}

MCVins == {<<"1", "H", "G", "C", "M", "8", "2", "6", "3", "3", "A", "0", "0", "4", "3", "5", "2">>,
           <<"1", "H", "G", "C", "M", "8", "2", "H", "4", "X", "A", "0", "0", "4", "3", "5", "2">>,
           <<"1", "M", "8", "G", "D", "M", "9", "A", "X", "K", "P", "0", "4", "2", "7", "8", "8">>}
\* 49 CFR 565: the codes of 1980 to 2009, used again from 2010 on.
YearLetters == <<"A", "B", "C", "D", "E", "F", "G", "H", "J", "K", "L", "M", "N", "P", "R", "S", "T", "V", "W", "X",
                 "Y", "1", "2", "3", "4", "5", "6", "7", "8", "9">>
MCYearOf == [k \in {"digit", "letter"} \X ToSet(YearLetters) |->
  (IF k[1] = "digit" THEN 1979 ELSE 2009) + CHOOSE i \in 1 .. 30 : YearLetters[i] = k[2]]

MCSimCodes == <<<<"P", 0, 3, 0, 1>>, <<"P", 0, 4, 2, 0>>>>
MCSimVin == <<49, 72>>
MCSimRequests == {<<1, 0>>, <<1, 32>>, <<1, 12>>, <<1, 11>>, <<1, 36>>, <<3>>, <<1>>, <<9, 2>>, << >>}

Init ==
  /\ job \in {"services", "vin", "ecu", "log"}
  /\ VinInit /\ SimInit /\ SvcInit /\ LogInit
  /\ job # "services" => lang = "uds"
  /\ job # "vin" => stamped[10] = "3"

Next ==
  \/ job = "services" /\ SvcNext /\ UNCHANGED <<job, vinVars, simVars, logVars>>
  \/ job = "vin" /\ VinNext /\ UNCHANGED <<job, svcVars, simVars, logVars>>
  \/ job = "ecu" /\ SimNext /\ UNCHANGED <<job, svcVars, vinVars, logVars>>
  \/ job = "log" /\ LogNext /\ UNCHANGED <<job, svcVars, vinVars, simVars>>

Spec == Init /\ [][Next]_<<job, svcVars, vinVars, simVars, logVars>>
=============================================================================
