---------------------------- MODULE MCObdSession ---------------------------
(* ObdSession as TLC checks it: an ECU with a reply of two frames and PIDs  *)
(* in two ranges, and one with a single code and a PID in common.           *)
EXTENDS ObdSession

MCEcus == <<"ecm", "tcm">>
MCCanId == <<2024, 2025>>
MCPidData == <<5 :> <<90>> @@ 12 :> <<26, 248>> @@ 47 :> <<51>>, 5 :> <<68>> @@ 13 :> <<80>>>>
MCShows == <<5 :> <<50, 1>> @@ 12 :> <<6904, 4>> @@ 47 :> <<5100, 255>>, 5 :> <<28, 1>> @@ 13 :> <<80, 1>>>>
MCStored == <<<<<<3, 1>>, <<196, 32>>, <<17, 9>>>>, <<<<7, 0>>>>>>
MCOem == [s \in {"Ford"} |-> {<<"P", 0, 7, 0, 0>>}]
MCGeneric == {<<"P", 0, 3, 0, 1>>, <<"P", 0, 7, 0, 0>>}
SomeOps == {<<"read_pid", <<5>>>>, <<"read_pid", <<12>>>>, <<"stored_dtcs", << >>>>, <<"clear_dtcs", << >>>>, <<"live_data", << >>>>}
AllOps == SomeOps \cup {<<"supported_pids", << >>>>, <<"freeze_frame", <<12, 0>>>>,
  <<"permanent_dtcs", << >>>>, <<"monitor_test_results", <<1>>>>,
  <<"request_control", <<1>>>>, <<"vin", << >>>>, <<"cvn", << >>>>}

\* Its values are those of the formulas, as PidsGetTheirValues supposes.
ASSUME MCValuesMatch == ValuesMatch
=============================================================================
