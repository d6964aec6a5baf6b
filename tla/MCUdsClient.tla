---------------------------- MODULE MCUdsClient ----------------------------
(* UdsClient as TLC checks it.                                             *)
EXTENDS UdsClient, TLC

\* The client compares service identifiers and does nothing else with them.
SidSymmetry == Permutations(Sids)
=============================================================================
