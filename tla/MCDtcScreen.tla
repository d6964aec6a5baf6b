---------------------------- MODULE MCDtcScreen ----------------------------
(* DtcScreen as TLC checks it.                                             *)
EXTENDS DtcScreen
=============================================================================
