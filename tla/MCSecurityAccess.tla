-------------------------- MODULE MCSecurityAccess --------------------------
(* SecurityAccess as TLC checks it: service 0x27 is the only one in use.   *)
EXTENDS SecurityAccess
=============================================================================
