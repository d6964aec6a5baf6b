----------------------------- MODULE Selection -----------------------------
(***************************************************************************)
(* The filters of the library stack: [x for x in s if ...], and loops that *)
(* skip what they do not want.                                             *)
(*                                                                         *)
(* Where(s, Test) is SelectSeq(s, Test) of the standard module, written as *)
(* a recursive function: SelectSeq has no definition that the proof system *)
(* could expand.                                                           *)
(***************************************************************************)
EXTENDS Integers, Sequences, SequencesExt

\* The elements of s that are in S, in their order.
Select(s, S) ==
  LET upTo[n \in 0 .. Len(s)] ==
        IF n = 0 THEN << >>
        ELSE IF s[n] \in S THEN Append(upTo[n - 1], s[n]) ELSE upTo[n - 1]
  IN  upTo[Len(s)]

\* Those that pass a test.
Where(s, Test(_)) == Select(s, {x \in ToSet(s) : Test(x)})
=============================================================================
