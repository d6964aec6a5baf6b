----------------------------- MODULE ElmFrames -----------------------------
(***************************************************************************)
(* What Elm327Transport makes of an adapter's output (_parse_elm_response  *)
(* and _reassemble_isotp in transport/elm327.py).  The output is a         *)
(* sequence of lines, and a line one of characters: hex digits by their    *)
(* value, the prompt, and any other character.                             *)
(***************************************************************************)
EXTENDS Selection

PROMPT == 16
OTHERTEXT == 17

\* A frame has a source of three digits and at least one whole byte; any other
\* line is passed over.
IsFrame(line) == Len(line) >= 4 /\ Len(line) % 2 = 1 /\ \A i \in DOMAIN line : line[i] < 16
FrameOf(line) ==
  [src |-> line[1] * 256 + line[2] * 16 + line[3],
   bytes |-> [i \in 1 .. (Len(line) - 3) \div 2 |-> line[2 * i + 2] * 16 + line[2 * i + 3]] \o << >>]
Frames(lines) ==
  LET ls == Where(lines, IsFrame) IN  [i \in DOMAIN ls |-> FrameOf(ls[i])] \o << >>

Pci(f) == f[1] \div 16

\* A first frame that was cut after its first byte: IndexError leaves request().
RaisesIndexError(fs) == Pci(fs[1]) = 1 /\ Len(fs[1]) = 1

\* Mutation of Reassemble: the data are not cut to the length announced.
ReassembleUncut(fs) ==
  LET f == fs[1]
      cfs == Where(Tail(fs), LAMBDA g : Pci(g) = 2)
  IN  CASE Pci(f) = 0 -> Tail(f)
        [] Pci(f) = 1 -> SubSeq(f, 3, Len(f)) \o FlattenSeq([i \in DOMAIN cfs |-> Tail(cfs[i])])
        [] OTHER -> f

\* The frames of one source, in the order they were printed.  Nothing looks at
\* the sequence numbers, and after a single frame the rest is dropped.
Reassemble(fs) ==
  LET f == fs[1]
      cfs == Where(Tail(fs), LAMBDA g : Pci(g) = 2)
      UpTo(s, n) == SubSeq(s, 1, IF n < Len(s) THEN n ELSE Len(s))
  IN  CASE Pci(f) = 0 -> UpTo(Tail(f), f[1] % 16)
        [] Pci(f) = 1 -> UpTo(SubSeq(f, 3, Len(f)) \o FlattenSeq([i \in DOMAIN cfs |-> Tail(cfs[i])]),
                              (f[1] % 16) * 256 + f[2])
        [] OTHER -> f

\* The frames of each source, sources in the order of their first frame.
BySource(fs) ==
  LET firsts == Where([i \in DOMAIN fs |-> i], LAMBDA i : \A j \in 1 .. i - 1 : fs[j].src # fs[i].src)
      own == [k \in DOMAIN firsts |-> Where(fs, LAMBDA f : f.src = fs[firsts[k]].src)] \o << >>
  IN  [k \in DOMAIN own |-> [n \in DOMAIN own[k] |-> own[k][n].bytes] \o << >>] \o << >>

ParseRaises(lines) ==
  LET by == BySource(Frames(lines)) IN \E k \in DOMAIN by : RaisesIndexError(by[k])
ParseElmResponse(lines) ==
  LET by == BySource(Frames(lines))
  IN  Where([k \in DOMAIN by |-> Reassemble(by[k])], LAMBDA d : d # << >>)

-----------------------------------------------------------------------------
(* The vehicle's side: ISO-TP segmentation and the adapter's printing.     *)

PadTo8(f) == f \o [i \in 1 .. 8 - Len(f) |-> 170]

\* The frames of a payload, each of eight bytes.
IsoTp(d) ==
  IF Len(d) <= 7 THEN <<PadTo8(<<Len(d)>> \o d)>>
  ELSE LET n == (Len(d) - 6 + 6) \div 7
       IN  <<<<16 + (Len(d) \div 256), Len(d) % 256>> \o SubSeq(d, 1, 6)>>
           \o [k \in 1 .. n |->
                 PadTo8(<<32 + (k % 16)>> \o SubSeq(d, 7 * k, IF 7 * k + 6 < Len(d) THEN 7 * k + 6 ELSE Len(d)))]

PrintFrame(src, f) ==
  [i \in 1 .. 2 * Len(f) + 3 |->
     IF i <= 3 THEN (src \div 16^(3 - i)) % 16
     ELSE IF i % 2 = 0 THEN f[(i - 2) \div 2] \div 16 ELSE f[(i - 3) \div 2] % 16] \o << >>

NoData == <<<<OTHERTEXT>>, <<PROMPT>>>>
=============================================================================
