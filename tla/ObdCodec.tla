------------------------------ MODULE ObdCodec ------------------------------
(***************************************************************************)
(* What the library stack makes of bytes: trouble codes (protocol/dtc.py), *)
(* the PID table (protocol/pids.py), the ten J1979 modes                   *)
(* (protocol/obd2.py) and the look-up of a code's text                     *)
(* (protocol/dtc_library.py).  A payload is a sequence of bytes; an answer *)
(* that the code may give as None is << >> or <<answer>>.                  *)
(***************************************************************************)
EXTENDS Selection

Drop(s, n) == SubSeq(s, n + 1, Len(s))
Chunks(s, n) == [k \in 1 .. Len(s) \div n |-> SubSeq(s, (k - 1) * n + 1, k * n)]

-----------------------------------------------------------------------------
(* Trouble codes: the letter and the four digits of the display code.      *)

Category == <<"P", "C", "B", "U">>

DecodeDtc(hi, lo) ==
  <<Category[hi \div 64 + 1], (hi \div 16) % 4, hi % 16, lo \div 16, lo % 16>>

\* encode_dtc, for a code whose first digit is 0 to 3 as in every real one.
EncodeDtc(code) ==
  LET cat == CHOOSE i \in 1 .. 4 : Category[i] = code[1]
  IN  <<(cat - 1) * 64 + code[2] * 16 + code[3], code[4] * 16 + code[5]>>

P0000 == <<"P", 0, 0, 0, 0>>

\* What a display code may say.
Codes == ToSet(Category) \X (0 .. 3) \X (0 .. 15) \X (0 .. 15) \X (0 .. 15)

\* The library's sheet for a make in lower case, "" without one.
MakeSheet(make) ==
  CASE make \in {"chevrolet", "chevy", "gm", "gmc", "cadillac", "buick"} -> "GM Chevrolet"
    [] make \in {"ford", "lincoln"} -> "Ford"
    [] make \in {"stellantis", "chrysler", "dodge", "jeep", "ram", "fiat"} -> "Stellantis"
    [] make \in {"toyota", "lexus"} -> "Toyota Lexus"
    [] make \in {"honda", "acura"} -> "Honda Acura"
    [] make \in {"nissan", "infiniti"} -> "Nissan Infiniti"
    [] make \in {"hyundai", "kia", "genesis"} -> "Hyundai Kia"
    [] make \in {"bmw", "mini"} -> "BMW"
    [] make \in {"mercedes", "mercedes-benz", "benz"} -> "Mercedes-Benz"
    [] make \in {"vw", "volkswagen", "audi"} -> "VW Audi"
    [] OTHER -> ""

\* The table an entry is taken from; "" for an undocumented code.  oem gives
\* each sheet's codes, generic the common ones.
Lookup(code, make, oem, generic) ==
  LET sheet == IF make \in DOMAIN oem THEN make ELSE MakeSheet(make)
  IN  IF sheet \in DOMAIN oem /\ code \in oem[sheet] THEN sheet
      ELSE IF code \in generic THEN "generic" ELSE ""

-----------------------------------------------------------------------------
(* PIDs of Mode 01.                                                        *)

TwoBytePids == {\h0C, \h10, \h14, \h1F, \h21, \h23, \h42, \h5E}
Pids == TwoBytePids \cup (\h04 .. \h0F) \cup {\h11, \h2F, \h33, \h46, \h5C, \h62}
PidBytes(pid) == IF pid \in TwoBytePids THEN 2 ELSE 1

\* The formulas of PIDS, as a numerator and a denominator.
PidValue(pid, d) ==
  LET A == d[1]
      W == IF Len(d) > 1 THEN 256 * d[1] + d[2] ELSE 0
  IN  CASE pid \in {\h04, \h11, \h2F} -> <<A * 100, 255>>
        [] pid \in {\h05, \h0F, \h46, \h5C} -> <<A - 40, 1>>
        [] pid \in \h06 .. \h09 -> <<A * 100 - 12800, 128>>
        [] pid = \h0A -> <<A * 3, 1>>
        [] pid \in {\h0B, \h0D, \h33} -> <<A, 1>>
        [] pid = \h0C -> <<W, 4>>
        [] pid = \h0E -> <<A - 128, 2>>
        [] pid = \h10 -> <<W, 100>>
        [] pid = \h14 -> <<A, 200>>
        [] pid \in {\h1F, \h21} -> <<W, 1>>
        [] pid = \h23 -> <<W * 10, 1>>
        [] pid = \h42 -> <<W, 1000>>
        [] pid = \h5E -> <<W, 20>>
        [] pid = \h62 -> <<A - 125, 1>>

DecodePid(pid, d) ==
  IF pid \notin Pids \/ Len(d) < PidBytes(pid) THEN << >> ELSE <<PidValue(pid, d)>>

-----------------------------------------------------------------------------
(* The J1979 modes.  An operation is a record of its name and arguments,   *)
(* and rs the payloads that the transport returned.                        *)

Modes == [currentData |-> 1, freezeFrame |-> 2, storedDtcs |-> 3, clearDtcs |-> 4,
          monitor |-> 6, pendingDtcs |-> 7, control |-> 8, vehicleInfo |-> 9,
          permanentDtcs |-> 10]

\* Mutation of Positive: any reply that is not negative will do.
PositiveOfAny(rs, sid) == Where(rs, LAMBDA d : Len(d) >= 1 /\ d[1] # \h7F)

Positive(rs, sid) == Where(rs, LAMBDA d : Len(d) >= 1 /\ d[1] = sid + \h40)

\* Mutation of Echoing: the PID echo is not compared.
EchoingAny(rs, sid, pid) == Where(Positive(rs, sid), LAMBDA d : Len(d) >= 2)

Echoing(rs, sid, pid) ==
  Where(Positive(rs, sid), LAMBDA d : Len(d) >= 2 /\ d[2] = pid)

FirstOf(answers) ==
  LET found == Where(answers, LAMBDA a : a # << >>)
  IN  IF found = << >> THEN << >> ELSE found[1]

ReadPid(rs, pid) ==
  LET ds == Echoing(rs, Modes.currentData, pid)
  IN  FirstOf([i \in DOMAIN ds |-> DecodePid(pid, Drop(ds[i], 2))])

\* One step of read_supported_pids: the bitmap of the first reply long enough.
Bitmap(rs, base) ==
  LET ds == Where(Echoing(rs, Modes.currentData, base), LAMBDA d : Len(d) >= 6)
  IN  IF ds = << >> THEN << >> ELSE SubSeq(ds[1], 3, 6)
BitmapPids(base, bitmap) ==
  {base + i + 1 : i \in {j \in 0 .. 31 : (bitmap[(j \div 8) + 1] \div 2^(7 - (j % 8))) % 2 = 1}}
WalksOn(base, bitmap) == bitmap # << >> /\ bitmap[4] % 2 = 1 /\ base + \h20 <= \hE0

FreezeFrame(rs, pid, frame) ==
  LET ds == Where(Echoing(rs, Modes.freezeFrame, pid), LAMBDA d : Len(d) >= 3 /\ d[3] = frame)
  IN  IF ds = << >> THEN << >> ELSE DecodePid(pid, Drop(ds[1], 3))

\* Mutation of ParseDtcPayload: the count is read as a number of bytes.
ParseDtcPayloadByBytes(d) ==
  IF Len(d) < 2 THEN << >>
  ELSE LET body == Drop(d, 2)
           n == IF d[2] \div 2 < Len(body) \div 2 THEN d[2] \div 2 ELSE Len(body) \div 2
           codes == [k \in 1 .. n |-> DecodeDtc(body[2 * k - 1], body[2 * k])]
       IN  Where(codes, LAMBDA c : c # P0000)

\* 4X, a count, and two bytes for each code; padding is dropped.
ParseDtcPayload(d) ==
  IF Len(d) < 2 THEN << >>
  ELSE LET body == Drop(d, 2)
           n == IF d[2] < Len(body) \div 2 THEN d[2] ELSE Len(body) \div 2
           codes == [k \in 1 .. n |-> DecodeDtc(body[2 * k - 1], body[2 * k])]
       IN  Where(codes, LAMBDA c : c # P0000)

ReadDtcs(rs, mode) ==
  LET ds == Positive(rs, mode)
  IN  FlattenSeq([i \in DOMAIN ds |-> ParseDtcPayload(ds[i])])

ClearDtcs(rs) == Positive(rs, Modes.clearDtcs) # << >>

\* Mode 06: records of nine bytes, of whatever monitor the reply is about.
MonitorResults(rs) ==
  LET ds == Positive(rs, Modes.monitor)
      record(b) == [obdmid |-> b[1], tid |-> b[2], unitScaling |-> b[3],
                    value |-> b[4] * 256 + b[5], min |-> b[6] * 256 + b[7],
                    max |-> b[8] * 256 + b[9]]
      records(d) == LET c == Chunks(Drop(d, 1), 9) IN [k \in DOMAIN c |-> record(c[k])]
  IN  FlattenSeq([i \in DOMAIN ds |-> records(ds[i])])

RequestControl(rs, tid) ==
  LET ds == Echoing(rs, Modes.control, tid)
  IN  IF ds = << >> THEN << >> ELSE <<Drop(ds[1], 2)>>

\* The printable characters of a Mode 09 reply, without blanks at the ends.
InfoString(rs, pid) ==
  LET ds == Echoing(rs, Modes.vehicleInfo, pid)
      text(d) == Where(Drop(d, 3), LAMBDA b : b \in \h20 .. \h7E)
      strip(t) == LET ink == {i \in DOMAIN t : t[i] # \h20}
                  IN  IF ink = {} THEN << >> ELSE SubSeq(t, Min(ink), Max(ink))
  IN  FirstOf([i \in DOMAIN ds |-> strip(text(ds[i]))])

ReadCvn(rs) ==
  LET ds == Where(Echoing(rs, Modes.vehicleInfo, 6), LAMBDA d : Len(d) >= 3)
  IN  IF ds = << >> THEN << >> ELSE Drop(ds[1], 3)
=============================================================================
