-------------------------------- MODULE Vin --------------------------------
(***************************************************************************)
(* The VIN decoder (protocol/vin.py).  A VIN is a sequence of characters,  *)
(* each a string of length one, stripped and in upper case already.  A     *)
(* manufacturer is known or not and a country is its block: their names    *)
(* are left out, and so are the texts of the errors.                       *)
(***************************************************************************)
EXTENDS Integers, Sequences, FiniteSets, TLC, SequencesExt

CONSTANTS
  RealVins,     \* VINs as manufacturers stamp them
  Typos,        \* characters that a slip of the finger may enter
  YearOf        \* model year of characters 7 ("digit", "letter") and 10

VARIABLES
  typed,        \* the VIN given to decode_vin
  stamped       \* history: the VIN it was meant to be

vinVars == <<typed, stamped>>

VIN_LENGTH == 17
ILLEGAL_LETTERS == {"I", "O", "Q"}

\* The characters in the order of _char_ord: letters before digits.
Letters == <<"A", "B", "C", "D", "E", "F", "G", "H", "I", "J", "K", "L", "M",
             "N", "O", "P", "Q", "R", "S", "T", "U", "V", "W", "X", "Y", "Z">>
Digits == <<"0", "1", "2", "3", "4", "5", "6", "7", "8", "9">>
Alphabet == ToSet(Letters \o Digits)
CharOrd == [c \in Alphabet |-> CHOOSE i \in 1 .. 36 : (Letters \o Digits)[i] = c]

\* The value of the code table at c, and -1 for a character it lacks.
Transliteration == [c \in Alphabet |->
  IF c \in ILLEGAL_LETTERS THEN -1
  ELSE <<1, 2, 3, 4, 5, 6, 7, 8, -1, 1, 2, 3, 4, 5, -1, 7, -1, 9, 2, 3, 4, 5, 6, 7, 8, 9,
         0, 1, 2, 3, 4, 5, 6, 7, 8, 9>>[CharOrd[c]]]

\* Mutation of CheckWeights: the weights of a VIN whose check digit is char 8.
CheckWeightsShifted == <<8, 7, 6, 5, 4, 3, 2, 0, 10, 9, 8, 7, 6, 5, 4, 3, 2>>

CheckWeights == <<8, 7, 6, 5, 4, 3, 2, 10, 0, 9, 8, 7, 6, 5, 4, 3, 2>>

YearCodes == SelectSeq(Letters, LAMBDA c : c \notin {"I", "O", "Q", "U", "Z"}) \o Tail(Digits)

\* The WMIs with a manufacturer.
WmiManufacturer == {
  "19U", "19V", "19X", "1B3", "1BA", "1C3", "1C4", "1C6", "1C7", "1D4", "1D7",
  "1FA", "1FB", "1FC", "1FD", "1FM", "1FT", "1FU", "1FV", "1G1", "1G2", "1G4",
  "1G6", "1G8", "1GB", "1GC", "1GD", "1GK", "1GN", "1GT", "1GY", "1HF", "1HG",
  "1HT", "1J4", "1J8", "1LN", "1M1", "1M2", "1ME", "1N4", "1N6", "1NK", "1NP",
  "1VW", "1XK", "1XP", "1YV", "2B3", "2C3", "2D4", "2FA", "2FM", "2FT", "2G1",
  "2HG", "2HH", "2HK", "2HS", "2NP", "2T1", "2T2", "3AK", "3C3", "3C4", "3C6",
  "3D7", "3FA", "3FE", "3G1", "3GN", "3HA", "3HG", "3KP", "3MV", "3MZ", "3N1",
  "3N6", "3VW", "4A3", "4A4", "4F2", "4F4", "4JG", "4M2", "4NG", "4NU", "4S3",
  "4S4", "4S6", "4T1", "4T3", "4T4", "4US", "4UZ", "4V2", "4V4", "55S", "5BB",
  "5FN", "5FP", "5GA", "5J6", "5KB", "5KK", "5LM", "5N1", "5N3", "5NM", "5NP",
  "5TB", "5TD", "5TE", "5TF", "5UM", "5UX", "5XX", "5XY", "5YJ", "6AB", "6FP",
  "6G1", "6G2", "6H8", "6MM", "6MP", "6T1", "7A3", "7G2", "7JR", "7SA", "8A1",
  "8AD", "8AF", "8AG", "8AK", "8AP", "8AW", "936", "93H", "93U", "93X", "93Y",
  "9BD", "9BF", "9BG", "9BM", "9BR", "9BW", "AAV", "JA3", "JA4", "JA7", "JAA",
  "JAB", "JAL", "JDA", "JF1", "JF2", "JF3", "JG1", "JH4", "JHB", "JHG", "JHL",
  "JHM", "JKA", "JKB", "JM1", "JM3", "JM6", "JM7", "JMZ", "JN1", "JN6", "JN8",
  "JNK", "JNR", "JNX", "JS1", "JS2", "JS3", "JT2", "JT3", "JT4", "JTD", "JTE",
  "JTF", "JTG", "JTH", "JTJ", "JTK", "JTL", "JTM", "JTN", "JYA", "KL1", "KL3",
  "KL5", "KLA", "KLY", "KMF", "KMH", "KMJ", "KMT", "KNA", "KNB", "KND", "KNE",
  "KNM", "KPA", "KPT", "L6T", "LB2", "LDC", "LFA", "LFB", "LFM", "LFN", "LFV",
  "LGB", "LGH", "LGW", "LGX", "LJD", "LNB", "LRB", "LRW", "LSG", "LSV", "LSY",
  "LVR", "LVS", "LVV", "LVY", "LYV", "LZG", "LZW", "MA1", "MA3", "MA6", "MAB",
  "MAC", "MAJ", "MAK", "MAL", "MAT", "MB1", "MBH", "ME4", "ML0", "MMB", "MMT",
  "MR0", "NLH", "NM0", "NM4", "NMT", "SAD", "SAJ", "SAL", "SAR", "SB1", "SCA",
  "SCB", "SCC", "SCE", "SCF", "SCG", "SED", "SHH", "SHS", "TMA", "TMB", "TMP",
  "TRU", "TSM", "U5Y", "UU1", "UU6", "VF1", "VF2", "VF3", "VF6", "VF7", "VNV",
  "VR1", "VS7", "VSK", "VSS", "W0L", "W0V", "W1K", "W1N", "W1V", "WA1", "WAU",
  "WB1", "WB4", "WBA", "WBS", "WBX", "WBY", "WDA", "WDB", "WDC", "WDD", "WDF",
  "WF0", "WF1", "WJM", "WMA", "WME", "WMW", "WMX", "WP0", "WP1", "WP2", "WUA",
  "WV1", "WV2", "WVG", "WVW", "X4X", "XLE", "XP7", "XTA", "XW7", "XW8", "Y6D",
  "YB1", "YS3", "YS4", "YV1", "YV2", "YV4", "YV5", "Z94", "ZA9", "ZAA", "ZAM",
  "ZAP", "ZAR", "ZCF", "ZFA", "ZFC", "ZFF", "ZGU", "ZHW", "ZLA"}

\* Per first character, the blocks of second characters, as pairs of bounds.
Country2Char ==
  "A" :> <<"A", "H", "J", "N", "P", "0">> @@
  "B" :> <<"A", "E", "F", "K", "L", "R">> @@
  "C" :> <<"A", "E", "F", "K", "L", "R">> @@
  "D" :> <<"A", "E", "F", "K", "L", "R">> @@ "E" :> <<"A", "E", "F", "K">> @@
  "F" :> <<"A", "E", "F", "K">> @@ "J" :> <<"A", "0">> @@
  "K" :> <<"A", "E", "F", "K", "L", "R", "S", "0">> @@ "L" :> <<"A", "0">> @@
  "M" :> <<"A", "E", "F", "K", "L", "R", "S", "0">> @@
  "N" :> <<"A", "E", "F", "K", "L", "R">> @@
  "P" :> <<"A", "E", "F", "K", "L", "R">> @@
  "R" :> <<"A", "E", "F", "K", "L", "R", "S", "0">> @@
  "S" :> <<"A", "M", "N", "T", "U", "Z">> @@
  "T" :> <<"A", "H", "J", "P", "R", "V", "W", "1">> @@
  "U" :> <<"H", "M", "N", "T", "U", "Z", "5", "7">> @@
  "V" :> <<"A", "E", "F", "R", "S", "W", "X", "2", "3", "5", "6", "0">> @@
  "W" :> <<"A", "0">> @@
  "X" :> <<"A", "E", "F", "K", "L", "R", "S", "W", "X", "2", "3", "0">> @@
  "Y" :> <<"A", "E", "F", "K", "L", "R", "S", "W", "X", "2", "3", "0">> @@
  "Z" :> <<"A", "R", "X", "2", "3", "5", "6", "0">> @@ "1" :> <<"A", "0">> @@
  "2" :> <<"A", "0">> @@ "3" :> <<"A", "W", "X", "7", "8", "0">> @@
  "4" :> <<"A", "0">> @@ "5" :> <<"A", "0">> @@ "6" :> <<"A", "W">> @@
  "7" :> <<"A", "E">> @@
  "8" :> <<"A", "E", "F", "K", "L", "R", "S", "W", "X", "2">> @@
  "9" :> <<"A", "E", "F", "K", "L", "R", "S", "W", "X", "2", "3", "9">>

Region1Char == [c \in Alphabet \ ILLEGAL_LETTERS |->
  CASE CharOrd[c] \in CharOrd["A"] .. CharOrd["H"] -> "Africa"
    [] CharOrd[c] \in CharOrd["J"] .. CharOrd["R"] -> "Asia"
    [] CharOrd[c] \in CharOrd["S"] .. CharOrd["Z"] -> "Europe"
    [] CharOrd[c] \in CharOrd["1"] .. CharOrd["5"] -> "North America"
    [] c \in {"6", "7"} -> "Oceania"
    [] c \in {"8", "9", "0"} -> "South America"]

-----------------------------------------------------------------------------
InRange(c, first, last) == CharOrd[first] <= CharOrd[c] /\ CharOrd[c] <= CharOrd[last]

BlocksOf(c) == IF c \in DOMAIN Country2Char THEN Country2Char[c] ELSE << >>

\* The block of prefix c d (the index of its first bound), and 0 for none.
Country(c, d) ==
  LET hits == {k \in 1 .. Len(BlocksOf(c)) :
                 k % 2 = 1 /\ InRange(d, BlocksOf(c)[k], BlocksOf(c)[k + 1])}
  IN  IF hits = {} THEN 0 ELSE Min(hits)

\* The block U5 to U7 is the only one outside the region of its first character.
Region(c, d) ==
  IF c = "U" /\ Country(c, d) = 7 THEN "Asia"
  ELSE IF c \in DOMAIN Region1Char THEN Region1Char[c] ELSE "none"

\* compute_check_digit: 10 is written X, and "" stands for None.
ComputeCheckDigit(vin) ==
  IF Len(vin) # VIN_LENGTH \/ \E i \in 1 .. Len(vin) : Transliteration[vin[i]] = -1 THEN ""
  ELSE LET total == SumFunction([i \in 1 .. 17 |-> Transliteration[vin[i]] * CheckWeights[i]])
       IN  IF total % 11 = 10 THEN "X" ELSE Digits[(total % 11) + 1]

\* Mutation of ModelYear: the era is read off the check digit.
ModelYearOfCheckDigit(vin) ==
  LET at == {i \in 1 .. 30 : YearCodes[i] = vin[10]}
  IN  IF at = {} THEN 0
      ELSE (IF vin[9] \in ToSet(Digits) THEN 1980 ELSE 2010) + Min(at) - 1

\* _resolve_model_year; 0 stands for None.
ModelYear(vin) ==
  LET at == {i \in 1 .. 30 : YearCodes[i] = vin[10]}
  IN  IF at = {} THEN 0
      ELSE (IF vin[7] \in ToSet(Digits) THEN 1980 ELSE 2010) + Min(at) - 1

\* decode_vin.  A VIN of another length is looked up by its first characters.
DecodeVin(vin) ==
  LET whole == Len(vin) = VIN_LENGTH
      wmi == IF Len(vin) >= 3 THEN vin[1] \o vin[2] \o vin[3] ELSE ""
      check == ComputeCheckDigit(vin)
      year == IF whole THEN ModelYear(vin) ELSE 0
  IN  [wmi |-> wmi,
       known |-> wmi \in WmiManufacturer,
       region |-> IF wmi = "" THEN "none" ELSE Region(vin[1], vin[2]),
       country |-> IF wmi = "" THEN 0 ELSE Country(vin[1], vin[2]),
       year |-> year,
       validCheckDigit |-> whole /\ check # "" /\ check = vin[9],
       errors |-> IF ~whole THEN {"length"} ELSE
         {e \in {"illegal", "unknown", "check", "year"} :
            CASE e = "illegal" -> ToSet(vin) \cap ILLEGAL_LETTERS # {}
              [] e = "unknown" -> wmi \notin WmiManufacturer
              [] e = "check" -> check = "" \/ check # vin[9]
              [] e = "year" -> year = 0}]

-----------------------------------------------------------------------------
(* A VIN is read off a car and typed in, with at most one slip.            *)

\* Manufacturers stamp seventeen characters.
ASSUME VinsAssumption ==
  Typos \subseteq Alphabet /\ \A v \in RealVins : v \in Seq(Alphabet) /\ Len(v) = VIN_LENGTH

VinInit == stamped \in RealVins /\ typed = stamped

Mistype(i, c) ==
  /\ typed = stamped
  /\ typed' = [typed EXCEPT ![i] = c]
  /\ UNCHANGED stamped

Swapped(v, i) == [v EXCEPT ![i] = v[i + 1], ![i + 1] = v[i]]

SwapNeighbours(i) ==
  /\ typed = stamped
  /\ typed' = Swapped(typed, i)
  /\ UNCHANGED stamped

Omit(i) ==
  /\ typed = stamped
  /\ typed' = RemoveAt(typed, i)
  /\ UNCHANGED stamped

VinNext ==
  \/ \E i \in 1 .. 17, c \in Typos : Mistype(i, c)
  \/ \E i \in 1 .. 16 : SwapNeighbours(i)
  \/ \E i \in 1 .. 17 : Omit(i)

-----------------------------------------------------------------------------
(* Properties.                                                             *)

\* The stamped check digits are right by the tables of the code.
StampedRight == \A v \in RealVins : DecodeVin(v).validCheckDigit

\* compute_check_digit and decode_vin (vin.py:42, :437-443, :522) tell a stamped
\* VIN from one with a single slip, one wrong character, two neighbours swapped or
\* one left out, but for three kinds of slip: a character of the same value, like
\* A for J, outside place 9; the check digit swapped with a digit before it, at
\* which the weight of ten is minus one; and swapped with the year code after it
\* when the two are 4 and X.
SameValues == /\ Len(typed) = Len(stamped)
              /\ typed[9] = stamped[9]
              /\ \A i \in 1 .. Len(typed) : Transliteration[typed[i]] = Transliteration[stamped[i]]
DigitsSwapped == typed = Swapped(stamped, 8) /\ {stamped[8], stamped[9]} \subseteq ToSet(Digits)
FourAndXSwapped == typed = Swapped(stamped, 9) /\ {stamped[9], stamped[10]} = {"4", "X"}
SlipsShow == DecodeVin(typed).validCheckDigit <=> SameValues \/ DigitsSwapped \/ FourAndXSwapped

\* The model year is the one of characters 7 and 10, whatever was mistyped
\* elsewhere: a code is used again after thirty years, and character 7 tells
\* the two apart.
YearsApart == Len(typed) = VIN_LENGTH =>
  LET key == <<IF typed[7] \in ToSet(Digits) THEN "digit" ELSE "letter", typed[10]>>
  IN  DecodeVin(typed).year = IF key \in DOMAIN YearOf THEN YearOf[key] ELSE 0
=============================================================================
