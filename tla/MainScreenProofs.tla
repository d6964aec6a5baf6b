-------------------------- MODULE MainScreenProofs --------------------------
(***************************************************************************)
(* Proofs about MainScreen and LiveData, for every number of screens,      *)
(* threads, set up commands and late replies: the live screen shows each   *)
(* value under its own name, the buttons lead to what they promise, and a  *)
(* screen on which nothing happens does not look busy.                     *)
(***************************************************************************)
EXTENDS MainScreen, FiniteSetTheorems, SequenceTheorems, TLAPS

-----------------------------------------------------------------------------
(* The fetches.                                                            *)

\* The names of the values, and what a fetch may read.
LabelSet == {Labels[i] : i \in DOMAIN Labels}
Replies == LabelSet \cup {"ok", "bits", "torn", None}

\* The fetches' variables have their types.
LiveTypeOK ==
  /\ bound \in BOOLEAN
  /\ DOMAIN pc = Runs
  /\ step \in [Runs -> 0 .. Len(Script)]
  /\ \A r \in Runs : pc[r] \in {"write", "read"} => step[r] # 0
  /\ supports \in [Runs -> BOOLEAN]
  /\ data \in [Runs -> [LabelSet -> Replies]]
  /\ inq \in Seq(Replies) /\ slow \in Seq(Replies)
  /\ disturbed \subseteq Runs /\ mixed \subseteq disturbed /\ torn \subseteq disturbed

\* A fetch that nothing has disturbed is alone on the device, and the queue
\* holds the reply to what it asked last and nothing else.
QuietFetch(r) ==
  r \in Runs \ disturbed =>
    /\ Fetching(r) => \A q \in Runs \ {r} : ~Fetching(q)
    /\ pc[r] \in {"write", "read"} => slow = << >>
    /\ pc[r] = "write" => inq = << >>
    /\ pc[r] = "read" => inq = <<Script[step[r]]>>

\* What a fetch has read stands under its own name, but for a fetch that read a
\* torn reply, and the temperatures of one that was disturbed.
OwnValues(r) == \A l \in LabelSet :
  (l \notin Temperatures /\ r \notin torn) \/ r \notin disturbed => data[r][l] \in {l, None}

\* The fetches' invariant.
FetchInv == LiveTypeOK /\ \A r \in Runs : QuietFetch(r) /\ OwnValues(r)

-----------------------------------------------------------------------------
(* The runs and what they post.                                            *)

\* Callbacks, kinds of runs, and the places of a thread that fetches.
Posts == [run : Runs, what : {"report", "reportDone"}]
Kinds == {"scan", "bind", "live"}
Reading == {"open", "flush", "write", "read", "close"}

\* The runs have their types, are numbered in order and are where their kind is.
RunTypeOK ==
  /\ gen \in Nat /\ labelGen \in 0 .. gen
  /\ runs \in 0 .. Cardinality(Runs)
  /\ run \in [Runs -> [kind : Kinds, gen : 0 .. gen, result : {"open", "yes", "no"}]]
  /\ \A r \in Runs : pc[r] = "new" <=> r > runs
  /\ \A r \in Runs : pc[r] = "scan" => run[r].kind = "scan"
  /\ \A r \in Runs : pc[r] \in {"release", "bind"} => run[r].kind = "bind"
  /\ \A r \in Runs : pc[r] \in Reading => run[r].kind = "live"
  /\ overlapped \in BOOLEAN
  /\ shown \in Runs \cup {0}
  /\ tkq \in Seq(Posts)

\* A callback is queued by a run that has got that far, and on_done follows.
PostsInv ==
  /\ \A k \in 1 .. Len(tkq) :
       /\ pc[tkq[k].run] \in {"reportDone", "over"}
       /\ tkq[k].what = "reportDone" => pc[tkq[k].run] = "over"
       /\ tkq[k].what = "report" /\ pc[tkq[k].run] = "over" =>
            \E j \in 1 .. Len(tkq) : tkq[j] = [run |-> tkq[k].run, what |-> "reportDone"]
  /\ \A j, k \in 1 .. Len(tkq) :
       tkq[j].run = tkq[k].run /\ j < k => tkq[j].what = "report" /\ tkq[k].what = "reportDone"

\* The invariant of the runs.
RunInv == FetchInv /\ RunTypeOK /\ PostsInv

\* The result of run r has not been called.
Due(r) == \E k \in 1 .. Len(tkq) : tkq[k] = [run |-> r, what |-> "report"]
ReportDue(r) == pc[r] = "report" \/ Due(r)

-----------------------------------------------------------------------------
(* The screens.                                                            *)


\* What windows there are.
Kept == {"codes", "noCodes", "cleared"}
Whats == {"found", "noDevice", "password", "box", "brandCodes"} \cup Kept
Windows == [what : Whats, answer : {"open", "yes", "no"}, grab : {"has", "saved", "no"},
            brand : Makes \cup {None}, menu : Nat]

\* The window of a simulated brand is of a menu there has been: of the one that is
\* shown, if it is of its brand.
Fits(w) == w.what \in Kept =>
  w.brand \in Makes /\ w.menu <= gen /\ (w.menu = gen /\ InMake => w.brand = make)

\* The screens' variables have their types.
ScreenTypeOK ==
  /\ modals \in Seq(Windows) /\ \A k \in DOMAIN modals : Fits(modals[k])
  /\ mac \in BOOLEAN
  /\ memory \in [Makes -> {"unasked", "codes", "none"}]
  /\ InMake => make \in Makes /\ picker < gen
  /\ picker \in Nat /\ picker <= gen
  /\ clearable \in BOOLEAN /\ crossed \in BOOLEAN

\* The screens that a bound adapter leads to.
Menus == {"diag", "live", "brand", "actions", "dtc"}

\* A device found has been stored, all the way to the button.
FoundInv ==
  /\ \A r \in Runs : run[r].kind = "scan" /\ run[r].result = "yes" => mac
  /\ Waits("found") => mac
  /\ "connect" \in buttons => mac

\* Without an overlap one bind is in flight, and none is left when the menu is
\* shown; a bind that reports success has the device bound.
BindInv == ~overlapped =>
  /\ \A q, r \in Runs :
       run[q].kind = "bind" /\ run[r].kind = "bind" /\ InFlight(q) /\ InFlight(r) => q = r
  /\ \A r \in Runs : run[r].kind = "bind" /\ run[r].result = "yes" /\ ReportDue(r) => bound
  /\ screen \in Menus => bound /\ \A r \in Runs : pc[r] \notin {"release", "bind"}

\* The Clear button of a brand is right, unless a clear has just been reported, or
\* one of another menu was.
ClearInv == InMake /\ ~crossed /\ ~Waits("cleared") => (clearable <=> memory[make] = "codes")

\* The invariant of what the screens offer.
WordInv == RunInv /\ ScreenTypeOK /\ FoundInv /\ BindInv /\ ClearInv

\* The password is asked for once.
Alone(m) ==
  \A i, j \in DOMAIN m : m[i].what = "password" /\ m[j].what = "password" => i = j

\* With a patient user what ticks is the newest spinner, of a run in flight, and
\* nothing ticks while the password is asked for.
TickInv == patient =>
  /\ \A r \in Runs : Ticks(r) => r = spinner /\ InFlight(r)
  /\ Alone(modals)
  /\ Waits("password") => \A r \in Runs : ~Ticks(r)

\* Somebody will enable the scan button.
ScanInv ==
  /\ "scan" \in buttons => screen = "main"
  /\ "scan" \in buttons =>
       \/ scanOn \/ dismissed \/ Waits("found") \/ Waits("noDevice")
       \/ \E r \in Runs : run[r].kind = "scan" /\ (pc[r] = "scan" \/ ReportDue(r))

\* The invariant of what looks busy.
BusyInv == TickInv /\ ScanInv

-----------------------------------------------------------------------------
(* Sequences.                                                              *)

\* Appending keeps what is there, and taking the head shifts it.
LEMMA AppendElements ==
  ASSUME NEW S, NEW q \in Seq(S), NEW e \in S
  PROVE  /\ Append(q, e) \in Seq(S)
         /\ Len(q) \in Nat /\ Len(Append(q, e)) = Len(q) + 1
         /\ Append(q, e)[Len(q) + 1] = e
         /\ \A k \in 1 .. Len(q) : Append(q, e)[k] = q[k]
OBVIOUS

\* The empty sequence is a sequence over any set.
LEMMA EmptyIsSeq == \A S : << >> \in Seq(S)
OBVIOUS

\* What the first element and the rest of a sequence are.
LEMMA TailElements ==
  ASSUME NEW S, NEW q \in Seq(S), q # << >>
  PROVE  /\ Head(q) \in S /\ Head(q) = q[1]
         /\ Tail(q) \in Seq(S)
         /\ Len(q) \in Nat /\ Len(q) >= 1
         /\ Len(Tail(q)) = Len(q) - 1
         /\ \A k \in 1 .. Len(Tail(q)) : Tail(q)[k] = q[k + 1]
OBVIOUS

\* A queue of one element.
LEMMA Single ==
  ASSUME NEW e
  PROVE  Append(<< >>, e) = <<e>> /\ <<e>> # << >> /\ Head(<<e>>) = e /\ Tail(<<e>>) = << >>
OBVIOUS

\* A sequence with one element taken out.
LEMMA RemoveElements ==
  ASSUME NEW S, NEW q \in Seq(S), NEW k \in 1 .. Len(q)
  PROVE  /\ RemoveAt(q, k) \in Seq(S)
         /\ Len(q) \in Nat /\ Len(RemoveAt(q, k)) = Len(q) - 1
         /\ \A j \in 1 .. Len(q) - 1 : RemoveAt(q, k)[j] = q[IF j < k THEN j ELSE j + 1]
<1> DEFINE n == Len(q)
           a == SubSeq(q, 1, k - 1)
           b == SubSeq(q, k + 1, n)
<1>1. n \in Nat /\ k \in Nat /\ 1 <= k /\ k <= n /\ \A i \in 1 .. n : q[i] \in S
  OBVIOUS
<1>2. /\ a \in Seq(S) /\ Len(a) = k - 1
      /\ \A j \in 1 .. k - 1 : a[j] = q[j]
  <2>1. /\ 1 \in Int /\ k - 1 \in Int /\ \A i \in 1 .. k - 1 : q[i] \in S
        /\ (IF 1 <= k - 1 THEN k - 1 - 1 + 1 ELSE 0) = k - 1
        /\ \A j \in 1 .. k - 1 : j \in 1 .. k - 1 - 1 + 1 /\ 1 + j - 1 = j
    BY <1>1
  <2>2. PICK m : m = k - 1
    OBVIOUS
  <2>3. /\ SubSeq(q, 1, m) \in Seq(S)
        /\ Len(SubSeq(q, 1, m)) = IF 1 <= m THEN m - 1 + 1 ELSE 0
        /\ \A i \in 1 .. m - 1 + 1 : SubSeq(q, 1, m)[i] = q[1 + i - 1]
    <3>1. m \in Int /\ \A i \in 1 .. m : q[i] \in S
      BY <2>1, <2>2
    <3>2. QED
      BY <3>1, SubSeqProperties
  <2>4. QED
    BY <2>1, <2>2, <2>3
<1>3. /\ b \in Seq(S) /\ Len(b) = n - k
      /\ \A j \in 1 .. n - k : b[j] = q[k + j]
  <2>1. /\ k + 1 \in Int /\ n \in Int /\ \A i \in k + 1 .. n : q[i] \in S
        /\ (IF k + 1 <= n THEN n - (k + 1) + 1 ELSE 0) = n - k
        /\ \A j \in 1 .. n - k : j \in 1 .. n - (k + 1) + 1 /\ (k + 1) + j - 1 = k + j
    BY <1>1
  <2>2. PICK m : m = k + 1
    OBVIOUS
  <2>3. /\ SubSeq(q, m, n) \in Seq(S)
        /\ Len(SubSeq(q, m, n)) = IF m <= n THEN n - m + 1 ELSE 0
        /\ \A i \in 1 .. n - m + 1 : SubSeq(q, m, n)[i] = q[m + i - 1]
    <3>1. m \in Int /\ \A i \in m .. n : q[i] \in S
      BY <2>1, <2>2
    <3>2. QED
      BY <2>1, <3>1, SubSeqProperties
  <2>4. QED
    BY <2>1, <2>2, <2>3
<1> HIDE DEF n, a, b
<1>4. /\ a \o b \in Seq(S) /\ Len(a \o b) = n - 1
      /\ \A j \in 1 .. n - 1 : (a \o b)[j] = IF j < k THEN a[j] ELSE b[j - (k - 1)]
  <2>1. /\ a \o b \in Seq(S) /\ Len(a \o b) = Len(a) + Len(b)
        /\ \A j \in 1 .. Len(a) + Len(b) : (a \o b)[j] = IF j <= Len(a) THEN a[j] ELSE b[j - Len(a)]
    <3>1. a \in Seq(S) /\ b \in Seq(S)
      BY <1>2, <1>3
    <3>2. QED
      BY <3>1, ConcatProperties
  <2>2. Len(a) + Len(b) = n - 1 /\ \A j \in 1 .. n - 1 : (j <= Len(a)) <=> (j < k)
    BY <1>1, <1>2, <1>3
  <2>3. QED
    BY <1>2, <1>3, <2>1, <2>2
<1>5. \A j \in 1 .. n - 1 : (a \o b)[j] = q[IF j < k THEN j ELSE j + 1]
  <2> SUFFICES ASSUME NEW j \in 1 .. n - 1 PROVE (a \o b)[j] = q[IF j < k THEN j ELSE j + 1]
    OBVIOUS
  <2>1. CASE j < k
    <3>1. j \in 1 .. k - 1
      BY <1>1, <2>1
    <3>2. QED
      BY <1>2, <1>4, <2>1, <3>1
  <2>2. CASE ~(j < k)
    <3>1. j - (k - 1) \in 1 .. n - k /\ k + (j - (k - 1)) = j + 1
      BY <1>1, <2>2
    <3>2. QED
      BY <1>3, <1>4, <2>2, <3>1
  <2>3. QED
    BY <2>1, <2>2
<1>6. QED
  BY <1>1, <1>4, <1>5 DEF RemoveAt, n, a, b

-----------------------------------------------------------------------------
(* A fetch.                                                                *)

\* The requests of a fetch: set up, the list of PIDs, and the data points.
LEMMA ScriptShape ==
  /\ Len(Script) \in Nat /\ Len(Script) >= 1
  /\ \A i \in 1 .. Len(Script) : Script[i] \in Replies
  /\ \A i \in 1 .. Len(Script) : i > InitCmds + 1 => Script[i] \in LabelSet
  /\ \A i \in 1 .. Len(Script) : Script[i] # "torn"
<1> DEFINE setUp == [i \in 1 .. InitCmds |-> "ok"]
           head == setUp \o <<"bits">>
<1>1. setUp \in Seq({"ok"}) /\ Len(setUp) = InitCmds
  BY LiveAssumption
<1>2. /\ head \in Seq({"ok", "bits"}) /\ Len(head) = InitCmds + 1
      /\ \A i \in 1 .. Len(head) : head[i] \in {"ok", "bits"}
  BY <1>1, LiveAssumption
<1>3. Labels \in Seq(LabelSet) /\ Len(Labels) \in Nat /\ DOMAIN Labels = 1 .. Len(Labels)
  BY LiveAssumption DEF LabelSet
<1> HIDE DEF head
<1>4. /\ Len(head \o Labels) = Len(head) + Len(Labels)
      /\ \A i \in 1 .. Len(head) : (head \o Labels)[i] = head[i]
      /\ \A i \in Len(head) + 1 .. Len(head) + Len(Labels) : (head \o Labels)[i] = Labels[i - Len(head)]
  BY <1>2, <1>3
<1>5. Script = head \o Labels
  BY DEF Script, head
<1>6. \A i \in 1 .. Len(Script) : i > InitCmds + 1 => Script[i] \in LabelSet
  <2> SUFFICES ASSUME NEW i \in 1 .. Len(Script), i > InitCmds + 1 PROVE Script[i] \in LabelSet
    OBVIOUS
  <2>1. i \in Len(head) + 1 .. Len(head) + Len(Labels) /\ i - Len(head) \in 1 .. Len(Labels)
    BY <1>2, <1>3, <1>4, <1>5, LiveAssumption
  <2>2. Labels[i - Len(head)] \in LabelSet
    BY <1>3, <2>1
  <2>3. QED
    BY <1>4, <1>5, <2>1, <2>2
<1>7. \A i \in 1 .. Len(Script) : ~(i > InitCmds + 1) => Script[i] \in {"ok", "bits"}
  <2> SUFFICES ASSUME NEW i \in 1 .. Len(Script), ~(i > InitCmds + 1) PROVE Script[i] \in {"ok", "bits"}
    OBVIOUS
  <2>1. i \in 1 .. Len(head)
    BY <1>2, <1>3, <1>4, <1>5, LiveAssumption
  <2>2. QED
    BY <1>2, <1>4, <1>5, <2>1
<1>8. Len(Script) \in Nat /\ Len(Script) >= 1
  BY <1>2, <1>3, <1>4, <1>5, LiveAssumption
<1>9. \A l \in LabelSet : l # "torn"
  BY LiveAssumption DEF LabelSet
<1>10. QED
  BY <1>6, <1>7, <1>8, <1>9 DEF Replies

\* A fetch that opens the device disturbs those on it, and is disturbed by them.
LEMMA OpenKeeps ==
  ASSUME FetchInv, NEW r \in Runs, OpenPort(r)
  PROVE  FetchInv'
<1> USE DEF FetchInv
<1>1. LiveTypeOK'
  <2>1. disturbed \subseteq disturbed' /\ disturbed' \subseteq Runs
    BY DEF LiveTypeOK, OpenPort
  <2>2. QED
    BY <2>1 DEF LiveTypeOK, OpenPort
<1>2. /\ pc[r] = "open" /\ pc'[r] \in {"flush", "close"}
      /\ \A q \in Runs \ {r} : pc'[q] = pc[q]
      /\ UNCHANGED <<step, data, inq, slow, torn>>
  BY DEF LiveTypeOK, OpenPort
<1>3. disturbed \subseteq disturbed'
  BY DEF OpenPort
<1>4. ASSUME NEW q \in Runs PROVE OwnValues(q)'
  BY <1>2, <1>3 DEF OwnValues
<1>5. ASSUME NEW q \in Runs \ disturbed' PROVE QuietFetch(q)'
  <2>1. CASE \E p \in Runs : Fetching(p)
    <3>1. disturbed' = disturbed \cup {r} \cup {p \in Runs : Fetching(p)}
      BY <2>1 DEF OpenPort
    <3>2. ~Fetching(q) /\ q # r
      BY <1>5, <3>1
    <3>3. pc'[q] = pc[q] /\ pc[q] \notin {"flush", "write", "read", "close"}
      BY <1>2, <3>2 DEF Fetching
    <3>4. QED
      BY <3>3 DEF QuietFetch, Fetching
  <2>2. CASE ~ \E p \in Runs : Fetching(p)
    <3>1. \A p \in Runs \ {r} : ~Fetching(p)'
      BY <1>2, <2>2 DEF Fetching
    <3>2. CASE q = r
      BY <1>2, <3>1, <3>2 DEF QuietFetch
    <3>3. CASE q # r
      BY <3>1, <3>3 DEF QuietFetch, Fetching
    <3>4. QED
      BY <3>2, <3>3
  <2>3. QED
    BY <2>1, <2>2
<1>6. QED
  BY <1>1, <1>4, <1>5 DEF QuietFetch

\* A fetch that is on the device meets another only if both are disturbed.
LEMMA OthersDisturbed ==
  ASSUME FetchInv, NEW r \in Runs, Fetching(r), NEW q \in Runs \ {r}, Fetching(q)
  PROVE  q \in disturbed
BY DEF FetchInv, QuietFetch

\* Whoever else reads when a fetch is on the device has met it.
LEMMA ReadersDisturbed ==
  ASSUME FetchInv, NEW r \in Runs, Fetching(r)
  PROVE  \A q \in Readers : q \in Runs /\ (q # r => q \in disturbed /\ r \in disturbed)
<1> SUFFICES ASSUME NEW q \in Readers, q # r PROVE q \in disturbed /\ r \in disturbed
  BY DEF Readers
<1>1. q \in Runs \ {r} /\ Fetching(q)
  BY DEF Readers, Fetching
<1>2. QED
  BY <1>1, OthersDisturbed

\* Emptying the input buffer keeps the fetches' invariant.
LEMMA FlushKeeps ==
  ASSUME FetchInv, NEW r \in Runs, Flush(r)
  PROVE  FetchInv'
<1>0. LiveTypeOK /\ \A q \in Runs : QuietFetch(q) /\ OwnValues(q)
  BY DEF FetchInv
<1>1. LiveTypeOK'
  <2>1. 1 \in 0 .. Len(Script)
    BY ScriptShape
  <2>2. inq' = << >> /\ inq' \in Seq(Replies)
    BY EmptyIsSeq DEF Flush
  <2>3. step' \in [Runs -> 0 .. Len(Script)] /\ step'[r] = 1 /\ \A q \in Runs \ {r} : step'[q] = step[q]
    BY <1>0, <2>1 DEF Flush, LiveTypeOK
  <2>4. mixed \cup Readers \subseteq disturbed
    <3>1. Fetching(r) /\ r \notin Readers
      BY DEF Flush, Fetching, Readers
    <3>2. QED
      BY <1>0, <3>1, ReadersDisturbed DEF LiveTypeOK
  <2>5. mixed' \subseteq disturbed' /\ torn' \subseteq disturbed' /\ disturbed' \subseteq Runs
    BY <1>0, <2>4 DEF Flush, LiveTypeOK
  <2>6. QED
    BY <1>0, <2>2, <2>3, <2>5 DEF LiveTypeOK, Flush
<1>2. /\ pc[r] = "flush" /\ pc'[r] = "write" /\ inq' = << >>
      /\ \A q \in Runs \ {r} : pc'[q] = pc[q]
      /\ UNCHANGED <<data, slow, torn>>
      /\ disturbed \subseteq disturbed'
      /\ slow # << >> => r \in disturbed'
  BY <1>0 DEF LiveTypeOK, Flush
<1>3. ASSUME NEW q \in Runs PROVE OwnValues(q)'
  BY <1>0, <1>2 DEF OwnValues
<1>4. ASSUME NEW q \in Runs \ disturbed' PROVE QuietFetch(q)'
  <2>1. CASE q = r
    <3>1. \A p \in Runs \ {r} : ~Fetching(p)
      BY <1>0, <1>2, <1>4, <2>1 DEF QuietFetch, Fetching
    <3>2. \A p \in Runs \ {r} : ~Fetching(p)'
      BY <1>2, <3>1 DEF Fetching
    <3>3. QED
      BY <1>2, <1>4, <2>1, <3>2 DEF QuietFetch
  <2>2. CASE q # r
    <3>1. Fetching(r) /\ q \notin disturbed
      BY <1>2, <1>4 DEF Fetching
    <3>2. ~Fetching(q)
      BY <3>1, <2>2, OthersDisturbed
    <3>3. QED
      BY <1>2, <2>2, <3>2 DEF QuietFetch, Fetching
  <2>3. QED
    BY <2>1, <2>2
<1>5. QED
  BY <1>1, <1>3, <1>4 DEF FetchInv, QuietFetch

\* A count below its bound can go one up.
LEMMA OneStepOn == \A m \in 0 .. Len(Script) : m # 0 /\ m # Len(Script) => m + 1 \in 0 .. Len(Script) /\ m + 1 # 0
BY ScriptShape

\* So does writing a command.
LEMMA WriteKeeps ==
  ASSUME FetchInv, NEW r \in Runs, NEW isLate \in BOOLEAN, Write(r, isLate)
  PROVE  FetchInv'
<1>0. LiveTypeOK /\ \A q \in Runs : QuietFetch(q) /\ OwnValues(q)
  BY DEF FetchInv
<1> DEFINE reply == Script[step[r]]
           asks == step[r] <= InitCmds + 1 \/ (supports[r] /\ reply \in Supported)
<1>1. /\ isLate => asks
      /\ inq' = IF asks /\ ~isLate THEN Append(inq, reply) ELSE inq
      /\ slow' = IF isLate THEN Append(slow, reply) ELSE slow
      /\ disturbed' = IF isLate THEN disturbed \cup {q \in Runs : Fetching(q)} ELSE disturbed
      /\ \/ asks /\ pc' = [pc EXCEPT ![r] = "read"] /\ step' = step
         \/ ~asks /\ step[r] = Len(Script) /\ pc' = [pc EXCEPT ![r] = "close"] /\ step' = step
         \/ ~asks /\ step[r] # Len(Script) /\ step' = [step EXCEPT ![r] = step[r] + 1] /\ pc' = pc
      /\ mixed' = IF asks /\ Readers # {} THEN mixed \cup Readers \cup {r} ELSE mixed
      /\ UNCHANGED <<bound, supports, data, torn>>
      /\ pc[r] = "write"
  BY DEF Write
<1>2. step[r] \in 0 .. Len(Script) /\ step[r] # 0 /\ reply \in Replies
  <2>1. step[r] \in 0 .. Len(Script) /\ step[r] # 0
    BY <1>0, <1>1 DEF LiveTypeOK
  <2>2. step[r] \in 1 .. Len(Script)
    BY <2>1, ScriptShape
  <2>3. QED
    BY <2>1, <2>2, ScriptShape
<1>r. reply = Script[step[r]] /\ Fetching(r)
  BY <1>1 DEF Fetching
<1> HIDE DEF reply, asks
<1>3. LiveTypeOK'
  <2>1. inq' \in Seq(Replies) /\ slow' \in Seq(Replies)
    BY <1>0, <1>1, <1>2, AppendElements DEF LiveTypeOK
  <2>2. step' \in [Runs -> 0 .. Len(Script)] /\ \A q \in Runs : pc'[q] \in {"write", "read"} => step'[q] # 0
    <3>1. CASE step' = step
      BY <1>0, <1>1, <1>2, <3>1 DEF LiveTypeOK
    <3>2. CASE step[r] # Len(Script) /\ step' = [step EXCEPT ![r] = step[r] + 1] /\ pc' = pc
      <4>1. step[r] + 1 \in 0 .. Len(Script) /\ step[r] + 1 # 0
        BY <1>2, <3>2, OneStepOn
      <4>2. QED
        BY <1>0, <3>2, <4>1 DEF LiveTypeOK
    <3>3. QED
      BY <1>1, <3>1, <3>2
  <2>3. mixed' \subseteq disturbed
    <3>1. r \notin Readers
      BY <1>1 DEF Readers
    <3>2. QED
      BY <1>0, <1>1, <1>r, <3>1, ReadersDisturbed DEF LiveTypeOK
  <2>4. mixed' \subseteq disturbed' /\ torn' \subseteq disturbed' /\ disturbed' \subseteq Runs
    BY <1>0, <1>1, <2>3 DEF LiveTypeOK
  <2>5. QED
    BY <1>0, <1>1, <2>1, <2>2, <2>4 DEF LiveTypeOK
<1>4. ASSUME NEW q \in Runs PROVE OwnValues(q)'
  BY <1>0, <1>1 DEF OwnValues
<1>5. /\ \A q \in Runs \ {r} : pc'[q] = pc[q] /\ step'[q] = step[q]
      /\ disturbed \subseteq disturbed'
      /\ isLate => r \in disturbed'
  BY <1>0, <1>1, <1>r DEF LiveTypeOK
<1>6. ASSUME NEW q \in Runs \ disturbed' PROVE QuietFetch(q)'
  <2>1. CASE q = r
    <3>1. ~isLate /\ slow = << >> /\ inq = << >> /\ slow' = slow
      BY <1>0, <1>1, <1>5, <1>6, <2>1 DEF QuietFetch
    <3>2. \A p \in Runs \ {r} : ~Fetching(p)
      BY <1>0, <1>r, <1>5, <1>6, <2>1 DEF QuietFetch
    <3>3. \A p \in Runs \ {r} : ~Fetching(p)'
      BY <1>5, <3>2 DEF Fetching
    <3>4. CASE asks
      <4>1. pc'[r] = "read" /\ step'[r] = step[r] /\ inq' = Append(<< >>, reply)
        BY <1>0, <1>1, <3>1, <3>4 DEF LiveTypeOK
      <4>2. inq' = <<Script'[step'[r]]>>
        BY <1>r, <4>1, Single DEF Script
      <4>3. QED
        BY <2>1, <3>1, <3>3, <4>1, <4>2 DEF QuietFetch
    <3>5. CASE ~asks
      <4>1. pc'[r] \in {"write", "close"} /\ inq' = << >>
        BY <1>0, <1>1, <3>1, <3>5 DEF LiveTypeOK
      <4>2. QED
        BY <2>1, <3>1, <3>3, <4>1 DEF QuietFetch
    <3>6. QED
      BY <3>4, <3>5
  <2>2. CASE q # r
    <3>1. ~Fetching(q)
      BY <1>r, <1>5, <1>6, <2>2, OthersDisturbed
    <3>2. QED
      BY <1>5, <2>2, <3>1 DEF QuietFetch, Fetching
  <2>3. QED
    BY <2>1, <2>2
<1>7. QED
  BY <1>3, <1>4, <1>6 DEF FetchInv, QuietFetch

\* What a read takes and leaves are replies, and it takes the only one in the
\* queue if no other thread reads.
LEMMA TakesReplies ==
  ASSUME LiveTypeOK, NEW r \in Runs, NEW t \in Taken(r)
  PROVE  /\ t[1] \in Replies /\ t[2] \in Seq(Replies)
         /\ \A w : r \notin mixed /\ inq = <<w>> => t[1] = w /\ t[2] = << >>
<1>1. inq \in Seq(Replies) /\ "torn" \in Replies /\ None \in Replies /\ << >> \in Seq(Replies)
  BY EmptyIsSeq DEF LiveTypeOK, Replies
<1>2. inq # << >> => Head(inq) \in Replies /\ Tail(inq) \in Seq(Replies) /\ <<"torn">> \o Tail(inq) \in Seq(Replies)
  BY <1>1, TailElements
<1>3. Len(inq) >= 2 => Tail(Tail(inq)) \in Seq(Replies)
  BY <1>1
<1>4. CASE t = IF inq = << >> THEN <<None, inq>> ELSE <<Head(inq), Tail(inq)>>
  <2>1. t[1] \in Replies /\ t[2] \in Seq(Replies)
    BY <1>1, <1>2, <1>4
  <2>2. ASSUME NEW w, inq = <<w>> PROVE t[1] = w /\ t[2] = << >>
    BY <1>4, <2>2, Single
  <2>3. QED
    BY <2>1, <2>2
<1>5. CASE Len(inq) >= 2 /\ t = <<"torn", Tail(Tail(inq))>>
  <2>1. \A w : Len(<<w>>) = 1
    OBVIOUS
  <2>2. \A w : inq # <<w>>
    BY <1>5, <2>1
  <2>3. QED
    BY <1>1, <1>3, <1>5, <2>2
<1>6. CASE /\ r \in mixed
           /\ t \in {None, "torn"} \X (Rests(inq) \cup (IF inq = << >> THEN {} ELSE {Tail(inq)}))
  <2>1. t[1] \in {None, "torn"} /\ t[2] \in Rests(inq) \cup (IF inq = << >> THEN {} ELSE {Tail(inq)})
    BY <1>6
  <2>2. t[2] \in Seq(Replies)
    BY <1>1, <1>2, <2>1 DEF Rests
  <2>3. QED
    BY <1>1, <1>6, <2>1, <2>2
<1>7. ~(Len(inq) < 2) <=> Len(inq) >= 2
  BY <1>1
<1>8. QED
  BY <1>4, <1>5, <1>6, <1>7 DEF Taken

\* Reading a reply keeps the fetches' invariant.
LEMMA ReadKeeps ==
  ASSUME FetchInv, NEW r \in Runs, Read(r)
  PROVE  FetchInv'
<1>0. LiveTypeOK /\ \A q \in Runs : QuietFetch(q) /\ OwnValues(q)
  BY DEF FetchInv
<1> DEFINE want == Script[step[r]]
           last == step[r] = Len(Script)
<1>t. PICK t \in Taken(r) :
        /\ inq' = t[2]
        /\ supports' \in {[supports EXCEPT ![r] = b] :
             b \in IF want # "bits" THEN {supports[r]} ELSE IF t[1] = "torn" THEN BOOLEAN ELSE {t[1] = "bits"}}
        /\ data' \in IF step[r] <= InitCmds + 1 \/ t[1] = None THEN {data}
                      ELSE IF t[1] = "torn" THEN {data, [data EXCEPT ![r][want] = t[1]]}
                      ELSE IF Parses(want, t[1]) THEN {[data EXCEPT ![r][want] = t[1]]} ELSE {data}
        /\ torn' = IF t[1] = "torn" THEN torn \cup {r} ELSE torn
        /\ pc' = [pc EXCEPT ![r] = IF last THEN "close" ELSE "write"]
        /\ step' = IF last THEN step ELSE [step EXCEPT ![r] = step[r] + 1]
  BY DEF Read
<1> DEFINE got == t[1]
<1>2. /\ pc[r] = "read"
      /\ step[r] \in 0 .. Len(Script) /\ step[r] # 0 /\ InitCmds \in Nat
      /\ step[r] > InitCmds + 1 => want \in LabelSet
      /\ want # "torn"
  <2>1. step[r] \in 0 .. Len(Script) /\ step[r] # 0 /\ pc[r] = "read"
    BY <1>0 DEF LiveTypeOK, Read
  <2>2. step[r] \in 1 .. Len(Script)
    BY <2>1, ScriptShape
  <2>3. QED
    BY <2>1, <2>2, ScriptShape, LiveAssumption
<1>1. /\ \/ data' = data
         \/ /\ step[r] > InitCmds + 1 /\ (got = "torn" \/ Parses(want, got))
            /\ data' = [data EXCEPT ![r][want] = got]
      /\ supports' \in [Runs -> BOOLEAN]
      /\ mixed' = mixed \ {r}
      /\ UNCHANGED <<bound, slow, disturbed>>
  <2>1. \/ data' = data
        \/ /\ step[r] > InitCmds + 1 /\ (got = "torn" \/ Parses(want, got))
           /\ data' = [data EXCEPT ![r][want] = got]
    <3>1. CASE step[r] <= InitCmds + 1 \/ t[1] = None
      BY <1>t, <3>1
    <3>2. CASE ~(step[r] <= InitCmds + 1 \/ t[1] = None)
      <4>1. step[r] > InitCmds + 1
        BY <1>2, <3>2
      <4>2. QED
        BY <1>t, <3>2, <4>1
    <3>3. QED
      BY <3>1, <3>2
  <2>2. PICK b \in BOOLEAN : supports' = [supports EXCEPT ![r] = b]
    BY <1>0, <1>t DEF LiveTypeOK
  <2>3. supports' \in [Runs -> BOOLEAN]
    BY <1>0, <2>2 DEF LiveTypeOK
  <2>4. QED
    BY <2>1, <2>3 DEF Read
<1>3. got \in Replies /\ inq' \in Seq(Replies)
  BY <1>0, <1>t, TakesReplies
<1>4. r \notin disturbed => got = want /\ inq' = << >> /\ slow = << >>
  <2> SUFFICES ASSUME r \notin disturbed PROVE got = want /\ inq' = << >> /\ slow = << >>
    OBVIOUS
  <2>1. inq = <<want>> /\ slow = << >> /\ r \notin mixed
    BY <1>0, <1>2 DEF QuietFetch, LiveTypeOK
  <2>2. got = want /\ t[2] = << >>
    BY <1>0, <2>1, TakesReplies
  <2>3. QED
    BY <1>t, <2>1, <2>2
<1>w. /\ want = Script[step[r]] /\ Fetching(r)
      /\ pc' = [pc EXCEPT ![r] = IF last THEN "close" ELSE "write"]
      /\ step' = IF last THEN step ELSE [step EXCEPT ![r] = step[r] + 1]
      /\ torn' = IF got = "torn" THEN torn \cup {r} ELSE torn
  BY <1>2, <1>t DEF Fetching
<1> HIDE DEF want, got
<1>5. LiveTypeOK'
  <2>1. step' \in [Runs -> 0 .. Len(Script)] /\ \A q \in Runs : pc'[q] \in {"write", "read"} => step'[q] # 0
    <3>1. CASE last
      BY <1>0, <1>w, <1>2, <3>1 DEF LiveTypeOK
    <3>2. CASE ~last
      <4>1. step[r] + 1 \in 0 .. Len(Script) /\ step[r] + 1 # 0
        BY <1>2, <3>2, OneStepOn
      <4>2. QED
        BY <1>0, <1>w, <3>2, <4>1 DEF LiveTypeOK
    <3>3. QED
      BY <3>1, <3>2
  <2>2. data' \in [Runs -> [LabelSet -> Replies]]
    <3>1. data \in [Runs -> [LabelSet -> Replies]]
      BY <1>0 DEF LiveTypeOK
    <3>2. CASE step[r] > InitCmds + 1 /\ data' = [data EXCEPT ![r][want] = got]
      BY <1>2, <1>3, <3>1, <3>2
    <3>3. QED
      BY <1>1, <3>1, <3>2
  <2>3. mixed' \subseteq disturbed' /\ torn' \subseteq disturbed'
    <3>1. got = "torn" => r \in disturbed
      BY <1>2, <1>4
    <3>2. QED
      BY <1>0, <1>1, <1>w, <3>1 DEF LiveTypeOK
  <2>4. QED
    BY <1>0, <1>1, <1>3, <1>w, <2>1, <2>2, <2>3 DEF LiveTypeOK
<1>6. ASSUME NEW q \in Runs PROVE OwnValues(q)'
  <2> SUFFICES ASSUME NEW l \in LabelSet,
                      (l \notin Temperatures /\ q \notin torn') \/ q \notin disturbed
               PROVE  data'[q][l] \in {l, None}
    BY <1>1 DEF OwnValues
  <2>1. data[q][l] \in {l, None}
    BY <1>0, <1>w DEF OwnValues
  <2>2. CASE data' = data
    BY <2>1, <2>2
  <2>3. CASE /\ step[r] > InitCmds + 1 /\ (got = "torn" \/ Parses(want, got))
             /\ data' = [data EXCEPT ![r][want] = got]
    <3>1. want \in LabelSet /\ data \in [Runs -> [LabelSet -> Replies]]
      BY <1>0, <1>2, <2>3 DEF LiveTypeOK
    <3>2. CASE q = r /\ l = want
      <4>1. data'[q][l] = got
        BY <2>3, <3>1, <3>2
      <4>2. got = want
        BY <1>4, <1>w, <2>3, <3>2 DEF Parses
      <4>3. QED
        BY <3>2, <4>1, <4>2
    <3>3. CASE ~(q = r /\ l = want)
      <4>1. data'[q][l] = data[q][l]
        BY <2>3, <3>1, <3>3
      <4>2. QED
        BY <2>1, <4>1
    <3>4. QED
      BY <3>2, <3>3
  <2>4. QED
    BY <1>1, <2>2, <2>3
<1>7. ASSUME NEW q \in Runs \ disturbed' PROVE QuietFetch(q)'
  <2>0. \A p \in Runs \ {r} : pc'[p] = pc[p]
    BY <1>0, <1>w DEF LiveTypeOK
  <2>1. CASE q = r
    <3>1. \A p \in Runs \ {r} : ~Fetching(p)
      BY <1>0, <1>1, <1>w, <1>7, <2>1 DEF QuietFetch
    <3>2. \A p \in Runs \ {r} : ~Fetching(p)'
      BY <2>0, <3>1 DEF Fetching
    <3>3. pc'[r] \in {"write", "close"} /\ inq' = << >> /\ slow' = << >>
      BY <1>0, <1>1, <1>4, <1>w, <1>7, <2>1 DEF LiveTypeOK
    <3>4. QED
      BY <2>1, <3>2, <3>3 DEF QuietFetch
  <2>2. CASE q # r
    <3>1. ~Fetching(q)
      BY <1>1, <1>w, <1>7, <2>2, OthersDisturbed
    <3>2. QED
      BY <2>0, <2>2, <3>1 DEF QuietFetch, Fetching
  <2>3. QED
    BY <2>1, <2>2
<1>8. QED
  BY <1>5, <1>6, <1>7 DEF FetchInv, QuietFetch

\* A step that ends a fetch, or that has nothing to do with the device's queue.
LEMMA AsideKeeps ==
  ASSUME FetchInv, NEW r \in Runs, NEW to, pc' = [pc EXCEPT ![r] = to],
         to \notin {"write", "read"}, Fetching(r) \/ to \notin {"flush", "close"},
         bound' \in BOOLEAN,
         UNCHANGED <<step, supports, data, inq, slow, disturbed, mixed, torn>>
  PROVE  FetchInv'
<1>0. LiveTypeOK /\ \A q \in Runs : QuietFetch(q) /\ OwnValues(q)
  BY DEF FetchInv
<1>1. LiveTypeOK'
  BY <1>0 DEF LiveTypeOK
<1>2. pc'[r] = to /\ \A q \in Runs \ {r} : pc'[q] = pc[q]
  BY <1>0 DEF LiveTypeOK
<1>3. ASSUME NEW q \in Runs PROVE OwnValues(q)'
  BY <1>0 DEF OwnValues
<1>4. \A q \in Runs : Fetching(q)' => Fetching(q)
  BY <1>2 DEF Fetching
<1>5. ASSUME NEW q \in Runs PROVE QuietFetch(q)'
  BY <1>0, <1>2, <1>4 DEF QuietFetch, Script
<1>6. QED
  BY <1>1, <1>3, <1>5 DEF FetchInv

\* So does a fetch that ends because the device fails it.
LEMMA LostKeeps ==
  ASSUME FetchInv, NEW r \in Runs, PortLost(r)
  PROVE  FetchInv'
<1>0. LiveTypeOK /\ \A q \in Runs : QuietFetch(q) /\ OwnValues(q)
  BY DEF FetchInv
<1>1. /\ pc'[r] = "close" /\ \A q \in Runs \ {r} : pc'[q] = pc[q]
      /\ DOMAIN pc' = Runs
      /\ Fetching(r) /\ mixed' \subseteq mixed
      /\ inq' \in (IF r \in mixed THEN Rests(inq) ELSE {inq})
      /\ UNCHANGED <<bound, step, supports, data, slow, disturbed, torn>>
  BY <1>0 DEF PortLost, LiveTypeOK, Fetching
<1>2. inq' \in Seq(Replies)
  <2>1. inq \in Seq(Replies) /\ "torn" \in Replies
    BY <1>0 DEF LiveTypeOK, Replies
  <2>2. inq # << >> => <<"torn">> \o Tail(inq) \in Seq(Replies)
    BY <2>1, TailElements
  <2>3. QED
    BY <1>1, <2>1, <2>2 DEF Rests
<1>3. LiveTypeOK'
  BY <1>0, <1>1, <1>2 DEF LiveTypeOK
<1>4. ASSUME NEW q \in Runs PROVE OwnValues(q)'
  BY <1>0, <1>1 DEF OwnValues
<1>5. ASSUME NEW q \in Runs \ disturbed PROVE QuietFetch(q)'
  <2>1. \A p \in Runs : Fetching(p)' => Fetching(p)
    BY <1>1 DEF Fetching
  <2>2. CASE q = r
    BY <1>0, <1>1, <1>5, <2>1, <2>2 DEF QuietFetch
  <2>3. CASE q # r
    <3>1. ~Fetching(q)
      BY <1>1, <1>5, <2>3, OthersDisturbed
    <3>2. QED
      BY <1>1, <2>3, <3>1 DEF QuietFetch, Fetching
  <2>4. QED
    BY <2>2, <2>3
<1>6. QED
  BY <1>1, <1>3, <1>4, <1>5 DEF FetchInv, QuietFetch

\* So does a late reply that arrives.
LEMMA ArriveKeeps ==
  ASSUME FetchInv, Arrive
  PROVE  FetchInv'
<1>0. LiveTypeOK /\ \A q \in Runs : QuietFetch(q) /\ OwnValues(q)
  BY DEF FetchInv
<1>1. slow # << >> /\ UNCHANGED <<bound, pc, step, supports, data, disturbed, mixed, torn>>
  BY DEF Arrive, sharing
<1>2. inq' \in Seq(Replies) /\ slow' \in Seq(Replies)
  <2>1. Head(slow) \in Replies /\ Tail(slow) \in Seq(Replies)
    BY <1>0, <1>1, TailElements DEF LiveTypeOK
  <2>2. Append(inq, Head(slow)) \in Seq(Replies)
    BY <1>0, <2>1, AppendElements DEF LiveTypeOK
  <2>3. QED
    BY <1>0, <2>1, <2>2 DEF Arrive, LiveTypeOK
<1>3. LiveTypeOK'
  BY <1>0, <1>1, <1>2 DEF LiveTypeOK
<1>4. ASSUME NEW q \in Runs PROVE OwnValues(q)' /\ QuietFetch(q)'
  <2>1. OwnValues(q)'
    BY <1>0, <1>1 DEF OwnValues
  <2>2. ASSUME q \notin disturbed PROVE pc[q] \notin {"write", "read"}
    BY <1>0, <1>1, <2>2 DEF QuietFetch
  <2>3. \A p \in Runs : Fetching(p)' = Fetching(p)
    BY <1>1 DEF Fetching
  <2>4. QED
    BY <1>0, <1>1, <2>1, <2>2, <2>3 DEF QuietFetch
<1>5. QED
  BY <1>3, <1>4 DEF FetchInv

\* Every step of a fetch keeps its values under their own names.
LEMMA FetchKeeps ==
  ASSUME FetchInv, NEW r \in Runs, Fetch(r)
  PROVE  FetchInv'
<1>1. bound \in BOOLEAN
  BY DEF FetchInv, LiveTypeOK
<1>2. CASE CloseAndSave(r)
  BY <1>1, <1>2, AsideKeeps DEF CloseAndSave, Fetching, sharing
<1>3. QED
  BY <1>2, LostKeeps, OpenKeeps, FlushKeeps, ReadKeeps, WriteKeeps DEF Fetch

-----------------------------------------------------------------------------
(* The runs.                                                               *)

\* The threads are numbered from 1.
LEMMA RunNumbers ==
  /\ Cardinality(Runs) \in Nat
  /\ \A r : r \in Runs <=> r \in Nat /\ 1 <= r /\ r <= Cardinality(Runs)
<1>1. Cardinality(Runs) \in Nat
  BY RunsAssumption, FS_CardinalityType
<1>2. Runs = 1 .. Cardinality(Runs)
  BY RunsAssumption
<1> DEFINE n == Cardinality(Runs)
<1> HIDE DEF n
<1>3. n \in Nat /\ Runs = 1 .. n
  BY <1>1, <1>2 DEF n
<1>4. n \in Nat /\ \A r : r \in Runs <=> r \in Nat /\ 1 <= r /\ r <= n
  BY <1>3
<1>5. QED
  BY <1>4 DEF n

\* The counters and the queue, as numbers and elements.
LEMMA Counters ==
  ASSUME RunInv
  PROVE  /\ runs \in Nat /\ gen \in Nat /\ labelGen \in Nat /\ labelGen <= gen
         /\ Len(tkq) \in Nat
         /\ \A k \in 1 .. Len(tkq) : tkq[k] \in Posts
<1>1. gen \in Nat /\ labelGen \in 0 .. gen /\ runs \in 0 .. Cardinality(Runs) /\ tkq \in Seq(Posts)
  BY DEF RunInv, RunTypeOK
<1>2. runs \in Nat
  BY <1>1, RunNumbers
<1>3. Len(tkq) \in Nat /\ \A k \in 1 .. Len(tkq) : tkq[k] \in Posts
  BY <1>1
<1>4. QED
  BY <1>1, <1>2, <1>3

\* A new run has the next number; the others stay as they are.
LEMMA StartEffect ==
  ASSUME RunInv, NEW kind \in Kinds, NEW first, NEW label, StartRun(kind, first, label)
  PROVE  /\ runs' = runs + 1 /\ runs' \in Runs /\ runs' \in 0 .. Cardinality(Runs)
         /\ pc[runs'] = "new" /\ pc' = [pc EXCEPT ![runs'] = first] /\ DOMAIN pc = Runs
         /\ pc'[runs'] = first /\ \A q \in Runs \ {runs'} : pc'[q] = pc[q]
         /\ run' = [run EXCEPT ![runs'] = [kind |-> kind, gen |-> label, result |-> "open"]]
         /\ run'[runs'] = [kind |-> kind, gen |-> label, result |-> "open"]
         /\ \A q \in Runs \ {runs'} : run'[q] = run[q]
         /\ spinner' = runs' /\ spinning' = spinning \cup {runs'}
         /\ overlapped' = (overlapped \/ (kind = "bind" /\ (screen # "main" \/ \E r \in Runs : run[r].kind = "bind" /\ InFlight(r))))
         /\ UNCHANGED <<bound, step, supports, data, inq, slow, disturbed, mixed, torn>>
<1>1. runs < Cardinality(Runs) /\ runs' = runs + 1
  BY DEF StartRun
<1>2. runs \in Nat /\ Cardinality(Runs) \in Nat
  BY Counters, RunNumbers
<1>3. runs' \in Nat /\ 1 <= runs' /\ runs' <= Cardinality(Runs) /\ runs' > runs
  BY <1>1, <1>2
<1>4. runs' \in Runs /\ runs' \in 0 .. Cardinality(Runs)
  BY <1>2, <1>3, RunNumbers
<1>5. DOMAIN pc = Runs /\ run \in [Runs -> [kind : Kinds, gen : 0 .. gen, result : {"open", "yes", "no"}]]
      /\ pc[runs'] = "new"
  BY <1>3, <1>4 DEF RunInv, RunTypeOK, FetchInv, LiveTypeOK
<1>6. /\ pc' = [pc EXCEPT ![runs'] = first]
      /\ run' = [run EXCEPT ![runs'] = [kind |-> kind, gen |-> label, result |-> "open"]]
      /\ spinner' = runs' /\ spinning' = spinning \cup {runs'}
      /\ overlapped' = (overlapped \/ (kind = "bind" /\ (screen # "main" \/ \E r \in Runs : run[r].kind = "bind" /\ InFlight(r))))
      /\ UNCHANGED <<bound, step, supports, data, inq, slow, disturbed, mixed, torn>>
  BY DEF StartRun, sharing
<1>7. /\ pc'[runs'] = first /\ \A q \in Runs \ {runs'} : pc'[q] = pc[q]
      /\ run'[runs'] = [kind |-> kind, gen |-> label, result |-> "open"]
      /\ \A q \in Runs \ {runs'} : run'[q] = run[q]
  BY <1>4, <1>5, <1>6
<1>8. QED
  BY <1>1, <1>4, <1>5, <1>6, <1>7

\* A step of a thread before it reports.
Working == {"scan", "release", "bind", "open", "flush", "write", "read", "close"}
TalkEffect(r) ==
  /\ pc[r] \in Working
  /\ pc'[r] \in {"bind", "flush", "write", "read", "close", "report"}
  /\ pc'[r] = "bind" => pc[r] = "release"
  /\ pc[r] \in {"scan", "bind"} => pc'[r] = "report"
  /\ pc'[r] \in Reading => pc[r] \in Reading
  /\ pc[r] \notin {"release", "bind"} => bound' = bound
  /\ tkq' = tkq

\* A step of a thread that posts its result or its on_done.
PostEffect(r) ==
  /\ \/ /\ pc[r] = "report" /\ pc'[r] = "reportDone"
        /\ tkq' = Append(tkq, [run |-> r, what |-> "report"])
     \/ /\ pc[r] = "reportDone" /\ pc'[r] = "over"
        /\ tkq' = Append(tkq, [run |-> r, what |-> "reportDone"])
  /\ UNCHANGED <<bound, run, mac>>

\* What a step of a thread does to the runs.
RunsEffect(r) ==
  /\ TalkEffect(r) \/ PostEffect(r)
  /\ \A q \in Runs \ {r} : pc'[q] = pc[q] /\ run'[q] = run[q]
  /\ run' \in [Runs -> [kind : Kinds, gen : 0 .. gen, result : {"open", "yes", "no"}]]
  /\ run'[r].kind = run[r].kind /\ run'[r].gen = run[r].gen
  /\ mac' \in {mac, TRUE}
  /\ run'[r].kind = "scan" /\ run'[r].result = "yes" => mac' \/ run[r].result = "yes"
  /\ run'[r].kind = "bind" /\ run'[r].result = "yes" /\ pc[r] = "bind" => bound'
  /\ UNCHANGED <<screenVars, simVars, modals, runs, spinner, spinning, overlapped>>

\* Every fetch is a run that scans or binds nothing.
LEMMA FetchRuns ==
  ASSUME RunInv, NEW r \in Runs, Fetch(r), UNCHANGED <<screenVars, runVars, simVars, mac, modals, tkq>>
  PROVE  RunsEffect(r)
<1>1. DOMAIN pc = Runs /\ run \in [Runs -> [kind : Kinds, gen : 0 .. gen, result : {"open", "yes", "no"}]]
  BY DEF RunInv, RunTypeOK, FetchInv, LiveTypeOK
<1>2. /\ bound' = bound
      /\ pc[r] \in {"open", "flush", "write", "read", "close"}
      /\ \/ pc' = pc
         \/ \E to \in {"flush", "write", "read", "close", "report"} : pc' = [pc EXCEPT ![r] = to]
  <2>1. CASE OpenPort(r)
    BY <2>1 DEF OpenPort
  <2>2. CASE Flush(r)
    BY <2>2 DEF Flush
  <2>3. CASE \E isLate \in BOOLEAN : Write(r, isLate)
    BY <2>3 DEF Write
  <2>4. CASE Read(r)
    BY <2>4 DEF Read
  <2>5. CASE PortLost(r)
    BY <2>5 DEF PortLost
  <2>6. CASE CloseAndSave(r)
    BY <2>6 DEF CloseAndSave
  <2>7. QED
    BY <2>1, <2>2, <2>3, <2>4, <2>5, <2>6 DEF Fetch
<1>3. \/ pc' = pc /\ pc[r] # "open"
      \/ \E to \in {"flush", "write", "read", "close", "report"} : pc' = [pc EXCEPT ![r] = to]
  <2>1. OpenPort(r) => \E to \in {"flush", "close"} : pc' = [pc EXCEPT ![r] = to]
    BY DEF OpenPort
  <2>2. pc[r] = "open" => OpenPort(r)
    BY DEF Fetch, Flush, Write, Read, PortLost, CloseAndSave
  <2>3. QED
    BY <1>2, <2>1, <2>2
<1>4. /\ pc'[r] \in {"flush", "write", "read", "close", "report"}
      /\ \A q \in Runs \ {r} : pc'[q] = pc[q]
  <2>1. CASE pc' = pc /\ pc[r] # "open"
    BY <1>1, <1>2, <2>1
  <2>2. CASE \E to \in {"flush", "write", "read", "close", "report"} : pc' = [pc EXCEPT ![r] = to]
    BY <1>1, <2>2
  <2>3. QED
    BY <1>3, <2>1, <2>2
<1>5. QED
  BY <1>1, <1>2, <1>4 DEF RunsEffect, TalkEffect, Working, Reading, runVars

\* A step of a thread, whatever it does.
LEMMA ThreadEffect ==
  ASSUME RunInv, NEW r \in Runs, Thread(r)
  PROVE  RunsEffect(r)
<1>1. /\ DOMAIN pc = Runs
      /\ run \in [Runs -> [kind : Kinds, gen : 0 .. gen, result : {"open", "yes", "no"}]]
      /\ pc[r] \in {"release", "bind"} => run[r].kind = "bind"
  BY DEF RunInv, RunTypeOK, FetchInv, LiveTypeOK
<1>2. ASSUME NEW result \in {"yes", "no"}, Ends(r, result)
      PROVE  /\ run' \in [Runs -> [kind : Kinds, gen : 0 .. gen, result : {"open", "yes", "no"}]]
             /\ run'[r].kind = run[r].kind /\ run'[r].gen = run[r].gen /\ run'[r].result = result
             /\ \A q \in Runs \ {r} : run'[q] = run[q]
  <2>1. run[r] \in [kind : Kinds, gen : 0 .. gen, result : {"open", "yes", "no"}]
    BY <1>1
  <2>2. run' = [run EXCEPT ![r] = [run[r] EXCEPT !.result = result]]
    BY <1>1, <1>2 DEF Ends
  <2>3. QED
    BY <1>1, <2>1, <2>2
<1>3. CASE ScanFinds(r)
  <2>1. Ends(r, "yes") /\ pc' = [pc EXCEPT ![r] = "report"] /\ pc[r] = "scan" /\ mac' = TRUE /\ run[r].kind = "scan"
        /\ UNCHANGED <<bound, screenVars, simVars, runs, spinner, spinning, overlapped, modals, tkq>>
    BY <1>3 DEF ScanFinds
  <2>2. pc'[r] = "report" /\ \A q \in Runs \ {r} : pc'[q] = pc[q]
    BY <1>1, <2>1
  <2>3. QED
    BY <1>1, <1>2, <2>1, <2>2 DEF RunsEffect, TalkEffect, Working, Reading
<1>4. CASE ScanFails(r)
  <2>1. Ends(r, "no") /\ pc' = [pc EXCEPT ![r] = "report"] /\ pc[r] = "scan" /\ mac' \in {mac, TRUE}
        /\ run[r].kind = "scan"
        /\ UNCHANGED <<bound, screenVars, simVars, runs, spinner, spinning, overlapped, modals, tkq>>
    BY <1>4 DEF ScanFails
  <2>2. pc'[r] = "report" /\ \A q \in Runs \ {r} : pc'[q] = pc[q]
    BY <1>1, <2>1
  <2>3. /\ run' \in [Runs -> [kind : Kinds, gen : 0 .. gen, result : {"open", "yes", "no"}]]
        /\ run'[r].kind = run[r].kind /\ run'[r].gen = run[r].gen /\ run'[r].result = "no"
        /\ \A q \in Runs \ {r} : run'[q] = run[q]
    BY <1>2, <2>1
  <2>4. QED
    BY <2>1, <2>2, <2>3 DEF RunsEffect, TalkEffect, Working, Reading
<1>5. CASE BindReleases(r)
  BY <1>1, <1>5 DEF BindReleases, RunsEffect, TalkEffect, Working, Reading, runVars
<1>6. ASSUME NEW ok \in BOOLEAN, BindEnds(r, ok) PROVE RunsEffect(r)
  <2>1. PICK result \in {"yes", "no"} : Ends(r, result) /\ (result = "yes" <=> ok)
    BY <1>6 DEF BindEnds
  <2>2. pc' = [pc EXCEPT ![r] = "report"] /\ pc[r] = "bind" /\ bound' = (ok \/ bound)
        /\ UNCHANGED <<screenVars, simVars, runs, spinner, spinning, overlapped, mac, modals, tkq>>
    BY <1>6 DEF BindEnds
  <2>3. QED
    BY <1>1, <1>2, <2>1, <2>2 DEF RunsEffect, TalkEffect, Working, Reading
<1>7. CASE Report(r)
  <2>1. UNCHANGED <<bound, screenVars, runVars, simVars, mac, modals>>
    BY <1>7 DEF Report
  <2>2. /\ pc[r] \in {"report", "reportDone"}
        /\ pc' = [pc EXCEPT ![r] = IF pc[r] = "report" THEN "reportDone" ELSE "over"]
        /\ tkq' = Append(tkq, [run |-> r, what |-> pc[r]])
    BY <1>7 DEF Report
  <2>3. QED
    BY <1>1, <2>1, <2>2 DEF RunsEffect, PostEffect, runVars
<1>8. CASE Fetch(r) /\ UNCHANGED <<screenVars, runVars, simVars, mac, modals, tkq>>
  BY <1>8, FetchRuns
<1>9. QED
  BY <1>3, <1>4, <1>5, <1>6, <1>7, <1>8 DEF Thread

\* The callback called is gone from the queue.
LEMMA CallEffect ==
  ASSUME RunInv, NEW r \in Runs, Callback(r)
  PROVE  /\ tkq[1] = IF StopSpinner(r) THEN [run |-> r, what |-> "reportDone"] ELSE [run |-> r, what |-> "report"]
         /\ tkq' \in Seq(Posts)
         /\ Len(tkq) \in Nat /\ Len(tkq) >= 1 /\ Len(tkq') = Len(tkq) - 1
         /\ \A k \in 1 .. Len(tkq') : k + 1 \in 2 .. Len(tkq) /\ tkq'[k] = tkq[k + 1]
         /\ \A k \in 2 .. Len(tkq) : k - 1 \in 1 .. Len(tkq') /\ tkq'[k - 1] = tkq[k]
         /\ UNCHANGED <<bound, pc, runs, run, spinner, overlapped, mac>>
<1>1. /\ tkq # << >> /\ tkq' = Tail(tkq) /\ tkq \in Seq(Posts)
      /\ Head(tkq) = [run |-> r, what |-> "report"] \/ (StopSpinner(r) /\ Head(tkq) = [run |-> r, what |-> "reportDone"])
      /\ StopSpinner(r) => Head(tkq) = [run |-> r, what |-> "reportDone"]
  BY DEF Callback, ScanResult, BindResult, LiveResult, StopSpinner, Deliver, RunInv, RunTypeOK
<1>2. UNCHANGED <<bound, pc, runs, run, spinner, overlapped, mac>>
  BY DEF Callback, ScanResult, BindResult, LiveResult, StopSpinner, liveVars, runVars
<1>3. /\ Head(tkq) = tkq[1]
      /\ Tail(tkq) \in Seq(Posts)
      /\ Len(tkq) \in Nat /\ Len(tkq) >= 1
      /\ Len(Tail(tkq)) = Len(tkq) - 1
      /\ \A k \in 1 .. Len(Tail(tkq)) : Tail(tkq)[k] = tkq[k + 1]
  BY <1>1, TailElements
<1>4. \A k \in 1 .. Len(tkq') : k + 1 \in 2 .. Len(tkq) /\ tkq'[k] = tkq[k + 1]
  BY <1>1, <1>3
<1>5. \A k \in 2 .. Len(tkq) : k - 1 \in 1 .. Len(tkq') /\ tkq'[k - 1] = tkq[k]
  <2> SUFFICES ASSUME NEW k \in 2 .. Len(tkq)
               PROVE  k - 1 \in 1 .. Len(tkq') /\ tkq'[k - 1] = tkq[k]
    OBVIOUS
  <2>1. k - 1 \in 1 .. Len(tkq') /\ (k - 1) + 1 = k
    BY <1>1, <1>3
  <2>2. QED
    BY <2>1, <1>4
<1>6. QED
  BY <1>1, <1>2, <1>3, <1>4, <1>5


-----------------------------------------------------------------------------
(* What a click does to the runs.                                          *)

First(kind) == IF kind = "scan" THEN "scan" ELSE IF kind = "bind" THEN "release" ELSE "open"

\* What the Tk thread does but for callbacks: a click, or a handler that goes on.
Handler == Click \/ \E k \in DOMAIN modals : Return(k)

HandlerEffect ==
  /\ UNCHANGED <<mac, tkq>>
  /\ gen' \in {gen, gen + 1} /\ labelGen' \in {labelGen, gen'} /\ shown' \in {shown, 0}
  /\ \/ UNCHANGED <<liveVars, runVars>>
     \/ \E kind \in Kinds : \E label \in {labelGen, gen'} : StartRun(kind, First(kind), label)

\* Each handler is one of those that HandlerEffect describes.
LEMMA HandlerDoes == Handler => HandlerEffect
<1> SUFFICES ASSUME Handler PROVE HandlerEffect
  OBVIOUS
<1>1. CASE StartScan
  <2>1. StartRun("scan", First("scan"), labelGen) /\ "scan" \in Kinds
    BY <1>1 DEF StartScan, First, Kinds
  <2>2. UNCHANGED <<gen, labelGen, shown, mac, tkq>>
    BY <1>1 DEF StartScan
  <2>3. QED
    BY <2>1, <2>2 DEF HandlerEffect
<1>2. CASE EnterLive
  <2>1. StartRun("live", First("live"), gen + 1) /\ "live" \in Kinds
    BY <1>2 DEF EnterLive, First, Kinds
  <2>2. gen' = gen + 1 /\ labelGen' \in {labelGen, gen'} /\ shown' = 0 /\ UNCHANGED <<mac, tkq>>
    BY <1>2 DEF EnterLive, Build
  <2>3. QED
    BY <2>1, <2>2 DEF HandlerEffect
<1>3. CASE Rerun
  <2>1. StartRun("live", First("live"), gen) /\ "live" \in Kinds
    BY <1>3 DEF Rerun, First, Kinds
  <2>2. UNCHANGED <<screenVars, mac, tkq>>
    BY <1>3 DEF Rerun
  <2>3. QED
    BY <2>1, <2>2 DEF HandlerEffect, screenVars
<1>4. ASSUME NEW k \in DOMAIN modals, PasswordReturns(k) PROVE HandlerEffect
  <2>1. UNCHANGED <<screenVars, mac, tkq>>
    BY <1>4 DEF PasswordReturns
  <2>2. StartRun("bind", First("bind"), gen) \/ UNCHANGED <<liveVars, runVars>>
    BY <1>4 DEF PasswordReturns, First
  <2>3. "bind" \in Kinds
    BY DEF Kinds
  <2>4. QED
    BY <2>1, <2>2, <2>3 DEF HandlerEffect, screenVars
<1>5. CASE (\E to \in Screens : Go(screen, to)) \/ \E b \in Makes : ShowBrandMenu(b)
  <2>1. PICK to : Build(to) /\ UNCHANGED <<liveVars, runVars, mac, tkq>>
    BY <1>5 DEF Go, ShowBrandMenu
  <2>2. QED
    BY <2>1 DEF HandlerEffect, Build
<1>6. CASE AskPassword \/ (\E known \in BOOLEAN : ReadBrand(known)) \/ BackToMakes \/ ReadDtcPopup \/ ClearCodes
  BY <1>6 DEF HandlerEffect, AskPassword, ReadBrand, BackToMakes, ReadDtcPopup, ClearCodes, screenVars
<1>7. ASSUME NEW k \in DOMAIN modals, Answer(k) PROVE HandlerEffect
  <2>1. UNCHANGED <<liveVars, runVars, gen, labelGen, shown, mac, tkq>>
    BY <1>7 DEF Answer, FoundOk, FoundClosed, BoxOk, ClearAndClose, CloseCodes, PasswordAnswered, screenVars
  <2>2. QED
    BY <2>1 DEF HandlerEffect
<1>8. ASSUME NEW k \in DOMAIN modals, NoDeviceReturns(k) \/ BoxReturns(k) \/ ClearedReturns(k) PROVE HandlerEffect
  BY <1>8 DEF HandlerEffect, NoDeviceReturns, BoxReturns, ClearedReturns, screenVars
<1>9. QED
  BY <1>1, <1>2, <1>3, <1>4, <1>5, <1>6, <1>7, <1>8 DEF Handler, Click, Return

\* Every step is a handler, a callback, a thread's step or a late reply.
LEMMA NextDoes ==
  ASSUME Next
  PROVE  /\ patient' = patient
         /\ \/ Handler
            \/ \E r \in Runs : Callback(r)
            \/ \E r \in Runs : Thread(r)
            \/ Arrive /\ UNCHANGED <<screenVars, runVars, simVars, mac, modals, tkq>>
BY DEF Next, TkThread, Handler

\* What a callback does to the screens' numbers.
LEMMA CallbackScreens ==
  ASSUME NEW r \in Runs, Callback(r)
  PROVE  /\ gen' \in {gen, gen + 1} /\ labelGen' \in {labelGen, gen'} /\ shown' \in {shown, 0, r}
         /\ UNCHANGED <<liveVars, runs, run, spinner, overlapped, simVars, mac>>
<1>1. CASE BindResult(r)
  <2>1. UNCHANGED <<liveVars, runVars, simVars, mac>>
    BY <1>1 DEF BindResult
  <2>2. Build("diag") \/ UNCHANGED screenVars
    BY <1>1 DEF BindResult
  <2>3. QED
    BY <2>1, <2>2 DEF Build, screenVars, runVars
<1>2. CASE ScanResult(r)
  BY <1>2 DEF ScanResult, screenVars, runVars
<1>3. CASE LiveResult(r)
  BY <1>3 DEF LiveResult, runVars
<1>4. CASE StopSpinner(r)
  BY <1>4 DEF StopSpinner, screenVars
<1>5. QED
  BY <1>1, <1>2, <1>3, <1>4 DEF Callback

-----------------------------------------------------------------------------
(* Every step keeps RunInv, part by part.                                  *)

\* Every step of the program keeps the fetches' invariant.
LEMMA FetchStep == RunInv /\ Next => FetchInv'
<1> SUFFICES ASSUME RunInv, Next PROVE FetchInv'
  OBVIOUS
<1>0. FetchInv /\ bound \in BOOLEAN
  BY DEF RunInv, FetchInv, LiveTypeOK
<1>1. ASSUME UNCHANGED liveVars PROVE FetchInv'
  <2>1. UNCHANGED <<bound, pc, step, supports, data, inq, slow, late, disturbed, mixed, torn>>
    BY <1>1 DEF liveVars, sharing
  <2>2. LiveTypeOK'
    BY <1>0, <2>1 DEF FetchInv, LiveTypeOK
  <2>3. ASSUME NEW q \in Runs PROVE QuietFetch(q)' /\ OwnValues(q)'
    <3>1. \A p \in Runs : Fetching(p)' = Fetching(p)
      BY <2>1 DEF Fetching
    <3>2. QuietFetch(q) /\ OwnValues(q)
      BY <1>0 DEF FetchInv
    <3>3. QuietFetch(q)'
      BY <2>1, <3>1, <3>2 DEF QuietFetch
    <3>4. OwnValues(q)'
      BY <2>1, <3>2 DEF OwnValues
    <3>5. QED
      BY <3>3, <3>4
  <2>4. QED
    BY <2>2, <2>3 DEF FetchInv
<1>2. CASE Handler
  <2>1. CASE UNCHANGED <<liveVars, runVars>>
    BY <1>1, <2>1
  <2>2. ASSUME NEW kind \in Kinds, NEW label, StartRun(kind, First(kind), label) PROVE FetchInv'
    <3>1. /\ runs' \in Runs /\ pc' = [pc EXCEPT ![runs'] = First(kind)]
          /\ UNCHANGED <<bound, step, supports, data, inq, slow, disturbed, mixed, torn>>
      BY <2>2, StartEffect
    <3>2. First(kind) \notin {"write", "read", "flush", "close"}
      BY DEF First
    <3>3. PICK r \in Runs : r = runs'
      BY <3>1
    <3>4. pc' = [pc EXCEPT ![r] = First(kind)] /\ bound' \in BOOLEAN
      BY <1>0, <3>1, <3>3
    <3>5. QED
      BY <1>0, <3>1, <3>2, <3>4, AsideKeeps
  <2>3. QED
    BY <1>2, <2>1, <2>2, HandlerDoes DEF HandlerEffect
<1>3. ASSUME NEW r \in Runs, Thread(r) PROVE FetchInv'
  <2>1. CASE ScanFinds(r)
    <3>1. /\ pc' = [pc EXCEPT ![r] = "report"] /\ bound' \in BOOLEAN
          /\ UNCHANGED <<step, supports, data, inq, slow, disturbed, mixed, torn>>
      BY <1>0, <2>1 DEF ScanFinds, sharing
    <3>2. QED
      BY <1>0, <3>1, AsideKeeps
  <2>2. CASE ScanFails(r)
    <3>1. /\ pc' = [pc EXCEPT ![r] = "report"] /\ bound' \in BOOLEAN
          /\ UNCHANGED <<step, supports, data, inq, slow, disturbed, mixed, torn>>
      BY <1>0, <2>2 DEF ScanFails, sharing
    <3>2. QED
      BY <1>0, <3>1, AsideKeeps
  <2>3. CASE BindReleases(r)
    <3>1. /\ pc' = [pc EXCEPT ![r] = "bind"] /\ bound' \in BOOLEAN
          /\ UNCHANGED <<step, supports, data, inq, slow, disturbed, mixed, torn>>
      BY <1>0, <2>3 DEF BindReleases, sharing
    <3>2. QED
      BY <1>0, <3>1, AsideKeeps
  <2>4. ASSUME NEW ok \in BOOLEAN, BindEnds(r, ok) PROVE FetchInv'
    <3>1. /\ pc' = [pc EXCEPT ![r] = "report"] /\ bound' = (ok \/ bound)
          /\ UNCHANGED <<step, supports, data, inq, slow, disturbed, mixed, torn>>
      BY <2>4 DEF BindEnds, sharing
    <3>2. bound' \in BOOLEAN
      BY <1>0, <3>1
    <3>3. QED
      BY <1>0, <3>1, <3>2, AsideKeeps
  <2>5. CASE Report(r)
    <3>1. PICK to \in {"reportDone", "over"} : pc' = [pc EXCEPT ![r] = to]
      BY <2>5 DEF Report
    <3>2. bound' \in BOOLEAN /\ UNCHANGED <<step, supports, data, inq, slow, disturbed, mixed, torn>>
      BY <1>0, <2>5 DEF Report, sharing
    <3>3. QED
      BY <1>0, <3>1, <3>2, AsideKeeps
  <2>6. CASE Fetch(r)
    BY <1>0, <2>6, FetchKeeps
  <2>7. QED
    BY <1>3, <2>1, <2>2, <2>3, <2>4, <2>5, <2>6 DEF Thread
<1>4. ASSUME NEW r \in Runs, Callback(r) PROVE FetchInv'
  BY <1>1, <1>4, CallbackScreens
<1>5. CASE Arrive
  BY <1>0, <1>5, ArriveKeeps
<1>6. QED
  BY <1>2, <1>3, <1>4, <1>5, NextDoes

\* A post adds one callback at the end.
LEMMA PostedEffect ==
  ASSUME RunInv, NEW r \in Runs, PostEffect(r)
  PROVE  /\ tkq' \in Seq(Posts)
         /\ Len(tkq) \in Nat /\ Len(tkq') = Len(tkq) + 1
         /\ \A k \in 1 .. Len(tkq) : tkq'[k] = tkq[k]
         /\ \/ /\ pc[r] = "report" /\ pc'[r] = "reportDone"
               /\ tkq'[Len(tkq')] = [run |-> r, what |-> "report"]
            \/ /\ pc[r] = "reportDone" /\ pc'[r] = "over"
               /\ tkq'[Len(tkq')] = [run |-> r, what |-> "reportDone"]
<1>1. tkq \in Seq(Posts)
  BY DEF RunInv, RunTypeOK
<1>2. /\ [run |-> r, what |-> "report"] \in Posts
      /\ [run |-> r, what |-> "reportDone"] \in Posts
  BY DEF Posts
<1>3. CASE pc[r] = "report"
  <2>1. tkq' = Append(tkq, [run |-> r, what |-> "report"]) /\ pc'[r] = "reportDone"
    BY <1>3 DEF PostEffect
  <2>2. QED
    BY <1>1, <1>2, <1>3, <2>1, AppendElements
<1>4. CASE pc[r] = "reportDone"
  <2>1. tkq' = Append(tkq, [run |-> r, what |-> "reportDone"]) /\ pc'[r] = "over"
    BY <1>4 DEF PostEffect
  <2>2. QED
    BY <1>1, <1>2, <1>4, <2>1, AppendElements
<1>5. QED
  BY <1>3, <1>4 DEF PostEffect

\* A new screen raises the bound on the numbers of screens.
LEMMA ScreensGrow ==
  ASSUME RunInv, gen' \in {gen, gen + 1}, labelGen' \in {labelGen, gen'}
  PROVE  /\ gen' \in Nat /\ gen' >= gen /\ labelGen' \in 0 .. gen'
         /\ labelGen \in 0 .. gen' /\ gen' \in 0 .. gen' /\ 0 .. gen \subseteq 0 .. gen'
BY Counters

\* The runs keep their types and their numbering.
LEMMA RunTypeStep == RunInv /\ Next => RunTypeOK'
<1> SUFFICES ASSUME RunInv, Next PROVE RunTypeOK'
  OBVIOUS
<1>0. RunTypeOK /\ DOMAIN pc = Runs
  BY DEF RunInv, FetchInv, LiveTypeOK
<1>n. \A q \in Runs : q \in Nat
  BY RunNumbers
<1>1. ASSUME gen' \in {gen, gen + 1}, labelGen' \in {labelGen, gen'}
      PROVE  /\ gen' \in Nat /\ labelGen' \in 0 .. gen'
             /\ run \in [Runs -> [kind : Kinds, gen : 0 .. gen', result : {"open", "yes", "no"}]]
  <2>1. 0 .. gen \subseteq 0 .. gen'
    BY <1>1, ScreensGrow
  <2>2. QED
    BY <1>0, <1>1, <2>1, ScreensGrow DEF RunTypeOK
<1>2. CASE HandlerEffect /\ UNCHANGED <<liveVars, runVars>>
  BY <1>0, <1>1, <1>2 DEF RunTypeOK, HandlerEffect, liveVars, runVars
<1>3. ASSUME HandlerEffect, NEW kind \in Kinds, NEW label \in {labelGen, gen'}, StartRun(kind, First(kind), label)
      PROVE  RunTypeOK'
  <2>1. /\ runs' = runs + 1 /\ runs' \in Runs /\ runs' \in 0 .. Cardinality(Runs)
        /\ pc'[runs'] = First(kind) /\ \A q \in Runs \ {runs'} : pc'[q] = pc[q]
        /\ run' = [run EXCEPT ![runs'] = [kind |-> kind, gen |-> label, result |-> "open"]]
        /\ run'[runs'] = [kind |-> kind, gen |-> label, result |-> "open"]
        /\ \A q \in Runs \ {runs'} : run'[q] = run[q]
        /\ overlapped' = (overlapped \/ (kind = "bind" /\ (screen # "main" \/ \E r \in Runs : run[r].kind = "bind" /\ InFlight(r))))
    BY <1>3, StartEffect
  <2>2. gen' \in Nat /\ labelGen' \in 0 .. gen' /\ label \in 0 .. gen'
        /\ run \in [Runs -> [kind : Kinds, gen : 0 .. gen', result : {"open", "yes", "no"}]]
    BY <1>1, <1>3, ScreensGrow DEF HandlerEffect
  <2>3. run' \in [Runs -> [kind : Kinds, gen : 0 .. gen', result : {"open", "yes", "no"}]]
    BY <2>1, <2>2
  <2>4. \A q \in Runs : pc'[q] = "new" <=> q > runs'
    <3> SUFFICES ASSUME NEW q \in Runs PROVE pc'[q] = "new" <=> q > runs'
      OBVIOUS
    <3>1. q \in Nat /\ runs \in Nat /\ (pc[q] = "new" <=> q > runs)
      BY <1>0, <1>n, Counters DEF RunTypeOK
    <3>2. CASE q = runs'
      BY <2>1, <3>1, <3>2 DEF First
    <3>3. CASE q # runs'
      BY <2>1, <3>1, <3>3
    <3>4. QED
      BY <3>2, <3>3
  <2>5. \A q \in Runs : /\ pc'[q] = "scan" => run'[q].kind = "scan"
                        /\ pc'[q] \in {"release", "bind"} => run'[q].kind = "bind"
                        /\ pc'[q] \in Reading => run'[q].kind = "live"
    <3> SUFFICES ASSUME NEW q \in Runs
                 PROVE  /\ pc'[q] = "scan" => run'[q].kind = "scan"
                        /\ pc'[q] \in {"release", "bind"} => run'[q].kind = "bind"
                        /\ pc'[q] \in Reading => run'[q].kind = "live"
      OBVIOUS
    <3>1. CASE q = runs'
      BY <2>1, <3>1 DEF First, Kinds, Reading
    <3>2. CASE q # runs'
      BY <1>0, <2>1, <3>2 DEF RunTypeOK
    <3>3. QED
      BY <3>1, <3>2
  <2>6. overlapped' \in BOOLEAN
    BY <1>0, <2>1 DEF RunTypeOK
  <2>7. shown' \in Runs \cup {0} /\ tkq' \in Seq(Posts)
    BY <1>0, <1>3 DEF RunTypeOK, HandlerEffect
  <2>8. QED
    BY <2>1, <2>2, <2>3, <2>4, <2>5, <2>6, <2>7 DEF RunTypeOK
<1>4. CASE Handler
  BY <1>2, <1>3, <1>4, HandlerDoes DEF HandlerEffect
<1>5. ASSUME NEW r \in Runs, Thread(r) PROVE RunTypeOK'
  <2>0. RunsEffect(r)
    BY <1>5, ThreadEffect
  <2>1. tkq' \in Seq(Posts)
    BY <1>0, <2>0, PostedEffect DEF RunsEffect, TalkEffect, RunTypeOK
  <2>2. /\ pc[r] # "new" /\ pc'[r] # "new" /\ pc'[r] \notin {"scan", "release"}
        /\ pc'[r] = "bind" => pc[r] = "release"
        /\ pc'[r] \in Reading => pc[r] \in Reading
        /\ \A q \in Runs \ {r} : pc'[q] = pc[q] /\ run'[q] = run[q]
        /\ run'[r].kind = run[r].kind
        /\ run' \in [Runs -> [kind : Kinds, gen : 0 .. gen, result : {"open", "yes", "no"}]]
    BY <2>0 DEF RunsEffect, TalkEffect, PostEffect, Working, Reading
  <2>3. UNCHANGED <<gen, labelGen, shown, runs, overlapped>>
    BY <2>0 DEF RunsEffect, screenVars
  <2>4. \A q \in Runs : /\ pc'[q] = "new" <=> pc[q] = "new"
                        /\ pc'[q] = "scan" => run'[q].kind = "scan"
                        /\ pc'[q] \in {"release", "bind"} => run'[q].kind = "bind"
                        /\ pc'[q] \in Reading => run'[q].kind = "live"
    <3> SUFFICES ASSUME NEW q \in Runs
                 PROVE  /\ pc'[q] = "new" <=> pc[q] = "new"
                        /\ pc'[q] = "scan" => run'[q].kind = "scan"
                        /\ pc'[q] \in {"release", "bind"} => run'[q].kind = "bind"
                        /\ pc'[q] \in Reading => run'[q].kind = "live"
      OBVIOUS
    <3>1. CASE q = r
      BY <1>0, <2>2, <3>1 DEF RunTypeOK
    <3>2. CASE q # r
      BY <1>0, <2>2, <3>2 DEF RunTypeOK
    <3>3. QED
      BY <3>1, <3>2
  <2>5. QED
    BY <1>0, <2>1, <2>2, <2>3, <2>4 DEF RunTypeOK
<1>6. ASSUME NEW r \in Runs, Callback(r) PROVE RunTypeOK'
  <2>1. /\ gen' \in {gen, gen + 1} /\ labelGen' \in {labelGen, gen'} /\ shown' \in {shown, 0, r}
        /\ UNCHANGED <<runs, run, overlapped, pc>>
    BY <1>6, CallbackScreens DEF liveVars
  <2>2. tkq' \in Seq(Posts)
    BY <1>6, CallEffect
  <2>3. QED
    BY <1>0, <1>1, <2>1, <2>2 DEF RunTypeOK
<1>7. CASE Arrive /\ UNCHANGED <<screenVars, runVars, simVars, mac, modals, tkq>>
  BY <1>0, <1>7 DEF RunTypeOK, Arrive, screenVars, runVars
<1>8. QED
  BY <1>4, <1>5, <1>6, <1>7, NextDoes

\* The callbacks keep their order: the result of a run before its on_done.
LEMMA PostsStep == RunInv /\ Next => PostsInv'
<1> SUFFICES ASSUME RunInv, Next PROVE PostsInv'
  OBVIOUS
<1>0. PostsInv /\ \A q \in Runs : pc[q] = "new" <=> q > runs
  BY DEF RunInv, RunTypeOK
<1>p. PostsInv
  BY <1>0
<1>t. Len(tkq) \in Nat /\ \A k \in 1 .. Len(tkq) : tkq[k] \in Posts
  BY Counters
<1>1. CASE HandlerEffect /\ UNCHANGED <<liveVars, runVars>>
  <2>1. pc' = pc /\ tkq' = tkq
    BY <1>1 DEF HandlerEffect, liveVars
  <2>2. QED
    BY ONLY <1>p, <2>1 DEF PostsInv
<1>2. ASSUME HandlerEffect, NEW kind \in Kinds, NEW label, StartRun(kind, First(kind), label)
      PROVE  PostsInv'
  <2>1. runs' \in Runs /\ pc[runs'] = "new" /\ tkq' = tkq /\ \A q \in Runs \ {runs'} : pc'[q] = pc[q]
    BY <1>2, StartEffect DEF HandlerEffect
  <2>2. \A k \in 1 .. Len(tkq) : pc'[tkq[k].run] = pc[tkq[k].run]
    BY <1>0, <1>t, <2>1 DEF PostsInv, Posts
  <2>3. QED
    BY <1>0, <2>1, <2>2 DEF PostsInv
<1>3. CASE Handler
  BY <1>1, <1>2, <1>3, HandlerDoes DEF HandlerEffect
<1>4. ASSUME NEW r \in Runs, Callback(r) PROVE PostsInv'
  <2>1. /\ Len(tkq') = Len(tkq) - 1
        /\ \A k \in 1 .. Len(tkq') : k + 1 \in 2 .. Len(tkq) /\ tkq'[k] = tkq[k + 1]
        /\ \A k \in 2 .. Len(tkq) : k - 1 \in 1 .. Len(tkq') /\ tkq'[k - 1] = tkq[k]
        /\ pc' = pc
    BY <1>4, CallEffect
  <2>2. ASSUME NEW j \in 1 .. Len(tkq'), NEW k \in 1 .. Len(tkq'), tkq'[j].run = tkq'[k].run, j < k
        PROVE  tkq'[j].what = "report" /\ tkq'[k].what = "reportDone"
    <3>1. j + 1 \in 1 .. Len(tkq) /\ k + 1 \in 1 .. Len(tkq) /\ j + 1 < k + 1
      BY <1>t, <2>1, <2>2
    <3>2. QED
      BY <1>0, <2>1, <2>2, <3>1 DEF PostsInv
  <2>3. ASSUME NEW k \in 1 .. Len(tkq')
        PROVE  /\ pc'[tkq'[k].run] \in {"reportDone", "over"}
               /\ tkq'[k].what = "reportDone" => pc'[tkq'[k].run] = "over"
    <3>1. k + 1 \in 1 .. Len(tkq) /\ tkq'[k] = tkq[k + 1]
      BY <1>t, <2>1
    <3>2. /\ pc[tkq[k + 1].run] \in {"reportDone", "over"}
          /\ tkq[k + 1].what = "reportDone" => pc[tkq[k + 1].run] = "over"
      BY <1>p, <3>1 DEF PostsInv
    <3>3. QED
      BY <2>1, <3>1, <3>2
  <2>4. ASSUME NEW k \in 1 .. Len(tkq'), tkq'[k].what = "report", pc'[tkq'[k].run] = "over"
        PROVE  \E j \in 1 .. Len(tkq') : tkq'[j] = [run |-> tkq'[k].run, what |-> "reportDone"]
    <3>1. k + 1 \in 1 .. Len(tkq) /\ tkq'[k] = tkq[k + 1] /\ 1 < k + 1 /\ 1 \in 1 .. Len(tkq)
      BY <1>t, <2>1
    <3>2. PICK j \in 1 .. Len(tkq) : tkq[j] = [run |-> tkq[k + 1].run, what |-> "reportDone"]
      BY <1>0, <2>1, <2>4, <3>1 DEF PostsInv
    <3>3. ASSUME j = 1 PROVE FALSE
      <4>1. tkq[1].run = tkq[k + 1].run /\ tkq[1].what = "reportDone"
        BY <3>2, <3>3
      <4>2. tkq[1].what = "report"
        BY <1>0, <3>1, <4>1 DEF PostsInv
      <4>3. QED
        BY <4>1, <4>2
    <3>4. j \in 2 .. Len(tkq)
      BY <3>3, <1>t
    <3>5. QED
      BY <2>1, <3>1, <3>2, <3>4
  <2>5. QED
    BY <2>2, <2>3, <2>4 DEF PostsInv
<1>5. ASSUME NEW r \in Runs, Thread(r), TalkEffect(r) PROVE PostsInv'
  <2>1. tkq' = tkq /\ \A q \in Runs \ {r} : pc'[q] = pc[q]
    BY <1>5, ThreadEffect DEF TalkEffect, RunsEffect
  <2>2. pc[r] \notin {"reportDone", "over"}
    BY <1>5 DEF TalkEffect, Working
  <2>3. \A k \in 1 .. Len(tkq) : pc'[tkq[k].run] = pc[tkq[k].run]
    BY <1>0, <1>t, <2>1, <2>2 DEF PostsInv, Posts
  <2>4. QED
    BY <1>0, <2>1, <2>3 DEF PostsInv
<1>6. ASSUME NEW r \in Runs, Thread(r), PostEffect(r) PROVE PostsInv'
  <2>1. /\ Len(tkq') = Len(tkq) + 1
        /\ \A k \in 1 .. Len(tkq) : tkq'[k] = tkq[k]
        /\ \/ /\ pc[r] = "report" /\ pc'[r] = "reportDone"
              /\ tkq'[Len(tkq')] = [run |-> r, what |-> "report"]
           \/ /\ pc[r] = "reportDone" /\ pc'[r] = "over"
              /\ tkq'[Len(tkq')] = [run |-> r, what |-> "reportDone"]
    BY <1>6, PostedEffect
  <2>2. \A q \in Runs \ {r} : pc'[q] = pc[q]
    BY <1>6, ThreadEffect DEF RunsEffect
  <2>3. \A k \in 1 .. Len(tkq) : tkq[k].run = r => pc[r] = "reportDone" /\ tkq[k].what = "report"
    BY <1>0, <1>t, <2>1 DEF PostsInv, Posts
  <2>4. \A k \in 1 .. Len(tkq') : k = Len(tkq') \/ k \in 1 .. Len(tkq)
    BY <1>t, <2>1
  <2>5. Len(tkq') \in 1 .. Len(tkq') /\ \A k \in 1 .. Len(tkq) : k \in 1 .. Len(tkq') /\ k < Len(tkq')
    BY <1>t, <2>1
  <2>6. ASSUME NEW j \in 1 .. Len(tkq'), NEW k \in 1 .. Len(tkq'), tkq'[j].run = tkq'[k].run, j < k
        PROVE  tkq'[j].what = "report" /\ tkq'[k].what = "reportDone"
    <3>1. j \in 1 .. Len(tkq)
      BY <1>t, <2>1, <2>6
    <3>2. CASE k \in 1 .. Len(tkq)
      BY <1>0, <2>1, <2>6, <3>1, <3>2 DEF PostsInv
    <3>3. CASE k = Len(tkq')
      <4>1. tkq[j].run = r
        BY <2>1, <2>6, <3>1, <3>3
      <4>2. QED
        BY <2>1, <2>3, <2>6, <3>1, <3>3, <4>1
    <3>4. QED
      BY <2>4, <3>2, <3>3
  <2>7. ASSUME NEW k \in 1 .. Len(tkq')
        PROVE  /\ pc'[tkq'[k].run] \in {"reportDone", "over"}
               /\ tkq'[k].what = "reportDone" => pc'[tkq'[k].run] = "over"
    <3>1. CASE k = Len(tkq')
      BY <2>1, <3>1
    <3>2. CASE k \in 1 .. Len(tkq)
      <4>1. tkq'[k] = tkq[k] /\ tkq[k].run \in Runs
        BY <1>t, <2>1, <3>2 DEF Posts
      <4>2. CASE tkq[k].run = r
        BY <2>1, <2>3, <3>2, <4>1, <4>2
      <4>3. CASE tkq[k].run # r
        <5>1. /\ pc[tkq[k].run] \in {"reportDone", "over"}
              /\ tkq[k].what = "reportDone" => pc[tkq[k].run] = "over"
          BY <1>p, <3>2 DEF PostsInv
        <5>2. pc'[tkq[k].run] = pc[tkq[k].run]
          BY <2>2, <4>1, <4>3
        <5>3. QED
          BY <4>1, <5>1, <5>2
      <4>4. QED
        BY <4>2, <4>3
    <3>3. QED
      BY <2>4, <3>1, <3>2
  <2>8. ASSUME NEW k \in 1 .. Len(tkq'), tkq'[k].what = "report", pc'[tkq'[k].run] = "over"
        PROVE  \E j \in 1 .. Len(tkq') : tkq'[j] = [run |-> tkq'[k].run, what |-> "reportDone"]
    <3>1. k \in 1 .. Len(tkq)
      BY <2>1, <2>4, <2>8
    <3>2. tkq'[k] = tkq[k] /\ tkq[k].run \in Runs
      BY <1>t, <2>1, <3>1 DEF Posts
    <3>3. CASE tkq[k].run = r
      <4>1. tkq'[Len(tkq')] = [run |-> r, what |-> "reportDone"]
        BY <2>1, <2>8, <3>2, <3>3
      <4>2. QED
        BY <2>5, <3>2, <3>3, <4>1
    <3>4. CASE tkq[k].run # r
      <4>1. PICK j \in 1 .. Len(tkq) : tkq[j] = [run |-> tkq[k].run, what |-> "reportDone"]
        BY <1>0, <2>2, <2>8, <3>1, <3>2, <3>4 DEF PostsInv
      <4>2. QED
        BY <2>1, <2>5, <3>2, <4>1
    <3>5. QED
      BY <3>3, <3>4
  <2>9. QED
    BY <2>6, <2>7, <2>8 DEF PostsInv
<1>7. ASSUME NEW r \in Runs, Thread(r) PROVE PostsInv'
  BY <1>5, <1>6, <1>7, ThreadEffect DEF RunsEffect
<1>8. CASE Arrive /\ UNCHANGED <<screenVars, runVars, simVars, mac, modals, tkq>>
  BY <1>0, <1>8 DEF PostsInv, Arrive
<1>9. QED
  BY <1>3, <1>4, <1>7, <1>8, NextDoes

\* At the start no run is started and nothing is queued.
LEMMA RunInit == Init => RunInv
<1> SUFFICES ASSUME Init PROVE RunInv
  OBVIOUS
<1>0. 1 .. 0 = {}
  OBVIOUS
<1>1. 0 \in 0 .. Len(Script) /\ None \in Replies
  BY ScriptShape DEF Replies
<1>2. LiveTypeOK
  BY <1>1, EmptyIsSeq DEF Init, LiveInit, LiveTypeOK, LabelSet
<1>3. ASSUME NEW r \in Runs PROVE QuietFetch(r) /\ OwnValues(r)
  <2>1. \A q \in Runs : pc[q] = "new"
    BY DEF Init, LiveInit
  <2>2. QuietFetch(r)
    BY <2>1, <1>3 DEF QuietFetch, Fetching
  <2>3. OwnValues(r)
    BY <1>3 DEF OwnValues, Init, LiveInit, LabelSet
  <2>4. QED
    BY <2>2, <2>3
<1>4. RunTypeOK
  <2>1. 0 \in 0 .. Cardinality(Runs) /\ \A r \in Runs : r > 0
    BY RunNumbers
  <2>2. tkq \in Seq(Posts)
    BY EmptyIsSeq DEF Init
  <2>3. run \in [Runs -> [kind : Kinds, gen : 0 .. gen, result : {"open", "yes", "no"}]]
    BY DEF Init, Kinds
  <2>4. \A r \in Runs : pc[r] = "new"
    BY DEF Init, LiveInit
  <2>5. /\ gen = 1 /\ labelGen = 1 /\ runs = 0 /\ overlapped = FALSE /\ shown = 0
    BY DEF Init
  <2>6. /\ gen \in Nat /\ labelGen \in 0 .. gen /\ runs \in 0 .. Cardinality(Runs)
        /\ overlapped \in BOOLEAN /\ shown \in Runs \cup {0}
    <3>1. gen \in Nat /\ labelGen \in 0 .. gen
      BY <2>5
    <3>2. runs \in 0 .. Cardinality(Runs)
      BY <2>1, <2>5
    <3>3. overlapped \in BOOLEAN /\ shown \in Runs \cup {0}
      BY <2>5
    <3>4. QED
      BY <3>1, <3>2, <3>3
  <2>7. \A r \in Runs : pc[r] = "new" <=> r > runs
    BY <2>1, <2>4, <2>5
  <2>8. \A r \in Runs : pc[r] \notin {"scan", "release", "bind"} \cup Reading
    BY <2>4 DEF Reading
  <2>9. QED
    BY <2>2, <2>3, <2>6, <2>7, <2>8 DEF RunTypeOK
<1>5. PostsInv
  <2>1. 1 .. Len(tkq) = {}
    BY <1>0 DEF Init
  <2>2. QED
    BY <2>1, Zenon DEF PostsInv
<1>6. QED
  BY <1>2, <1>3, <1>4, <1>5 DEF RunInv, FetchInv

\* Nothing changes in a stuttering step.
LEMMA RunStutter == RunInv /\ UNCHANGED vars => RunInv'
<1> SUFFICES ASSUME RunInv, UNCHANGED vars PROVE RunInv'
  OBVIOUS
<1>1. UNCHANGED <<bound, pc, step, supports, data, inq, slow, disturbed, mixed, torn, gen, labelGen, shown, runs, run,
                  overlapped, tkq>>
  BY DEF vars, liveVars, sharing, screenVars, runVars
<1>2. LiveTypeOK'
  BY <1>1 DEF RunInv, FetchInv, LiveTypeOK
<1>3. ASSUME NEW q \in Runs PROVE QuietFetch(q)' /\ OwnValues(q)'
  <2>1. \A p \in Runs : Fetching(p)' = Fetching(p)
    BY <1>1 DEF Fetching
  <2>2. QuietFetch(q) /\ OwnValues(q)
    BY DEF RunInv, FetchInv
  <2>3. QuietFetch(q)'
    BY <1>1, <2>1, <2>2 DEF QuietFetch
  <2>4. OwnValues(q)'
    BY <1>1, <2>2 DEF OwnValues
  <2>5. QED
    BY <2>3, <2>4
<1>4. RunTypeOK'
  BY <1>1 DEF RunInv, RunTypeOK
<1>5. PostsInv'
  BY <1>1 DEF RunInv, PostsInv
<1>6. QED
  BY <1>2, <1>3, <1>4, <1>5 DEF RunInv, FetchInv

\* The fetches, the runs and the callbacks, in every behaviour.
LEMMA RunAlways == Spec => []RunInv
<1>1. RunInv /\ [Next]_vars => RunInv'
  BY FetchStep, RunTypeStep, PostsStep, RunStutter DEF RunInv
<1>2. QED
  BY <1>1, RunInit, PTL DEF Spec

\* obd/live_diagnostic_commands.py:128 and gui/main_interface.py:344: the live
\* screen shows under each name the value of that PID, whatever other fetches on
\* the device and late replies leave in its queue, unless reads that overlap tore a
\* reply of its fetch, or, for the temperatures, disturbed it; and a fetch that
\* nothing disturbed gets no torn one.
THEOREM ValuesKeepTheirNames == Spec => []LiveValuesAreTheirs
<1>1. RunInv => LiveValuesAreTheirs
  <2> SUFFICES ASSUME RunInv PROVE LiveValuesAreTheirs
    OBVIOUS
  <2>1. torn \subseteq disturbed
    BY DEF RunInv, FetchInv, LiveTypeOK
  <2>2. ASSUME shown # 0, NEW l \in DOMAIN data[shown],
               (l \notin Temperatures /\ shown \notin torn) \/ shown \notin disturbed
        PROVE  data[shown][l] \in {l, None}
    <3>1. shown \in Runs
      BY <2>2 DEF RunInv, RunTypeOK
    <3>2. DOMAIN data[shown] = LabelSet
      BY <3>1 DEF RunInv, FetchInv, LiveTypeOK
    <3>3. QED
      BY <2>2, <3>1, <3>2 DEF RunInv, FetchInv, OwnValues
  <2>3. QED
    BY <2>1, <2>2 DEF LiveValuesAreTheirs
<1>2. QED
  BY <1>1, RunAlways, PTL

-----------------------------------------------------------------------------
(* The windows.                                                            *)

\* Two windows that ask the same.
Alike(v, w) == v.what = w.what /\ v.brand = w.brand /\ v.menu = w.menu

\* From m to n the windows are the same; one is gone; one is new.
Same(m, n) == Len(n) = Len(m) /\ \A j \in 1 .. Len(m) : Alike(n[j], m[j])
Less(m, n, k) ==
  /\ k \in 1 .. Len(m) /\ Len(n) = Len(m) - 1
  /\ \A j \in 1 .. Len(m) - 1 : Alike(n[j], m[IF j < k THEN j ELSE j + 1])
More(m, n, w) ==
  /\ Len(n) = Len(m) + 1 /\ n[Len(m) + 1] = w
  /\ \A j \in 1 .. Len(m) : Alike(n[j], m[j])

\* A window opened goes on top of the others.
LEMMA OpenedWindows ==
  ASSUME NEW m \in Seq(Windows), NEW w \in Windows
  PROVE  Opened(m, w) \in Seq(Windows) /\ More(m, Opened(m, w), w)
<1> DEFINE q == [k \in DOMAIN m |->
            [m[k] EXCEPT
               !.answer = IF IsBox(w) /\ IsBox(m[k]) THEN "yes" ELSE @,
               !.grab = IF @ = "has"
                        THEN IF IsBox(w) /\ \A j \in DOMAIN m : ~IsBox(m[j]) THEN "saved" ELSE "no"
                        ELSE @]]
<1>1. Len(m) \in Nat /\ DOMAIN m = 1 .. Len(m) /\ \A k \in 1 .. Len(m) : m[k] \in Windows
  OBVIOUS
<1>2. \A k \in 1 .. Len(m) : q[k] \in Windows /\ Alike(q[k], m[k])
  <2> SUFFICES ASSUME NEW k \in 1 .. Len(m) PROVE q[k] \in Windows /\ Alike(q[k], m[k])
    OBVIOUS
  <2>1. m[k] \in Windows
    BY <1>1
  <2>2. PICK a, g : /\ a = IF IsBox(w) /\ IsBox(m[k]) THEN "yes" ELSE m[k].answer
                    /\ g = IF m[k].grab = "has"
                           THEN IF IsBox(w) /\ \A j \in DOMAIN m : ~IsBox(m[j]) THEN "saved" ELSE "no"
                           ELSE m[k].grab
    OBVIOUS
  <2>3. q[k] = [m[k] EXCEPT !.answer = a, !.grab = g]
    BY <1>1, <2>1, <2>2 DEF Windows
  <2>4. a \in {"yes", m[k].answer} /\ g \in {"saved", "no", m[k].grab}
    BY <2>2
  <2> HIDE DEF q
  <2>5. QED
    BY <2>1, <2>3, <2>4 DEF Windows, Alike
<1>3. q \in Seq(Windows) /\ Len(q) = Len(m)
  <2>1. q \in [1 .. Len(m) -> Windows]
    BY <1>1, <1>2
  <2> HIDE DEF q
  <2>2. QED
    BY <1>1, <2>1
<1>4. Opened(m, w) = Append(q, w)
  BY DEF Opened
<1> HIDE DEF q
<1>5. QED
  BY <1>2, <1>3, <1>4, AppendElements DEF More

\* A window that closes leaves the others, also when the grab is given back.
LEMMA RemovedWindows ==
  ASSUME NEW m \in Seq(Windows), NEW k \in 1 .. Len(m), NEW n, n \in {RemoveAt(m, k), GivenBack(RemoveAt(m, k))}
  PROVE  n \in Seq(Windows) /\ Less(m, n, k)
<1>0. PICK q : q = RemoveAt(m, k)
  OBVIOUS
<1>1. /\ q \in Seq(Windows) /\ Len(m) \in Nat /\ Len(q) = Len(m) - 1
      /\ \A j \in 1 .. Len(m) - 1 : q[j] = m[IF j < k THEN j ELSE j + 1]
  BY <1>0, RemoveElements
<1>2. GivenBack(q) \in Seq(Windows) /\ Same(q, GivenBack(q))
  <2>0. Len(q) \in Nat /\ DOMAIN q = 1 .. Len(q) /\ \A j \in 1 .. Len(q) : q[j] \in Windows
    BY <1>1
  <2> DEFINE g == [j \in DOMAIN q |-> [q[j] EXCEPT !.grab = IF @ = "saved" THEN "has" ELSE "no"]]
  <2>1. \A j \in 1 .. Len(q) : g[j] \in Windows /\ Alike(g[j], q[j])
    BY <2>0 DEF Windows, Alike
  <2>2. g \in [1 .. Len(q) -> Windows]
    BY <2>0, <2>1
  <2>3. GivenBack(q) = q \/ GivenBack(q) = g
    BY DEF GivenBack
  <2> HIDE DEF g
  <2>4. g \in Seq(Windows) /\ Len(g) = Len(q)
    BY <2>0, <2>2
  <2>5. QED
    BY <1>1, <2>1, <2>3, <2>4 DEF Same, Alike
<1>3. CASE n = q
  BY <1>1, <1>3 DEF Less, Alike
<1>4. CASE n = GivenBack(q)
  <2>1. /\ n \in Seq(Windows) /\ Len(n) = Len(m) - 1
        /\ \A j \in 1 .. Len(m) - 1 : Alike(n[j], q[j])
    BY <1>1, <1>2, <1>4 DEF Same
  <2>2. QED
    BY <1>1, <2>1 DEF Less, Alike
<1>5. QED
  BY <1>0, <1>3, <1>4

\* A window that is answered stays what it is.
LEMMA AnsweredWindows ==
  ASSUME NEW m \in Seq(Windows), NEW k \in DOMAIN m, NEW answer \in {"yes", "no"}, NEW n,
         n \in {[m EXCEPT ![k].answer = answer], [m EXCEPT ![k].answer = answer, ![k].grab = "no"]}
  PROVE  n \in Seq(Windows) /\ Same(m, n)
<1>1. Len(m) \in Nat /\ DOMAIN m = 1 .. Len(m) /\ \A j \in 1 .. Len(m) : m[j] \in Windows
  OBVIOUS
<1>2. PICK v : n = [m EXCEPT ![k] = v] /\ v \in {[m[k] EXCEPT !.answer = answer], [m[k] EXCEPT !.answer = answer, !.grab = "no"]}
  OBVIOUS
<1>3. v \in Windows /\ Alike(v, m[k])
  <2>1. m[k] \in Windows
    BY <1>1
  <2>2. QED
    BY <1>2, <2>1 DEF Windows, Alike
<1>4. n \in Seq(Windows) /\ Len(n) = Len(m)
  BY <1>1, <1>2, <1>3
<1>5. \A j \in 1 .. Len(m) : Alike(n[j], m[j])
  <2>1. \A j \in 1 .. Len(m) : n[j] = IF j = k THEN v ELSE m[j]
    BY <1>1, <1>2
  <2>2. QED
    BY <1>3, <2>1 DEF Alike
<1>6. QED
  BY <1>4, <1>5 DEF Same

\* Is there a window of that kind among m?
Has(m, what) == \E k \in DOMAIN m : m[k].what = what

\* What the windows that are the same, fewer or more are.
LEMMA SameHas ==
  ASSUME NEW m \in Seq(Windows), NEW n \in Seq(Windows), Same(m, n)
  PROVE  /\ \A j \in DOMAIN n : \E i \in DOMAIN m : Alike(n[j], m[i])
         /\ \A what : Has(n, what) <=> Has(m, what)
         /\ Alone(m) => Alone(n)
<1>1. DOMAIN n = DOMAIN m /\ \A j \in DOMAIN m : Alike(n[j], m[j])
  BY DEF Same
<1>2. QED
  BY <1>1 DEF Has, Alone, Alike

\* A window gone.
LEMMA LessHas ==
  ASSUME NEW m \in Seq(Windows), NEW n \in Seq(Windows), NEW k, Less(m, n, k)
  PROVE  /\ \A j \in DOMAIN n : \E i \in DOMAIN m : Alike(n[j], m[i])
         /\ \A what : Has(n, what) => Has(m, what)
         /\ \A what : Has(m, what) => Has(n, what) \/ what = m[k].what
         /\ Has(m, m[k].what)
         /\ Alone(m) => Alone(n) /\ (m[k].what = "password" => ~Has(n, "password"))
<1> DEFINE From(j) == IF j < k THEN j ELSE j + 1
<1>1. /\ k \in DOMAIN m /\ k \in Nat
      /\ \A j \in DOMAIN n : From(j) \in DOMAIN m /\ From(j) # k /\ Alike(n[j], m[From(j)])
      /\ \A i, j \in DOMAIN n : From(i) = From(j) => i = j
  <2>1. /\ Len(n) = Len(m) - 1 /\ k \in 1 .. Len(m) /\ Len(m) \in Nat /\ Len(n) \in Nat
        /\ DOMAIN n = 1 .. Len(n) /\ DOMAIN m = 1 .. Len(m)
        /\ \A j \in 1 .. Len(m) - 1 : Alike(n[j], m[From(j)])
    BY DEF Less
  <2> HIDE DEF Less
  <2>2. \A j \in 1 .. Len(n) : From(j) \in 1 .. Len(m) /\ From(j) # k
    BY <2>1
  <2>3. \A i, j \in 1 .. Len(n) : From(i) = From(j) => i = j
    BY <2>1
  <2>4. k \in Nat
    BY <2>1
  <2> HIDE DEF From
  <2>5. QED
    BY <2>1, <2>2, <2>3, <2>4
<1>2. \A i \in DOMAIN m : i # k => \E j \in DOMAIN n : From(j) = i
  <2> SUFFICES ASSUME NEW i \in DOMAIN m, i # k PROVE \E j \in DOMAIN n : From(j) = i
    OBVIOUS
  <2>1. Len(n) = Len(m) - 1 /\ k \in 1 .. Len(m) /\ Len(m) \in Nat /\ i \in 1 .. Len(m) /\ DOMAIN n = 1 .. Len(n)
    BY DEF Less
  <2>2. CASE i < k
    BY <2>1, <2>2
  <2>3. CASE i > k
    <3>1. i - 1 \in DOMAIN n /\ From(i - 1) = i
      BY <2>1, <2>3
    <3>2. QED
      BY <3>1
  <2>4. QED
    BY <2>1, <2>2, <2>3
<1> HIDE DEF From
<1>3. /\ \A j \in DOMAIN n : \E i \in DOMAIN m : Alike(n[j], m[i])
      /\ \A what : Has(n, what) => Has(m, what)
  BY <1>1 DEF Has, Alike
<1>4. \A what : Has(m, what) => Has(n, what) \/ what = m[k].what
  BY <1>1, <1>2 DEF Has, Alike
<1>5. Alone(m) => Alone(n) /\ (m[k].what = "password" => ~Has(n, "password"))
  <2> SUFFICES ASSUME Alone(m) PROVE Alone(n) /\ (m[k].what = "password" => ~Has(n, "password"))
    OBVIOUS
  <2>1. Alone(n)
    BY <1>1 DEF Alone, Alike
  <2>2. m[k].what = "password" => ~Has(n, "password")
    BY <1>1 DEF Alone, Alike, Has
  <2>3. QED
    BY <2>1, <2>2
<1>6. Has(m, m[k].what)
  BY <1>1 DEF Has
<1>7. QED
  BY <1>3, <1>4, <1>5, <1>6

\* A window new.
LEMMA MoreHas ==
  ASSUME NEW m \in Seq(Windows), NEW n \in Seq(Windows), NEW w, More(m, n, w)
  PROVE  /\ \A j \in DOMAIN n : n[j] = w \/ \E i \in DOMAIN m : Alike(n[j], m[i])
         /\ \A what : Has(n, what) <=> Has(m, what) \/ what = w.what
         /\ Alone(m) /\ (w.what = "password" => ~Has(m, "password")) => Alone(n)
<1> DEFINE l == Len(m) + 1
<1>1. /\ l \in DOMAIN n /\ n[l] = w
      /\ \A j \in DOMAIN m : j \in DOMAIN n /\ j # l /\ Alike(n[j], m[j])
      /\ \A j \in DOMAIN n : j = l \/ j \in DOMAIN m
  BY DEF More
<1> HIDE DEF l
<1>2. \A j \in DOMAIN n : n[j] = w \/ \E i \in DOMAIN m : Alike(n[j], m[i])
  BY <1>1
<1>3. \A what : Has(n, what) <=> Has(m, what) \/ what = w.what
  BY <1>1 DEF Has, Alike
<1>4. Alone(m) /\ (w.what = "password" => ~Has(m, "password")) => Alone(n)
  BY <1>1 DEF Has, Alike, Alone
<1>5. QED
  BY <1>2, <1>3, <1>4

\* Where a new window comes from.
Comes(w) ==
  \/ w.what = "found" /\ \E r \in Runs : ScanResult(r) /\ run[r].result = "yes"
  \/ w.what = "password" /\ AskPassword
  \/ w.what \in {"noDevice", "box", "brandCodes"}
  \/ w.what \in Kept /\ Fits(w) /\ UNCHANGED <<gen, screen, make>>

\* What a step does to the windows.
WindowsEffect ==
  /\ modals' \in Seq(Windows)
  /\ \A j \in DOMAIN modals' : Comes(modals'[j]) \/ \E i \in DOMAIN modals : Alike(modals'[j], modals[i])
  /\ Waits("found") => Waits("found")' \/ \E k \in DOMAIN modals : FoundOk(k) \/ FoundClosed(k)
  /\ Waits("noDevice") => Waits("noDevice")' \/ \E k \in DOMAIN modals : NoDeviceReturns(k)
  /\ Waits("cleared") => Waits("cleared")' \/ \E k \in DOMAIN modals : ClearedReturns(k)
  /\ patient /\ Alone(modals) => Alone(modals')
  /\ Waits("password")' => Waits("password") \/ AskPassword

\* A step that leaves the windows alone, or answers one.
LEMMA SameEffect ==
  ASSUME ScreenTypeOK, modals' \in Seq(Windows), Same(modals, modals')
  PROVE  WindowsEffect
<1>1. /\ \A j \in DOMAIN modals' : \E i \in DOMAIN modals : Alike(modals'[j], modals[i])
      /\ \A what : Has(modals', what) <=> Has(modals, what)
      /\ Alone(modals) => Alone(modals')
  BY SameHas DEF ScreenTypeOK
<1>2. \A what : (Waits(what)' <=> Has(modals', what)) /\ (Waits(what) <=> Has(modals, what))
  BY DEF Waits, Has
<1>3. QED
  BY <1>1, <1>2 DEF WindowsEffect

\* A step that leaves them as they are.
LEMMA NoEffect == ScreenTypeOK /\ modals' = modals => WindowsEffect
BY SameEffect DEF ScreenTypeOK, Same, Alike

\* A step that opens a window.
LEMMA MoreEffect ==
  ASSUME ScreenTypeOK, NEW w \in Windows, Comes(w), modals' = Opened(modals, w),
         w.what = "password" /\ patient => ~Waits("password")
  PROVE  WindowsEffect /\ (\E k \in DOMAIN modals' : modals'[k].what = w.what)
<1>1. modals \in Seq(Windows)
  BY DEF ScreenTypeOK
<1>2. modals' \in Seq(Windows) /\ More(modals, modals', w)
  BY <1>1, OpenedWindows
<1>3. /\ \A j \in DOMAIN modals' : modals'[j] = w \/ \E i \in DOMAIN modals : Alike(modals'[j], modals[i])
      /\ \A what : Has(modals', what) <=> Has(modals, what) \/ what = w.what
      /\ Alone(modals) /\ (w.what = "password" => ~Has(modals, "password")) => Alone(modals')
  BY <1>1, <1>2, MoreHas
<1>4. \A what : (Waits(what)' <=> Has(modals', what)) /\ (Waits(what) <=> Has(modals, what))
  BY DEF Waits, Has
<1>5. \A j \in DOMAIN modals' : modals'[j] = w => Comes(modals'[j])
  BY DEF Comes, Fits
<1>6. w.what = "password" => AskPassword
  BY DEF Comes, Kept
<1>7. \E k \in DOMAIN modals' : modals'[k].what = w.what
  BY <1>3 DEF Has
<1>8. QED
  BY <1>2, <1>3, <1>4, <1>5, <1>6, <1>7 DEF WindowsEffect

\* A step that closes one.
LEMMA LessEffect ==
  ASSUME ScreenTypeOK, NEW k \in DOMAIN modals, modals' \in {RemoveAt(modals, k), GivenBack(RemoveAt(modals, k))},
         modals[k].what = "found" => FoundOk(k) \/ FoundClosed(k),
         modals[k].what = "noDevice" => NoDeviceReturns(k),
         modals[k].what = "cleared" => ClearedReturns(k)
  PROVE  /\ WindowsEffect
         /\ Alone(modals) /\ modals[k].what = "password" => ~Has(modals', "password")
<1>1. modals \in Seq(Windows) /\ k \in 1 .. Len(modals)
  BY DEF ScreenTypeOK
<1>2. modals' \in Seq(Windows) /\ Less(modals, modals', k)
  BY <1>1, RemovedWindows
<1>3. /\ \A j \in DOMAIN modals' : \E i \in DOMAIN modals : Alike(modals'[j], modals[i])
      /\ \A what : Has(modals', what) => Has(modals, what)
      /\ \A what : Has(modals, what) => Has(modals', what) \/ what = modals[k].what
      /\ Alone(modals) => Alone(modals') /\ (modals[k].what = "password" => ~Has(modals', "password"))
  BY <1>1, <1>2, LessHas
<1>4. \A what : (Waits(what)' <=> Has(modals', what)) /\ (Waits(what) <=> Has(modals, what))
  BY DEF Waits, Has
<1>5. QED
  BY <1>2, <1>3, <1>4 DEF WindowsEffect

\* The Clear button of the simulated codes closes one and opens another.
LEMMA ClearingEffect ==
  ASSUME RunInv, ScreenTypeOK, NEW k \in DOMAIN modals, ClearAndClose(k)
  PROVE  WindowsEffect /\ Waits("cleared")' /\ modals[k].what = "codes"
<1>0. PICK m : m = RemoveAt(modals, k)
  OBVIOUS
<1> DEFINE v == Window("cleared", modals[k].brand, modals[k].menu)
<1>1. /\ modals \in Seq(Windows) /\ k \in 1 .. Len(modals) /\ modals[k] \in Windows
      /\ modals[k].what = "codes" /\ Fits(modals[k])
      /\ modals' = Opened(m, v) /\ UNCHANGED <<gen, screen, make>>
  BY <1>0 DEF ScreenTypeOK, ClearAndClose, MayAnswer, IsOpen, screenVars
<1>2. v \in Windows /\ v.what = "cleared" /\ v.brand = modals[k].brand /\ v.menu = modals[k].menu
  BY <1>1 DEF Window, Windows, Whats, Kept
<1>3. v.what \in Kept /\ Fits(v)
  BY <1>1, <1>2 DEF Fits, Kept
<1> HIDE DEF v
<1>4. m \in Seq(Windows) /\ Less(modals, m, k)
  BY <1>0, <1>1, RemovedWindows
<1>5. modals' \in Seq(Windows) /\ More(m, modals', v)
  BY <1>1, <1>2, <1>4, OpenedWindows
<1>6. /\ \A j \in DOMAIN m : \E i \in DOMAIN modals : Alike(m[j], modals[i])
      /\ \A what : Has(m, what) => Has(modals, what)
      /\ \A what : Has(modals, what) => Has(m, what) \/ what = "codes"
      /\ Alone(modals) => Alone(m)
  BY <1>1, <1>4, LessHas
<1>7. /\ \A j \in DOMAIN modals' : modals'[j] = v \/ \E i \in DOMAIN m : Alike(modals'[j], m[i])
      /\ \A what : Has(modals', what) <=> Has(m, what) \/ what = "cleared"
      /\ Alone(m) => Alone(modals')
  BY <1>2, <1>4, <1>5, MoreHas
<1>8. \A what : (Waits(what)' <=> Has(modals', what)) /\ (Waits(what) <=> Has(modals, what))
  BY DEF Waits, Has
<1>9. \A j \in DOMAIN modals' : Comes(modals'[j]) \/ \E i \in DOMAIN modals : Alike(modals'[j], modals[i])
  <2> SUFFICES ASSUME NEW j \in DOMAIN modals'
               PROVE  Comes(modals'[j]) \/ \E i \in DOMAIN modals : Alike(modals'[j], modals[i])
    OBVIOUS
  <2>1. CASE modals'[j] = v
    BY <1>1, <1>3, <2>1 DEF Comes, Fits
  <2>2. CASE modals'[j] # v
    BY <1>6, <1>7, <2>2 DEF Alike
  <2>3. QED
    BY <2>1, <2>2
<1>10. QED
  BY <1>1, <1>5, <1>6, <1>7, <1>8, <1>9 DEF WindowsEffect

\* A window that asks nothing of a brand.
LEMMA PlainWindow ==
  ASSUME NEW what \in {"found", "noDevice", "password", "box", "brandCodes"}
  PROVE  Plain(what) \in Windows /\ Plain(what).what = what
<1>1. 0 \in Nat /\ what \in Whats
  BY DEF Whats
<1>2. QED
  BY <1>1 DEF Plain, Window, Windows

\* The codes of a brand, or the box that says that they are cleared.
LEMMA MenuWindow ==
  ASSUME RunInv, ScreenTypeOK, InMake, UNCHANGED <<gen, screen, make>>, NEW what \in Kept
  PROVE  Window(what, make, gen) \in Windows /\ Window(what, make, gen).what = what /\ Comes(Window(what, make, gen))
<1>1. gen \in Nat /\ make \in Makes /\ gen <= gen
  BY Counters DEF ScreenTypeOK
<1> DEFINE w == Window(what, make, gen)
<1>2. w \in Windows /\ w.what = what /\ w.brand = make /\ w.menu = gen
  BY <1>1 DEF Window, Windows, Whats
<1> HIDE DEF w
<1>3. QED
  BY <1>1, <1>2 DEF Comes, Fits, w

\* What the answer to a window does to the windows.
LEMMA AnswerWindows ==
  ASSUME RunInv, ScreenTypeOK, NEW k \in DOMAIN modals, Answer(k)
  PROVE  WindowsEffect
<1>0. modals \in Seq(Windows)
  BY DEF ScreenTypeOK
<1>1. CASE FoundOk(k) \/ FoundClosed(k)
  <2>1. modals[k].what = "found" /\ modals' = RemoveAt(modals, k)
    BY <1>1 DEF FoundOk, FoundClosed, MayAnswer, IsOpen
  <2>2. QED
    BY <1>1, <2>1, LessEffect
<1>2. CASE CloseCodes(k)
  <2>1. modals[k].what \in {"codes", "noCodes"} /\ modals' = RemoveAt(modals, k)
    BY <1>2 DEF CloseCodes, IsOpen
  <2>2. QED
    BY <2>1, LessEffect
<1>3. CASE ClearAndClose(k)
  BY <1>3, ClearingEffect
<1>4. CASE BoxOk(k)
  <2>1. modals' = [modals EXCEPT ![k].answer = "yes"]
    BY <1>4 DEF BoxOk
  <2>2. modals' \in Seq(Windows) /\ Same(modals, modals')
    BY <1>0, <2>1, AnsweredWindows
  <2>3. QED
    BY <2>2, SameEffect
<1>5. ASSUME NEW answer \in {"yes", "no"}, PasswordAnswered(k, answer) PROVE WindowsEffect
  <2>1. modals' = [modals EXCEPT ![k].answer = answer, ![k].grab = "no"]
    BY <1>5 DEF PasswordAnswered
  <2>2. modals' \in Seq(Windows) /\ Same(modals, modals')
    BY <1>0, <2>1, AnsweredWindows
  <2>3. QED
    BY <2>2, SameEffect
<1>6. QED
  BY <1>1, <1>2, <1>3, <1>4, <1>5 DEF Answer

\* What a handler that goes on does to them.
LEMMA ReturnWindows ==
  ASSUME RunInv, ScreenTypeOK, NEW k \in DOMAIN modals, Return(k)
  PROVE  WindowsEffect
<1>1. modals' \in {RemoveAt(modals, k), GivenBack(RemoveAt(modals, k))}
  BY DEF Return, PasswordReturns, NoDeviceReturns, BoxReturns, ClearedReturns
<1>2. CASE NoDeviceReturns(k)
  <2>1. modals[k].what = "noDevice"
    BY <1>2 DEF NoDeviceReturns
  <2>2. QED
    BY <1>1, <1>2, <2>1, LessEffect
<1>3. CASE ClearedReturns(k)
  <2>1. modals[k].what = "cleared"
    BY <1>3 DEF ClearedReturns
  <2>2. QED
    BY <1>1, <1>3, <2>1, LessEffect
<1>4. CASE PasswordReturns(k) \/ BoxReturns(k)
  <2>1. modals[k].what \in {"password", "box", "brandCodes"}
    BY <1>4 DEF PasswordReturns, BoxReturns
  <2>2. QED
    BY <1>1, <2>1, LessEffect
<1>5. QED
  BY <1>2, <1>3, <1>4 DEF Return

\* A password that is answered is asked for no more.
LEMMA PasswordGone ==
  ASSUME ScreenTypeOK, Alone(modals), NEW k \in DOMAIN modals, PasswordReturns(k)
  PROVE  Waits("password") /\ ~Waits("password")'
<1>1. modals[k].what = "password" /\ modals' \in {RemoveAt(modals, k), GivenBack(RemoveAt(modals, k))}
  BY DEF PasswordReturns
<1>2. ~Has(modals', "password")
  BY <1>1, LessEffect
<1>3. QED
  BY <1>1, <1>2 DEF Waits, Has

\* What any step does to the windows.
LEMMA WindowsStep ==
  ASSUME RunInv, ScreenTypeOK, Next
  PROVE  WindowsEffect
<1>0. UNCHANGED modals => WindowsEffect
  BY NoEffect
<1>1. ASSUME NEW what \in {"noDevice", "box", "brandCodes"}, modals' = Opened(modals, Plain(what))
      PROVE  WindowsEffect
  <2>1. Plain(what) \in Windows /\ Plain(what).what = what
    BY PlainWindow
  <2>2. PICK w \in Windows : w = Plain(what)
    BY <2>1
  <2>3. Comes(w)
    BY <2>1, <2>2 DEF Comes
  <2>4. QED
    BY <1>1, <2>1, <2>2, <2>3, MoreEffect
<1>2. CASE AskPassword
  <2>1. CASE modals' = Opened(modals, Plain("box"))
    BY <1>1, <2>1
  <2>2. CASE modals' = Opened(modals, Plain("password"))
    <3>1. PICK w \in Windows : w = Plain("password") /\ w.what = "password"
      BY PlainWindow
    <3>2. Comes(w)
      BY <1>2, <3>1 DEF Comes
    <3>3. patient => ~Waits("password")
      BY <1>2 DEF AskPassword, MayStart
    <3>4. QED
      BY <2>2, <3>1, <3>2, <3>3, MoreEffect
  <2>3. QED
    BY <1>2, <2>1, <2>2 DEF AskPassword
<1>3. ASSUME NEW known \in BOOLEAN, ReadBrand(known) PROVE WindowsEffect
  <2>1. PICK what \in {"box", "brandCodes"} : modals' = Opened(modals, Plain(what))
    BY <1>3 DEF ReadBrand
  <2>2. QED
    BY <1>1, <2>1
<1>4. CASE ReadDtcPopup \/ ClearCodes
  <2>1. InMake /\ UNCHANGED <<gen, screen, make>>
    BY <1>4 DEF ReadDtcPopup, ClearCodes, screenVars
  <2>2. PICK what \in Kept : modals' = Opened(modals, Window(what, make, gen))
    BY <1>4 DEF ReadDtcPopup, ClearCodes, Kept
  <2>3. Window(what, make, gen) \in Windows /\ Window(what, make, gen).what = what /\ Comes(Window(what, make, gen))
    BY <2>1, MenuWindow
  <2>4. PICK w \in Windows : w = Window(what, make, gen)
    BY <2>3
  <2>5. Comes(w) /\ w.what # "password"
    BY <2>3, <2>4 DEF Kept
  <2>6. QED
    BY <2>2, <2>4, <2>5, MoreEffect
<1>5. CASE \/ \E to \in Screens : Go(screen, to)
           \/ StartScan \/ EnterLive \/ Rerun
           \/ \E b \in Makes : ShowBrandMenu(b)
           \/ BackToMakes
  BY <1>0, <1>5 DEF Go, StartScan, EnterLive, Rerun, ShowBrandMenu, BackToMakes
<1>6. CASE Handler
  BY <1>2, <1>3, <1>4, <1>5, <1>6, AnswerWindows, ReturnWindows DEF Handler, Click
<1>7. ASSUME NEW r \in Runs, Thread(r) PROVE WindowsEffect
  BY <1>0, <1>7, ThreadEffect DEF RunsEffect
<1>8. ASSUME NEW r \in Runs, Callback(r) PROVE WindowsEffect
  <2>1. CASE ScanResult(r)
    <3>1. CASE run[r].result = "yes"
      <4>1. modals' = Opened(modals, Plain("found"))
        BY <2>1, <3>1 DEF ScanResult
      <4>2. PICK w \in Windows : w = Plain("found") /\ w.what = "found"
        BY PlainWindow
      <4>3. Comes(w)
        BY <2>1, <3>1, <4>2 DEF Comes
      <4>4. QED
        BY <4>1, <4>2, <4>3, MoreEffect
    <3>2. CASE run[r].result # "yes"
      BY <1>1, <2>1, <3>2 DEF ScanResult
    <3>3. QED
      BY <3>1, <3>2
  <2>2. CASE BindResult(r)
    BY <1>0, <1>1, <2>2 DEF BindResult
  <2>3. CASE LiveResult(r) \/ StopSpinner(r)
    BY <1>0, <2>3 DEF LiveResult, StopSpinner
  <2>4. QED
    BY <1>8, <2>1, <2>2, <2>3 DEF Callback
<1>9. CASE Arrive /\ UNCHANGED <<screenVars, runVars, simVars, mac, modals, tkq>>
  BY <1>0, <1>9
<1>10. QED
  BY <1>6, <1>7, <1>8, <1>9, NextDoes

-----------------------------------------------------------------------------
(* What the screens offer.                                                 *)

\* The clicks and answers that change no screen, no button and no brand.
Quiet ==
  \/ StartScan \/ AskPassword \/ Rerun
  \/ \E known \in BOOLEAN : ReadBrand(known)
  \/ \E k \in DOMAIN modals :
       \/ FoundClosed(k) \/ BoxOk(k) \/ CloseCodes(k) \/ \E answer \in {"yes", "no"} : PasswordAnswered(k, answer)
       \/ PasswordReturns(k) \/ NoDeviceReturns(k) \/ BoxReturns(k)

\* What they leave.
LEMMA QuietLeaves == Quiet => UNCHANGED <<screen, gen, buttons, labelGen, picker, simVars>>
BY DEF Quiet, StartScan, AskPassword, Rerun, ReadBrand, FoundClosed, BoxOk, CloseCodes, PasswordAnswered,
   PasswordReturns, NoDeviceReturns, BoxReturns, screenVars

\* The other handlers.
LEMMA Handlers ==
  ASSUME Handler
  PROVE  \/ Quiet
         \/ \E to : Build(to) /\ to \notin {"make", "stacked"} /\ UNCHANGED simVars
                    /\ (to \in Menus => screen \in Menus)
         \/ \E b \in Makes : ShowBrandMenu(b)
         \/ \E k \in DOMAIN modals : FoundOk(k)
         \/ BackToMakes \/ ReadDtcPopup \/ ClearCodes
         \/ \E k \in DOMAIN modals : ClearAndClose(k)
         \/ \E k \in DOMAIN modals : ClearedReturns(k)
<1>1. ASSUME NEW to \in Screens, Go(screen, to)
      PROVE  /\ Build(to) /\ to \notin {"make", "stacked"} /\ UNCHANGED simVars
             /\ to \in Menus => screen \in Menus
  BY <1>1 DEF Go, MenuLeads, LiveLeads, DtcLeads, BrandLeads, SimLeads, MakeLeads, Menus
<1>2. EnterLive => Build("live") /\ UNCHANGED simVars /\ screen \in Menus
  BY DEF EnterLive, Menus
<1>3. QED
  BY <1>1, <1>2 DEF Handler, Click, Answer, Return, Quiet

\* The windows keep fitting the menus when no menu is drawn.
LEMMA FitsStep ==
  ASSUME RunInv, ScreenTypeOK, Next,
         \/ UNCHANGED <<gen, screen, make>>
         \/ UNCHANGED <<gen, make>> /\ (InMake' => InMake)
         \/ gen' = gen + 1
  PROVE  modals' \in Seq(Windows) /\ (\A k \in DOMAIN modals : Fits(modals[k]))'
<1>0. gen \in Nat
  BY Counters
<1>1. WindowsEffect
  BY WindowsStep
<1>2. modals' \in Seq(Windows)
  BY <1>1 DEF WindowsEffect
<1>3. ASSUME NEW j \in DOMAIN modals' PROVE Fits(modals[j])'
  <2>1. modals'[j].what \in Kept => Fits(modals'[j])
    <3>1. CASE Comes(modals'[j])
      BY <3>1 DEF Comes, Kept
    <3>2. CASE \E i \in DOMAIN modals : Alike(modals'[j], modals[i])
      BY <3>2 DEF ScreenTypeOK, Alike, Fits
    <3>3. QED
      BY <1>1, <3>1, <3>2 DEF WindowsEffect
  <2>2. modals'[j] \in Windows
    BY <1>2
  <2>3. modals'[j].menu \in Nat
    BY <2>2 DEF Windows
  <2>4. CASE UNCHANGED <<gen, make>> /\ (InMake' => InMake)
    BY <2>1, <2>4 DEF Fits
  <2>5. CASE UNCHANGED <<gen, screen, make>>
    BY <2>4, <2>5 DEF InMake
  <2>6. CASE gen' = gen + 1
    BY <1>0, <2>1, <2>3, <2>6 DEF Fits
  <2>7. QED
    BY <2>4, <2>5, <2>6
<1>4. QED
  BY <1>2, <1>3

\* The screens keep their types.
LEMMA ScreenTypeStep ==
  ASSUME RunInv, ScreenTypeOK, Next
  PROVE  ScreenTypeOK'
<1>0. gen \in Nat
  BY Counters
<1>2. mac' \in BOOLEAN
  <2>1. CASE Handler
    BY <2>1, HandlerDoes DEF HandlerEffect, ScreenTypeOK
  <2>2. ASSUME NEW r \in Runs, Thread(r) PROVE mac' \in BOOLEAN
    <3>1. mac' \in {mac, TRUE}
      BY <2>2, ThreadEffect DEF RunsEffect
    <3>2. QED
      BY <3>1 DEF ScreenTypeOK
  <2>3. ASSUME NEW r \in Runs, Callback(r) PROVE mac' \in BOOLEAN
    BY <2>3, CallbackScreens DEF ScreenTypeOK
  <2>4. QED
    BY <2>1, <2>2, <2>3, NextDoes DEF ScreenTypeOK
<1>3. ASSUME UNCHANGED <<gen, picker, make>>, InMake' => InMake, clearable' \in BOOLEAN, crossed' \in BOOLEAN,
             memory' \in [Makes -> {"unasked", "codes", "none"}]
      PROVE  ScreenTypeOK'
  <2>1. modals' \in Seq(Windows) /\ (\A k \in DOMAIN modals : Fits(modals[k]))'
    BY <1>3, FitsStep
  <2>2. QED
    BY <1>2, <1>3, <2>1 DEF ScreenTypeOK
<1>4. ASSUME NEW to, Build(to), to \notin {"make", "stacked"}, UNCHANGED simVars PROVE ScreenTypeOK'
  <2>1. gen' = gen + 1 /\ picker' \in {picker, gen + 1} /\ ~InMake' /\ gen' \in Nat
    BY <1>0, <1>4 DEF Build, InMake
  <2>2. modals' \in Seq(Windows) /\ (\A k \in DOMAIN modals : Fits(modals[k]))'
    BY <2>1, FitsStep
  <2>3. picker' \in Nat /\ picker' <= gen'
    BY <1>0, <2>1 DEF ScreenTypeOK
  <2>4. QED
    BY <1>2, <1>4, <2>1, <2>2, <2>3 DEF ScreenTypeOK, simVars
<1>5. CASE Handler
  <2>1. CASE Quiet
    <3>1. UNCHANGED <<screen, gen, picker, simVars>>
      BY <2>1, QuietLeaves
    <3>2. QED
      BY <1>3, <3>1 DEF ScreenTypeOK, simVars, InMake
  <2>2. CASE \E to : Build(to) /\ to \notin {"make", "stacked"} /\ UNCHANGED simVars
    BY <1>4, <2>2
  <2>3. ASSUME NEW b \in Makes, ShowBrandMenu(b) PROVE ScreenTypeOK'
    <3>1. /\ make' = b /\ memory' = memory /\ clearable' \in BOOLEAN /\ crossed' = FALSE
          /\ gen' = gen + 1 /\ picker' = picker
      BY <2>3 DEF ShowBrandMenu, HasActiveCodes, Build
    <3>2. modals' \in Seq(Windows) /\ (\A k \in DOMAIN modals : Fits(modals[k]))'
      BY <3>1, FitsStep
    <3>3. picker' \in Nat /\ picker' <= gen' /\ picker' < gen'
      BY <1>0, <3>1 DEF ScreenTypeOK
    <3>4. QED
      BY <1>2, <3>1, <3>2, <3>3 DEF ScreenTypeOK
  <2>4. ASSUME NEW k \in DOMAIN modals, FoundOk(k) PROVE ScreenTypeOK'
    BY <1>3, <2>4 DEF FoundOk, ScreenTypeOK, simVars, InMake
  <2>5. CASE BackToMakes
    BY <1>3, <2>5 DEF BackToMakes, ScreenTypeOK, simVars
  <2>6. CASE ReadDtcPopup
    <3>1. UNCHANGED <<screen, gen, picker, make>> /\ clearable' \in BOOLEAN /\ crossed' = FALSE
      BY <2>6 DEF ReadDtcPopup, HasActiveCodes, screenVars
    <3>2. memory' = memory \/ \E c \in {"codes", "none"} : memory' = [memory EXCEPT ![make] = c]
      BY <2>6 DEF ReadDtcPopup, SimulateRead
    <3>3. memory' \in [Makes -> {"unasked", "codes", "none"}]
      BY <3>2 DEF ScreenTypeOK
    <3>4. QED
      BY <1>3, <3>1, <3>3 DEF InMake
  <2>7. ASSUME NEW b, UNCHANGED <<make, clearable, crossed, screenVars>>, ClearBrandDtc(b) PROVE ScreenTypeOK'
    <3>1. UNCHANGED <<screen, gen, picker>> /\ memory' \in [Makes -> {"unasked", "codes", "none"}]
      BY <2>7 DEF ScreenTypeOK, ClearBrandDtc, screenVars
    <3>2. QED
      BY <1>3, <2>7, <3>1 DEF InMake, ScreenTypeOK
  <2>8. ClearCodes \/ (\E k \in DOMAIN modals : ClearAndClose(k)) => ScreenTypeOK'
    BY <2>7 DEF ClearCodes, ClearAndClose
  <2>9. ASSUME NEW k \in DOMAIN modals, ClearedReturns(k) PROVE ScreenTypeOK'
    <3>1. /\ UNCHANGED <<screen, gen, picker, make, memory>>
          /\ clearable' \in {clearable, HasActiveCodes(modals[k].brand)}
          /\ crossed' = (crossed \/ modals[k].menu # gen)
      BY <2>9 DEF ClearedReturns, screenVars
    <3>2. HasActiveCodes(modals[k].brand) \in BOOLEAN
      BY DEF HasActiveCodes
    <3>3. clearable' \in BOOLEAN /\ crossed' \in BOOLEAN
      BY <3>1, <3>2 DEF ScreenTypeOK
    <3>4. QED
      BY <1>3, <3>1, <3>3 DEF ScreenTypeOK, InMake
  <2>10. QED
    BY <1>5, <2>1, <2>2, <2>3, <2>4, <2>5, <2>6, <2>8, <2>9, Handlers
<1>6. ASSUME NEW r \in Runs, Thread(r) PROVE ScreenTypeOK'
  <2>1. UNCHANGED <<screen, gen, picker, simVars>>
    BY <1>6, ThreadEffect DEF RunsEffect, screenVars
  <2>2. QED
    BY <1>3, <2>1 DEF ScreenTypeOK, simVars, InMake
<1>7. ASSUME NEW r \in Runs, Callback(r) PROVE ScreenTypeOK'
  <2>1. UNCHANGED simVars
    BY <1>7, CallbackScreens
  <2>2. Build("diag") \/ UNCHANGED <<screen, gen, picker>>
    BY <1>7 DEF Callback, ScanResult, BindResult, LiveResult, StopSpinner, screenVars
  <2>3. CASE UNCHANGED <<screen, gen, picker>>
    BY <1>3, <2>1, <2>3 DEF ScreenTypeOK, simVars, InMake
  <2>4. QED
    BY <1>4, <2>1, <2>2, <2>3
<1>8. CASE Arrive /\ UNCHANGED <<screenVars, runVars, simVars, mac, modals, tkq>>
  BY <1>3, <1>8 DEF ScreenTypeOK, simVars, screenVars, InMake
<1>9. QED
  BY <1>5, <1>6, <1>7, <1>8, NextDoes

\* Every step keeps FoundInv.
LEMMA FoundStep == WordInv /\ Next => FoundInv'
<1> SUFFICES ASSUME WordInv, Next PROVE FoundInv'
  OBVIOUS
<1>0. RunInv /\ ScreenTypeOK /\ FoundInv /\ mac \in BOOLEAN
  BY DEF WordInv, ScreenTypeOK
<1>1. mac => mac'
  <2>1. ASSUME NEW r \in Runs, Thread(r), mac PROVE mac'
    <3>1. mac' \in {mac, TRUE}
      BY <1>0, <2>1, ThreadEffect DEF RunsEffect
    <3>2. QED
      BY <2>1, <3>1
  <2>2. ASSUME NEW r \in Runs, Callback(r) PROVE mac' = mac
    BY <2>2, CallbackScreens
  <2>3. Handler => mac' = mac
    BY HandlerDoes DEF HandlerEffect
  <2>4. QED
    BY <2>1, <2>2, <2>3, NextDoes
<1>2. ASSUME NEW q \in Runs, run'[q].kind = "scan", run'[q].result = "yes" PROVE mac'
  <2>0. run[q].kind = "scan" /\ run[q].result = "yes" => mac
    BY <1>0 DEF FoundInv
  <2>1. CASE run'[q] = run[q]
    BY <1>1, <1>2, <2>0, <2>1
  <2>2. CASE run'[q] # run[q]
    <3>1. CASE Handler
      <4>1. PICK kind \in Kinds, label \in {labelGen, gen'} : StartRun(kind, First(kind), label)
        BY <2>2, <3>1, HandlerDoes DEF HandlerEffect, runVars
      <4>2. /\ run'[runs'] = [kind |-> kind, gen |-> label, result |-> "open"]
            /\ \A p \in Runs \ {runs'} : run'[p] = run[p]
        BY <1>0, <4>1, StartEffect
      <4>3. q = runs' /\ run'[q].result = "open"
        BY <2>2, <4>2
      <4>4. QED
        BY <1>2, <4>3
    <3>2. ASSUME NEW r \in Runs, Thread(r) PROVE mac'
      <4>1. RunsEffect(r)
        BY <1>0, <3>2, ThreadEffect
      <4>2. q = r
        BY <2>2, <4>1 DEF RunsEffect
      <4>3. mac' \/ run[q].result = "yes"
        BY <1>2, <4>1, <4>2 DEF RunsEffect
      <4>4. run[q].kind = "scan"
        BY <1>2, <4>1, <4>2 DEF RunsEffect
      <4>5. QED
        BY <1>1, <2>0, <4>3, <4>4
    <3>3. ASSUME NEW r \in Runs, Callback(r) PROVE run' = run
      BY <3>3, CallbackScreens
    <3>4. QED
      BY <2>2, <3>1, <3>2, <3>3, NextDoes DEF runVars
  <2>3. QED
    BY <2>1, <2>2
<1>3. Waits("found")' => mac'
  <2>1. ASSUME Waits("found") PROVE mac'
    BY <1>0, <1>1, <2>1 DEF FoundInv
  <2>2. ASSUME NEW r \in Runs, ScanResult(r), run[r].result = "yes" PROVE mac'
    <3>1. run[r].kind = "scan"
      BY <2>2 DEF ScanResult
    <3>2. QED
      BY <1>0, <1>1, <2>2, <3>1 DEF FoundInv
  <2>3. ASSUME NEW j \in DOMAIN modals', modals'[j].what = "found" PROVE mac'
    <3>1. CASE Comes(modals'[j])
      BY <2>2, <2>3, <3>1 DEF Comes, Kept
    <3>2. CASE \E i \in DOMAIN modals : Alike(modals'[j], modals[i])
      BY <2>1, <2>3, <3>2 DEF Alike, Waits
    <3>3. QED
      BY <1>0, <3>1, <3>2, WindowsStep DEF WindowsEffect
  <2>4. QED
    BY <2>3 DEF Waits
<1>4. "connect" \in buttons' => mac'
  <2>1. CASE "connect" \in buttons
    BY <1>0, <1>1, <2>1 DEF FoundInv
  <2>2. ASSUME NEW k \in DOMAIN modals, FoundOk(k) PROVE mac'
    <3>1. Waits("found")
      BY <2>2 DEF FoundOk, MayAnswer, IsOpen, Waits
    <3>2. QED
      BY <1>0, <1>1, <3>1 DEF FoundInv
  <2>3. ASSUME ~ \E k \in DOMAIN modals : FoundOk(k), "connect" \notin buttons PROVE "connect" \notin buttons'
    <3>1. ASSUME NEW to, Build(to) PROVE "connect" \notin buttons'
      BY <3>1 DEF Build
    <3>2. ASSUME buttons' = buttons PROVE "connect" \notin buttons'
      BY <2>3, <3>2
    <3>3. CASE Handler
      <4>1. (\E b \in Makes : ShowBrandMenu(b)) => \E to : Build(to)
        BY DEF ShowBrandMenu
      <4>2. BackToMakes \/ ReadDtcPopup \/ ClearCodes => buttons' = buttons
        BY DEF BackToMakes, ReadDtcPopup, ClearCodes, screenVars
      <4>3. (\E k \in DOMAIN modals : ClearAndClose(k) \/ ClearedReturns(k)) => buttons' = buttons
        BY DEF ClearAndClose, ClearedReturns, screenVars
      <4>4. Quiet => buttons' = buttons
        BY QuietLeaves
      <4>5. (\E to : Build(to)) \/ buttons' = buttons
        BY <2>3, <3>3, <4>1, <4>2, <4>3, <4>4, Handlers
      <4>6. QED
        BY <3>1, <3>2, <4>5
    <3>4. ASSUME NEW r \in Runs, Thread(r) PROVE buttons' = buttons
      BY <1>0, <3>4, ThreadEffect DEF RunsEffect, screenVars
    <3>5. ASSUME NEW r \in Runs, Callback(r) PROVE Build("diag") \/ buttons' = buttons
      BY <3>5 DEF Callback, ScanResult, BindResult, LiveResult, StopSpinner, screenVars
    <3>6. QED
      BY <3>1, <3>2, <3>3, <3>4, <3>5, NextDoes DEF screenVars
  <2>4. QED
    BY <2>1, <2>2, <2>3
<1>5. QED
  BY <1>2, <1>3, <1>4 DEF FoundInv

\* Every step keeps ClearInv.
LEMMA ClearStep == WordInv /\ Next => ClearInv'
<1> SUFFICES ASSUME WordInv, Next, InMake', ~crossed', ~Waits("cleared")'
             PROVE (clearable <=> memory[make] = "codes")'
  BY DEF ClearInv
<1>0. RunInv /\ ScreenTypeOK /\ ClearInv
  BY DEF WordInv
<1>1. ASSUME NEW to, Build(to), to \notin {"make", "stacked"} PROVE FALSE
  BY <1>1 DEF Build, InMake
<1>2. Waits("cleared") => \E k \in DOMAIN modals : ClearedReturns(k)
  BY <1>0, WindowsStep DEF WindowsEffect
<1>3. ASSUME NEW k \in DOMAIN modals, ClearedReturns(k) PROVE (clearable <=> memory[make] = "codes")'
  <2>1. /\ UNCHANGED <<screen, gen, make, picker>>
        /\ clearable' = IF InMake /\ modals[k].menu > picker THEN memory'[modals[k].brand] = "codes" ELSE clearable
        /\ crossed' = (crossed \/ modals[k].menu # gen)
        /\ modals[k].what = "cleared"
    BY <1>3 DEF ClearedReturns, HasActiveCodes, screenVars
  <2>2. InMake
    BY <2>1 DEF InMake
  <2>3. Fits(modals[k]) /\ picker < gen
    BY <1>0, <2>2 DEF ScreenTypeOK
  <2>4. modals[k].menu = gen /\ modals[k].brand = make
    BY <2>1, <2>2, <2>3 DEF Fits, Kept
  <2>5. modals[k].menu > picker
    <3>1. gen \in Nat /\ picker \in Nat
      BY <1>0, Counters DEF ScreenTypeOK
    <3>2. QED
      BY <2>3, <2>4, <3>1
  <2>6. QED
    BY <2>1, <2>2, <2>4, <2>5
<1>4. ASSUME UNCHANGED simVars, InMake PROVE (clearable <=> memory[make] = "codes")'
  <2>1. CASE Waits("cleared")
    BY <1>2, <1>3, <2>1
  <2>2. CASE ~Waits("cleared")
    BY <1>0, <1>4, <2>2 DEF ClearInv, simVars
  <2>3. QED
    BY <2>1, <2>2
<1>5. ASSUME UNCHANGED <<screen, simVars>> PROVE (clearable <=> memory[make] = "codes")'
  BY <1>4, <1>5 DEF InMake
<1>6. CASE Handler
  <2>1. CASE Quiet
    BY <1>5, <2>1, QuietLeaves
  <2>2. ASSUME NEW b \in Makes, ShowBrandMenu(b) PROVE (clearable <=> memory[make] = "codes")'
    BY <2>2 DEF ShowBrandMenu, HasActiveCodes
  <2>3. ASSUME NEW k \in DOMAIN modals, FoundOk(k) PROVE (clearable <=> memory[make] = "codes")'
    BY <1>5, <2>3 DEF FoundOk
  <2>4. CASE BackToMakes
    BY <1>4, <2>4 DEF BackToMakes
  <2>5. CASE ReadDtcPopup
    BY <2>5 DEF ReadDtcPopup, HasActiveCodes
  <2>6. CASE ClearCodes
    <3>1. Window("cleared", make, gen) \in Windows /\ Window("cleared", make, gen).what = "cleared"
          /\ Comes(Window("cleared", make, gen))
      BY <1>0, <2>6, MenuWindow DEF ClearCodes, Kept, screenVars
    <3>2. PICK w \in Windows : w = Window("cleared", make, gen)
      BY <3>1
    <3>3. w.what = "cleared" /\ Comes(w)
      BY <3>1, <3>2
    <3>4. \E k \in DOMAIN modals' : modals'[k].what = "cleared"
      BY <1>0, <2>6, <3>2, <3>3, MoreEffect DEF ClearCodes
    <3>5. QED
      BY <3>4 DEF Waits
  <2>7. ASSUME NEW k \in DOMAIN modals, ClearAndClose(k) PROVE FALSE
    BY <1>0, <2>7, ClearingEffect
  <2>8. QED
    BY <1>1, <1>3, <1>6, <2>1, <2>2, <2>3, <2>4, <2>5, <2>6, <2>7, Handlers
<1>7. ASSUME NEW r \in Runs, Thread(r) PROVE UNCHANGED <<screen, simVars>>
  BY <1>0, <1>7, ThreadEffect DEF RunsEffect, screenVars
<1>8. ASSUME NEW r \in Runs, Callback(r) PROVE UNCHANGED <<screen, simVars>>
  <2>1. UNCHANGED simVars
    BY <1>8, CallbackScreens
  <2>2. Build("diag") \/ screen' = screen
    BY <1>8 DEF Callback, ScanResult, BindResult, LiveResult, StopSpinner, screenVars
  <2>3. QED
    BY <1>1, <2>1, <2>2
<1>9. QED
  BY <1>5, <1>6, <1>7, <1>8, NextDoes DEF screenVars

-----------------------------------------------------------------------------
(* What is in flight.                                                      *)

\* A run that takes a step is in flight before and after it; a result is due
\* from when the thread ends its work, and the flight of no other run changes.
LEMMA FlightOfThread ==
  ASSUME RunInv, NEW r \in Runs, Thread(r)
  PROVE  /\ InFlight(r) /\ InFlight(r)'
         /\ \A q \in Runs : InFlight(q)' <=> InFlight(q)
         /\ \A q \in Runs : ReportDue(q)' => ReportDue(q) \/ (q = r /\ pc[r] \in Working /\ pc'[r] = "report")
         /\ \A q \in Runs : ReportDue(q) => ReportDue(q)'
<1>t. DOMAIN tkq = 1 .. Len(tkq) /\ Len(tkq) \in Nat /\ PostsInv /\ \A k \in 1 .. Len(tkq) : tkq[k] \in Posts
  BY Counters DEF RunInv, RunTypeOK
<1>1. /\ TalkEffect(r) \/ PostEffect(r)
      /\ \A q \in Runs \ {r} : pc'[q] = pc[q]
  BY ThreadEffect DEF RunsEffect
<1>2. InFlight(r)
  BY <1>1 DEF TalkEffect, PostEffect, Working, InFlight
<1>3. CASE TalkEffect(r)
  <2>1. /\ tkq' = tkq /\ pc[r] \in Working
        /\ pc'[r] \in {"bind", "flush", "write", "read", "close", "report"}
    BY <1>3 DEF TalkEffect
  <2>2. \A q : Queued(q)' <=> Queued(q)
    BY <2>1 DEF Queued
  <2>3. \A q : Due(q)' <=> Due(q)
    BY <2>1 DEF Due
  <2>4. InFlight(r)' /\ pc[r] # "report"
    BY <2>1 DEF InFlight, Working
  <2>5. QED
    BY <1>1, <1>2, <2>1, <2>2, <2>3, <2>4 DEF InFlight, ReportDue
<1>4. CASE PostEffect(r)
  <2>1. /\ tkq' \in Seq(Posts) /\ Len(tkq') = Len(tkq) + 1
        /\ \A k \in 1 .. Len(tkq) : tkq'[k] = tkq[k]
        /\ \/ /\ pc[r] = "report" /\ pc'[r] = "reportDone"
              /\ tkq'[Len(tkq')] = [run |-> r, what |-> "report"]
           \/ /\ pc[r] = "reportDone" /\ pc'[r] = "over"
              /\ tkq'[Len(tkq')] = [run |-> r, what |-> "reportDone"]
    BY <1>4, PostedEffect
  <2>2. /\ \A k \in 1 .. Len(tkq') : k = Len(tkq') \/ k \in 1 .. Len(tkq)
        /\ \A k \in 1 .. Len(tkq) : k \in 1 .. Len(tkq')
        /\ Len(tkq') \in 1 .. Len(tkq')
        /\ DOMAIN tkq' = 1 .. Len(tkq')
    BY <1>t, <2>1
  <2>3. tkq'[Len(tkq')].run = r
    BY <2>1
  <2>4. Queued(r)'
    BY <2>2, <2>3 DEF Queued
  <2>5. \A q \in Runs \ {r} : Queued(q)' <=> Queued(q)
    BY <1>t, <2>1, <2>2, <2>3 DEF Queued
  <2>6. \A q \in Runs \ {r} : Due(q)' <=> Due(q)
    <3>1. \A q \in Runs \ {r} : tkq'[Len(tkq')] # [run |-> q, what |-> "report"]
      BY <2>1
    <3>2. QED
      BY <2>1, <2>2, <3>1 DEF Due
  <2>7. pc[r] = "report" => Due(r)'
    BY <2>1, <2>2 DEF Due
  <2>8. pc[r] # "report" => (Due(r)' <=> Due(r)) /\ pc'[r] # "report"
    <3>1. pc[r] # "report" => tkq'[Len(tkq')] # [run |-> r, what |-> "report"]
      BY <2>1
    <3>2. QED
      BY <2>1, <2>2, <3>1 DEF Due
  <2>9. QED
    BY <1>1, <1>2, <2>4, <2>5, <2>6, <2>7, <2>8 DEF InFlight, ReportDue
<1>5. QED
  BY <1>1, <1>3, <1>4

\* A callback called puts no run into flight; a result leaves its run in flight
\* and is due no more.
LEMMA FlightOfCall ==
  ASSUME RunInv, NEW r \in Runs, Callback(r)
  PROVE  /\ InFlight(r)
         /\ \A q \in Runs : InFlight(q)' => InFlight(q)
         /\ ~StopSpinner(r) => ReportDue(r) /\ \A q \in Runs : InFlight(q)' <=> InFlight(q)
         /\ \A q \in Runs : ReportDue(q)' => ReportDue(q)
         /\ \A q \in Runs : ReportDue(q) => ReportDue(q)' \/ (q = r /\ ~StopSpinner(r))
<1>0. PostsInv /\ DOMAIN tkq = 1 .. Len(tkq) /\ \A k \in 1 .. Len(tkq) : tkq[k] \in Posts
  BY Counters DEF RunInv, RunTypeOK
<1>1. /\ tkq[1] = IF StopSpinner(r) THEN [run |-> r, what |-> "reportDone"] ELSE [run |-> r, what |-> "report"]
      /\ tkq' \in Seq(Posts)
      /\ Len(tkq) \in Nat /\ Len(tkq) >= 1 /\ Len(tkq') = Len(tkq) - 1
      /\ \A k \in 1 .. Len(tkq') : k + 1 \in 2 .. Len(tkq) /\ tkq'[k] = tkq[k + 1]
      /\ \A k \in 2 .. Len(tkq) : k - 1 \in 1 .. Len(tkq') /\ tkq'[k - 1] = tkq[k]
      /\ pc' = pc
  BY CallEffect
<1>2. DOMAIN tkq' = 1 .. Len(tkq')
  BY <1>1
<1>3. /\ 1 \in 1 .. Len(tkq)
      /\ \A k \in 2 .. Len(tkq) : k \in 1 .. Len(tkq) /\ 1 < k
      /\ \A k \in 1 .. Len(tkq) : k = 1 \/ k \in 2 .. Len(tkq)
  BY <1>1
<1>4. tkq[1].run = r
  BY <1>1
<1>5. InFlight(r)
  BY <1>0, <1>3, <1>4 DEF InFlight, Queued
<1>6. ASSUME NEW q \in Runs PROVE Queued(q)' => Queued(q)
  <2>1. ASSUME Queued(q)' PROVE Queued(q)
    <3>1. PICK k \in 1 .. Len(tkq') : tkq'[k].run = q
      BY <1>2, <2>1 DEF Queued
    <3>2. k + 1 \in 1 .. Len(tkq) /\ tkq[k + 1].run = q
      BY <1>1, <1>3, <3>1
    <3>3. QED
      BY <1>0, <3>2 DEF Queued
  <2>2. QED
    BY <2>1
<1>7. ASSUME NEW q \in Runs, Queued(q), q # r PROVE Queued(q)'
  <2>1. PICK k \in 1 .. Len(tkq) : tkq[k].run = q
    BY <1>0, <1>7 DEF Queued
  <2>2. k \in 2 .. Len(tkq)
    BY <1>3, <1>4, <1>7, <2>1
  <2>3. k - 1 \in 1 .. Len(tkq') /\ tkq'[k - 1].run = q
    BY <1>1, <2>1, <2>2
  <2>4. QED
    BY <1>2, <2>3 DEF Queued
<1>8. ASSUME ~StopSpinner(r) PROVE InFlight(r)' /\ ReportDue(r)
  <2>0. tkq[1] = [run |-> r, what |-> "report"]
    BY <1>1, <1>8
  <2>1. ReportDue(r)
    BY <1>3, <2>0 DEF ReportDue, Due
  <2>2. pc[r] \in {"reportDone", "over"}
    BY <1>0, <1>3, <1>4 DEF PostsInv
  <2>3. CASE pc[r] = "reportDone"
    BY <1>1, <2>1, <2>3 DEF InFlight
  <2>4. CASE pc[r] = "over"
    <3>0. tkq[1].what = "report"
      BY <2>0
    <3>1. PICK j \in 1 .. Len(tkq) : tkq[j] = [run |-> r, what |-> "reportDone"]
      BY <1>0, <1>3, <1>4, <2>4, <3>0 DEF PostsInv
    <3>2. tkq[j].run = r /\ tkq[j].what = "reportDone"
      BY <3>1
    <3>3. j \in 2 .. Len(tkq)
      BY <1>3, <3>0, <3>2
    <3>4. j - 1 \in 1 .. Len(tkq') /\ tkq'[j - 1].run = r
      BY <1>1, <3>2, <3>3
    <3>5. QED
      BY <1>2, <2>1, <3>4 DEF InFlight, Queued
  <2>5. QED
    BY <2>2, <2>3, <2>4
<1>9. ASSUME NEW q \in Runs PROVE Due(q)' => Due(q)
  <2>1. ASSUME Due(q)' PROVE Due(q)
    <3>1. PICK k \in 1 .. Len(tkq') : tkq'[k] = [run |-> q, what |-> "report"]
      BY <2>1 DEF Due
    <3>2. k + 1 \in 1 .. Len(tkq) /\ tkq[k + 1] = [run |-> q, what |-> "report"]
      BY <1>1, <1>3, <3>1
    <3>3. QED
      BY <3>2 DEF Due
  <2>2. QED
    BY <2>1
<1>10. ASSUME NEW q \in Runs, Due(q), ~(q = r /\ ~StopSpinner(r)) PROVE Due(q)'
  <2>1. PICK k \in 1 .. Len(tkq) : tkq[k] = [run |-> q, what |-> "report"]
    BY <1>10 DEF Due
  <2>2. k # 1
    <3>1. ASSUME k = 1 PROVE FALSE
      <4>1. tkq[1].run = q /\ tkq[1].what = "report"
        BY <2>1, <3>1
      <4>2. q = r /\ StopSpinner(r)
        BY <1>4, <1>10, <4>1
      <4>3. tkq[1].what = "reportDone"
        BY <1>1, <4>2
      <4>4. QED
        BY <4>1, <4>3
    <3>2. QED
      BY <3>1
  <2>3. k - 1 \in 1 .. Len(tkq') /\ tkq'[k - 1] = [run |-> q, what |-> "report"]
    BY <1>1, <1>3, <2>1, <2>2
  <2>4. QED
    BY <2>3 DEF Due
<1>11. \A q \in Runs : (pc'[q] \notin {"new", "over"}) <=> (pc[q] \notin {"new", "over"})
  BY <1>1
<1>12. \A q \in Runs : InFlight(q)' => InFlight(q)
  BY <1>6, <1>11 DEF InFlight
<1>13. \A q \in Runs \ {r} : InFlight(q) => InFlight(q)'
  BY <1>7, <1>11 DEF InFlight
<1>14. \A q \in Runs : ReportDue(q)' => ReportDue(q)
  BY <1>1, <1>9 DEF ReportDue
<1>15. \A q \in Runs : ReportDue(q) => ReportDue(q)' \/ (q = r /\ ~StopSpinner(r))
  BY <1>1, <1>10 DEF ReportDue
<1>16. QED
  BY <1>5, <1>8, <1>12, <1>13, <1>14, <1>15

\* A run that is started is in flight and has nothing due; the others stay.
LEMMA FlightOfStart ==
  ASSUME RunInv, NEW kind \in Kinds, NEW label, StartRun(kind, First(kind), label), tkq' = tkq,
         NEW r, r = runs'
  PROVE  /\ r \in Runs /\ ~InFlight(r) /\ InFlight(r)'
         /\ pc[r] = "new" /\ pc'[r] = First(kind)
         /\ ~ReportDue(r) /\ ~ReportDue(r)'
         /\ \A q \in Runs \ {r} : pc'[q] = pc[q]
         /\ \A q \in Runs \ {r} : (InFlight(q)' <=> InFlight(q)) /\ (ReportDue(q)' <=> ReportDue(q))
<1>0. PostsInv /\ DOMAIN tkq = 1 .. Len(tkq)
  BY DEF RunInv, RunTypeOK
<1>1. r \in Runs /\ pc[r] = "new" /\ pc'[r] = First(kind) /\ \A q \in Runs \ {r} : pc'[q] = pc[q]
  BY StartEffect
<1>2. \A k \in 1 .. Len(tkq) : tkq[k].run # r
  BY <1>0, <1>1 DEF PostsInv
<1>3. ~Queued(r) /\ ~Due(r)
  <2>1. ~Queued(r)
    BY <1>0, <1>2 DEF Queued
  <2>2. ~Due(r)
    BY <1>2 DEF Due
  <2>3. QED
    BY <2>1, <2>2
<1>4. /\ \A q : Queued(q)' <=> Queued(q)
      /\ \A q : Due(q)' <=> Due(q)
  BY DEF Queued, Due
<1>5. First(kind) \in {"scan", "release", "open"}
  BY DEF First
<1>6. QED
  BY <1>1, <1>3, <1>4, <1>5 DEF InFlight, ReportDue

\* A run at work has nothing due.
LEMMA WorkNotDue ==
  ASSUME RunInv, NEW r \in Runs, pc[r] \in Working
  PROVE  InFlight(r) /\ ~ReportDue(r)
<1>1. PostsInv
  BY DEF RunInv
<1>2. ASSUME Due(r) PROVE FALSE
  <2>1. PICK k \in 1 .. Len(tkq) : tkq[k] = [run |-> r, what |-> "report"]
    BY <1>2 DEF Due
  <2>2. tkq[k].run = r
    BY <2>1
  <2>3. pc[r] \in {"reportDone", "over"}
    BY <1>1, <2>2 DEF PostsInv
  <2>4. QED
    BY <2>3 DEF Working
<1>3. QED
  BY <1>2 DEF InFlight, ReportDue, Working

\* A run whose result is due is in flight and done with its work.
LEMMA DueInFlight ==
  ASSUME RunInv, NEW r \in Runs, ReportDue(r)
  PROVE  InFlight(r) /\ pc[r] \notin Working /\ pc[r] # "new"
<1>1. PostsInv /\ DOMAIN tkq = 1 .. Len(tkq)
  BY DEF RunInv, RunTypeOK
<1>2. CASE Due(r)
  <2>1. PICK k \in 1 .. Len(tkq) : tkq[k] = [run |-> r, what |-> "report"]
    BY <1>2 DEF Due
  <2>2. tkq[k].run = r
    BY <2>1
  <2>3. pc[r] \in {"reportDone", "over"} /\ Queued(r)
    BY <1>1, <2>2 DEF PostsInv, Queued
  <2>4. QED
    BY <2>3 DEF Working, InFlight
<1>3. CASE pc[r] = "report"
  BY <1>3 DEF Working, InFlight
<1>4. QED
  BY <1>2, <1>3 DEF ReportDue

-----------------------------------------------------------------------------
(* The bind.                                                               *)

\* The menu and its screens are reached from each other and by a bind.
LEMMA MenuStep ==
  ASSUME RunInv, Next, screen' \in Menus
  PROVE  screen \in Menus \/ \E r \in Runs : BindResult(r) /\ run[r].result = "yes"
<1>1. CASE Handler
  <2>1. Quiet => screen' = screen
    BY QuietLeaves
  <2>2. ASSUME NEW to, Build(to), to \in Menus => screen \in Menus PROVE screen \in Menus
    BY <2>2 DEF Build
  <2>3. ~BackToMakes /\ ~ \E b \in Makes : ShowBrandMenu(b)
    BY DEF ShowBrandMenu, BackToMakes, Build, Menus
  <2>4. ReadDtcPopup \/ ClearCodes => screen' = screen
    BY DEF ReadDtcPopup, ClearCodes, screenVars
  <2>5. (\E k \in DOMAIN modals : FoundOk(k) \/ ClearAndClose(k) \/ ClearedReturns(k)) => screen' = screen
    BY DEF FoundOk, ClearAndClose, ClearedReturns, screenVars
  <2>6. QED
    BY <1>1, <2>1, <2>2, <2>3, <2>4, <2>5, Handlers
<1>2. ASSUME NEW r \in Runs, Thread(r) PROVE screen' = screen
  BY <1>2, ThreadEffect DEF RunsEffect, screenVars
<1>3. ASSUME NEW r \in Runs, Callback(r) PROVE screen' = screen \/ (BindResult(r) /\ run[r].result = "yes")
  BY <1>3 DEF Callback, ScanResult, BindResult, LiveResult, StopSpinner, screenVars
<1>4. QED
  BY <1>1, <1>2, <1>3, NextDoes DEF screenVars

\* A handler that starts a bind leaves the screen.
LEMMA BindStarts ==
  ASSUME RunInv, Handler, NEW label, StartRun("bind", "release", label)
  PROVE  screen' = screen
<1>0. ASSUME NEW kind \in Kinds, NEW first, NEW l, StartRun(kind, first, l)
      PROVE  run'[runs'].kind = kind
  <2>1. run'[runs'] = [kind |-> kind, gen |-> l, result |-> "open"]
    BY <1>0, StartEffect
  <2>2. QED
    BY <2>1
<1>1. run'[runs'].kind = "bind"
  <2>1. "bind" \in Kinds
    BY DEF Kinds
  <2>2. QED
    BY <1>0, <2>1
<1>2. ~EnterLive
  <2>1. "live" \in Kinds
    BY DEF Kinds
  <2>2. EnterLive => run'[runs'].kind = "live"
    BY <1>0, <2>1 DEF EnterLive
  <2>3. QED
    BY <1>1, <2>2
<1>3. runs' # runs
  BY Counters DEF StartRun
<1>4. ASSUME NEW to \in Screens, Go(screen, to) PROVE runs' = runs
  BY <1>4 DEF Go, runVars
<1>5. (\E b \in Makes : ShowBrandMenu(b)) => runs' = runs
  BY DEF ShowBrandMenu, runVars
<1>6. BackToMakes => runs' = runs
  BY DEF BackToMakes, runVars
<1>7. ReadDtcPopup \/ ClearCodes => screen' = screen
  BY DEF ReadDtcPopup, ClearCodes, screenVars
<1>8. (\E k \in DOMAIN modals : FoundOk(k) \/ ClearAndClose(k) \/ ClearedReturns(k)) => screen' = screen
  BY DEF FoundOk, ClearAndClose, ClearedReturns, screenVars
<1>9. Quiet => screen' = screen
  BY QuietLeaves
<1>10. QED
  BY <1>2, <1>3, <1>4, <1>5, <1>6, <1>7, <1>8, <1>9 DEF Handler, Click, Answer, Return, Quiet

\* Every step keeps BindInv.
LEMMA BindStep == WordInv /\ Next => BindInv'
<1> SUFFICES ASSUME WordInv, Next, ~overlapped'
    PROVE  /\ \A q, r \in Runs : run'[q].kind = "bind" /\ run'[r].kind = "bind" /\ InFlight(q)' /\ InFlight(r)' => q = r
           /\ \A r \in Runs : run'[r].kind = "bind" /\ run'[r].result = "yes" /\ ReportDue(r)' => bound'
           /\ screen' \in Menus => bound' /\ \A r \in Runs : pc'[r] \notin {"release", "bind"}
  BY DEF BindInv
<1>0. RunInv /\ BindInv
  BY DEF WordInv
<1>k. /\ \A r \in Runs : pc[r] = "scan" => run[r].kind = "scan"
      /\ \A r \in Runs : pc[r] \in {"release", "bind"} => run[r].kind = "bind"
      /\ \A r \in Runs : pc[r] \in Reading => run[r].kind = "live"
  BY <1>0 DEF RunInv, RunTypeOK
<1>o. ~overlapped
  <2>1. CASE Handler
    <3>1. CASE UNCHANGED runVars
      BY <3>1 DEF runVars
    <3>2. CASE ~UNCHANGED runVars
      <4>1. PICK kind \in Kinds, label \in {labelGen, gen'} : StartRun(kind, First(kind), label)
        BY <2>1, <3>2, HandlerDoes DEF HandlerEffect
      <4>2. QED
        BY <4>1 DEF StartRun
    <3>3. QED
      BY <3>1, <3>2
  <2>2. ASSUME NEW r \in Runs, Thread(r) PROVE ~overlapped
    BY <1>0, <2>2, ThreadEffect DEF RunsEffect
  <2>3. ASSUME NEW r \in Runs, Callback(r) PROVE ~overlapped
    BY <2>3, CallbackScreens
  <2>4. QED
    BY <2>1, <2>2, <2>3, NextDoes DEF runVars
<1>b. /\ \A q, r \in Runs : run[q].kind = "bind" /\ run[r].kind = "bind" /\ InFlight(q) /\ InFlight(r) => q = r
      /\ \A r \in Runs : run[r].kind = "bind" /\ run[r].result = "yes" /\ ReportDue(r) => bound
      /\ screen \in Menus => bound /\ \A r \in Runs : pc[r] \notin {"release", "bind"}
  BY <1>0, <1>o DEF BindInv
<1>1. ASSUME UNCHANGED <<bound, pc, run>>,
             \A q \in Runs : InFlight(q)' => InFlight(q),
             \A q \in Runs : ReportDue(q)' => ReportDue(q),
             screen' \in Menus => screen \in Menus
      PROVE  /\ \A q, r \in Runs : run'[q].kind = "bind" /\ run'[r].kind = "bind" /\ InFlight(q)' /\ InFlight(r)' => q = r
             /\ \A r \in Runs : run'[r].kind = "bind" /\ run'[r].result = "yes" /\ ReportDue(r)' => bound'
             /\ screen' \in Menus => bound' /\ \A r \in Runs : pc'[r] \notin {"release", "bind"}
  BY <1>b, <1>1
<1>2. CASE Handler /\ UNCHANGED <<liveVars, runVars>>
  <2>1. UNCHANGED <<bound, pc, run, tkq>>
    BY <1>2, HandlerDoes DEF HandlerEffect, liveVars, runVars
  <2>2. \A q : (Queued(q)' <=> Queued(q)) /\ (Due(q)' <=> Due(q))
    BY <2>1 DEF Queued, Due
  <2>3. \A q \in Runs : (InFlight(q)' <=> InFlight(q)) /\ (ReportDue(q)' <=> ReportDue(q))
    BY <2>1, <2>2 DEF InFlight, ReportDue
  <2>4. screen' \in Menus => screen \in Menus
    <3>1. ASSUME NEW r \in Runs, BindResult(r) PROVE FALSE
      <4>1. tkq # << >> /\ tkq' = Tail(tkq) /\ tkq \in Seq(Posts)
        BY <1>0, <3>1 DEF BindResult, Deliver, RunInv, RunTypeOK
      <4>2. Len(tkq') = Len(tkq) - 1 /\ Len(tkq) \in Nat
        BY <4>1, TailElements
      <4>3. QED
        BY <2>1, <4>2
    <3>2. QED
      BY <1>0, <3>1, MenuStep
  <2>5. QED
    BY <1>1, <2>1, <2>3, <2>4
<1>3. ASSUME Handler, NEW kind \in Kinds, NEW label, StartRun(kind, First(kind), label)
      PROVE  /\ \A q, r \in Runs : run'[q].kind = "bind" /\ run'[r].kind = "bind" /\ InFlight(q)' /\ InFlight(r)' => q = r
             /\ \A r \in Runs : run'[r].kind = "bind" /\ run'[r].result = "yes" /\ ReportDue(r)' => bound'
             /\ screen' \in Menus => bound' /\ \A r \in Runs : pc'[r] \notin {"release", "bind"}
  <2>0. /\ runs' \in Runs /\ tkq' = tkq /\ bound' = bound
        /\ run'[runs'] = [kind |-> kind, gen |-> label, result |-> "open"]
        /\ \A q \in Runs \ {runs'} : run'[q] = run[q]
        /\ overlapped' = (overlapped \/ (kind = "bind" /\ (screen # "main" \/ \E r \in Runs : run[r].kind = "bind" /\ InFlight(r))))
    BY <1>0, <1>3, StartEffect, HandlerDoes DEF HandlerEffect
  <2>r. PICK s \in Runs : s = runs'
    BY <2>0
  <2>1. /\ ~InFlight(s) /\ InFlight(s)' /\ pc'[s] = First(kind)
        /\ ~ReportDue(s)'
        /\ \A q \in Runs \ {s} : pc'[q] = pc[q]
        /\ \A q \in Runs \ {s} : (InFlight(q)' <=> InFlight(q)) /\ (ReportDue(q)' <=> ReportDue(q))
    BY <1>0, <1>3, <2>0, <2>r, FlightOfStart
  <2>2. kind = "bind" => \A r \in Runs : ~(run[r].kind = "bind" /\ InFlight(r))
    BY <2>0
  <2>3. run'[s].kind = kind /\ \A q \in Runs \ {s} : run'[q] = run[q]
    BY <2>0, <2>r
  <2>4. \A q, r \in Runs : run'[q].kind = "bind" /\ run'[r].kind = "bind" /\ InFlight(q)' /\ InFlight(r)' => q = r
    <3> SUFFICES ASSUME NEW q \in Runs, NEW r \in Runs, run'[q].kind = "bind", run'[r].kind = "bind",
                        InFlight(q)', InFlight(r)'
                 PROVE  q = r
      OBVIOUS
    <3>1. CASE q = s \/ r = s
      <4>1. kind = "bind"
        BY <2>3, <3>1
      <4>2. \A p \in Runs \ {s} : ~(run'[p].kind = "bind" /\ InFlight(p)')
        BY <2>1, <2>2, <2>3, <4>1
      <4>3. QED
        BY <4>2
    <3>2. CASE q # s /\ r # s
      BY <1>b, <2>1, <2>3, <3>2
    <3>3. QED
      BY <3>1, <3>2
  <2>5. \A r \in Runs : run'[r].kind = "bind" /\ run'[r].result = "yes" /\ ReportDue(r)' => bound'
    BY <1>b, <2>0, <2>1, <2>3
  <2>6. ASSUME screen' \in Menus PROVE bound' /\ \A r \in Runs : pc'[r] \notin {"release", "bind"}
    <3>1. kind # "bind"
      <4>1. ASSUME kind = "bind" PROVE FALSE
        <5>1. StartRun("bind", "release", label)
          BY <1>3, <4>1 DEF First
        <5>2. screen' = screen
          BY <1>0, <1>3, <5>1, BindStarts
        <5>3. screen = "main"
          BY <2>0, <4>1
        <5>4. QED
          BY <2>6, <5>2, <5>3 DEF Menus
      <4>2. QED
        BY <4>1
    <3>2. screen \in Menus
      <4>1. ASSUME NEW r \in Runs, BindResult(r) PROVE FALSE
        <5>1. tkq # << >> /\ tkq' = Tail(tkq) /\ tkq \in Seq(Posts)
          BY <1>0, <4>1 DEF BindResult, Deliver, RunInv, RunTypeOK
        <5>2. Len(tkq') = Len(tkq) - 1 /\ Len(tkq) \in Nat
          BY <5>1, TailElements
        <5>3. QED
          BY <2>0, <5>2
      <4>2. QED
        BY <1>0, <2>6, <4>1, MenuStep
    <3>3. pc'[s] \notin {"release", "bind"}
      BY <2>1, <3>1 DEF First
    <3>4. QED
      BY <1>b, <2>0, <2>1, <3>2, <3>3
  <2>7. QED
    BY <2>4, <2>5, <2>6
<1>4. ASSUME NEW t \in Runs, Thread(t)
      PROVE  /\ \A q, r \in Runs : run'[q].kind = "bind" /\ run'[r].kind = "bind" /\ InFlight(q)' /\ InFlight(r)' => q = r
             /\ \A r \in Runs : run'[r].kind = "bind" /\ run'[r].result = "yes" /\ ReportDue(r)' => bound'
             /\ screen' \in Menus => bound' /\ \A r \in Runs : pc'[r] \notin {"release", "bind"}
  <2>0. RunsEffect(t)
    BY <1>0, <1>4, ThreadEffect
  <2>1. /\ InFlight(t)
        /\ \A q \in Runs : InFlight(q)' <=> InFlight(q)
        /\ \A q \in Runs : ReportDue(q)' => ReportDue(q) \/ (q = t /\ pc[t] \in Working /\ pc'[t] = "report")
    BY <1>0, <1>4, FlightOfThread
  <2>2. /\ \A q \in Runs : run'[q].kind = run[q].kind
        /\ \A q \in Runs \ {t} : run'[q] = run[q] /\ pc'[q] = pc[q]
        /\ screen' = screen
    BY <2>0 DEF RunsEffect, screenVars
  <2>3. \A q, r \in Runs : run'[q].kind = "bind" /\ run'[r].kind = "bind" /\ InFlight(q)' /\ InFlight(r)' => q = r
    BY <1>b, <2>1, <2>2
  <2>4. pc[t] \notin {"release", "bind"} => bound' = bound
    BY <2>0 DEF RunsEffect, TalkEffect, PostEffect
  <2>5. ASSUME NEW q \in Runs, run'[q].kind = "bind", run'[q].result = "yes", ReportDue(q)' PROVE bound'
    <3>1. CASE q = t /\ pc[t] \in Working
      <4>1. pc'[t] = "report"
        <5>1. ~ReportDue(t)
          BY <1>0, <3>1, WorkNotDue
        <5>2. QED
          BY <2>1, <2>5, <3>1, <5>1
      <4>2. pc[t] \in {"release", "bind"}
        BY <1>k, <2>2, <2>5, <3>1 DEF Working, Reading
      <4>3. pc[t] = "bind"
        <5>1. ASSUME pc[t] = "release" PROVE FALSE
          <6>1. BindReleases(t)
            BY <1>4, <5>1 DEF Thread, ScanFinds, ScanFails, Report, BindEnds, Fetch, OpenPort, Flush, Read, PortLost,
               CloseAndSave, Write
          <6>2. DOMAIN pc = Runs
            BY <1>0 DEF RunInv, FetchInv, LiveTypeOK
          <6>3. pc'[t] = "bind"
            BY <6>1, <6>2 DEF BindReleases
          <6>4. QED
            BY <4>1, <6>3
        <5>2. QED
          BY <4>2, <5>1
      <4>4. QED
        BY <2>0, <2>5, <3>1, <4>3 DEF RunsEffect
    <3>2. CASE ~(q = t /\ pc[t] \in Working)
      <4>1. ReportDue(q)
        BY <2>1, <2>5, <3>2
      <4>2. InFlight(q) /\ pc[q] \notin Working
        BY <1>0, <4>1, DueInFlight
      <4>3. run[q].kind = "bind"
        BY <2>2, <2>5
      <4>4. pc[t] \notin {"release", "bind"}
        <5>1. ASSUME pc[t] \in {"release", "bind"} PROVE FALSE
          <6>1. q = t
            BY <1>b, <1>k, <2>1, <4>2, <4>3, <5>1
          <6>2. QED
            BY <4>2, <5>1, <6>1 DEF Working
        <5>2. QED
          BY <5>1
      <4>5. run'[q] = run[q]
        <5>1. CASE q # t
          BY <2>2, <5>1
        <5>2. CASE q = t
          <6>1. PostEffect(t)
            BY <2>0, <4>2, <5>2 DEF RunsEffect, TalkEffect
          <6>2. QED
            BY <6>1 DEF PostEffect
        <5>3. QED
          BY <5>1, <5>2
      <4>6. QED
        BY <1>b, <2>4, <2>5, <4>1, <4>4, <4>5
    <3>3. QED
      BY <3>1, <3>2
  <2>6. ASSUME screen' \in Menus PROVE bound' /\ \A r \in Runs : pc'[r] \notin {"release", "bind"}
    <3>1. bound /\ \A r \in Runs : pc[r] \notin {"release", "bind"}
      BY <1>b, <2>2, <2>6
    <3>2. bound' = bound
      BY <2>4, <3>1
    <3>3. pc'[t] \notin {"release", "bind"}
      BY <2>0, <3>1 DEF RunsEffect, TalkEffect, PostEffect
    <3>4. QED
      BY <2>2, <3>1, <3>2, <3>3
  <2>7. QED
    BY <2>3, <2>5, <2>6
<1>5. ASSUME NEW t \in Runs, Callback(t)
      PROVE  /\ \A q, r \in Runs : run'[q].kind = "bind" /\ run'[r].kind = "bind" /\ InFlight(q)' /\ InFlight(r)' => q = r
             /\ \A r \in Runs : run'[r].kind = "bind" /\ run'[r].result = "yes" /\ ReportDue(r)' => bound'
             /\ screen' \in Menus => bound' /\ \A r \in Runs : pc'[r] \notin {"release", "bind"}
  <2>1. UNCHANGED <<bound, pc, run>>
    BY <1>5, CallbackScreens DEF liveVars
  <2>2. /\ \A q \in Runs : InFlight(q)' => InFlight(q)
        /\ \A q \in Runs : ReportDue(q)' => ReportDue(q)
    BY <1>0, <1>5, FlightOfCall
  <2>3. CASE screen' \in Menus => screen \in Menus
    BY <1>1, <2>1, <2>2, <2>3
  <2>4. CASE screen' \in Menus /\ screen \notin Menus
    <3>1. PICK r \in Runs : BindResult(r) /\ run[r].result = "yes"
      BY <1>0, <2>4, MenuStep
    <3>2. Callback(r) /\ ~StopSpinner(r) /\ run[r].kind = "bind"
      BY <3>1 DEF Callback, BindResult, StopSpinner, Deliver
    <3>3. ReportDue(r)
      BY <1>0, <3>2, FlightOfCall
    <3>4. bound /\ InFlight(r) /\ pc[r] \notin Working
      BY <1>0, <1>b, <3>1, <3>2, <3>3, DueInFlight
    <3>5. ASSUME NEW q \in Runs, pc[q] \in {"release", "bind"} PROVE FALSE
      <4>1. pc[q] \in Working
        BY <3>5 DEF Working
      <4>2. InFlight(q) /\ run[q].kind = "bind"
        BY <1>0, <1>k, <3>5, <4>1, WorkNotDue
      <4>3. q = r
        BY <1>b, <3>2, <3>4, <4>2
      <4>4. QED
        BY <3>4, <4>1, <4>3
    <3>6. bound' /\ \A q \in Runs : pc'[q] \notin {"release", "bind"}
      BY <2>1, <3>4, <3>5
    <3>7. QED
      BY <1>b, <2>1, <2>2, <3>6
  <2>5. QED
    BY <2>3, <2>4
<1>6. CASE Arrive /\ UNCHANGED <<screenVars, runVars, simVars, mac, modals, tkq>>
  <2>1. UNCHANGED <<bound, pc, run, tkq, screen>>
    BY <1>6 DEF Arrive, runVars, screenVars
  <2>2. \A q : (Queued(q)' <=> Queued(q)) /\ (Due(q)' <=> Due(q))
    BY <2>1 DEF Queued, Due
  <2>3. \A q \in Runs : (InFlight(q)' <=> InFlight(q)) /\ (ReportDue(q)' <=> ReportDue(q))
    BY <2>1, <2>2 DEF InFlight, ReportDue
  <2>4. QED
    BY <1>1, <2>1, <2>3
<1>7. CASE Handler
  BY <1>2, <1>3, <1>7, HandlerDoes DEF HandlerEffect
<1>8. QED
  BY <1>4, <1>5, <1>6, <1>7, NextDoes

\* The invariant of the screens, in every behaviour.
LEMMA WordAlways == Spec => []WordInv
<1>1. Init => WordInv
  <2> SUFFICES ASSUME Init PROVE WordInv
    OBVIOUS
  <2>1. RunInv
    BY RunInit
  <2>e. modals = << >> /\ DOMAIN modals = {}
    <3>1. DOMAIN << >> = {}
      OBVIOUS
    <3>2. QED
      BY <3>1 DEF Init
  <2>2. ScreenTypeOK
    <3>1. modals \in Seq(Windows)
      BY <2>e, EmptyIsSeq
    <3>2. ~InMake /\ gen = 1 /\ picker = 0
      BY DEF Init, InMake
    <3>3. \A k \in DOMAIN modals : Fits(modals[k])
      BY <2>e
    <3>4. mac \in BOOLEAN /\ memory \in [Makes -> {"unasked", "codes", "none"}] /\ clearable \in BOOLEAN /\ crossed \in BOOLEAN
      BY DEF Init
    <3>5. QED
      BY <3>1, <3>2, <3>3, <3>4 DEF ScreenTypeOK
  <2>3. FoundInv
    BY <2>e DEF Init, FoundInv, Waits
  <2>4. BindInv
    BY DEF Init, BindInv, Menus
  <2>5. ClearInv
    BY DEF Init, ClearInv, InMake
  <2>6. QED
    BY <2>1, <2>2, <2>3, <2>4, <2>5 DEF WordInv
<1>2. WordInv /\ [Next]_vars => WordInv'
  <2> SUFFICES ASSUME WordInv, [Next]_vars PROVE WordInv'
    OBVIOUS
  <2>1. RunInv'
    BY FetchStep, RunTypeStep, PostsStep, RunStutter DEF RunInv, WordInv
  <2>2. CASE Next
    BY <2>1, <2>2, ScreenTypeStep, FoundStep, BindStep, ClearStep DEF WordInv
  <2>3. CASE UNCHANGED vars
    <3>1. UNCHANGED <<bound, pc, run, tkq, modals, mac, memory, make, clearable, buttons, screen, gen, picker, crossed,
                      overlapped>>
      BY <2>3 DEF vars, liveVars, screenVars, runVars, simVars
    <3>2. ScreenTypeOK'
      BY <3>1 DEF WordInv, ScreenTypeOK, InMake, Fits
    <3>3. \A m : Waits(m)' <=> Waits(m)
      BY <3>1 DEF Waits
    <3>4. FoundInv' /\ ClearInv'
      BY <3>1, <3>3 DEF WordInv, FoundInv, ClearInv, InMake
    <3>5. \A q : (Queued(q)' <=> Queued(q)) /\ (Due(q)' <=> Due(q))
      BY <3>1 DEF Queued, Due
    <3>6. \A q \in Runs : (InFlight(q)' <=> InFlight(q)) /\ (ReportDue(q)' <=> ReportDue(q))
      BY <3>1, <3>5 DEF InFlight, ReportDue
    <3>7. BindInv'
      BY <3>1, <3>6 DEF WordInv, BindInv
    <3>8. QED
      BY <2>1, <3>2, <3>4, <3>7 DEF WordInv
  <2>4. QED
    BY <2>2, <2>3
<1>3. QED
  BY <1>1, <1>2, PTL DEF Spec

\* gui/main_interface.py: Connect is offered when an adapter has been found, the
\* diagnostic menu and its screens when one is bound, unless a bind overlapped another
\* or began away from the main screen, and a simulated brand offers to clear exactly
\* the codes it has, unless a clear begun on one menu was answered over another.
THEOREM OffersAreKept == Spec => []ScreensKeepTheirWord
<1>1. WordInv => ScreensKeepTheirWord
  <2> SUFFICES ASSUME WordInv PROVE ScreensKeepTheirWord
    OBVIOUS
  <2>1. "connect" \in buttons => mac
    BY DEF WordInv, FoundInv
  <2>2. screen \in {"diag", "live", "brand", "actions", "dtc"} /\ ~overlapped => bound
    BY DEF WordInv, BindInv, Menus
  <2>3. InMake /\ ~crossed /\ ~Waits("cleared") => (clearable <=> memory[make] = "codes")
    BY DEF WordInv, ClearInv
  <2>4. QED
    BY <2>1, <2>2, <2>3 DEF ScreensKeepTheirWord
<1>2. QED
  BY <1>1, WordAlways, PTL

-----------------------------------------------------------------------------
(* A patient user.                                                         *)

\* What a handler does to a patient user's spinners: nothing, or it starts one when
\* none ticks.
LEMMA StartsAlone ==
  ASSUME RunInv, ScreenTypeOK, TickInv, patient, Next, Handler, ~UNCHANGED runVars
  PROVE  /\ \E kind \in Kinds, label \in {labelGen, gen'} : StartRun(kind, First(kind), label)
         /\ tkq' = tkq
         /\ \A q \in Runs : ~Ticks(q)
         /\ ~Waits("password")'
<1>1. (\E kind \in Kinds, label \in {labelGen, gen'} : StartRun(kind, First(kind), label)) /\ tkq' = tkq
  BY HandlerDoes DEF HandlerEffect
<1>2. \/ StartScan \/ EnterLive \/ Rerun
      \/ \E k \in DOMAIN modals : PasswordReturns(k)
  <2>1. ~AskPassword /\ ~(\E known \in BOOLEAN : ReadBrand(known)) /\ ~(\E to \in Screens : Go(screen, to))
    BY DEF AskPassword, ReadBrand, Go
  <2>2. ~(\E b \in Makes : ShowBrandMenu(b)) /\ ~BackToMakes /\ ~ReadDtcPopup /\ ~ClearCodes
    BY DEF ShowBrandMenu, BackToMakes, ReadDtcPopup, ClearCodes
  <2>3. ~ \E k \in DOMAIN modals : Answer(k)
    BY DEF Answer, FoundOk, FoundClosed, BoxOk, ClearAndClose, CloseCodes, PasswordAnswered
  <2>4. ~ \E k \in DOMAIN modals : NoDeviceReturns(k) \/ BoxReturns(k) \/ ClearedReturns(k)
    BY DEF NoDeviceReturns, BoxReturns, ClearedReturns
  <2>5. QED
    BY <2>1, <2>2, <2>3, <2>4 DEF Handler, Click, Return
<1>3. CASE StartScan \/ EnterLive \/ Rerun
  <2>1. ~AskPassword
    BY <1>3 DEF StartScan, EnterLive, Rerun, AskPassword
  <2>2. ~Waits("password") /\ \A q \in Runs : ~Ticks(q)
    BY <1>3 DEF StartScan, EnterLive, Rerun, MayStart
  <2>3. QED
    BY <1>1, <2>1, <2>2, WindowsStep DEF WindowsEffect
<1>4. ASSUME NEW k \in DOMAIN modals, PasswordReturns(k)
      PROVE  ~Waits("password")' /\ \A q \in Runs : ~Ticks(q)
  BY <1>4, PasswordGone DEF TickInv
<1>5. QED
  BY <1>1, <1>2, <1>3, <1>4

\* Every step of a patient user keeps TickInv.
LEMMA TickStep ==
  ASSUME RunInv, ScreenTypeOK, TickInv, Next
  PROVE  TickInv'
<1> SUFFICES ASSUME patient PROVE TickInv'
  BY NextDoes DEF TickInv
<1>1. Alone(modals')
  BY WindowsStep DEF TickInv, WindowsEffect
<1>2. gen \in Nat /\ \A q \in Runs : run[q].gen \in 0 .. gen
  <2>1. gen \in Nat /\ run \in [Runs -> [kind : Kinds, gen : 0 .. gen, result : {"open", "yes", "no"}]]
    BY DEF RunInv, RunTypeOK
  <2>2. QED
    BY <2>1
<1>3. \A q \in Runs : run[q].gen # gen + 1
  BY <1>2
<1>4. ASSUME \A q \in Runs : Ticks(q)' => Ticks(q),
             \A q \in Runs : Ticks(q)' => (q = spinner' <=> q = spinner) /\ (InFlight(q) => InFlight(q)'),
             Waits("password")' => Waits("password") \/ AskPassword
      PROVE  TickInv'
  <2>1. AskPassword => \A q \in Runs : ~Ticks(q)
    BY DEF AskPassword, MayStart
  <2>2. QED
    BY <1>1, <1>4, <2>1 DEF TickInv
<1>5. Waits("password")' => Waits("password") \/ AskPassword
  BY WindowsStep DEF WindowsEffect
<1>6. ASSUME UNCHANGED <<run, spinning>>, gen' \in {gen, gen + 1}, NEW q \in Runs, Ticks(q)'
      PROVE  Ticks(q)
  BY <1>3, <1>6 DEF Ticks
<1>7. CASE Handler /\ UNCHANGED runVars
  <2>1. gen' \in {gen, gen + 1} /\ tkq' = tkq /\ UNCHANGED <<run, runs, spinning, spinner>>
    BY <1>7, HandlerDoes DEF HandlerEffect, runVars
  <2>2. pc' = pc
    <3>1. UNCHANGED liveVars \/ runs' = runs + 1
      BY <1>7, HandlerDoes DEF HandlerEffect, StartRun
    <3>2. runs' = runs /\ runs \in Nat
      BY <2>1, Counters
    <3>3. UNCHANGED liveVars
      BY <3>1, <3>2
    <3>4. QED
      BY <3>3 DEF liveVars
  <2>3. \A q \in Runs : InFlight(q)' <=> InFlight(q)
    BY <2>1, <2>2 DEF InFlight, Queued
  <2>4. QED
    BY <1>4, <1>5, <1>6, <2>1, <2>3
<1>8. CASE Handler /\ ~UNCHANGED runVars
  <2>0. /\ tkq' = tkq
        /\ \A q \in Runs : ~Ticks(q)
        /\ ~Waits("password")'
    BY <1>8, StartsAlone
  <2>1. PICK kind \in Kinds, label \in {labelGen, gen'} : StartRun(kind, First(kind), label)
    BY <1>8, StartsAlone
  <2>2. /\ runs' \in Runs
        /\ \A q \in Runs \ {runs'} : run'[q] = run[q]
        /\ spinner' = runs' /\ spinning' = spinning \cup {runs'}
    BY <2>1, StartEffect
  <2>r. PICK s \in Runs : s = runs'
    BY <2>2
  <2>3. InFlight(s)'
    BY <2>0, <2>1, <2>r, FlightOfStart
  <2>4. ASSUME NEW q \in Runs, Ticks(q)' PROVE q = s
    <3>1. ASSUME q # s PROVE FALSE
      <4>1. run'[q] = run[q] /\ q \in spinning /\ run[q].gen = gen'
        BY <2>2, <2>4, <2>r, <3>1 DEF Ticks
      <4>2. gen' \in {gen, gen + 1}
        BY <1>8, HandlerDoes DEF HandlerEffect
      <4>3. QED
        BY <1>3, <2>0, <4>1, <4>2 DEF Ticks
    <3>2. QED
      BY <3>1
  <2>5. QED
    BY <1>1, <2>0, <2>2, <2>3, <2>4, <2>r DEF TickInv
<1>9. ASSUME NEW r \in Runs, Thread(r) PROVE TickInv'
  <2>1. /\ UNCHANGED <<gen, spinner, spinning>>
        /\ \A q \in Runs \ {r} : run'[q] = run[q]
        /\ run'[r].gen = run[r].gen
    BY <1>9, ThreadEffect DEF RunsEffect, screenVars
  <2>2. \A q \in Runs : Ticks(q)' => Ticks(q)
    BY <2>1 DEF Ticks
  <2>3. \A q \in Runs : InFlight(q) => InFlight(q)'
    BY <1>9, FlightOfThread
  <2>4. QED
    BY <1>4, <1>5, <2>1, <2>2, <2>3
<1>10. ASSUME NEW r \in Runs, Callback(r) PROVE TickInv'
  <2>1. gen' \in {gen, gen + 1} /\ UNCHANGED <<run, spinner>>
    BY <1>10, CallbackScreens
  <2>2. CASE StopSpinner(r)
    <3>1. spinning' = spinning \ {spinner} /\ gen' = gen
      BY <2>2 DEF StopSpinner, screenVars
    <3>2. \A q \in Runs : ~Ticks(q)'
      BY <2>1, <3>1 DEF Ticks, TickInv
    <3>3. QED
      BY <1>1, <3>2 DEF TickInv
  <2>3. CASE ~StopSpinner(r)
    <3>1. spinning' = spinning
      BY <1>10, <2>3 DEF Callback, ScanResult, BindResult, LiveResult, runVars
    <3>2. \A q \in Runs : InFlight(q) => InFlight(q)'
      BY <1>10, <2>3, FlightOfCall
    <3>3. QED
      BY <1>4, <1>5, <1>6, <2>1, <3>1, <3>2
  <2>4. QED
    BY <2>2, <2>3
<1>11. CASE Arrive /\ UNCHANGED <<screenVars, runVars, simVars, mac, modals, tkq>>
  <2>1. UNCHANGED <<gen, run, spinner, spinning, tkq, pc>>
    BY <1>11 DEF Arrive, screenVars, runVars
  <2>2. \A q \in Runs : (InFlight(q)' <=> InFlight(q)) /\ (Ticks(q)' <=> Ticks(q))
    BY <2>1 DEF InFlight, Queued, Ticks
  <2>3. QED
    BY <1>4, <1>5, <2>1, <2>2
<1>12. QED
  BY <1>7, <1>8, <1>9, <1>10, <1>11, NextDoes

\* Somebody will enable the scan button: what it waits for.
Hope == \/ scanOn \/ dismissed \/ Waits("found") \/ Waits("noDevice")
        \/ \E r \in Runs : run[r].kind = "scan" /\ (pc[r] = "scan" \/ ReportDue(r))

\* Every step keeps ScanInv.
LEMMA ScanStep ==
  ASSUME RunInv, ScreenTypeOK, ScanInv, Next
  PROVE  ScanInv'
<1>0. ("scan" \in buttons => screen = "main") /\ ("scan" \in buttons => Hope)
  BY DEF ScanInv, Hope
<1> SUFFICES ("scan" \in buttons' => screen' = "main") /\ ("scan" \in buttons' => Hope')
  BY DEF ScanInv, Hope
<1>p. WindowsEffect
  BY WindowsStep
<1> DEFINE Settles == \E k \in DOMAIN modals : FoundOk(k) \/ FoundClosed(k) \/ NoDeviceReturns(k)
<1>a. CASE Settles
  <2>1. ASSUME NEW k \in DOMAIN modals, FoundOk(k)
        PROVE  ("scan" \in buttons' => screen' = "main") /\ ("scan" \in buttons' => Hope')
    BY <1>0, <2>1 DEF FoundOk
  <2>2. ASSUME NEW k \in DOMAIN modals, FoundClosed(k)
        PROVE  ("scan" \in buttons' => screen' = "main") /\ ("scan" \in buttons' => Hope')
    BY <1>0, <2>2 DEF FoundClosed, Hope
  <2>3. ASSUME NEW k \in DOMAIN modals, NoDeviceReturns(k)
        PROVE  ("scan" \in buttons' => screen' = "main") /\ ("scan" \in buttons' => Hope')
    BY <1>0, <2>3 DEF NoDeviceReturns, Hope
  <2>4. QED
    BY <1>a, <2>1, <2>2, <2>3
<1>1. ASSUME NEW to, Build(to) PROVE "scan" \in buttons' => screen' = "main" /\ scanOn'
  BY <1>1 DEF Build
<1>2. ASSUME UNCHANGED <<screen, buttons, scanOn, dismissed>>,
             \A r \in Runs : run[r].kind = "scan" /\ (pc[r] = "scan" \/ ReportDue(r)) =>
               \/ run'[r].kind = "scan" /\ (pc'[r] = "scan" \/ ReportDue(r)')
               \/ Waits("found")' \/ Waits("noDevice")'
      PROVE  ("scan" \in buttons' => screen' = "main") /\ ("scan" \in buttons' => Hope')
  <2>1. CASE ~Settles
    BY <1>0, <1>2, <1>p, <2>1 DEF Hope, WindowsEffect
  <2>2. QED
    BY <1>a, <2>1
<1> HIDE DEF Settles
<1>s. ASSUME UNCHANGED <<pc, run, tkq>>, NEW r \in Runs,
             run[r].kind = "scan" /\ (pc[r] = "scan" \/ ReportDue(r))
      PROVE  run'[r].kind = "scan" /\ (pc'[r] = "scan" \/ ReportDue(r)')
  BY <1>s DEF ReportDue, Due
<1>t. ASSUME NEW kind \in Kinds, NEW label, StartRun(kind, First(kind), label), tkq' = tkq, NEW r \in Runs,
             run[r].kind = "scan" /\ (pc[r] = "scan" \/ ReportDue(r))
      PROVE  run'[r].kind = "scan" /\ (pc'[r] = "scan" \/ ReportDue(r)')
  <2>1. PICK s : s = runs'
    OBVIOUS
  <2>2. /\ pc[s] = "new" /\ \A q \in Runs \ {s} : pc'[q] = pc[q]
        /\ ~ReportDue(s)
        /\ \A q \in Runs \ {s} : ReportDue(q)' <=> ReportDue(q)
    BY <1>t, <2>1, FlightOfStart
  <2>3. \A q \in Runs \ {s} : run'[q] = run[q]
    BY <1>t, <2>1, StartEffect
  <2>4. r # s
    BY <1>t, <2>2
  <2>5. QED
    BY <1>t, <2>2, <2>3, <2>4
<1>3. CASE Handler
  <2>0. tkq' = tkq
    BY <1>3, HandlerDoes DEF HandlerEffect
  <2>u. ASSUME NEW r \in Runs, run[r].kind = "scan" /\ (pc[r] = "scan" \/ ReportDue(r))
        PROVE  run'[r].kind = "scan" /\ (pc'[r] = "scan" \/ ReportDue(r)')
    <3>1. CASE UNCHANGED <<liveVars, runVars>>
      BY <1>s, <2>0, <2>u, <3>1 DEF liveVars, runVars
    <3>2. CASE ~UNCHANGED <<liveVars, runVars>>
      <4>1. PICK kind \in Kinds, label \in {labelGen, gen'} : StartRun(kind, First(kind), label)
        BY <1>3, <3>2, HandlerDoes DEF HandlerEffect
      <4>2. QED
        BY <1>t, <2>0, <2>u, <4>1
    <3>3. QED
      BY <3>1, <3>2
  <2>1. CASE (\E to \in Screens : Go(screen, to)) \/ EnterLive \/ (\E b \in Makes : ShowBrandMenu(b))
    <3>1. PICK to : Build(to)
      BY <2>1 DEF Go, EnterLive, ShowBrandMenu
    <3>2. QED
      BY <1>1, <3>1 DEF Hope
  <2>2. CASE StartScan
    <3>1. StartRun("scan", First("scan"), labelGen) /\ "scan" \in Kinds /\ UNCHANGED <<screen, buttons>>
      BY <2>2 DEF StartScan, First, Kinds
    <3>2. PICK s : s = runs'
      OBVIOUS
    <3>3. s \in Runs /\ pc'[s] = First("scan") /\ run'[s] = [kind |-> "scan", gen |-> labelGen, result |-> "open"]
      BY <3>1, <3>2, StartEffect
    <3>4. pc'[s] = "scan" /\ run'[s].kind = "scan"
      BY <3>3 DEF First
    <3>5. QED
      BY <1>0, <3>1, <3>3, <3>4 DEF Hope
  <2>6. CASE BackToMakes
    BY <1>0, <2>6 DEF BackToMakes, InMake
  <2>7. CASE \/ AskPassword \/ Rerun
             \/ \E known \in BOOLEAN : ReadBrand(known)
             \/ ReadDtcPopup \/ ClearCodes
    <3>1. UNCHANGED <<screen, buttons, scanOn, dismissed>>
      BY <2>7 DEF AskPassword, Rerun, ReadBrand, ReadDtcPopup, ClearCodes, screenVars
    <3>2. QED
      BY <1>2, <2>u, <3>1
  <2>8. ASSUME NEW k \in DOMAIN modals, Answer(k) \/ Return(k), ~Settles
        PROVE  ("scan" \in buttons' => screen' = "main") /\ ("scan" \in buttons' => Hope')
    <3>1. \/ BoxOk(k) \/ ClearAndClose(k) \/ CloseCodes(k) \/ \E answer \in {"yes", "no"} : PasswordAnswered(k, answer)
          \/ PasswordReturns(k) \/ BoxReturns(k) \/ ClearedReturns(k)
      BY <2>8 DEF Answer, Return, Settles
    <3>2. UNCHANGED <<screen, buttons, scanOn, dismissed>>
      BY <3>1 DEF BoxOk, ClearAndClose, CloseCodes, PasswordAnswered, PasswordReturns, BoxReturns, ClearedReturns,
                  screenVars
    <3>3. QED
      BY <1>2, <2>u, <3>2
  <2>9. QED
    BY <1>3, <1>a, <2>1, <2>2, <2>6, <2>7, <2>8 DEF Handler, Click
<1>4. ASSUME NEW r \in Runs, Thread(r)
      PROVE  ("scan" \in buttons' => screen' = "main") /\ ("scan" \in buttons' => Hope')
  <2>0. RunsEffect(r)
    BY <1>4, ThreadEffect
  <2>1. UNCHANGED <<screen, buttons, scanOn, dismissed, modals>>
    BY <2>0 DEF RunsEffect, screenVars
  <2>3. ASSUME NEW q \in Runs, run[q].kind = "scan" /\ (pc[q] = "scan" \/ ReportDue(q))
        PROVE  run'[q].kind = "scan" /\ (pc'[q] = "scan" \/ ReportDue(q)')
    <3>1. run'[q].kind = "scan"
      BY <2>0, <2>3 DEF RunsEffect
    <3>2. CASE ReportDue(q)
      BY <1>4, <3>1, <3>2, FlightOfThread
    <3>3. CASE pc[q] = "scan" /\ q = r
      BY <2>0, <3>1, <3>3 DEF RunsEffect, TalkEffect, PostEffect, ReportDue
    <3>4. CASE pc[q] = "scan" /\ q # r
      BY <2>0, <3>1, <3>4 DEF RunsEffect
    <3>5. QED
      BY <2>3, <3>2, <3>3, <3>4
  <2>4. QED
    BY <1>2, <2>1, <2>3
<1>5. ASSUME NEW r \in Runs, Callback(r)
      PROVE  ("scan" \in buttons' => screen' = "main") /\ ("scan" \in buttons' => Hope')
  <2>1. pc' = pc /\ run' = run
    BY <1>5, CallEffect
  <2>3. CASE \E to : Build(to)
    BY <1>1, <2>3 DEF Hope
  <2>4. CASE ~ \E to : Build(to)
    <3>1. UNCHANGED <<screen, buttons, scanOn, dismissed>>
      BY <1>5, <2>4 DEF Callback, ScanResult, BindResult, LiveResult, StopSpinner, screenVars
    <3>2. ASSUME NEW q \in Runs, run[q].kind = "scan" /\ (pc[q] = "scan" \/ ReportDue(q))
          PROVE  \/ run'[q].kind = "scan" /\ (pc'[q] = "scan" \/ ReportDue(q)')
                 \/ Waits("found")' \/ Waits("noDevice")'
      <4>1. CASE pc[q] = "scan"
        BY <2>1, <3>2, <4>1
      <4>2. CASE ReportDue(q) /\ (q # r \/ StopSpinner(r))
        BY <1>5, <2>1, <3>2, <4>2, FlightOfCall
      <4>3. CASE q = r /\ ~StopSpinner(r)
        <5>1. ScanResult(r)
          BY <1>5, <3>2, <4>3 DEF Callback, BindResult, LiveResult
        <5>2. PICK what \in {"found", "noDevice"} :
                /\ modals' = Opened(modals, Plain(what))
                /\ what = "found" => run[r].result = "yes"
          BY <5>1 DEF ScanResult
        <5>3. PICK w \in Windows : w = Plain(what) /\ w.what = what
          BY PlainWindow
        <5>4. Comes(w)
          BY <5>1, <5>2, <5>3 DEF Comes
        <5>5. \E k \in DOMAIN modals' : modals'[k].what = what
          BY <5>2, <5>3, <5>4, MoreEffect
        <5>6. QED
          BY <5>5 DEF Waits
      <4>4. QED
        BY <3>2, <4>1, <4>2, <4>3
    <3>3. QED
      BY <1>2, <3>1, <3>2
  <2>5. QED
    BY <2>3, <2>4
<1>6. CASE Arrive /\ UNCHANGED <<screenVars, runVars, simVars, mac, modals, tkq>>
  <2>1. UNCHANGED <<screen, buttons, scanOn, dismissed, modals, pc, run, tkq>>
    BY <1>6 DEF Arrive, screenVars, runVars
  <2>3. QED
    BY <1>2, <1>s, <2>1
<1>7. QED
  BY <1>3, <1>4, <1>5, <1>6, NextDoes

\* gui/main_interface.py: to a user who starts nothing while a spinner ticks or the
\* password is asked for, a screen on which nothing is in flight and no window waits
\* does not look busy, and the scan button can be pressed again.
THEOREM IdleScreensLookIdle == Spec => []IdleLooksIdle
<1> DEFINE Inv == RunInv /\ ScreenTypeOK /\ BusyInv
<1>1. Init => BusyInv
  <2> SUFFICES ASSUME Init PROVE BusyInv
    OBVIOUS
  <2>1. DOMAIN << >> = {}
    OBVIOUS
  <2>3. Alone(modals) /\ ~Waits("password")
    BY <2>1 DEF Init, Alone, Waits
  <2>4. \A r \in Runs : ~Ticks(r)
    BY DEF Init, Ticks
  <2>5. TickInv
    BY <2>3, <2>4 DEF TickInv
  <2>6. ScanInv
    BY DEF Init, ScanInv
  <2>7. QED
    BY <2>5, <2>6 DEF BusyInv
<1>2. Inv /\ WordInv' /\ [Next]_vars => Inv'
  <2> SUFFICES ASSUME Inv, WordInv', [Next]_vars PROVE BusyInv'
    BY DEF WordInv
  <2>1. CASE Next
    BY <2>1, TickStep, ScanStep DEF BusyInv
  <2>2. CASE UNCHANGED vars
    <3>1. UNCHANGED <<pc, run, tkq, modals, gen, spinner, spinning, buttons, screen, scanOn, dismissed, patient>>
      BY <2>2 DEF vars, liveVars, screenVars, runVars
    <3>2. \A m : Waits(m)' <=> Waits(m)
      BY <3>1 DEF Waits
    <3>3. \A q : (Queued(q)' <=> Queued(q)) /\ (Due(q)' <=> Due(q))
      BY <3>1 DEF Queued, Due
    <3>4. \A q \in Runs : /\ InFlight(q)' <=> InFlight(q)
                          /\ ReportDue(q)' <=> ReportDue(q)
                          /\ Ticks(q)' <=> Ticks(q)
      BY <3>1, <3>3 DEF InFlight, ReportDue, Ticks
    <3>5. TickInv'
      BY <3>1, <3>2, <3>4 DEF BusyInv, TickInv
    <3>6. ScanInv'
      BY <3>1, <3>2, <3>4 DEF BusyInv, ScanInv
    <3>7. QED
      BY <3>5, <3>6 DEF BusyInv
  <2>3. QED
    BY <2>1, <2>2
<1>3. Inv => IdleLooksIdle
  <2> SUFFICES ASSUME Inv, patient, modals = << >>, \A r \in Runs : ~InFlight(r)
               PROVE  /\ \A r \in Runs : ~Ticks(r)
                      /\ "scan" \in buttons => scanOn \/ dismissed
    BY DEF IdleLooksIdle
  <2>1. \A r \in Runs : ~Ticks(r)
    BY DEF BusyInv, TickInv
  <2>3. DOMAIN << >> = {}
    OBVIOUS
  <2>4. \A m : ~Waits(m)
    BY <2>3 DEF Waits
  <2>5. ASSUME NEW r \in Runs, pc[r] = "scan" \/ ReportDue(r) PROVE FALSE
    BY <2>5, DueInFlight DEF InFlight
  <2>6. QED
    BY <2>1, <2>4, <2>5 DEF BusyInv, ScanInv
<1>4. Spec => []WordInv
  BY WordAlways
<1>5. Init /\ WordInv => Inv
  BY <1>1 DEF WordInv, Inv
<1> HIDE DEF Inv
<1>6. QED
  BY <1>2, <1>3, <1>4, <1>5, PTL DEF Spec
=============================================================================
