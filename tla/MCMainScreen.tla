---------------------------- MODULE MCMainScreen ----------------------------
(***************************************************************************)
(* MainScreen as TLC checks it: two data points, one of them a             *)
(* temperature, and a user on one of three trips, each with the runs and   *)
(* screens it is about.                                                    *)
(***************************************************************************)
EXTENDS MainScreen

VARIABLE trip

MCLabels == <<"Vehicle Speed", "Coolant Temp">>

\* The brands are alike.
Symmetry == Permutations(Makes)

Count(kind) == Cardinality({r \in 1 .. runs : run[r].kind = kind})

\* Three runs of any kind and every screen.
AllScreens == runs <= 3

\* A hasty user fetches live data twice over one adapter, bound without ado; either
\* reads overlap or a reply is late, and two replies at most wait in the queue.
TwoFetches ==
  /\ ~patient /\ gen <= 3 /\ screen \in {"main", "diag", "live"}
  /\ Count("scan") <= 1 /\ Count("bind") <= 1 /\ Count("live") <= 2
  /\ \A r \in 1 .. runs : run[r].result # "no"
  /\ Len(inq) <= 2
  /\ late > 0 => mixed = {} /\ torn = {}
  /\ Count("live") > 0 => modals = << >> /\ \A r \in Runs : InFlight(r) => run[r].kind = "live"

\* A hasty user comes back to the main screen once, asks for a bind twice, and for
\* live data, which is not fetched yet.
TwoBinds ==
  /\ ~patient /\ screen \in {"main", "sim", "diag", "live"}
  /\ (screen = "main" => gen \in {1, 3}) /\ (screen = "sim" => gen = 2)
  /\ \A r \in 1 .. runs : run[r].result # "no" /\ pc[r] \notin {"flush", "close"}
  /\ Count("scan") <= 2 /\ Count("bind") <= 2 /\ Count("live") <= 1

Within ==
  \/ trip = "screens" /\ AllScreens
  \/ trip = "fetches" /\ TwoFetches
  \/ trip = "binds" /\ TwoBinds

MCInit == Init /\ trip \in {"screens", "fetches", "binds"} /\ Within
MCNext == Next /\ UNCHANGED trip /\ Within'
MCSpec == MCInit /\ [][MCNext]_<<vars, trip>>
=============================================================================
