------------------------------ MODULE Backhaul ------------------------------
(***************************************************************************)
(* What a ship that has discharged could load next: src/opt/backhaul.py,   *)
(* POST /backhaul of backend/main.py, and the waiting position advised to  *)
(* an idle ship (src/opt/repositioning.py).  Calls observed at the ports   *)
(* come from a log that is read once and kept (_all_calls).                *)
(***************************************************************************)
EXTENDS BerthRegister, FiniteSetsExt, Functions

CONSTANTS
  Places, Hulls,      \* ports, and the vessels whose calls were observed
  CallLogs,           \* the call logs a desk may hold: sets of calls (IsCall below)
  Searches,           \* requests: discharge port, candidates, rate or NoRate, window
  Far,                \* days of ballast between two places
  Fuel,               \* fuel cost of a day of ballast
  Waiting,            \* cost of the queue expected at a place
  Chance,             \* probability of a cargo within the window, in percent, or NoRate
  Barred,             \* places the ship's dimensions do not clear
  MinPairs,           \* MIN_PAIRING_OBS
  NoRate              \* no rate of the class is known

(* A call: port, vessel, LOAD or DISCHARGE, its day and whether it was put *)
(* aside by the log's own checks.                                          *)
IsCall(call) ==
  /\ call.port \in Places /\ call.vessel \in Hulls /\ call.what \in {"LOAD", "DISCHARGE"}
  /\ call.day \in Nat /\ call.quarantined \in BOOLEAN

(* A search is for at least one day (BackhaulRequest); that of an idle     *)
(* ship's waiting position has a rate.                                     *)
IsSearch(asked) ==
  /\ asked.from \in Places /\ asked.candidates \in Seq(Places)
  /\ asked.window \in Nat \ {0} /\ asked.idle \in BOOLEAN
  /\ asked.rate \in Int \/ (asked.rate = NoRate /\ ~asked.idle)

ASSUME BackhaulAssumption ==
  /\ Far \in [Places -> [Places -> Nat]] /\ Waiting \in [Places -> Nat]
  /\ Fuel \in Nat /\ MinPairs \in Nat \ {0}
  /\ NoRate \notin Int /\ Chance \in [Places -> 0 .. 100 \cup {NoRate}]
  /\ \A calls \in CallLogs : IsFiniteSet(calls) /\ \A call \in calls : IsCall(call)
  /\ \A asked \in Searches : IsSearch(asked)

VARIABLES
  log,          \* the log of calls on disk
  cached,       \* the calls kept by _all_calls, or NoRate before the first read
  search,       \* the request, or NoSearch
  ranking       \* the candidates in the order answered

backhaulVars == <<log, cached, search, ranking>>

NoSearch == [from |-> NoRate]

BackhaulInit == log \in CallLogs /\ cached = NoRate /\ search = NoSearch /\ ranking = <<>>

-----------------------------------------------------------------------------
CallsAt(port, hull) ==
  {call \in cached : call.port = port /\ call.vessel = hull /\ ~call.quarantined}

Seen(port) == {hull \in Hulls : CallsAt(port, hull) # {}}

DaysOf(port, hull, what) == {call.day : call \in {call \in CallsAt(port, hull) : call.what = what}}

\* At one port any order of the two calls will do; between ports the load
\* counts from the vessel's last discharge on.
Paired(from, to, hull) ==
  LET discharges == DaysOf(from, hull, "DISCHARGE")
      loads      == DaysOf(to, hull, "LOAD")
  IN  IF from = to THEN discharges # {} /\ loads # {}
      ELSE discharges # {} /\ \E day \in loads : day >= Max(discharges)

PairedHulls(from, to) == {hull \in Seen(from) : Paired(from, to, hull)}

Sufficient(from, to) ==
  /\ Cardinality(Seen(from)) >= MinPairs
  /\ from = to \/ Seen(to) # {}

BadVetoes(from, to) ==
  Cardinality(Seen(from)) >= MinPairs /\ PairedHulls(from, to) = {}

Vetoes(from, to) == Sufficient(from, to) /\ PairedHulls(from, to) = {}

Neutral == 50

Likely(port) == IF Chance[port] \in 1 .. 100 THEN Chance[port] ELSE Neutral

Viable(port) ==
  /\ Far[search.from][port] <= search.window
  /\ port \notin Barred
  /\ ~Vetoes(search.from, port)

Score(port) == IF Viable(port) THEN Likely(port) ELSE 0

\* In money: hundredths of a dollar.
BallastCost(port) == Far[search.from][port] * Fuel * 100

Dollars(port) ==
  IF Viable(port) THEN Likely(port) * search.rate * search.window - BallastCost(port) ELSE 0

BadWorth(port) ==
  IF search.rate = NoRate THEN Likely(port) ELSE Dollars(port)

Worth(port) == IF search.rate = NoRate THEN Score(port) ELSE Dollars(port)

\* An idle ship's options carry the queue's cost and are never put at zero.
Position(port) ==
  Likely(port) * search.rate * search.window - BallastCost(port) - Waiting[port] * 100

\* Repositioning has a rate of its own to fall back on.
Value(port) == IF search.idle THEN Position(port) ELSE Worth(port)

\* The candidates by what they are worth, equals as they were asked.
BestFirst(worth, candidates) ==
  LET First(i, j) == \/ worth[candidates[i]] > worth[candidates[j]]
                     \/ worth[candidates[i]] = worth[candidates[j]] /\ i < j
  IN  Along(candidates, InOrder(DOMAIN candidates, First))

-----------------------------------------------------------------------------
AskBackhaul ==
  /\ search = NoSearch
  /\ search' \in Searches
  /\ cached' = IF cached = NoRate THEN log ELSE cached
  /\ UNCHANGED <<log, ranking>>

RankBackhaul ==
  /\ search # NoSearch /\ ranking = <<>>
  /\ ranking' = BestFirst([port \in Range(search.candidates) |-> Value(port)],
                          search.candidates)
  /\ UNCHANGED <<log, cached, search>>

DeliverBackhaul ==
  /\ ranking # <<>>
  /\ search' = NoSearch /\ ranking' = <<>>
  /\ UNCHANGED <<log, cached>>

\* A harvest appends calls; the server keeps what it read.
HarvestCalls ==
  /\ search = NoSearch
  /\ log' \in {calls \in CallLogs : log \subseteq calls}
  /\ UNCHANGED <<cached, search, ranking>>

\* clear_backhaul_cache, or a restart.
ForgetCalls ==
  /\ search = NoSearch
  /\ cached' = NoRate
  /\ UNCHANGED <<log, search, ranking>>

BackhaulNext == AskBackhaul \/ RankBackhaul \/ DeliverBackhaul \/ HarvestCalls \/ ForgetCalls

-----------------------------------------------------------------------------
(***************************************************************************)
(* Properties                                                              *)
(***************************************************************************)
(* A port the ship cannot use (too far, too shallow, or proven to give no  *)
(* load) is put at zero, and zero may beat what loses money: such a port   *)
(* comes before a usable one only if the usable one's ballast costs more   *)
(* than its cargo is worth, and never when the ranking is by probability.  *)
UnusableOutranksOnlyLosses ==
  search # NoSearch /\ ~search.idle =>
    \A i, j \in DOMAIN ranking :
      i < j /\ ~Viable(ranking[i]) /\ Viable(ranking[j]) =>
        search.rate # NoRate
          /\ Likely(ranking[j]) * search.rate * search.window <= BallastCost(ranking[j])

(* A veto rests on evidence: enough vessels were seen discharging, the     *)
(* other port has been observed at all, and not one vessel loads there     *)
(* after the last cargo it brought.                                        *)
VetoIsEvidenced ==
  search # NoSearch =>
    \A port \in Range(search.candidates) :
      Vetoes(search.from, port) =>
        /\ Cardinality(Seen(search.from)) >= MinPairs
        /\ \E call \in cached : call.port = port /\ ~call.quarantined
        /\ \A load \in cached :
             load.port = port /\ load.what = "LOAD" /\ ~load.quarantined =>
               \/ \E call \in cached : /\ call.vessel = load.vessel /\ call.port = search.from
                                       /\ call.what = "DISCHARGE" /\ ~call.quarantined
                                       /\ call.day > load.day
               \/ ~ \E call \in cached : /\ call.vessel = load.vessel /\ call.port = search.from
                                         /\ call.what = "DISCHARGE" /\ ~call.quarantined

(* What a backhaul search promises: its order, and the evidence of a veto. *)
SearchIsSound == UnusableOutranksOnlyLosses /\ VetoIsEvidenced

(* "vessels also showing a real LOAD call ... after a real DISCHARGE call  *)
(* there": a turnaround is a load that follows a discharge.                *)
PairsAreTurnarounds ==
  search # NoSearch =>
    PairedHulls(search.from, search.from) =
      {hull \in Seen(search.from) :
         \E down \in DaysOf(search.from, hull, "DISCHARGE"), up \in DaysOf(search.from, hull, "LOAD") :
           down <= up}
=============================================================================
