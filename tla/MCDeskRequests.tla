--------------------------- MODULE MCDeskRequests ---------------------------
(***************************************************************************)
(* The requests of the desk that keep no state of their own, each against  *)
(* the files and caches it reads: a season plan, a fleet mix, a backhaul   *)
(* search, the risk of a route, a quote, the outlook of a port, a landed   *)
(* cost, a look back at the history.  They share nothing, so a behaviour   *)
(* is about one desk, and the others stand at the beginning.               *)
(***************************************************************************)
EXTENDS VoyageSchedule, FleetMix, Backhaul, RouteRisk, QuoteDesk, PortOutlook, CostDesk,
        MCHindsightDesk

CONSTANTS P, Q, R, S, A, B, R1, R2, RV, T1, T2, Z

VARIABLE desk      \* the desk this behaviour is about

Plain   == [check \in Checks |-> Unpublished]
Shallow == [Plain EXCEPT !["draft"] = 1]
Open    == [port \in Ports |-> Plain]

-----------------------------------------------------------------------------
(* Voyage scheduling.                                                      *)
MCMiles ==
  [a \in Ports |-> [b \in Ports |->
     IF a = b THEN 0 ELSE IF {a, b} = {Q, R} THEN 1 ELSE 2]]
MCRate == (P :> Unpublished) @@ (Q :> 2) @@ (R :> 0) @@ (S :> 0)
MCWait == (P :> 0) @@ (Q :> 1) @@ (R :> 0) @@ (S :> 0)

Boat(at, free, size, draft) ==
  [at |-> at, free |-> free, speed |-> 1, burn |-> 1, class |-> size,
   hull |-> [check \in Checks |-> draft]]

Cargo(from, dests, opens, closes, worth) ==
  [from |-> from, dests |-> dests, opens |-> opens, closes |-> closes, tonnes |-> 2,
   worth |-> worth, goods |-> Unpublished, laytime |-> 1, demurrage |-> 1]

JobOf(fleet, ships, lots, events, weather, legacy) ==
  [fleet |-> fleet, ships |-> ships, lots |-> lots, events |-> events,
   weather |-> weather, registry |-> <<>>, legacy |-> legacy, horizon |-> 12]

Queue == [port |-> Q, from |-> 1, to |-> 4, wait |-> 1, pace |-> 60]
Storm == [ends |-> {P, Q}, from |-> 0, to |-> 1, delay |-> 1]

MCJobs ==
  { \* one ship, two lots that lead to each other
    JobOf(<<1>>, 1 :> Boat(P, 0, "cape", 1),
          (A :> Cargo(P, {Q, R}, 0, 4, 9)) @@ (B :> Cargo(Q, {P}, 2, 7, 5)), {Queue}, {}, Open),
    \* two ships of two classes, one too deep for a port
    JobOf(<<1, 2>>, (1 :> Boat(P, 1, "cape", 2)) @@ (2 :> Boat(Q, 0, "panamax", 1)),
          A :> Cargo(P, {Q, R}, 0, 3, 9), {Queue}, {Storm}, [Open EXCEPT ![R] = Shallow]),
    \* two lots for two ships, weather on the way, one lot worth too much
    JobOf(<<1, 2>>, (1 :> Boat(P, 0, "cape", 1)) @@ (2 :> Boat(R, 0, "cape", 1)),
          (A :> Cargo(P, {Q}, 0, 1, 9)) @@ (B :> Cargo(R, {P}, 1, 2, 20)), {}, {Storm}, Open),
    \* a queue that stands from the first hour on
    JobOf(<<1, 2>>, (1 :> Boat(P, 0, "cape", 1)) @@ (2 :> Boat(Q, 0, "cape", 1)),
          A :> Cargo(Q, {R}, 0, 4, 9), {[Queue EXCEPT !.from = 0]}, {}, Open),
    \* nothing to carry
    JobOf(<<1>>, 1 :> Boat(P, 0, "cape", 1), <<>>, {}, {}, Open) }

-----------------------------------------------------------------------------
(* The fleet mix: R is the deep port beside Q, and no way to S is on       *)
(* record.  Berths are drawn again after day 2: the charter day is 1, and  *)
(* the register may be asked on a later day.                               *)
MCClasses == {"panamax", "capesize"}
MCHullOf ==
  ("panamax" :> [draft |-> 2, loa |-> 2, beam |-> 1, size |-> 8])
  @@ ("capesize" :> [draft |-> 4, loa |-> 3, beam |-> 2, size |-> 20])
MCHub == [port \in Ports |-> IF port = Q THEN R ELSE Unpublished]
MCSeaMiles ==
  [a \in Ports |-> [b \in Ports |-> IF S \in {a, b} THEN Unpublished ELSE MCMiles[a][b]]]

Quay(port, draft, loa, size, daily) ==
  [port |-> port, berth |-> A, published |-> TRUE, from |-> 0, to |-> Unpublished,
   class |-> Unpublished, daily |-> daily, displacement |-> Unpublished,
   limit |-> [draft |-> draft, loa |-> loa, beam |-> Unpublished, size |-> size]]

MCRegisters ==
  {<<>>}
  \cup {<<Quay(Q, draft, loa, 18, daily), Quay(Q, 2, 2, Unpublished, FALSE)>> :
          draft \in {1, 3, Unpublished}, loa \in {1, 3}, daily \in BOOLEAN}
  \cup {<<Quay(P, 3, 1, 18, FALSE), Quay(P, 2, 2, Unpublished, FALSE)>>}
  \cup {<<[Quay(Q, 1, 1, 1, FALSE) EXCEPT !.published = FALSE], Quay(P, 3, loa, 20, FALSE)>> :
          loa \in {2, 3}}

Redrawn(port, before, after) ==
  <<[Quay(port, before, 3, Unpublished, FALSE) EXCEPT !.to = 2],
    [Quay(port, after, 3, Unpublished, FALSE) EXCEPT !.from = 3]>>

MCLift(ports, todays, registers) ==
  [tonnes : {7, 21}, from : {P}, to : ports, day : {1}, closes : {0, 1}, term : {1, 9},
   today : todays, priced : {{"panamax"}, MCClasses},
   legacy : {Open, [Open EXCEPT ![Q] = Shallow, ![R] = [Shallow EXCEPT !["size"] = 18]]},
   registry : registers]

MCLifts ==
  MCLift({Q, R}, {1}, MCRegisters)
  \cup MCLift({Q, R}, {1, 3}, {Redrawn(port, 1, 4) : port \in {P, Q}} \cup {Redrawn(Q, 4, 1)})
  \cup {[asked EXCEPT !.tonnes = 41] : asked \in MCLift({Q, S}, {1}, {<<>>})}

-----------------------------------------------------------------------------
(* Backhaul: every log of one vessel's calls and one call of another.  In  *)
(* two days the ballast to Q costs more than its cargo is worth at a rate  *)
(* of 1, R is barred, and S is three days away.                            *)
Call(port, vessel, what, day) ==
  [port |-> port, vessel |-> vessel, what |-> what, day |-> day, quarantined |-> FALSE]

MCCalls ==
  {Call(P, A, "DISCHARGE", day) : day \in {1, 3}}
  \cup {Call(port, A, "LOAD", 2) : port \in {P, Q}}
  \cup {Call(P, B, what, 2) : what \in {"DISCHARGE", "LOAD"}}
  \cup {[Call(Q, B, "LOAD", 3) EXCEPT !.quarantined = TRUE]}
MCCallLogs == SUBSET MCCalls

MCSearches ==
  [from : {P}, candidates : {<<P, Q, R>>, <<Q, S>>}, rate : {Unpublished, 1, 3},
   window : {2, 4}, idle : {FALSE}]
  \cup [from : {P}, candidates : {<<Q, R>>}, rate : {2}, window : {4}, idle : {TRUE}]
MCFar == [MCMiles EXCEPT ![P][S] = 3]
MCChance == (P :> 10) @@ (Q :> 60) @@ (R :> Unpublished) @@ (S :> Unpublished)

-----------------------------------------------------------------------------
(* The risk of a route: three legs around a cape, three passages, two      *)
(* listed areas.                                                           *)
RoutePlaces == {P, Q, R}
MCPlace == (P :> <<0, 0>>) @@ (Q :> <<8, 0>>) @@ (R :> <<4, 4>>)
MCLines ==
  [a \in RoutePlaces |-> [b \in RoutePlaces |->
    CASE a = P /\ b = Q -> {<<<<1, 1>>, <<4, 3>>, <<7, 0>>>>,
                            <<<<0, 0>>, <<1, 0>>, <<4, 4>>, <<9, 0>>, <<9, 1>>>>}
      [] a = P /\ b = R -> {<<<<1, 0>>, <<0, 1>>, <<0, 4>>, <<4, 4>>>>}
      [] a = R /\ b = Q -> {<<<<4, 5>>, <<8, 4>>, <<8, 1>>>>}
      [] OTHER -> {}]]
MCPassages == <<[id |-> "suez", at |-> <<6, 1>>, radius |-> 1],
                [id |-> "cape", at |-> <<-2, 0>>, radius |-> 2],
                [id |-> "malacca", at |-> <<2, 2>>, radius |-> 2]>>
MCAreas == <<[id |-> "gulf", low |-> <<5, 0>>, high |-> <<7, 2>>],
             [id |-> "north", low |-> <<0, 3>>, high |-> <<1, 5>>]>>
MCSailing == [a \in RoutePlaces |-> [b \in RoutePlaces |-> IF {a, b} = {P, R} THEN Absent ELSE 8]]
MCWeekOf == <<1, 1, 2, 2, 3, 3, 4, 4>>
Series(perDay) == [i \in DOMAIN perDay |-> [day |-> i, count |-> perDay[i]]]
Ids == {"suez", "cape", "malacca"}
MCTransits ==
  {Series(<<4, 6, 5, 0>>), Series(<<5, 5, 5, 1>>), Series(<<4, 6>>),
   Reverse(Series(<<8, 4, 6, 2, 9>>)), Absent, Garbled}
MCConflict == {Series(<<1, 2, 9>>), Absent}
MCAdvisories == {{}, {[id |-> "suez", from |-> 1, to |-> Absent, reviewed |-> 4, tight |-> TRUE]}}
MCFileSets ==
  {[transits |-> [id \in Ids |-> IF id = "cape" THEN u ELSE t],
    conflict |-> [id \in Ids |-> c], advisories |-> a,
    calls |-> [port \in RoutePlaces |-> IF port = Q THEN Series(<<4, 2, 3, 9>>) ELSE Absent],
    rates |-> Series(<<5, 6, 8, 0, 20>>)] :
     t \in MCTransits, u \in {Absent, Series(<<4, 6, 5, 0>>)}, c \in MCConflict, a \in MCAdvisories}
MCBasins == (P :> {}) @@ (Q :> {"bay"}) @@ (R :> {"bay", "sea"})
MCStrikes == <<[basin |-> "bay", week |-> 1, rate |-> 1],
              [basin |-> "sea", week |-> 1, rate |-> 2],
              [basin |-> "bay", week |-> 4, rate |-> 9]>>
MCInquiries ==
  [from : {P}, to : {Q, R}, day : {3, 4, 5}, hull : {Absent, 10}, opens : {4}, closes : {3, 8}]
  \cup [from : {R}, to : {Q}, day : {4}, hull : {10}, opens : {1}, closes : {1}]

-----------------------------------------------------------------------------
(* Quotes: rates rising or falling over three horizons.                    *)
Fan(days, p10, p50, p90) == [days |-> days, p10 |-> p10, p50 |-> p50, p90 |-> p90]

Rising  == {Fan(7, 800, 1000, 1200), Fan(30, 900, 1200, 1400), Fan(90, 1000, 1500, 2000)}
Falling == {Fan(7, 3000, 3200, 3300), Fan(30, 2900, 2500, 3000), Fan(90, 2600, 2400, 2200)}

Data(row, tc, overlap, fans) == [row |-> row, tc |-> tc, overlap |-> overlap, fans |-> fans]

MCVesselClasses == <<"panamax", "capesize">>
MCDeadweight == ("panamax" :> 8) @@ ("capesize" :> 20)
MCMarkets ==
  {("panamax" :> p) @@ ("capesize" :> c) :
     p \in {Data(TRUE, tc, overlap, Rising) : tc \in {1000, 1600}, overlap \in BOOLEAN}
             \cup {Data(TRUE, 0, TRUE, Rising)},
     c \in {Data(row, tc, TRUE, Falling) : row \in BOOLEAN, tc \in {2400, 3300}}}
MCRouteBasis == ("plain" :> NoBasis) @@ ("dear" :> [mean |-> 10, spread |-> 5])
                @@ ("cheap" :> [mean |-> -20, spread |-> 95])
MCRequests ==
  [tonnes : {7, 21}, feasible : {{"panamax", "capesize"}, {}}, term : {10, 70},
   risk : {50}, lead : {-1, 4, 40, 95}, fleet : {{A}}, route : {"plain"}]
  \cup [tonnes : {21}, feasible : {{"panamax"}}, term : {70}, risk : {0, 100},
        lead : {20}, fleet : {{}, {A, B}}, route : {"plain", "dear", "cheap"}]
MCScore ==
  (A :> ((P :> 4) @@ (Q :> 7) @@ (R :> 6) @@ (S :> 5)))
  @@ (B :> ((P :> 9) @@ (Q :> 2) @@ (R :> 3) @@ (S :> 1)))
MCBerthed == (A :> R) @@ (B :> P)

-----------------------------------------------------------------------------
(* The outlook of a port: two stretches of sea and of calls.               *)
MCSkies == {(P :> {}) @@ (Q :> {1, 2}) @@ (R :> {}), (P :> {0, 1}) @@ (Q :> {}) @@ (R :> {})}
Voyage(from, to, opens, closes) ==
  [from |-> from, to |-> to, opens |-> opens, closes |-> closes, storms |-> 2]
MCVoyages == {Voyage(P, Q, 0, 2), Voyage(Q, R, 1, 1), Voyage(R, P, 4, 5)}
MCStatic == (P :> 2) @@ (Q :> 0) @@ (R :> 1)
MCAsks == {<<P, AnyDay>>, <<P, 3>>, <<P, 4>>, <<Q, AnyDay>>, <<R, AnyDay>>}
Unasked == waits = {} /\ wait = NoWait /\ \A p \in OutPorts : Len(counts[p]) <= Recent + Base
Unfetched == clock = 0 /\ sea = [p \in OutPorts |-> NoFile] /\ \A t \in Askers : asker[t] = Away

OutlookNext ==
  \/ Unasked /\ SeaNext /\ UNCHANGED waitVars
  \/ Unfetched /\ WaitNext /\ UNCHANGED seaVars

-----------------------------------------------------------------------------
(* Costs.                                                                  *)
MCMacroRows ==
  {[series |-> "coal", day |-> 2, value |-> 90, unit |-> "usd_per_mt"],
   [series |-> "coal", day |-> 4, value |-> 120, unit |-> "usd_per_mt"],
   [series |-> "iron", day |-> 1, value |-> 7, unit |-> "index"],
   [series |-> "usd_inr", day |-> 3, value |-> 85, unit |-> "inr"]}

MCLandedRequests ==
  [tonnes : {10}, freight : {9}, days : {6, 8}, opex : {0, 4}, wait : {NoFigure, 2},
   handling : {NoFigure, -1, 3}, demurrage : {NoFigure, 5}, laytime : {NoFigure, 1, 3},
   hull : {NoFigure, 50}, areas : {{}, {Z}}, commodity : {NoFigure, "coal", "iron"},
   day : {1, 3}, inr : BOOLEAN]

Printed(series, day, rate, unit) == [series |-> series, day |-> day, rate |-> rate, unit |-> unit]

MCBenchmarkOf == (R1 :> T1) @@ (R2 :> T2) @@ (RV :> NoFigure)

Benchmarks(rates) == {Printed(T1, day, rates[day], "usd/day") : day \in DOMAIN rates}
Paying(pct, rates, days) ==
  {Printed(R1, day, (rates[day] * (100 + pct)) \div 100, "usd/day") : day \in days}

MCWorlds ==
  {Benchmarks(rates) \cup Paying(pct, rates, days) \cup other :
     rates \in {<<100, 200, 400, 300>>, <<400, 100, 100, 200>>}, pct \in {-10, 20},
     days \in SUBSET (1 .. 4),
     other \in {{}, {Printed(RV, 2, 11, "usd/t")}, {Printed(R2, 3, 500, "usd/day")},
                {Printed(T2, 1, 100, "usd/day"), Printed(R2, 3, 120, "usd/day")}}}

MCFrontierK == <<0, 10, 25, 50, 100, 200, 400, 800>>

MCMixRequests ==
  [p50 : {20}, p10 : {16, 20, 25}, quote : {0, 19, 20, 21}, missed : {0, 900},
   stockout : {0, 1, 40}, k : {0, 100, 300}]

-----------------------------------------------------------------------------
(* One desk at a time.  The log of calls grows only beside backhaul        *)
(* searches.                                                               *)
SeasonVars == <<scheduleVars, fleetVars, backhaulVars>>

Free == stage = "idle" /\ lift = NoLift /\ search = NoSearch /\ log = {} /\ cached = Unpublished
Looking == search # NoSearch \/ log # {} \/ cached # Unpublished

SeasonNext ==
  \/ (Free \/ stage # "idle") /\ ScheduleNext /\ UNCHANGED <<fleetVars, backhaulVars>>
  \/ (Free \/ lift # NoLift) /\ FleetNext /\ UNCHANGED <<scheduleVars, backhaulVars>>
  \/ (Free \/ Looking) /\ BackhaulNext /\ UNCHANGED <<scheduleVars, fleetVars>>

RequestsInit ==
  /\ desk \in {"season", "route", "quote", "outlook", "cost", "hindsight"}
  /\ ScheduleInit /\ FleetInit /\ BackhaulInit /\ log = {}
  /\ RouteInit /\ QuoteInit /\ OutlookInit /\ CostInit /\ HindInit
  /\ desk # "route" => files = CHOOSE f \in FileSets : TRUE
  /\ desk # "outlook" => sky = CHOOSE s \in Skies : TRUE

RequestsNext ==
  /\ UNCHANGED desk
  /\ \/ desk = "season" /\ SeasonNext
        /\ UNCHANGED <<routeVars, quoteVars, outlookVars, costVars, hindVars>>
     \/ desk = "route" /\ RouteNext
        /\ UNCHANGED <<SeasonVars, quoteVars, outlookVars, costVars, hindVars>>
     \/ desk = "quote" /\ QuoteNext
        /\ UNCHANGED <<SeasonVars, routeVars, outlookVars, costVars, hindVars>>
     \/ desk = "outlook" /\ OutlookNext
        /\ UNCHANGED <<SeasonVars, routeVars, quoteVars, costVars, hindVars>>
     \/ desk = "hindsight" /\ HindNext
        /\ UNCHANGED <<SeasonVars, routeVars, quoteVars, outlookVars, costVars>>
     \/ desk = "cost" /\ CostNext
        /\ UNCHANGED <<SeasonVars, routeVars, quoteVars, outlookVars, hindVars>>
=============================================================================
