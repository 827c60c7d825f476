------------------------------ MODULE QuoteDesk ------------------------------
(***************************************************************************)
(* One priced quote, from the market data to the answer: quote of          *)
(* src/src/opt/quote.py loads a fan of forecasts per vessel class (src/src/*)
(* ml/live_forecast.py), run_optimizer of src/src/opt/api.py chooses the   *)
(* class, decides lock or wait (ceiling.py, stopping.py), searches the     *)
(* entry window, places the idle vessels (repositioning.py), simulates the *)
(* savings (monte_carlo.py), and the routes are drawn (route_trace.py) and *)
(* explained (explain.py).                                                 *)
(*                                                                         *)
(* Rates are whole numbers of at least 100 (in the runs multiples of it,   *)
(* so that percentages are exact); a threshold is a fraction.  The paths   *)
(* stopping.py simulates are a choice of their boundary, and the samples   *)
(* of monte_carlo.py are the three quantiles of their one shock.  Two      *)
(* ports of the same score, which the sort leaves in the order of the      *)
(* ports, count as two scores.                                             *)
(***************************************************************************)
EXTENDS Integers, Sequences, FiniteSets, Functions, FiniteSetsExt

CONSTANTS
  VesselClasses, \* in ascending order of size: a sequence
  Deadweight,    \* CLASS_REFERENCE_DWT
  Markets,       \* what the data hold for a day: per class [row, tc, overlap, fans]
  RouteBasis,    \* the table of a route family: [mean, spread] in percent, or NoBasis
  NoBasis,
  LotRequests,   \* [tonnes, feasible, term, risk, lead, fleet, route]
  Levels,        \* boundaries the simulated paths may lead to
  Delays,        \* expected_delay_days of a transit buffer
  MoveScore,     \* MoveScore[v][p]: what moving vessel v to port p is worth
  Berthed,       \* Berthed[v]: the port where v lies
  RateFloor,     \* MonteCarloConfig.floor_usd
  MovesKept,     \* _REPOSITION_OPTIONS_KEPT
  MovesDrawn     \* _MAX_REPOSITION_ALTERNATES

DollarsPerDay == {rate \in Nat : rate >= 100}

(* A forecast of one horizon, with its quantiles as the models return them.*)
ForecastFan == [days : {7, 30, 90}, p10 : DollarsPerDay, p50 : DollarsPerDay,
                p90 : DollarsPerDay]

ASSUME QuoteDeskAssumption ==
  /\ MovesKept > MovesDrawn /\ MovesDrawn \in Nat \ {0} /\ MovesKept \in Nat
  /\ Delays \subseteq Nat /\ Levels \subseteq Nat /\ RateFloor \in Int
  /\ VesselClasses \in Seq(Range(VesselClasses)) /\ VesselClasses # <<>>
  /\ \A data \in Markets, c \in Range(VesselClasses) :
       data[c].tc \in Nat /\ IsFiniteSet(data[c].fans) /\ data[c].fans \subseteq ForecastFan
  /\ \A route \in DOMAIN RouteBasis : RouteBasis[route] # NoBasis =>
       RouteBasis[route].mean \in Int /\ RouteBasis[route].mean > -100 /\ RouteBasis[route].spread \in Nat
  /\ \A r \in LotRequests :
       /\ r.feasible \subseteq Range(VesselClasses) /\ r.term \in Nat \ {0} /\ r.risk \in 0 .. 100
       /\ r.lead \in Int /\ r.route \in DOMAIN RouteBasis /\ r.fleet \subseteq DOMAIN MoveScore
  /\ \A v \in DOMAIN MoveScore :
       /\ DOMAIN MoveScore[v] # {} /\ IsFiniteSet(DOMAIN MoveScore[v])
       /\ \A p \in DOMAIN MoveScore[v] : MoveScore[v][p] \in Int
       /\ IsInjective(MoveScore[v])

VARIABLES
  lot,           \* the cargo lot in hand, or NoLot
  market,        \* the forecast fans and rates it is priced on
  class,         \* the class the decision is priced as
  decision,      \* the decision in the making, or NoDecision
  quoted         \* the answer, or NoQuote

quoteVars == <<lot, market, class, decision, quoted>>

NoLot  == <<>>
NoMarket   == <<>>
NoClass    == ""
NoDecision == <<>>
NoQuote    == <<>>
NoWindow   == <<>>

QuoteInit ==
  /\ lot = NoLot /\ market = NoMarket /\ class = NoClass
  /\ decision = NoDecision /\ quoted = NoQuote

-----------------------------------------------------------------------------
(* forecast_all_classes: a class without a row or a rate is skipped; one   *)
(* whose index has too little history to be turned into dollars keeps its  *)
(* rate and has no fans.  repair_crossed_quantiles puts each in order.     *)
BadRepaired(fan) == fan           \* mutant: crossed quantiles are kept

Repaired(fan) ==
  LET least == Min({fan.p10, fan.p50, fan.p90})
      most  == Max({fan.p10, fan.p50, fan.p90})
  IN [days |-> fan.days, p10 |-> least, p50 |-> fan.p10 + fan.p50 + fan.p90 - least - most,
      p90 |-> most]

Loaded(data, c) == data[c].row /\ data[c].tc > 0
RateOf(data, c) == IF Loaded(data, c) THEN data[c].tc ELSE 0
FansOf(data, c) ==
  IF Loaded(data, c) /\ data[c].overlap THEN {Repaired(fan) : fan \in data[c].fans} ELSE {}

(* select_vessel_class_for_cargo: the smallest that holds it, or the last. *)
ClassFor(tonnes) ==
  LET fits == {i \in DOMAIN VesselClasses : tonnes <= Deadweight[VesselClasses[i]]}
  IN VesselClasses[IF fits = {} THEN Len(VesselClasses) ELSE Min(fits)]

-----------------------------------------------------------------------------
(* _apply_basis, over the fans of the class.                               *)
Adjust(fan, basis) ==
  LET p50 == (fan.p50 * (100 + basis.mean)) \div 100
      widening == (fan.p50 * basis.spread) \div 100
  IN [days |-> fan.days, p50 |-> p50,
      p10 |-> Max({(fan.p10 * (100 + basis.mean)) \div 100 - widening, 1}),
      p90 |-> (fan.p90 * (100 + basis.mean)) \div 100 + widening]

RouteAdjusted(fans, route) ==
  IF RouteBasis[route] = NoBasis THEN fans ELSE {Adjust(fan, RouteBasis[route]) : fan \in fans}

(* _horizon_weight: the days of the term each horizon stands for.          *)
From(days) == CASE days = 7 -> 0 [] days = 30 -> 19 [] days = 90 -> 61
Till(days) == CASE days = 7 -> 19 [] days = 30 -> 61 [] days = 90 -> 10001

Covered(fan, r) == Min({Till(fan.days), r.term}) - Min({From(fan.days), r.term})

(* The fans that weigh anything.                                           *)
Weighing(fans, r) == {fan \in fans : Covered(fan, r) > 0}

(* _blend_quantile: from the median to the 90th percentile.                *)
Blend(fan, r) == ((100 - r.risk) * fan.p50 + r.risk * fan.p90) \div 100

Total(f) == MapThenSumSet(LAMBDA x : f[x], DOMAIN f)

(* compute_ceiling, a fraction.                                            *)
Ceiling(fans, r) ==
  [num |-> Total([fan \in fans |-> Covered(fan, r) * Blend(fan, r)]),
   den |-> Total([fan \in fans |-> Covered(fan, r)])]

AtMost(rate, level) == rate * level.den <= level.num
Below(x, y)         == x.num * y.den < y.num * x.den
Action(rate, level) == IF AtMost(rate, level) THEN "LOCK" ELSE "WAIT"

-----------------------------------------------------------------------------
(* The daily fan: interpolated between horizons, flat outside them.        *)
Daily(fans, day, quantile) ==
  LET before == {fan \in fans : fan.days <= day}
      after  == {fan \in fans : fan.days > day}
      a == CHOOSE fan \in before : \A other \in before : other.days <= fan.days
      b == CHOOSE fan \in after : \A other \in after : fan.days <= other.days
  IN IF before = {} THEN b[quantile]
     ELSE IF after = {} THEN a[quantile]
     ELSE (a[quantile] * (b.days - day) + b[quantile] * (day - a.days)) \div (b.days - a.days)

PlanningHorizon(r) == Max({90, r.term})

(* The trough of the fan between now and the laycan, three days each way.  *)
BadSearchDays(r) == PlanningHorizon(r)  \* mutant: the whole planning horizon

SearchDays(r) == Min({PlanningHorizon(r), r.lead})

IsTrough(best, fans, days) ==
  \A other \in days : Daily(fans, best, "p50") <= Daily(fans, other, "p50")

EntryWindow(action, fans, r) ==
  IF action # "WAIT" \/ SearchDays(r) < 1 THEN NoWindow
  ELSE LET days == 1 .. SearchDays(r)
           best == Min({day \in days : IsTrough(day, fans, days)})
       IN [from |-> Max({1, best - 3}), to |-> Min({SearchDays(r), best + 3}),
           trough |-> Daily(fans, best, "p50")]

(* estimate_savings_distribution: one shock moves all days of the term, so *)
(* a quantile of the savings is that of the shock.                         *)
Savings(quantile, fans, rate, r) ==
  Total([day \in 1 .. r.term |-> Max({RateFloor, Daily(fans, day, quantile)})]) - r.term * rate

-----------------------------------------------------------------------------
(* recommend_repositioning, every port by its score, and the best kept.    *)
ScoredAbove(v, p, ports) == {q \in ports : MoveScore[v][q] > MoveScore[v][p]}
Foremost(v, ports, n) == {p \in ports : Cardinality(ScoredAbove(v, p, ports)) < n}

Move(v) ==
  LET ports == DOMAIN MoveScore[v]
  IN [vessel |-> v, from |-> Berthed[v], to |-> CHOOSE p \in ports : ScoredAbove(v, p, ports) = {},
      options |-> Foremost(v, ports, MovesKept)]

(* build_route_exploration: the best of the moves, by score.               *)
BadDrawn(move) ==                 \* mutant: the port recommended counts as drawn
  {[of |-> move.vessel, to |-> p, chosen |-> p = move.to] :
     p \in Foremost(move.vessel, move.options \ {move.to}, MovesDrawn) \ {move.from}}

Drawn(move) ==
  {[of |-> move.vessel, to |-> p, chosen |-> p = move.to] :
     p \in Foremost(move.vessel, move.options \ {move.from}, MovesDrawn)}

-----------------------------------------------------------------------------
(* build_explanations, of the decision: what it says besides the figures.  *)
Factors(d, route) ==
  {IF RouteBasis[route] = NoBasis THEN "class-wide rate" ELSE "route basis"}
  \cup (IF ~d.simulated THEN {} ELSE
          {"option value"}
          \cup (IF Below(d.boundary, d.strike) THEN {"pulls down"} ELSE {})
          \cup (IF d.delay > 0 THEN {"weather"} ELSE {}))

-----------------------------------------------------------------------------
(* POST /quote.                                                            *)
AskQuote(r, data) ==
  /\ lot = NoLot
  /\ lot' = r /\ market' = data
  /\ UNCHANGED <<class, decision, quoted>>

(* Without a rate for the class of the tonnage there is nothing to price:  *)
(* InsufficientMarketDataError, a 503.                                     *)
NothingToPrice ==
  /\ lot # NoLot /\ class = NoClass /\ quoted = NoQuote
  /\ RateOf(market, ClassFor(lot.tonnes)) = 0
  /\ quoted' = [status |-> 503]
  /\ UNCHANGED <<lot, market, class, decision>>

(* The head of the fleet-mix frontier, whose classes can call at both ports*)
(* and have fans, or else the class of the tonnage.                        *)
ChooseClass ==
  /\ lot # NoLot /\ class = NoClass /\ quoted = NoQuote
  /\ RateOf(market, ClassFor(lot.tonnes)) > 0
  /\ LET frontier == {c \in lot.feasible : FansOf(market, c) # {}}
     IN class' \in IF frontier = {} THEN {ClassFor(lot.tonnes)} ELSE frontier
  /\ UNCHANGED <<lot, market, decision, quoted>>

(* The class the decision is priced as (vessel_class_override).            *)
BadPricedAs == ClassFor(lot.tonnes)   \* mutant: the class of the tonnage

PricedAs == class

(* lock_or_wait raises ValueError, a 422, without a rate, fans, or fans    *)
(* that weigh anything.                                                    *)
CannotDecide ==
  /\ class # NoClass /\ decision = NoDecision /\ quoted = NoQuote
  /\ RateOf(market, class) = 0 \/ Weighing(FansOf(market, PricedAs), lot) = {}
  /\ quoted' = [status |-> 422]
  /\ UNCHANGED <<lot, market, class, decision>>

(* A price path needs a horizon within the planning horizon.               *)
Calibrates(fans, r) == \E fan \in fans : fan.days <= PlanningHorizon(r)

(* solve_exercise_boundary, of today: solved on the paths in the money, or *)
(* carried down from maturity, where it is the strike.                     *)
Boundaries(strike) == {strike} \cup {[num |-> level, den |-> 1] : level \in Levels}

(* solve_lock_or_wait: the plain rule, then the boundary of the simulated  *)
(* paths in its place, raised by the delay spread over the term.           *)
Plainly(strike, rate) ==
  [strike |-> strike, level |-> strike, action |-> Action(rate, strike),
   boundary |-> strike, delay |-> 0, simulated |-> FALSE]

Raised(boundary, rate, delay, term) ==
  [num |-> boundary.num * term + delay * rate * boundary.den, den |-> boundary.den * term]

BadFuse(plain, rate, boundary, delay, term) ==  \* mutant: the plain action is kept
  [plain EXCEPT !.boundary = boundary, !.delay = delay, !.simulated = TRUE,
                !.level = Raised(boundary, rate, delay, term)]

Fuse(plain, rate, boundary, delay, term) ==
  [plain EXCEPT !.boundary = boundary, !.delay = delay, !.simulated = TRUE,
                !.level = Raised(boundary, rate, delay, term),
                !.action = Action(rate, Raised(boundary, rate, delay, term))]

Strike == Ceiling(RouteAdjusted(FansOf(market, PricedAs), lot.route), lot)

Decide ==
  /\ class # NoClass /\ decision = NoDecision /\ quoted = NoQuote
  /\ RateOf(market, class) > 0 /\ Weighing(FansOf(market, PricedAs), lot) # {}
  /\ \E strike \in {Strike}, rate \in {RateOf(market, class)} :
       IF ~Calibrates(FansOf(market, PricedAs), lot)
         THEN decision' = Plainly(strike, rate)     \* InsufficientForecastError
         ELSE \E boundary \in Boundaries(strike), delay \in Delays :
                decision' = Fuse(Plainly(strike, rate), rate, boundary, delay, lot.term)
  /\ UNCHANGED <<lot, market, class, quoted>>

(* The rest of run_optimizer and of quote.  The voyage plan assigns the one*)
(* lot to at most one ship; the others are idle.  The risk assessment and  *)
(* the emissions may fail without failing the quote.                       *)
Answer(moves, assessed) ==
  LET fans == FansOf(market, class)
      rate == RateOf(market, class)
  IN [status |-> 200, class |-> class, rate |-> rate,
      action |-> decision.action, level |-> decision.level,
      fan |-> RouteAdjusted(fans, lot.route),
      window |-> EntryWindow(decision.action, fans, lot),
      savings |-> [q \in {"p10", "p50", "p90"} |-> Savings(q, fans, rate, lot)],
      moves |-> moves, routes |-> UNION {Drawn(move) : move \in moves},
      factors |-> Factors(decision, lot.route), assessed |-> assessed]

Deliver ==
  /\ decision # NoDecision /\ quoted = NoQuote
  /\ \E taken \in {{}} \cup {{v} : v \in lot.fleet}, assessed \in BOOLEAN :
       quoted' = Answer({Move(v) : v \in lot.fleet \ taken}, assessed)
  /\ UNCHANGED <<lot, market, class, decision>>

CloseQuote ==
  /\ quoted # NoQuote
  /\ lot' = NoLot /\ market' = NoMarket /\ class' = NoClass
  /\ decision' = NoDecision /\ quoted' = NoQuote

QuoteNext ==
  \/ \E r \in LotRequests, data \in Markets : AskQuote(r, data)
  \/ NothingToPrice
  \/ ChooseClass
  \/ CannotDecide
  \/ Decide
  \/ Deliver
  \/ CloseQuote

QuoteSpec == QuoteInit /\ [][QuoteNext]_quoteVars

-----------------------------------------------------------------------------
(* Properties.                                                             *)

Answered == quoted # NoQuote /\ quoted.status = 200

(* One ship in one decision: the threshold before waiting is worth anything*)
(* lies among the blended rates of the very fan the answer shows, and the  *)
(* rate held against it is the same class's ("two different ships in one   *)
(* decision", api.py; "the displayed $/day fan matches what the ceiling    *)
(* decision was actually priced against", quote.py).                       *)
PricedAsShown ==
  Answered =>
    LET shown == {Blend(fan, lot) : fan \in Weighing(quoted.fan, lot)}
    IN /\ AtMost(Min(shown), decision.strike)
       /\ decision.strike.num <= Max(shown) * decision.strike.den
       /\ quoted.rate = RateOf(market, quoted.class)

(* The advice can be checked against its own figures: LOCK exactly when the*)
(* rate is within the threshold shown, weather never turns a LOCK into a   *)
(* WAIT, and a threshold other than the plain one has its reason among the *)
(* factors when it was pulled down or taxed.                               *)
AdviceFollowsItsFigures ==
  Answered =>
    /\ quoted.action = Action(quoted.rate, quoted.level)
    /\ decision.simulated /\ AtMost(quoted.rate, decision.boundary) => quoted.action = "LOCK"
    /\ Below(quoted.level, decision.strike) => "pulls down" \in quoted.factors
    /\ Below(decision.boundary, quoted.level) => "weather" \in quoted.factors

(* Advice to wait comes with days that lie before the laycan, and the fan  *)
(* is nowhere lower before it (api.py: "advice to fix a TC contract after  *)
(* the vessel was already supposed to have loaded").                       *)
WindowBeforeLoading ==
  Answered /\ quoted.window # NoWindow =>
    /\ quoted.action = "WAIT"
    /\ 1 <= quoted.window.from /\ quoted.window.from <= quoted.window.to
    /\ quoted.window.to <= lot.lead
    /\ \A day \in 1 .. lot.lead :
         day <= PlanningHorizon(lot) =>
           quoted.window.trough <= Daily(FansOf(market, class), day, "p50")

(* Whatever the models return, the quantiles shown are in order, and so are*)
(* the savings of a bad, a middling and a good run.                        *)
QuantilesInOrder ==
  Answered =>
    /\ \A fan \in quoted.fan : fan.p10 <= fan.p50 /\ fan.p50 <= fan.p90
    /\ quoted.savings["p10"] <= quoted.savings["p50"]
    /\ quoted.savings["p50"] <= quoted.savings["p90"]

(* The map shows each idle vessel's recommended move, and no other move as *)
(* chosen; it has none for a vessel told to stay.                          *)
RecommendedMoveIsDrawn ==
  Answered =>
    \A move \in quoted.moves :
      {route.to : route \in {r \in quoted.routes : r.of = move.vessel /\ r.chosen}}
        = {move.to} \ {move.from}

(* A quote agrees with itself: its price, its advice, its window, its      *)
(* quantiles and its map are of one ship, one fan and one threshold.       *)
QuoteAgreesWithItself ==
  /\ PricedAsShown
  /\ AdviceFollowsItsFigures
  /\ WindowBeforeLoading
  /\ QuantilesInOrder
  /\ RecommendedMoveIsDrawn

(* A quote refused for want of data says so (InsufficientMarketDataError:  *)
(* "No real forecast/TC-quote data exists for the derived vessel class ... *)
(* Distinct from a plain ValueError").                                     *)
MissingDataIsNoMistake ==
  quoted # NoQuote /\ quoted.status = 422 => FansOf(market, ClassFor(lot.tonnes)) # {}
=============================================================================
