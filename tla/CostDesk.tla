------------------------------- MODULE CostDesk -------------------------------
(***************************************************************************)
(* The desk's cost questions, one request at a time: the parts of a landed *)
(* cost (src/src/opt/landed_cost.py), alone and as a quote shows them, the *)
(* premium of a route over its class benchmark (src/src/opt/basis.py), and *)
(* the mix of spot, time charter and contract of affreightment with its    *)
(* frontier (src/src/opt/portfolio.py).                                    *)
(*                                                                         *)
(* A landed cost is that of the whole cargo in dollars; the code divides   *)
(* every part by the tonnage.  Fractions of a mix are counted in steps of  *)
(* the grid.                                                               *)
(***************************************************************************)
EXTENDS Integers, Sequences, FiniteSets, SequencesExt, FiniteSetsExt, TLC

CONSTANTS
  NoFigure,       \* a figure that is not given or not known: None
  LandedRequests, \* what POST /landed-cost and a quote may ask
  MacroRows,      \* rows of macro_long: [series, day, value, unit]
  Worlds,         \* route rates and benchmarks: sets of [series, day, rate, unit]
  RouteSeries,    \* ROUTE_FAMILY_TO_SIGNAL_SERIES of the family asked about
  BenchmarkOf,    \* the TC average of a route series, or NoFigure
  ObservedFrom,   \* MIN_ROUTE_OBS
  MixRequests,    \* [p50, p10, quote, missed, stockout, k]
  Steps,          \* 1 / GRID_STEP
  FrontierK       \* _PORTFOLIO_FRONTIER_K: a sequence, ascending

ASSUME CostDeskAssumption ==
  /\ ObservedFrom \in Nat \ {0} /\ Steps \in Nat \ {0}
  /\ \A i \in 1 .. Len(FrontierK) - 1 : FrontierK[i] < FrontierK[i + 1]

(* The bounds LandedCostApiRequest and PortfolioRequest put on their       *)
(* fields; a handling rate, a demurrage rate and a laytime have none.      *)
Figure(S) == S \cup {NoFigure}

ASSUME LandedAssumption ==
  /\ NoFigure \notin Int
  /\ \A r \in LandedRequests :
       r \in [tonnes : Nat, freight : Nat, days : Nat, opex : Nat, wait : Figure(Nat),
              handling : Figure(Int), demurrage : Figure(Int), laytime : Figure(Int),
              hull : Figure(Nat), areas : {r.areas}, commodity : {r.commodity},
              day : Int, inr : BOOLEAN]

ASSUME MixAssumption ==
  /\ FrontierK \in Seq(Nat) /\ FrontierK # <<>>
  /\ \A r \in MixRequests :
       /\ r.p50 \in Int /\ r.p10 \in Int /\ r.quote \in Int
       /\ r.missed \in Nat /\ r.stockout \in Nat /\ r.k \in Nat

(* The tables are finite and have one rate of a series and day (build_     *)
(* master.py keeps one of each), and no commodity has a negative price.    *)
ASSUME TableAssumption ==
  /\ IsFiniteSet(MacroRows)
  /\ \A row \in MacroRows :
       row.day \in Int /\ (row.unit = "usd_per_mt" => row.value \in Nat)
  /\ \A world \in Worlds :
       /\ IsFiniteSet(world)
       /\ \A row \in world : row.day \in Int /\ row.rate \in Int
       /\ \A row, other \in world :
            row.series = other.series /\ row.day = other.day => row = other

VARIABLES
  costAsked,      \* the request in hand, or NoCost
  costAnswer      \* its answer, or NoCost

costVars == <<costAsked, costAnswer>>

NoCost == <<>>

CostInit == costAsked = NoCost /\ costAnswer = NoCost

-----------------------------------------------------------------------------
(* _macro_value_as_of: the last row of the series on or before the day.    *)
Macro(series, day) ==
  LET rows == {row \in MacroRows : row.series = series /\ row.day <= day}
  IN IF rows = {} THEN NoFigure
     ELSE CHOOSE row \in rows : \A other \in rows : other.day <= row.day

(* The parts of compute_landed_cost: each needs everything it is made of,  *)
(* and is otherwise left out.  wait is the median wait at the port, or     *)
(* NoFigure below the minimum sample.                                      *)
WaitCost(r) == IF r.wait = NoFigure THEN NoFigure ELSE r.wait * r.opex

BadDemurrage(r) ==                \* mutant: time saved is paid back
  IF NoFigure \in {r.wait, r.demurrage, r.laytime} THEN NoFigure
  ELSE (r.wait - r.laytime) * r.demurrage

Demurrage(r) ==
  IF NoFigure \in {r.wait, r.demurrage, r.laytime} THEN NoFigure
  ELSE Max({0, r.wait - r.laytime}) * r.demurrage

WarRisk(r) ==
  IF r.hull = NoFigure \/ r.areas = {} THEN NoFigure
  ELSE r.hull * Max({1, (r.days + 6) \div 7})

Commodity(r) ==
  IF r.commodity = NoFigure THEN NoFigure
  ELSE LET point == Macro(r.commodity, r.day)
       IN IF point = NoFigure THEN NoFigure
          ELSE IF point.unit = "usd_per_mt" THEN point.value * r.tonnes ELSE NoFigure

Parts(r) ==
  [freight |-> r.freight * r.days,
   wait |-> WaitCost(r),
   handling |-> IF r.handling = NoFigure THEN NoFigure ELSE r.handling * r.tonnes,
   demurrage |-> Demurrage(r),
   war_risk |-> WarRisk(r),
   commodity |-> Commodity(r)]

Included(parts) == {name \in DOMAIN parts : parts[name] # NoFigure}

InRupees(total, r) ==
  IF ~r.inr \/ Macro("usd_inr", r.day) = NoFigure THEN NoFigure
  ELSE total * Macro("usd_inr", r.day).value

Landed(r) ==
  LET parts == Parts(r)
      total == MapThenSumSet(LAMBDA name : parts[name], Included(parts))
  IN [kind |-> "landed", parts |-> parts, included |-> Included(parts),
      missing |-> DOMAIN parts \ Included(parts),
      total |-> total, rupees |-> InRupees(total, r)]

(* _quote_partial_landed_cost: a quote knows no running costs, so the wait *)
(* comes out of the breakdown and of its total.                            *)
OfQuote(r) ==
  [r EXCEPT !.opex = 0, !.handling = NoFigure, !.demurrage = NoFigure, !.laytime = NoFigure,
            !.hull = NoFigure, !.commodity = NoFigure, !.inr = FALSE]

Partial(b) ==
  LET wait == IF b.parts.wait = NoFigure THEN 0 ELSE b.parts.wait
  IN [b EXCEPT !.parts.wait = NoFigure, !.included = @ \ {"wait"},
               !.missing = @ \cup {"wait"}, !.total = @ - wait]

-----------------------------------------------------------------------------
(* _fit_basis: each dollar-a-day rate of the route against the benchmark of*)
(* its class on that day, or the last before it; in percent.               *)
BadBenchmark(world, series, day) ==   \* mutant: the latest benchmark, whatever the day
  {row \in world : row.series = BenchmarkOf[series] /\
     \A other \in world : other.series = row.series => other.day <= row.day}

Benchmark(world, series, day) ==
  {row \in world : row.series = BenchmarkOf[series] /\ row.day <= day /\
     \A other \in world : other.series = row.series /\ other.day <= day => other.day <= row.day}

Observations(world, day) == {row \in world : row.series \in RouteSeries /\ row.day <= day}

BenchmarkRate(world, row) ==
  LET tcs == Benchmark(world, row.series, row.day)
  IN IF tcs = {} THEN 0 ELSE (CHOOSE tc \in tcs : TRUE).rate

RoutePremium(world, row) ==
  (100 * (row.rate - BenchmarkRate(world, row))) \div BenchmarkRate(world, row)

Ratios(world, day) ==
  [row \in {o \in Observations(world, day) : o.unit = "usd/day" /\ BenchmarkRate(world, o) > 0}
     |-> RoutePremium(world, row)]

(* _resolve_one; the spread of a single point is its distance from zero.   *)
Basis(world, day) ==
  LET ratios == Ratios(world, day)
      n == Cardinality(DOMAIN ratios)
  IN [kind |-> "basis", n |-> n,
      evidence |-> IF n = 0 THEN "UNAVAILABLE" ELSE IF n >= ObservedFrom THEN "OBSERVED"
                   ELSE "MODELLED",
      mean |-> IF n = 0 THEN NoFigure
               ELSE MapThenSumSet(LAMBDA row : ratios[row], DOMAIN ratios) \div n]

-----------------------------------------------------------------------------
(* spot_cost_stats and optimize_portfolio_mix: what a step of each way of  *)
(* covering costs, and every mix of the grid.                              *)
SpotSigma(r) == Max({r.p50 - r.p10, 0})

Mixes == {mix \in (0 .. Steps) \X (0 .. Steps) \X (0 .. Steps) : mix[1] + mix[2] + mix[3] = Steps}

(* A contract of affreightment costs three percent more than spot and bears*)
(* thirty percent of its variance; a time charter bears none.  post_       *)
(* portfolio scales the aversion by the spread, so that it weighs k spreads*)
(* here; k is in hundredths and a chance of stockout in thousandths.       *)
Spend(mix, r) ==
  Steps * (1000 * (mix[1] * r.p50 + mix[2] * r.quote) + 1030 * mix[3] * r.p50
           + mix[1] * r.missed * r.stockout)

Spread(mix) == 10 * mix[1] * mix[1] + 3 * mix[3] * mix[3]

BadMixObjective(mix, k, r) ==        \* mutant: the variance is rewarded
  Spend(mix, r) - k * SpotSigma(r) * Spread(mix)

MixObjective(mix, k, r) == Spend(mix, r) + k * SpotSigma(r) * Spread(mix)

(* The first best mix in the order of the loops.                           *)
Precedes(a, b) == a[1] < b[1] \/ (a[1] = b[1] /\ a[2] < b[2])

Best(k, r) ==
  LET best == {mix \in Mixes : \A other \in Mixes : MixObjective(mix, k, r) <= MixObjective(other, k, r)}
  IN CHOOSE mix \in best : \A other \in best \ {mix} : Precedes(mix, other)

Mix(r) ==
  [kind |-> "mix", frontier |-> [i \in DOMAIN FrontierK |-> Best(FrontierK[i], r)],
   recommended |-> Best(r.k, r)]

-----------------------------------------------------------------------------
(* The requests.                                                           *)
AskLanded(r) ==
  /\ costAsked = NoCost
  /\ costAsked' = [kind |-> "landed", of |-> r]
  /\ costAnswer' = Landed(r)

AskPartial(r) ==
  /\ costAsked = NoCost
  /\ costAsked' = [kind |-> "partial", of |-> OfQuote(r)]
  /\ costAnswer' = Partial(Landed(OfQuote(r)))

AskBasis(world, day) ==
  /\ costAsked = NoCost
  /\ costAsked' = [kind |-> "basis", of |-> world, day |-> day]
  /\ costAnswer' = Basis(world, day)

(* Without a rate or fans for the class there is no mix: a 503.            *)
AskMix(r) ==
  /\ costAsked = NoCost
  /\ costAsked' = [kind |-> "mix", of |-> r]
  /\ costAnswer' = IF r.quote = 0 THEN [kind |-> "refused"] ELSE Mix(r)

CloseCost == costAsked # NoCost /\ costAsked' = NoCost /\ costAnswer' = NoCost

CostNext ==
  \/ \E r \in LandedRequests : AskLanded(r) \/ AskPartial(r)
  \/ \E world \in Worlds : \E day \in {row.day : row \in world} : AskBasis(world, day)
  \/ \E r \in MixRequests : AskMix(r)
  \/ CloseCost

-----------------------------------------------------------------------------
(* Properties.                                                             *)

Answers(kind) == costAsked # NoCost /\ costAsked.kind = kind

(* A landed cost accounts for each of its six parts once, adds up what it  *)
(* says it includes, and no part makes the cargo cheaper but a handling or *)
(* demurrage rate that was declared negative, which nothing refuses; the   *)
(* same holds of the breakdown a quote shows, which never has the wait     *)
(* ("a wait cost it has no real basis for", main.py).                      *)
TotalIsOfItsParts ==
  Answers("landed") \/ Answers("partial") =>
    LET b == costAnswer
    IN /\ b.included \cap b.missing = {} /\ b.included \cup b.missing = DOMAIN b.parts
       /\ \A name \in b.included :
            /\ b.parts[name] # NoFigure
            /\ b.parts[name] < 0 =>
                 name \in {"handling", "demurrage"} /\ costAsked.of[name] < 0
       /\ \A name \in b.missing : b.parts[name] = NoFigure
       /\ b.total = MapThenSumSet(LAMBDA name : b.parts[name], b.included)
       /\ Answers("partial") => "wait" \in b.missing

(* A route that always pays the same premium over the benchmark of the day *)
(* has that premium for its basis, however the market moved; and nothing   *)
(* observed after the day asked about moves it.                            *)
PremiumOf(row, world) ==
  {(100 * (row.rate - tc.rate)) \div tc.rate :
     tc \in {t \in world : /\ t.series = BenchmarkOf[row.series] /\ t.day = row.day
                           /\ t.rate > 0}}

BasisIsThePremium ==
  Answers("basis") =>
    LET world == costAsked.of
        seen  == {row \in Observations(world, costAsked.day) : row.unit = "usd/day"}
        premia == UNION {PremiumOf(row, world) : row \in seen}
    IN /\ costAnswer = Basis({row \in world : row.day <= costAsked.day}, costAsked.day)
       /\ \A premium \in premia :
            premia = {premium} /\ (\A row \in seen : PremiumOf(row, world) # {})
              => costAnswer.mean = premium

(* Along the frontier more aversion never takes on more variance nor saves *)
(* money, without aversion nothing is split, and a recommendation of an    *)
(* aversion on the frontier is the frontier's own point.                   *)
AversionBuysCertainty ==
  Answers("mix") /\ costAnswer.kind = "mix" =>
    LET r == costAsked.of  f == costAnswer.frontier
    IN /\ SpotSigma(r) > 0 =>
            \A i, j \in DOMAIN f : i < j =>
              Spread(f[j]) <= Spread(f[i]) /\ Spend(f[i], r) <= Spend(f[j], r)
       /\ FrontierK[1] = 0 => \E way \in 1 .. 3 : f[1][way] = Steps
       /\ \A i \in DOMAIN f : FrontierK[i] = r.k => costAnswer.recommended = f[i]

(* What a cost shown is made of can be told from it: the parts of a landed *)
(* cost, the premium in a basis, the certainty a mix buys.                 *)
CostsAreExplained == TotalIsOfItsParts /\ BasisIsThePremium /\ AversionBuysCertainty
=============================================================================
