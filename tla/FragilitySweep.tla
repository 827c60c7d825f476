--------------------------- MODULE FragilitySweep ---------------------------
(***************************************************************************)
(* src/fragility/engine.py, tiers.py, ranking.py: how far one               *)
(* recommendation is from changing, one variable at a time.  Each variable  *)
(* is a search (FlipSearch) with the cheapest evaluator that can answer:    *)
(* the class limits, the berth register (BerthRegister), the fleet mix, or  *)
(* a whole quote.  What a fleet mix or a quote answers is left open, with   *)
(* one change of decision on each side of the base.                         *)
(*                                                                         *)
(* Every variable is counted in half tolerances of its own search.          *)
(***************************************************************************)
EXTENDS FlipSearch, BerthRegister, FiniteSets

CONSTANTS
  Queries,       \* what the sweep is asked
  Grid,          \* the values that can be evaluated
  Tol,           \* a tolerance
  Scope,         \* variable -> [min, max]
  Caps,          \* tier -> evaluations a search may use
  ClassLimits,   \* the reference capacities of the vessel classes, ascending
  Legacy         \* port -> its own limits

Variables == {"cargo", "vessel_draft", "limit", "origin_wait", "dest_wait",
              "laycan", "risk", "term"}

Tiers == {"closed_form", "fleet_mix", "full_quote"}

ASSUME SweepAssumption ==
  /\ Grid \subseteq Int
  /\ Tol \in Nat \ {0}
  /\ \A v \in Variables : Scope[v].min \in Ends /\ Scope[v].max \in Ends
  /\ \A tier \in Tiers : Caps[tier] \in Nat \ {0}
  /\ \A q \in Queries : /\ q.wanted \subseteq Variables
                        /\ \A v \in Variables : q.base[v] \in Int
                        /\ q.registry \in Seq(Row) /\ q.day \in Nat
                        /\ q.vessel \in Vessel

VARIABLES
  query,     \* [wanted, origin, dest, commodity, day, registry, vessel, base]
  left,      \* the variables still to answer
  asked,     \* the search in progress: [variable, tier, spent]
  report,    \* the findings, in the order of the sweep
  total,     \* evaluations_used
  ranked,    \* the report as rank_findings orders it
  made       \* evaluations made since the first (history)

vars == <<ask, search, query, left, asked, report, total, ranked, made>>

Order == <<"cargo", "vessel_draft", "limit", "origin_wait", "dest_wait",
           "laycan", "risk", "term">>

Nobody == [variable |-> "none", tier |-> "closed_form", spent |-> 0]

Idle == asked = Nobody

\* The variable the sweep turns to: the first of the order still wanted.
Turn(variable) ==
  /\ Idle
  /\ total > 0
  /\ variable \in left
  /\ \A i, j \in DOMAIN Order : (Order[i] = variable /\ Order[j] \in left) => i <= j

Rests == [base |-> 0, min |-> 0, max |-> 0, tol |-> 1, cap |-> 1,
          same |-> "now", at |-> [x \in Grid |-> "now"]]

Init ==
  /\ query \in Queries
  /\ left = query.wanted
  /\ asked = Nobody
  /\ report = <<>>
  /\ total = 0
  /\ ranked = <<>>
  /\ made = 0
  /\ ask = Rests
  /\ search = [Start(Rests) EXCEPT !.phase = "done"]

\* The recommendation itself, one full quote.
Baseline ==
  /\ total = 0
  /\ total' = 1
  /\ UNCHANGED <<ask, search, query, left, asked, report, ranked, made>>

-----------------------------------------------------------------------------
(***************************************************************************)
(* The evaluators.                                                         *)
(***************************************************************************)
\* select_vessel_class_for_cargo: the smallest class that carries it.
ClassFor(cargo) ==
  LET class == SelectInSeq(ClassLimits, LAMBDA limit : cargo <= limit)
  IN  IF class = 0 THEN Len(ClassLimits) ELSE class

CanCall(port, vessel) ==
  VesselCanCall(query.registry, Legacy, port, query.commodity, query.day, vessel)

\* The port that leaves the vessel less water; one that leaves none known, last.
BindingPort ==
  LET origin == CanCall(query.origin, query.vessel).margin
      dest   == CanCall(query.dest, query.vessel).margin
  IN  IF dest = Unpublished \/ (origin # Unpublished /\ origin <= dest)
      THEN query.origin ELSE query.dest

BindingMargin == CanCall(BindingPort, query.vessel).margin

DraftUntested == BindingMargin \notin Int

ClassName(class) == <<"handysize", "supramax", "panamax", "capesize">>[class]

TargetClass == ClassName(ClassFor(query.base["cargo"]))

Feasible(yes) == IF yes THEN TargetClass ELSE "none"

DraftSignature(draft) ==
  Feasible(CanCall(BindingPort, [query.vessel EXCEPT !["draft"] = draft]).feasible)

LimitSignature(limit) == Feasible(limit >= query.vessel["draft"])

\* Decisions of a costlier tier: as now between two values, another beyond each.
OpenSignatures(base) ==
  {[x \in Grid |-> IF x <= low THEN "below" ELSE IF x >= high THEN "above" ELSE "now"] :
     low \in {x \in Grid : x < base}, high \in {x \in Grid : x > base}}

-----------------------------------------------------------------------------
(***************************************************************************)
(* The searches.                                                           *)
(***************************************************************************)
Ask(variable, tier, base, same, at, spent) ==
  /\ ask' = [base |-> base, min |-> Scope[variable].min, max |-> Scope[variable].max,
             tol |-> Tol, cap |-> Caps[tier], same |-> same, at |-> at]
  /\ search' = Start(ask')
  /\ asked' = [variable |-> variable, tier |-> tier, spent |-> spent]
  /\ UNCHANGED <<query, left, report, total, ranked, made>>

AskCargo ==
  /\ Turn("cargo")
  /\ Ask("cargo", "closed_form", query.base["cargo"], TargetClass,
         [x \in Grid |-> ClassName(ClassFor(x))], 0)

AskVesselDraft ==
  /\ Turn("vessel_draft") /\ ~DraftUntested
  /\ LET draft == query.vessel["draft"]
     IN  Ask("vessel_draft", "closed_form", draft, DraftSignature(draft),
             [x \in Grid |-> DraftSignature(x)], 0)

\* What answers are compared with is "it can call", whether or not it can.
AskLimit ==
  /\ Turn("limit") /\ ~DraftUntested
  /\ Ask("limit", "closed_form", query.vessel["draft"] + BindingMargin, Feasible(TRUE),
         [x \in Grid |-> LimitSignature(x)], 0)

AskQuote(variable) ==
  /\ Turn(variable)
  /\ \E at \in OpenSignatures(query.base[variable]) :
       Ask(variable, "full_quote", query.base[variable], "now", at, 0)

AskFleetMix ==
  /\ Turn("term")
  /\ \E at \in OpenSignatures(query.base["term"]) :
       Ask("term", "fleet_mix", query.base["term"], "now", at, 0)

Escalates == asked.variable = "term" /\ asked.tier = "fleet_mix" /\ ~Found

\* The evaluations of the search given up are forgotten.
BadEscalate ==
  /\ search.phase = "done" /\ ~Idle /\ Escalates
  /\ \E at \in OpenSignatures(query.base["term"]) :
       Ask("term", "full_quote", query.base["term"], "now", at, 0)

\* A fleet mix that does not change leaves the question to the full quote.
Escalate ==
  /\ search.phase = "done" /\ ~Idle /\ Escalates
  /\ \E at \in OpenSignatures(query.base["term"]) :
       Ask("term", "full_quote", query.base["term"], "now", at, search.used)

Finding(variable, tier, kind, base, flip, used) ==
  [variable |-> variable, tier |-> tier, kind |-> kind, base |-> base,
   flip |-> flip, used |-> used]

\* Draft without a limit to move, and waiting times, which nothing reads.
Unavailable(variable, tier) ==
  /\ Turn(variable)
  /\ report' = Append(report, Finding(variable, tier, "UNAVAILABLE", 0, Unbounded, 0))
  /\ left' = left \ {variable}
  /\ UNCHANGED <<ask, search, query, asked, total, ranked, made>>

UnavailableDraft ==
  /\ DraftUntested
  /\ \E variable \in {"vessel_draft", "limit"} : Unavailable(variable, "closed_form")

UnavailableWait ==
  \E variable \in {"origin_wait", "dest_wait"} : Unavailable(variable, "full_quote")

Collect ==
  /\ search.phase = "done" /\ ~Idle /\ ~Escalates
  /\ LET used == asked.spent + search.used
     IN  /\ report' = Append(report, Finding(asked.variable, asked.tier,
                               IF Found THEN "FRAGILE" ELSE "STABLE",
                               ask.base, search.hi, used))
         /\ total' = total + used
  /\ left' = left \ {asked.variable}
  /\ asked' = Nobody
  /\ UNCHANGED <<ask, search, query, ranked, made>>

-----------------------------------------------------------------------------
(***************************************************************************)
(* rank_findings: what flips first, by the relative distance (the absolute  *)
(* one if the base is zero), then what did not flip, then what could not be *)
(* asked.  Python's sort is stable.                                         *)
(***************************************************************************)
Score(finding) ==
  LET delta == Distance(finding.base, finding.flip)
  IN  IF finding.base # 0 THEN (100 * delta) \div Distance(0, finding.base) ELSE delta

RankBefore(f, g) ==
  \/ f.kind = "FRAGILE" /\ g.kind = "FRAGILE" /\ Score(f) < Score(g)
  \/ f.kind = "FRAGILE" /\ g.kind # "FRAGILE"
  \/ f.kind = "STABLE" /\ g.kind = "UNAVAILABLE"

\* What could not be asked is ranked as searched without a flip.
BadRankFindings(findings) ==
  LET First(i, j) == \/ RankBefore(findings[i], findings[j])
                     \/ i < j /\ ~RankBefore(findings[j], findings[i])
      ranking == Along(findings, InOrder(DOMAIN findings, First))
  IN  [i \in DOMAIN ranking |->
         [ranking[i] EXCEPT !.kind = IF @ = "FRAGILE" THEN @ ELSE "STABLE"]]

RankFindings(findings) ==
  LET First(i, j) == \/ RankBefore(findings[i], findings[j])
                     \/ i < j /\ ~RankBefore(findings[j], findings[i])
  IN  Along(findings, InOrder(DOMAIN findings, First))

Rank ==
  /\ Idle /\ total > 0 /\ left = {} /\ ranked = <<>> /\ report # <<>>
  /\ ranked' = RankFindings(report)
  /\ UNCHANGED <<ask, search, query, left, asked, report, total, made>>

Searches ==
  /\ SearchStep
  /\ made' = made + (search'.used - search.used)
  /\ UNCHANGED <<query, left, asked, report, total, ranked>>

Next ==
  \/ Baseline
  \/ AskCargo \/ AskVesselDraft \/ AskLimit \/ AskFleetMix
  \/ \E variable \in {"laycan", "risk"} : AskQuote(variable)
  \/ Escalate
  \/ UnavailableDraft \/ UnavailableWait
  \/ Searches
  \/ Collect
  \/ Rank

Spec == Init /\ [][Next]_vars

-----------------------------------------------------------------------------
(***************************************************************************)
(* Properties.                                                             *)
(***************************************************************************)
Findings ==
  [variable : Variables, tier : Tiers, kind : {"FRAGILE", "STABLE", "UNAVAILABLE"},
   base : Int, flip : Ends, used : Nat]

(***************************************************************************)
(* Types of the search in progress and of the report it goes into.          *)
(***************************************************************************)
TypeOK ==
  /\ search \in Search
  /\ ask.base \in Int /\ ask.min \in Ends /\ ask.max \in Ends
  /\ ask.tol \in Nat \ {0} /\ ask.cap \in Nat \ {0} /\ DOMAIN ask.at = Grid
  /\ left \subseteq query.wanted
  /\ asked \in [variable : Variables \cup {"none"}, tier : Tiers, spent : Nat]
  /\ \A i \in DOMAIN report : report[i] \in Findings
  /\ total \in Nat /\ made \in Nat
  /\ Range(ranked) \subseteq Range(report)

(***************************************************************************)
(* Whether a port lets a vessel in does not depend on the commodity, on the *)
(* order of the register or on a berth's neighbours: it does exactly if     *)
(* some berth published and in force on the day has no published limit the  *)
(* vessel exceeds, or, of a port the register knows nothing of, the port's  *)
(* own limits allow it.  And the berth named is a best one that clears: none *)
(* better suited to the cargo, and of those as well suited none deeper.     *)
(* (Evaluated between searches: none of it changes during one.)             *)
(***************************************************************************)
Knows(port) ==
  {i \in DOMAIN query.registry :
     /\ query.registry[i].port = port
     /\ query.registry[i].from <= query.day
     /\ query.registry[i].to = Unpublished \/ query.registry[i].to >= query.day}

Fits(limits) ==
  \A check \in Checks :
    limits[check] = Unpublished \/ query.vessel[check] <= limits[check]

Clearing(port) ==
  {query.registry[i] : i \in
    {k \in Knows(port) :
       LET row == query.registry[k]
       IN  row.published
           /\ Fits(IF row.daily THEN [row.limit EXCEPT !["draft"] = Unpublished]
                   ELSE row.limit)}}

ClearsIffSomeBerthFits ==
  Idle => \A port \in Ports :
    LET verdict  == CanCall(port, query.vessel)
        clearing == Clearing(port)
    IN  IF Knows(port) = {}
        THEN verdict.feasible <=> Fits(Legacy[port])
        ELSE /\ verdict.feasible <=> clearing # {}
             /\ verdict.feasible =>
                  \E row \in clearing :
                    /\ row.berth = verdict.berth
                    /\ \A other \in clearing :
                         LET mine   == CommodityPriority(row, query.commodity)
                             theirs == CommodityPriority(other, query.commodity)
                             depth  == other.limit["draft"]
                         IN  /\ mine <= theirs
                             /\ (mine = theirs /\ depth # Unpublished) =>
                                  /\ row.limit["draft"] # Unpublished
                                  /\ row.limit["draft"] >= depth

(***************************************************************************)
(* The report answers every variable wanted once; it accounts for every     *)
(* evaluation made, those of a search that was given up for a costlier one too,  *)
(* none beyond its cap; and the ranking is the same findings, the nearest   *)
(* flips first and what could not be asked last.                            *)
(***************************************************************************)
Class(finding) ==
  CASE finding.kind = "FRAGILE" -> 0 [] finding.kind = "STABLE" -> 1
    [] finding.kind = "UNAVAILABLE" -> 2

ReportIsComplete ==
  /\ (Idle /\ total > 0) => total = 1 + made
  /\ \A i \in DOMAIN report :
       report[i].used <= IF report[i].variable = "term" /\ report[i].tier = "full_quote"
                         THEN Caps["fleet_mix"] + Caps["full_quote"]
                         ELSE Caps[report[i].tier]
  /\ ranked # <<>> =>
       /\ Len(report) = Cardinality(query.wanted)
       /\ {report[i].variable : i \in DOMAIN report} = query.wanted
       /\ {ranked[i] : i \in DOMAIN ranked} = {report[i] : i \in DOMAIN report}
       /\ \A i, j \in DOMAIN ranked :
            i < j => \/ Class(ranked[i]) < Class(ranked[j])
                     \/ /\ Class(ranked[i]) = Class(ranked[j])
                        /\ Class(ranked[i]) = 0 => Score(ranked[i]) <= Score(ranked[j])

(***************************************************************************)
(* What a finished report owes its reader, whatever was asked: berth        *)
(* verdicts that agree with the register, and every variable answered with  *)
(* each evaluation accounted for.                                           *)
(***************************************************************************)
ReportTellsAll ==
  /\ TypeOK
  /\ ClearsIffSomeBerthFits
  /\ ReportIsComplete
=============================================================================
