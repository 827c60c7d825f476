------------------------ MODULE FragilitySweep_proofs ------------------------
(***************************************************************************)
(* For any queries, any register and any answers of the costlier tiers:     *)
(* a flip reported straddles a change of the decision and the budget holds. *)
(***************************************************************************)
EXTENDS FragilitySweep, BerthRegister_proofs

\* A question has a base and a budget; what its evaluator answers is open.
AskOK ==
  /\ ask.base \in Int
  /\ ask.min \in Ends
  /\ ask.max \in Ends
  /\ ask.tol \in Nat \ {0}
  /\ ask.cap \in Nat \ {0}

(***************************************************************************)
(* What the ladder knows at every step.  Straddling is not inductive alone: *)
(* a rung bisected comes from the footholds of the ladder, so they must be  *)
(* known not to change the decision, and the ends it found to change it.    *)
(***************************************************************************)
Footholds ==
  /\ search.up = ask.base \/ ~Differs(search.up)
  /\ search.down = ask.base \/ ~Differs(search.down)
  /\ search.upEnd # Unbounded => Differs(search.upEnd)
  /\ search.downEnd # Unbounded => Differs(search.downEnd)

\* A probe is only begun with an evaluation left to make.
BudgetLeft ==
  /\ search.used <= ask.cap
  /\ search.phase = "up" => search.used < ask.cap

Straddles ==
  Found => /\ Differs(search.hi)
           /\ search.lo = ask.base \/ ~Differs(search.lo)

EndsHalved ==
  (search.phase = "done" /\ Found) =>
    \/ Distance(search.lo, search.hi) <= ask.tol
    \/ search.used = ask.cap

SearchInv ==
  /\ AskOK
  /\ search \in Search
  /\ Footholds
  /\ BudgetLeft
  /\ Straddles
  /\ EndsHalved

\* A search of which each field has its type is a search.
LEMMA ProbeTyped ==
  ASSUME search \in Search,
         NEW phase \in {"up", "down", "widen", "halve", "done"},
         NEW upHit \in BOOLEAN, NEW downHit \in BOOLEAN, NEW progressed \in BOOLEAN,
         NEW used \in Nat, NEW up \in Int, NEW down \in Int,
         NEW upEnd \in Ends, NEW downEnd \in Ends
  PROVE  /\ [search EXCEPT !.phase = phase, !.upHit = upHit, !.progressed = progressed,
                           !.used = used, !.up = up, !.upEnd = upEnd] \in Search
         /\ [search EXCEPT !.phase = phase, !.downHit = downHit, !.progressed = progressed,
                           !.used = used, !.down = down, !.downEnd = downEnd] \in Search
  BY DEF Search

LEMMA RungTyped ==
  ASSUME search \in Search,
         NEW phase \in {"up", "down", "widen", "halve", "done"}, NEW step \in Int,
         NEW used \in Nat, NEW lo \in Int, NEW hi \in Ends
  PROVE  /\ [search EXCEPT !.step = step, !.progressed = FALSE, !.phase = phase,
                           !.lo = lo, !.hi = hi] \in Search
         /\ [search EXCEPT !.used = used, !.hi = hi, !.lo = lo] \in Search
  BY DEF Search

(***************************************************************************)
(* The steps of a search.  The question stands, so Differs does not change. *)
(***************************************************************************)
LEMMA AskStands ==
  ASSUME SearchInv, UNCHANGED ask
  PROVE  /\ AskOK'
         /\ \A x : Differs(x)' <=> Differs(x)
  BY DEF SearchInv, AskOK, Differs

LEMMA ProbeUpKeeps ==
  ASSUME SearchInv, ProbeUp
  PROVE  SearchInv'
<1> DEFINE far     == ask.base + search.step
           beyond  == ask.max # Unbounded /\ far >= ask.max
           rung    == IF beyond THEN ask.max ELSE far
           probes  == ~search.upHit /\ rung > search.up
           changes == probes /\ Differs(rung)
<1>1. /\ AskOK /\ search \in Search /\ Footholds /\ BudgetLeft
      /\ search.phase = "up" /\ UNCHANGED ask
  BY DEF SearchInv, ProbeUp
<1>2. AskOK' /\ \A x : Differs(x)' <=> Differs(x)
  BY AskStands, <1>1
<1>3. search' = [search EXCEPT
           !.phase = "down",
           !.upHit = @ \/ beyond,
           !.progressed = probes,
           !.used = IF probes THEN @ + 1 ELSE @,
           !.up = IF probes /\ ~changes THEN rung ELSE @,
           !.upEnd = IF changes THEN rung ELSE @]
  BY DEF ProbeUp
<1>4. far \in Int /\ rung \in Int
  BY <1>1 DEF AskOK, Search, Ends
<1>5. search' \in Search
  <2> DEFINE upHit == search.upHit \/ beyond
             used  == IF probes THEN search.used + 1 ELSE search.used
             up    == IF probes /\ ~changes THEN rung ELSE search.up
             upEnd == IF changes THEN rung ELSE search.upEnd
  <2>1. /\ upHit \in BOOLEAN /\ probes \in BOOLEAN
        /\ used \in Nat /\ up \in Int /\ upEnd \in Ends
    BY <1>1, <1>4 DEF Search, Ends
  <2>2. search' = [search EXCEPT !.phase = "down", !.upHit = upHit, !.progressed = probes,
                                 !.used = used, !.up = up, !.upEnd = upEnd]
    BY <1>3
  <2> HIDE DEF upHit, probes, used, up, upEnd
  <2> QED
    BY <1>1, <2>1, <2>2, ProbeTyped, ZenonT(40)
<1>6. /\ search'.phase = "down"
      /\ search'.used = IF probes THEN search.used + 1 ELSE search.used
      /\ search'.up = IF probes /\ ~changes THEN rung ELSE search.up
      /\ search'.upEnd = IF changes THEN rung ELSE search.upEnd
      /\ search'.down = search.down /\ search'.downEnd = search.downEnd
      /\ search'.lo = search.lo /\ search'.hi = search.hi
  BY <1>1, <1>3 DEF Search
<1> HIDE DEF far, beyond, rung, probes
<1>7. Footholds'
  BY <1>1, <1>2, <1>6 DEF Footholds
<1>8. BudgetLeft'
  BY <1>1, <1>6 DEF BudgetLeft, AskOK, Search
<1>9. Straddles' /\ EndsHalved'
  BY <1>1, <1>2, <1>6 DEF SearchInv, Straddles, EndsHalved, Found
<1> QED
  BY <1>2, <1>5, <1>7, <1>8, <1>9 DEF SearchInv

LEMMA ProbeDownKeeps ==
  ASSUME SearchInv, ProbeDown
  PROVE  SearchInv'
<1> DEFINE far     == ask.base - search.step
           open    == ~search.downHit /\ search.used < ask.cap
           beyond  == ask.min # Unbounded /\ far <= ask.min
           rung    == IF beyond THEN ask.min ELSE far
           probes  == open /\ rung < search.down
           changes == probes /\ Differs(rung)
<1>1. /\ AskOK /\ search \in Search /\ Footholds /\ BudgetLeft
      /\ search.phase = "down" /\ UNCHANGED ask
  BY DEF SearchInv, ProbeDown
<1>2. AskOK' /\ \A x : Differs(x)' <=> Differs(x)
  BY AskStands, <1>1
<1>3. search' = [search EXCEPT
           !.phase = "widen",
           !.downHit = @ \/ (open /\ beyond),
           !.progressed = @ \/ probes,
           !.used = IF probes THEN @ + 1 ELSE @,
           !.down = IF probes /\ ~changes THEN rung ELSE @,
           !.downEnd = IF changes THEN rung ELSE @]
  BY DEF ProbeDown
<1>4. far \in Int /\ rung \in Int
  BY <1>1 DEF AskOK, Search, Ends
<1>5. search' \in Search
  <2> DEFINE downHit    == search.downHit \/ (open /\ beyond)
             progressed == search.progressed \/ probes
             used       == IF probes THEN search.used + 1 ELSE search.used
             down       == IF probes /\ ~changes THEN rung ELSE search.down
             downEnd    == IF changes THEN rung ELSE search.downEnd
  <2>1. /\ downHit \in BOOLEAN /\ progressed \in BOOLEAN
        /\ used \in Nat /\ down \in Int /\ downEnd \in Ends
    BY <1>1, <1>4 DEF Search, Ends
  <2>2. search' = [search EXCEPT !.phase = "widen", !.downHit = downHit,
                                 !.progressed = progressed,
                                 !.used = used, !.down = down, !.downEnd = downEnd]
    BY <1>3
  <2> HIDE DEF downHit, progressed, used, down, downEnd
  <2> QED
    BY <1>1, <2>1, <2>2, ProbeTyped, ZenonT(40)
<1>6. /\ search'.phase = "widen"
      /\ search'.used = IF probes THEN search.used + 1 ELSE search.used
      /\ search'.down = IF probes /\ ~changes THEN rung ELSE search.down
      /\ search'.downEnd = IF changes THEN rung ELSE search.downEnd
      /\ search'.up = search.up /\ search'.upEnd = search.upEnd
      /\ search'.lo = search.lo /\ search'.hi = search.hi
  BY <1>1, <1>3 DEF Search
<1>7. BudgetLeft'
  BY <1>1, <1>6 DEF BudgetLeft, AskOK, Search
<1> HIDE DEF far, beyond, rung, open, probes
<1>8. Footholds'
  BY <1>1, <1>2, <1>6 DEF Footholds
<1>9. Straddles' /\ EndsHalved'
  BY <1>1, <1>2, <1>6 DEF SearchInv, Straddles, EndsHalved, Found
<1> QED
  BY <1>2, <1>5, <1>7, <1>8, <1>9 DEF SearchInv

LEMMA WidenKeeps ==
  ASSUME SearchInv, Widen
  PROVE  SearchInv'
<1>1. /\ AskOK /\ search \in Search /\ Footholds /\ BudgetLeft
      /\ search.phase = "widen" /\ UNCHANGED ask
  BY DEF SearchInv, Widen
<1>2. AskOK' /\ \A x : Differs(x)' <=> Differs(x)
  BY AskStands, <1>1
<1>3. search' \in Search
  <2> DEFINE step  == 2 * search.step
             phase == IF LadderGoesOn THEN "up" ELSE "halve"
             lo    == IF search.upEnd # Unbounded THEN search.up
                      ELSE IF search.downEnd # Unbounded THEN search.down ELSE search.lo
             hi    == IF search.upEnd # Unbounded THEN search.upEnd ELSE search.downEnd
  <2>1. /\ step \in Int /\ lo \in Int /\ hi \in Ends
        /\ phase \in {"up", "down", "widen", "halve", "done"}
    BY <1>1 DEF Search
  <2>2. search' = [search EXCEPT !.step = step, !.progressed = FALSE, !.phase = phase,
                                 !.lo = lo, !.hi = hi]
    BY DEF Widen
  <2> HIDE DEF step, phase, lo, hi
  <2> QED
    BY <1>1, <2>1, <2>2, RungTyped
<1>4. /\ search'.phase = IF LadderGoesOn THEN "up" ELSE "halve"
      /\ search'.used = search.used
      /\ search'.up = search.up /\ search'.upEnd = search.upEnd
      /\ search'.down = search.down /\ search'.downEnd = search.downEnd
      /\ search'.lo = IF search.upEnd # Unbounded THEN search.up
                      ELSE IF search.downEnd # Unbounded THEN search.down ELSE search.lo
      /\ search'.hi = IF search.upEnd # Unbounded THEN search.upEnd ELSE search.downEnd
  BY <1>1 DEF Widen, Search
<1>5. Footholds'
  BY <1>1, <1>2, <1>4 DEF Footholds
<1>6. BudgetLeft'
  BY <1>1, <1>4 DEF BudgetLeft, LadderGoesOn
<1>7. Straddles'
  BY <1>1, <1>2, <1>4 DEF Footholds, Straddles, Found
<1>8. EndsHalved'
  BY <1>4 DEF EndsHalved
<1> QED
  BY <1>2, <1>3, <1>5, <1>6, <1>7, <1>8 DEF SearchInv

LEMMA HalveKeeps ==
  ASSUME SearchInv, Halve
  PROVE  SearchInv'
<1> DEFINE mid == (search.lo + search.hi) \div 2
<1>1. /\ AskOK /\ search \in Search /\ Footholds /\ BudgetLeft /\ Straddles
      /\ search.phase = "halve" /\ Bisects /\ UNCHANGED ask
  BY DEF SearchInv, Halve
<1>2. AskOK' /\ \A x : Differs(x)' <=> Differs(x)
  BY AskStands, <1>1
<1>3. mid \in Int
  BY <1>1 DEF Bisects, Found, Search, Ends
<1>4. search' = [search EXCEPT
           !.used = @ + 1,
           !.hi = IF Differs(mid) THEN mid ELSE @,
           !.lo = IF Differs(mid) THEN @ ELSE mid]
  BY DEF Halve
<1> HIDE DEF mid
<1>5. search' \in Search
  <2>1. /\ search.used + 1 \in Nat
        /\ (IF Differs(mid) THEN mid ELSE search.hi) \in Ends
        /\ (IF Differs(mid) THEN search.lo ELSE mid) \in Int
    BY <1>1, <1>3 DEF Search, Ends
  <2> QED
    BY <1>1, <1>4, <2>1, RungTyped
<1>6. /\ search'.phase = "halve"
      /\ search'.used = search.used + 1
      /\ search'.up = search.up /\ search'.upEnd = search.upEnd
      /\ search'.down = search.down /\ search'.downEnd = search.downEnd
      /\ search'.hi = IF Differs(mid) THEN mid ELSE search.hi
      /\ search'.lo = IF Differs(mid) THEN search.lo ELSE mid
  BY <1>1, <1>4 DEF Search
<1>7. Footholds'
  BY <1>1, <1>2, <1>6 DEF Footholds
<1>8. BudgetLeft'
  BY <1>1, <1>6 DEF BudgetLeft, Bisects, AskOK, Search
<1>9. Straddles'
  BY <1>1, <1>2, <1>6 DEF Straddles, Found, Bisects
<1>10. EndsHalved'
  BY <1>6 DEF EndsHalved
<1> QED
  BY <1>2, <1>5, <1>7, <1>8, <1>9, <1>10 DEF SearchInv

LEMMA FinishKeeps ==
  ASSUME SearchInv, Finish
  PROVE  SearchInv'
<1>1. /\ AskOK /\ search \in Search /\ Footholds /\ BudgetLeft /\ Straddles
      /\ ~Bisects /\ UNCHANGED ask
  BY DEF SearchInv, Finish
<1>2. AskOK' /\ \A x : Differs(x)' <=> Differs(x)
  BY AskStands, <1>1
<1>3. search' \in Search
  BY <1>1 DEF Finish, Search
<1>4. /\ search'.phase = "done" /\ search'.used = search.used
      /\ search'.up = search.up /\ search'.upEnd = search.upEnd
      /\ search'.down = search.down /\ search'.downEnd = search.downEnd
      /\ search'.hi = search.hi /\ search'.lo = search.lo
  BY <1>1 DEF Finish, Search
<1>5. Footholds' /\ BudgetLeft' /\ Straddles'
  BY <1>1, <1>2, <1>4 DEF Footholds, BudgetLeft, Straddles, Found
<1>6. Found => Distance(search.lo, search.hi) \in Int
  BY <1>1 DEF Found, Distance, Search, Ends
<1>7. Found => Distance(search.lo, search.hi) <= ask.tol \/ search.used = ask.cap
  BY <1>1, <1>6 DEF Bisects, BudgetLeft, AskOK, Search
<1>8. EndsHalved'
  BY <1>1, <1>4, <1>7 DEF EndsHalved, Found, Distance
<1> QED
  BY <1>2, <1>3, <1>5, <1>8 DEF SearchInv

LEMMA SearchStepKeeps ==
  ASSUME SearchInv, SearchStep
  PROVE  SearchInv'
  BY ProbeUpKeeps, ProbeDownKeeps, WidenKeeps, HalveKeeps, FinishKeeps DEF SearchStep

(***************************************************************************)
(* The sweep: a search begins with Ask, and is left alone by every step     *)
(* that is not one of its own.                                              *)
(***************************************************************************)
SweepInv ==
  /\ SearchInv
  /\ query \in Queries
  /\ left \subseteq Variables

LEMMA AskKeeps ==
  ASSUME NEW variable \in Variables, NEW tier \in Tiers, NEW base \in Int,
         NEW same, NEW at, NEW spent,
         Ask(variable, tier, base, same, at, spent)
  PROVE  SearchInv' /\ UNCHANGED <<query, left>>
<1>1. /\ Scope[variable].min \in Ends /\ Scope[variable].max \in Ends
      /\ Tol \in Nat \ {0} /\ Caps[tier] \in Nat \ {0}
  BY SweepAssumption
<1>2. ask' = [base |-> base, min |-> Scope[variable].min, max |-> Scope[variable].max,
              tol |-> Tol, cap |-> Caps[tier], same |-> same, at |-> at]
      /\ search' = Start(ask')
      /\ UNCHANGED <<query, left>>
  BY DEF Ask
<1>3. /\ ask'.base \in Int /\ ask'.min \in Ends /\ ask'.max \in Ends
      /\ ask'.tol \in Nat \ {0} /\ ask'.cap \in Nat \ {0}
  BY <1>1, <1>2
<1>4. AskOK'
  BY <1>3 DEF AskOK
<1>5. (search \in Search)'
  BY <1>2, <1>3 DEF Start, FirstStep, Search, Ends
<1>6. (Footholds /\ BudgetLeft /\ Straddles /\ EndsHalved)'
  BY <1>2, <1>3 DEF Start, Footholds, BudgetLeft, Straddles, EndsHalved, Found
<1> QED
  BY <1>2, <1>4, <1>5, <1>6 DEF SearchInv

LEMMA SearchRests ==
  ASSUME SearchInv, UNCHANGED <<ask, search>>
  PROVE  SearchInv'
  BY DEF SearchInv, AskOK, Footholds, BudgetLeft, Straddles, EndsHalved, Found, Differs

LEMMA SweepInvHolds == Spec => []SweepInv
<1>1. Init => SweepInv
  <2> SUFFICES ASSUME Init PROVE SweepInv
    OBVIOUS
  <2>1. ask.base = 0 /\ ask.min = 0 /\ ask.max = 0 /\ ask.tol = 1 /\ ask.cap = 1
    BY DEF Init, Rests
  <2>2. search = [Start(ask) EXCEPT !.phase = "done"]
    BY DEF Init
  <2>3. AskOK
    BY <2>1 DEF AskOK, Ends
  <2>4. search \in Search
    <3>1. Start(ask) \in Search
      BY <2>1 DEF Start, FirstStep, Search, Ends
    <3> QED
      BY <2>2, <3>1 DEF Search
  <2>5. Footholds /\ BudgetLeft /\ Straddles /\ EndsHalved
    BY <2>1, <2>2 DEF Start, Footholds, BudgetLeft, Straddles, EndsHalved, Found
  <2>6. query \in Queries /\ left \subseteq Variables
    BY SweepAssumption DEF Init
  <2> QED
    BY <2>3, <2>4, <2>5, <2>6 DEF SweepInv, SearchInv
<1>2. SweepInv /\ [Next]_vars => SweepInv'
  <2> SUFFICES ASSUME SweepInv, [Next]_vars PROVE SweepInv'
    OBVIOUS
  <2>1. /\ SearchInv /\ query \in Queries /\ left \subseteq Variables
    BY DEF SweepInv
  <2>2. /\ \A v \in Variables : query.base[v] \in Int
        /\ query.vessel["draft"] \in Int
    <3>1. query.vessel \in Vessel /\ \A v \in Variables : query.base[v] \in Int
      BY <2>1, SweepAssumption
    <3> QED
      BY <3>1 DEF Vessel, Checks
  <2>3. CASE Baseline
    BY <2>1, <2>3, SearchRests DEF Baseline, SweepInv
  <2>4. CASE AskCargo
    BY <2>1, <2>2, <2>4, AskKeeps DEF AskCargo, SweepInv, Variables, Tiers
  <2>5. CASE AskVesselDraft
    BY <2>1, <2>2, <2>5, AskKeeps DEF AskVesselDraft, SweepInv, Variables, Tiers
  <2>6. CASE AskLimit
    <3>1. query.vessel["draft"] + BindingMargin \in Int
      BY <2>2, <2>6 DEF AskLimit, DraftUntested
    <3> QED
      BY <2>1, <2>6, <3>1, AskKeeps DEF AskLimit, SweepInv, Variables, Tiers
  <2>7. CASE AskFleetMix
    BY <2>1, <2>2, <2>7, AskKeeps DEF AskFleetMix, SweepInv, Variables, Tiers
  <2>8. CASE \E variable \in {"laycan", "risk"} : AskQuote(variable)
    BY <2>1, <2>2, <2>8, AskKeeps DEF AskQuote, SweepInv, Variables, Tiers
  <2>9. CASE Escalate
    BY <2>1, <2>2, <2>9, AskKeeps DEF Escalate, SweepInv, Variables, Tiers
  <2>10. CASE UnavailableDraft \/ UnavailableWait
    BY <2>1, <2>10, SearchRests
       DEF UnavailableDraft, UnavailableWait, Unavailable, SweepInv
  <2>11. CASE Searches
    BY <2>1, <2>11, SearchStepKeeps DEF Searches, SweepInv
  <2>12. CASE Collect
    BY <2>1, <2>12, SearchRests DEF Collect, SweepInv
  <2>13. CASE Rank
    BY <2>1, <2>13, SearchRests DEF Rank, SweepInv
  <2>14. CASE UNCHANGED vars
    BY <2>1, <2>14, SearchRests DEF vars, SweepInv
  <2> QED
    BY <2>3, <2>4, <2>5, <2>6, <2>7, <2>8, <2>9, <2>10, <2>11, <2>12, <2>13, <2>14
       DEF Next
<1> QED
  BY <1>1, <1>2, PTL DEF Spec

(***************************************************************************)
(* Whatever is asked, a flip reported changes the decision, a value beside  *)
(* it does not, and no search uses more evaluations than it may.            *)
(* (fragility/search.py:71-141, for every evaluator engine.py hands it)     *)
(***************************************************************************)
THEOREM FlipsAreReal == Spec => []FlipStraddles
<1>1. SweepInv => FlipStraddles
  BY DEF SweepInv, SearchInv, FlipStraddles, BudgetLeft, Straddles, EndsHalved
<1> QED
  BY <1>1, SweepInvHolds, PTL

(***************************************************************************)
(* What the ladder leaves behind it.  A round probes both sides as far as   *)
(* its step, unless a side has come to its end or the budget has; so the    *)
(* footholds are half a step away at the next round, and a flip a step.     *)
(***************************************************************************)
AtMax == ask.max # Unbounded /\ search.up >= ask.max
AtMin == ask.min # Unbounded /\ search.down <= ask.min

Within ==
  /\ search.down <= ask.base /\ ask.base <= search.up
  /\ search.up = ask.base \/ ask.max = Unbounded \/ search.up <= ask.max
  /\ search.down = ask.base \/ ask.min = Unbounded \/ search.down >= ask.min

Climbing == search.phase \in {"up", "down", "widen"}

StepBounds ==
  Climbing =>
    /\ search.step >= 1
    /\ search.up <= ask.base + search.step /\ search.down >= ask.base - search.step
    /\ search.upEnd # Unbounded =>
         search.upEnd >= ask.base /\ search.upEnd <= ask.base + search.step
    /\ search.downEnd # Unbounded =>
         search.downEnd >= ask.base - search.step /\ search.downEnd <= ask.base

HitsAreEnds ==
  Climbing =>
    /\ search.upHit => ask.max # Unbounded /\ (AtMax \/ search.upEnd # Unbounded)
    /\ search.downHit => ask.min # Unbounded /\ (AtMin \/ search.downEnd # Unbounded)

HalfAStepIsClear ==
  Climbing =>
    \/ search.step = FirstStep(ask)
    \/ /\ AtMax \/ 2 * (search.up - ask.base) >= search.step
       /\ AtMin \/ 2 * (ask.base - search.down) >= search.step

UpIsDone ==
  /\ search.progressed \/ search.upHit
  /\ search.upHit \/ search.upEnd # Unbounded \/ search.up >= ask.base + search.step

DownIsDone ==
  /\ search.progressed \/ search.downHit
  /\ search.downHit \/ search.downEnd # Unbounded \/ search.down <= ask.base - search.step

Rounds ==
  /\ search.phase = "up" =>
       search.up < ask.base + search.step /\ search.upEnd = Unbounded
  /\ search.phase \in {"up", "down"} =>
       search.down > ask.base - search.step /\ search.downEnd = Unbounded
  /\ search.phase \in {"down", "widen"} => UpIsDone
  /\ search.phase = "widen" => search.used >= ask.cap \/ DownIsDone

\* The step was doubled once more when the ladder ended.
LadderEnded ==
  search.phase \in {"halve", "done"} =>
    /\ ~Found => search.used >= ask.cap \/ (AtMax /\ AtMin)
    /\ Found => /\ 2 * (search.hi - ask.base) <= search.step
                /\ 2 * (ask.base - search.hi) <= search.step
                /\ 2 * (search.lo - ask.base) <= search.step
                /\ 2 * (ask.base - search.lo) <= search.step
                /\ \/ search.step = 2 * FirstStep(ask)
                   \/ /\ AtMax \/ 4 * (search.up - ask.base) >= search.step
                      /\ AtMin \/ 4 * (ask.base - search.down) >= search.step

LadderInv ==
  /\ Within /\ StepBounds /\ HitsAreEnds /\ HalfAStepIsClear /\ Rounds /\ LadderEnded

\* The ends of the range asked for, as integers where there are any.
LEMMA EndsAreIntegers ==
  ASSUME SearchInv
  PROVE  /\ ask.base \in Int /\ ask.tol \in Nat \ {0} /\ ask.cap \in Nat \ {0}
         /\ ask.max # Unbounded => ask.max \in Int
         /\ ask.min # Unbounded => ask.min \in Int
         /\ search.step \in Int /\ search.used \in Nat
         /\ search.up \in Int /\ search.down \in Int /\ search.lo \in Int
         /\ search.upEnd # Unbounded => search.upEnd \in Int
         /\ search.downEnd # Unbounded => search.downEnd \in Int
         /\ search.hi # Unbounded => search.hi \in Int
         /\ search.upHit \in BOOLEAN /\ search.downHit \in BOOLEAN
         /\ search.progressed \in BOOLEAN
  BY DEF SearchInv, AskOK, Search, Ends

LEMMA ProbeUpClimbs ==
  ASSUME SearchInv, LadderInv, ProbeUp
  PROVE  LadderInv'
<1> DEFINE far     == ask.base + search.step
           beyond  == ask.max # Unbounded /\ far >= ask.max
           rung    == IF beyond THEN ask.max ELSE far
           probes  == ~search.upHit /\ rung > search.up
           changes == probes /\ Differs(rung)
<1>1. search \in Search /\ search.phase = "up" /\ UNCHANGED ask
  BY DEF SearchInv, ProbeUp
<1>2. search' = [search EXCEPT
           !.phase = "down",
           !.upHit = @ \/ beyond,
           !.progressed = probes,
           !.used = IF probes THEN @ + 1 ELSE @,
           !.up = IF probes /\ ~changes THEN rung ELSE @,
           !.upEnd = IF changes THEN rung ELSE @]
  BY DEF ProbeUp
<1>3. /\ search'.phase = "down"
      /\ search'.step = search.step
      /\ search'.up = IF probes /\ ~changes THEN rung ELSE search.up
      /\ search'.upEnd = IF changes THEN rung ELSE search.upEnd
      /\ search'.down = search.down /\ search'.downEnd = search.downEnd
      /\ search'.downHit = search.downHit
  BY <1>1, <1>2 DEF Search
<1>4. search'.upHit = (search.upHit \/ beyond) /\ search'.progressed = probes
  BY <1>1, <1>2, Zenon DEF Search
<1> HIDE <1>2
<1>5. PICK change \in BOOLEAN : change = Differs(rung)
  BY DEF Differs
<1>6. changes <=> probes /\ change
  BY <1>5
<1> HIDE DEF changes
<1>7. FirstStep(ask') = FirstStep(ask)
  BY <1>1
<1> USE EndsAreIntegers
<1>8. search.up < ask.base + search.step /\ search.upEnd = Unbounded
      /\ search.down > ask.base - search.step /\ search.downEnd = Unbounded
      /\ search.step >= 1
  BY <1>1 DEF LadderInv, Rounds, StepBounds, Climbing
<1>9. far \in Int /\ rung \in Int /\ rung <= far /\ (ask.max # Unbounded => rung <= ask.max)
  OBVIOUS
<1>10. far > search.up
  BY <1>8
<1>11. ask.max # Unbounded /\ ~search.upHit /\ beyond /\ ~probes => search.up >= ask.max
  BY <1>9
<1>12. search.down <= ask.base /\ ask.base <= search.up
       /\ (search.up = ask.base \/ ask.max = Unbounded \/ search.up <= ask.max)
       /\ (search.down = ask.base \/ ask.min = Unbounded \/ search.down >= ask.min)
  BY DEF LadderInv, Within
<1>13. search'.up >= search.up /\ search'.up <= far /\ search'.up \in Int
  BY <1>3, <1>6, <1>9, <1>10
<1>14. Within'
  BY <1>1, <1>3, <1>6, <1>9, <1>12, <1>13 DEF Within
<1>15. StepBounds'
  BY <1>1, <1>3, <1>6, <1>8, <1>9, <1>12, <1>13 DEF StepBounds, Climbing
<1>16. search.upHit => ask.max # Unbounded /\ AtMax
  BY <1>1, <1>8 DEF LadderInv, HitsAreEnds, Climbing
<1>17. search.downHit => ask.min # Unbounded /\ AtMin
  BY <1>1, <1>8 DEF LadderInv, HitsAreEnds, Climbing
<1>18. AtMin' <=> AtMin
  BY <1>1, <1>3 DEF AtMin
<1>19. AtMax => AtMax'
  BY <1>1, <1>13 DEF AtMax
<1>20. search'.upHit => ask.max # Unbounded /\ (AtMax' \/ search'.upEnd # Unbounded)
  <2>1. CASE search.upHit
    BY <1>16, <1>19, <2>1
  <2>2. CASE ~search.upHit /\ beyond
    <3>1. rung = ask.max /\ ask.max # Unbounded
      BY <2>2
    <3>2. CASE probes /\ change
      BY <1>3, <1>6, <1>9, <3>1, <3>2, UnboundedAssumption
    <3>3. CASE probes /\ ~change
      <4>1. search'.up = ask.max
        BY <1>3, <1>6, <3>1, <3>3
      <4> QED
        BY <1>1, <1>9, <3>1, <4>1 DEF AtMax
    <3>4. CASE ~probes
      <4>1. search.up >= ask.max
        BY <1>11, <2>2, <3>1, <3>4
      <4> QED
        BY <1>19, <3>1, <4>1 DEF AtMax
    <3> QED
      BY <1>5, <3>2, <3>3, <3>4
  <2> QED
    BY <1>4, <2>1, <2>2
<1>21. HitsAreEnds'
  BY <1>1, <1>3, <1>17, <1>18, <1>20 DEF HitsAreEnds
<1>22. HalfAStepIsClear'
  <2>1. \/ search.step = FirstStep(ask)
        \/ /\ AtMax \/ 2 * (search.up - ask.base) >= search.step
           /\ AtMin \/ 2 * (ask.base - search.down) >= search.step
    BY <1>1 DEF LadderInv, HalfAStepIsClear, Climbing
  <2>2. 2 * (search.up - ask.base) >= search.step => 2 * (search'.up - ask.base) >= search.step
    BY <1>13
  <2> QED
    BY <1>1, <1>3, <1>7, <1>18, <1>19, <2>1, <2>2 DEF HalfAStepIsClear
<1>23. UpIsDone'
  <2>1. CASE search.upHit \/ beyond
    BY <1>4, <2>1 DEF UpIsDone
  <2>2. CASE ~search.upHit /\ ~beyond
    <3>1. rung = far /\ probes
      BY <1>10, <2>2
    <3>2. CASE change
      BY <1>3, <1>4, <1>6, <1>9, <3>1, <3>2, UnboundedAssumption DEF UpIsDone
    <3>3. CASE ~change
      <4>1. search'.up = far
        BY <1>3, <1>6, <3>1, <3>3
      <4>2. search'.up >= ask'.base + search'.step
        BY <1>1, <1>3, <1>9, <4>1
      <4> QED
        BY <1>4, <3>1, <4>2 DEF UpIsDone
    <3> QED
      BY <1>5, <3>2, <3>3
  <2> QED
    BY <2>1, <2>2
<1>24. Rounds'
  BY <1>1, <1>3, <1>8, <1>23 DEF Rounds
<1>25. LadderEnded'
  BY <1>3 DEF LadderEnded
<1> QED
  BY <1>14, <1>15, <1>21, <1>22, <1>24, <1>25 DEF LadderInv

LEMMA ProbeDownClimbs ==
  ASSUME SearchInv, LadderInv, ProbeDown
  PROVE  LadderInv'
<1> DEFINE far     == ask.base - search.step
           open    == ~search.downHit /\ search.used < ask.cap
           beyond  == ask.min # Unbounded /\ far <= ask.min
           rung    == IF beyond THEN ask.min ELSE far
           probes  == open /\ rung < search.down
           changes == probes /\ Differs(rung)
<1>1. search \in Search /\ search.phase = "down" /\ UNCHANGED ask
  BY DEF SearchInv, ProbeDown
<1>2. search' = [search EXCEPT
           !.phase = "widen",
           !.downHit = @ \/ (open /\ beyond),
           !.progressed = @ \/ probes,
           !.used = IF probes THEN @ + 1 ELSE @,
           !.down = IF probes /\ ~changes THEN rung ELSE @,
           !.downEnd = IF changes THEN rung ELSE @]
  BY DEF ProbeDown
<1>3. /\ search'.phase = "widen"
      /\ search'.step = search.step
      /\ search'.used = IF probes THEN search.used + 1 ELSE search.used
      /\ search'.down = IF probes /\ ~changes THEN rung ELSE search.down
      /\ search'.downEnd = IF changes THEN rung ELSE search.downEnd
      /\ search'.up = search.up /\ search'.upEnd = search.upEnd
      /\ search'.upHit = search.upHit
  BY <1>1, <1>2 DEF Search
<1>4. /\ search'.downHit = (search.downHit \/ (open /\ beyond))
      /\ search'.progressed = (search.progressed \/ probes)
  BY <1>1, <1>2, Zenon DEF Search
<1> HIDE <1>2
<1>5. PICK change \in BOOLEAN : change = Differs(rung)
  BY DEF Differs
<1>6. changes <=> probes /\ change
  BY <1>5
<1> HIDE DEF changes
<1>7. FirstStep(ask') = FirstStep(ask)
  BY <1>1
<1> USE EndsAreIntegers
<1>8. search.down > ask.base - search.step /\ search.downEnd = Unbounded
      /\ search.step >= 1 /\ UpIsDone
  BY <1>1 DEF LadderInv, Rounds, StepBounds, Climbing
<1>9. far \in Int /\ rung \in Int /\ rung >= far /\ (ask.min # Unbounded => rung >= ask.min)
  OBVIOUS
<1>10. far < search.down
  BY <1>8
<1>11. ask.min # Unbounded /\ open /\ beyond /\ ~probes => search.down <= ask.min
  BY <1>9
<1>12. search.down <= ask.base /\ ask.base <= search.up
       /\ (search.up = ask.base \/ ask.max = Unbounded \/ search.up <= ask.max)
       /\ (search.down = ask.base \/ ask.min = Unbounded \/ search.down >= ask.min)
  BY DEF LadderInv, Within
<1>13. search'.down <= search.down /\ search'.down >= far /\ search'.down \in Int
  BY <1>3, <1>6, <1>9, <1>10
<1>14. Within'
  BY <1>1, <1>3, <1>6, <1>9, <1>12, <1>13 DEF Within
<1>15. StepBounds'
  <2>1. /\ search.up <= ask.base + search.step
        /\ search.upEnd # Unbounded =>
             search.upEnd >= ask.base /\ search.upEnd <= ask.base + search.step
    BY <1>1 DEF LadderInv, StepBounds, Climbing
  <2> QED
    BY <1>1, <1>3, <1>6, <1>8, <1>9, <1>12, <1>13, <2>1 DEF StepBounds, Climbing
<1>16. search.downHit => ask.min # Unbounded /\ AtMin
  BY <1>1, <1>8 DEF LadderInv, HitsAreEnds, Climbing
<1>17. search.upHit => ask.max # Unbounded /\ (AtMax \/ search.upEnd # Unbounded)
  BY <1>1, <1>8 DEF LadderInv, HitsAreEnds, Climbing
<1>18. AtMax' <=> AtMax
  BY <1>1, <1>3 DEF AtMax
<1>19. AtMin => AtMin'
  BY <1>1, <1>13 DEF AtMin
<1>20. search'.downHit => ask.min # Unbounded /\ (AtMin' \/ search'.downEnd # Unbounded)
  <2>1. CASE search.downHit
    BY <1>16, <1>19, <2>1
  <2>2. CASE open /\ beyond
    <3>1. rung = ask.min /\ ask.min # Unbounded
      BY <2>2
    <3>2. CASE probes /\ change
      BY <1>3, <1>6, <1>9, <3>1, <3>2, UnboundedAssumption
    <3>3. CASE probes /\ ~change
      <4>1. search'.down = ask.min
        BY <1>3, <1>6, <3>1, <3>3
      <4> QED
        BY <1>1, <1>9, <3>1, <4>1 DEF AtMin
    <3>4. CASE ~probes
      <4>1. search.down <= ask.min
        BY <1>11, <2>2, <3>1, <3>4
      <4> QED
        BY <1>19, <3>1, <4>1 DEF AtMin
    <3> QED
      BY <1>5, <3>2, <3>3, <3>4
  <2> QED
    BY <1>4, <2>1, <2>2
<1>21. HitsAreEnds'
  BY <1>1, <1>3, <1>17, <1>18, <1>20 DEF HitsAreEnds
<1>22. HalfAStepIsClear'
  <2>1. \/ search.step = FirstStep(ask)
        \/ /\ AtMax \/ 2 * (search.up - ask.base) >= search.step
           /\ AtMin \/ 2 * (ask.base - search.down) >= search.step
    BY <1>1 DEF LadderInv, HalfAStepIsClear, Climbing
  <2>2. 2 * (ask.base - search.down) >= search.step => 2 * (ask.base - search'.down) >= search.step
    BY <1>13
  <2> QED
    BY <1>1, <1>3, <1>7, <1>18, <1>19, <2>1, <2>2 DEF HalfAStepIsClear
<1>23. search'.used >= ask.cap \/ DownIsDone'
  <2>1. CASE search.downHit \/ (open /\ beyond)
    BY <1>4, <2>1 DEF DownIsDone
  <2>2. CASE ~search.downHit /\ ~open
    <3>1. search.used >= ask.cap /\ search'.used = search.used
      BY <1>3, <2>2
    <3> QED
      BY <3>1
  <2>3. CASE open /\ ~beyond
    <3>1. rung = far /\ probes
      BY <1>10, <2>3
    <3>2. CASE change
      BY <1>3, <1>4, <1>6, <1>9, <3>1, <3>2, UnboundedAssumption DEF DownIsDone
    <3>3. CASE ~change
      <4>1. search'.down = far
        BY <1>3, <1>6, <3>1, <3>3
      <4>2. search'.down <= ask'.base - search'.step
        BY <1>1, <1>3, <1>9, <4>1
      <4> QED
        BY <1>4, <3>1, <4>2 DEF DownIsDone
    <3> QED
      BY <1>5, <3>2, <3>3
  <2> QED
    BY <2>1, <2>2, <2>3
<1>24. UpIsDone'
  BY <1>1, <1>3, <1>4, <1>8 DEF UpIsDone
<1>25. Rounds'
  BY <1>1, <1>3, <1>23, <1>24 DEF Rounds
<1>26. LadderEnded'
  BY <1>3 DEF LadderEnded
<1> QED
  BY <1>14, <1>15, <1>21, <1>22, <1>25, <1>26 DEF LadderInv

LEMMA WidenClimbs ==
  ASSUME SearchInv, LadderInv, Widen
  PROVE  LadderInv'
<1>1. search \in Search /\ search.phase = "widen" /\ UNCHANGED ask
  BY DEF SearchInv, Widen
<1>2. /\ search'.phase = IF LadderGoesOn THEN "up" ELSE "halve"
      /\ search'.step = 2 * search.step
      /\ search'.used = search.used
      /\ search'.up = search.up /\ search'.upEnd = search.upEnd
      /\ search'.down = search.down /\ search'.downEnd = search.downEnd
      /\ search'.lo = IF search.upEnd # Unbounded THEN search.up
                      ELSE IF search.downEnd # Unbounded THEN search.down ELSE search.lo
      /\ search'.hi = IF search.upEnd # Unbounded THEN search.upEnd ELSE search.downEnd
  BY <1>1 DEF Widen, Search
<1>3. search'.upHit = search.upHit /\ search'.downHit = search.downHit
  BY <1>1, Zenon DEF Widen, Search
<1> USE EndsAreIntegers
<1>4. /\ search.down <= ask.base /\ ask.base <= search.up
      /\ search.step >= 1
      /\ search.up <= ask.base + search.step /\ search.down >= ask.base - search.step
      /\ search.upEnd # Unbounded =>
           search.upEnd >= ask.base /\ search.upEnd <= ask.base + search.step
      /\ search.downEnd # Unbounded =>
           search.downEnd >= ask.base - search.step /\ search.downEnd <= ask.base
  BY <1>1 DEF LadderInv, Within, StepBounds, Climbing
<1>5. /\ search.upHit => ask.max # Unbounded /\ (AtMax \/ search.upEnd # Unbounded)
      /\ search.downHit => ask.min # Unbounded /\ (AtMin \/ search.downEnd # Unbounded)
  BY <1>1 DEF LadderInv, HitsAreEnds, Climbing
<1>6. UpIsDone /\ (search.used >= ask.cap \/ DownIsDone)
  BY <1>1 DEF LadderInv, Rounds
<1>7. (AtMax' <=> AtMax) /\ (AtMin' <=> AtMin)
  BY <1>1, <1>2 DEF AtMax, AtMin
<1>8. Within'
  BY <1>1, <1>2 DEF LadderInv, Within
<1>9. CASE LadderGoesOn
  <2>1. /\ search'.phase = "up" /\ search.used < ask.cap
        /\ search.upEnd = Unbounded /\ search.downEnd = Unbounded
    BY <1>2, <1>9 DEF LadderGoesOn
  <2>2. AtMax \/ search.up >= ask.base + search.step
    BY <1>5, <1>6, <2>1 DEF UpIsDone
  <2>3. AtMin \/ search.down <= ask.base - search.step
    BY <1>5, <1>6, <2>1 DEF DownIsDone
  <2>4. StepBounds'
    BY <1>1, <1>2, <1>4, <2>1 DEF StepBounds
  <2>5. HitsAreEnds'
    BY <1>1, <1>2, <1>3, <1>5, <1>7 DEF HitsAreEnds
  <2>6. HalfAStepIsClear'
    <3>1. AtMax \/ 2 * (search.up - ask.base) >= 2 * search.step
      BY <2>2
    <3>2. AtMin \/ 2 * (ask.base - search.down) >= 2 * search.step
      BY <2>3
    <3> QED
      BY <1>1, <1>2, <1>7, <3>1, <3>2 DEF HalfAStepIsClear
  <2>7. Rounds'
    BY <1>1, <1>2, <1>4, <2>1 DEF Rounds
  <2>8. LadderEnded'
    BY <2>1 DEF LadderEnded
  <2> QED
    BY <1>8, <2>4, <2>5, <2>6, <2>7, <2>8 DEF LadderInv
<1>10. CASE ~LadderGoesOn
  <2>1. search'.phase = "halve"
    BY <1>2, <1>10
  <2>2. StepBounds' /\ HitsAreEnds' /\ HalfAStepIsClear' /\ Rounds'
    BY <2>1 DEF StepBounds, HitsAreEnds, HalfAStepIsClear, Rounds, Climbing
  <2>3. ~Found' => search.used >= ask.cap \/ (AtMax /\ AtMin)
    <3>1. SUFFICES ASSUME ~Found', search.used < ask.cap PROVE AtMax /\ AtMin
      OBVIOUS
    <3>2. search.upEnd = Unbounded /\ search.downEnd = Unbounded
      BY <1>2, <3>1 DEF Found
    <3>3. search.upHit /\ search.downHit
      BY <1>6, <1>10, <3>1, <3>2 DEF LadderGoesOn, UpIsDone, DownIsDone
    <3> QED
      BY <1>5, <3>2, <3>3
  <2>4. FirstStep(ask') = FirstStep(ask)
    BY <1>1
  <2>5. \/ search'.step = 2 * FirstStep(ask)
        \/ /\ AtMax \/ 4 * (search.up - ask.base) >= search'.step
           /\ AtMin \/ 4 * (ask.base - search.down) >= search'.step
    <3>1. \/ search.step = FirstStep(ask)
          \/ /\ AtMax \/ 2 * (search.up - ask.base) >= search.step
             /\ AtMin \/ 2 * (ask.base - search.down) >= search.step
      BY <1>1 DEF LadderInv, HalfAStepIsClear, Climbing
    <3> QED
      BY <1>2, <3>1
  <2>6. Found' => /\ 2 * (search'.hi - ask.base) <= search'.step
                  /\ 2 * (ask.base - search'.hi) <= search'.step
                  /\ 2 * (search'.lo - ask.base) <= search'.step
                  /\ 2 * (ask.base - search'.lo) <= search'.step
    BY <1>2, <1>4 DEF Found
  <2>7. LadderEnded'
    BY <1>1, <1>2, <1>7, <2>3, <2>4, <2>5, <2>6 DEF LadderEnded
  <2> QED
    BY <1>8, <2>2, <2>7 DEF LadderInv
<1> QED
  BY <1>9, <1>10

LEMMA HalveClimbs ==
  ASSUME SearchInv, LadderInv, Halve
  PROVE  LadderInv'
<1> DEFINE mid == (search.lo + search.hi) \div 2
<1>1. search \in Search /\ search.phase = "halve" /\ Bisects /\ UNCHANGED ask
  BY DEF SearchInv, Halve
<1>2. /\ search'.phase = "halve" /\ search'.step = search.step
      /\ search'.used = search.used + 1
      /\ search'.up = search.up /\ search'.down = search.down
      /\ search'.hi = IF Differs(mid) THEN mid ELSE search.hi
      /\ search'.lo = IF Differs(mid) THEN search.lo ELSE mid
  BY <1>1 DEF Halve, Search
<1> USE EndsAreIntegers
<1>3. Found /\ search.hi \in Int
  BY <1>1 DEF Bisects, Found
<1>4. /\ 2 * (search.hi - ask.base) <= search.step
      /\ 2 * (ask.base - search.hi) <= search.step
      /\ 2 * (search.lo - ask.base) <= search.step
      /\ 2 * (ask.base - search.lo) <= search.step
      /\ \/ search.step = 2 * FirstStep(ask)
         \/ /\ AtMax \/ 4 * (search.up - ask.base) >= search.step
            /\ AtMin \/ 4 * (ask.base - search.down) >= search.step
  BY <1>1, <1>3 DEF LadderInv, LadderEnded
<1>5. mid \in Int /\ 2 * mid <= search.lo + search.hi /\ search.lo + search.hi <= 2 * mid + 1
  BY <1>3
<1>6. (mid >= search.lo /\ mid <= search.hi) \/ (mid >= search.hi /\ mid <= search.lo)
  BY <1>3, <1>5
<1> HIDE DEF mid
<1>7. 2 * (mid - ask.base) <= search.step /\ 2 * (ask.base - mid) <= search.step
  BY <1>3, <1>4, <1>5, <1>6
<1>8. (AtMax' <=> AtMax) /\ (AtMin' <=> AtMin) /\ FirstStep(ask') = FirstStep(ask)
  BY <1>1, <1>2 DEF AtMax, AtMin
<1>9. Found'
  BY <1>2, <1>3, <1>5, UnboundedAssumption DEF Found
<1>10. LadderEnded'
  BY <1>1, <1>2, <1>4, <1>7, <1>8, <1>9 DEF LadderEnded
<1>11. Within'
  BY <1>1, <1>2 DEF LadderInv, Within
<1>12. StepBounds' /\ HitsAreEnds' /\ HalfAStepIsClear' /\ Rounds'
  BY <1>2 DEF StepBounds, HitsAreEnds, HalfAStepIsClear, Rounds, Climbing
<1> QED
  BY <1>10, <1>11, <1>12 DEF LadderInv

LEMMA FinishClimbs ==
  ASSUME SearchInv, LadderInv, Finish
  PROVE  LadderInv'
<1>1. search \in Search /\ search.phase = "halve" /\ UNCHANGED ask
  BY DEF SearchInv, Finish
<1>2. /\ search'.phase = "done" /\ search'.step = search.step
      /\ search'.used = search.used
      /\ search'.up = search.up /\ search'.down = search.down
      /\ search'.hi = search.hi /\ search'.lo = search.lo
  BY <1>1 DEF Finish, Search
<1>3. (AtMax' <=> AtMax) /\ (AtMin' <=> AtMin) /\ FirstStep(ask') = FirstStep(ask)
      /\ (Found' <=> Found)
  BY <1>1, <1>2 DEF AtMax, AtMin, Found
<1>4. LadderEnded'
  BY <1>1, <1>2, <1>3 DEF LadderInv, LadderEnded
<1>5. Within'
  BY <1>1, <1>2 DEF LadderInv, Within
<1>6. StepBounds' /\ HitsAreEnds' /\ HalfAStepIsClear' /\ Rounds'
  BY <1>2 DEF StepBounds, HitsAreEnds, HalfAStepIsClear, Rounds, Climbing
<1> QED
  BY <1>4, <1>5, <1>6 DEF LadderInv

(***************************************************************************)
(* Values that were not tried.  The code evaluates any number; the Grid of  *)
(* the model must have no holes and reach as far as a search may go.        *)
(***************************************************************************)
GridReaches ==
  /\ \A x, y \in Grid : x .. y \subseteq Grid
  /\ \A v \in Variables, r \in Int :
       /\ (Scope[v].max = Unbounded \/ r <= Scope[v].max) => \E g \in Grid : g >= r
       /\ (Scope[v].min = Unbounded \/ r >= Scope[v].min) => \E g \in Grid : g <= r

\* Before the first search nothing changes any decision.
Answers ==
  /\ DOMAIN ask.at = Grid
  /\ \/ \A x \in Grid : ~Differs(x)
     \/ \A r \in Int :
          /\ (ask.max = Unbounded \/ r <= ask.max) => \E g \in Grid : g >= r
          /\ (ask.min = Unbounded \/ r >= ask.min) => \E g \in Grid : g <= r

\* Beyond a value that changes the decision every one does.
LEMMA ChangesOnward ==
  ASSUME GridReaches, Grid \subseteq Int, DOMAIN ask.at = Grid, OneBoundaryARay, ask.base \in Int,
         NEW x \in Grid, NEW y \in Grid, Differs(x),
         (ask.base <= x /\ x <= y) \/ (ask.base >= x /\ x >= y)
  PROVE  Differs(y)
<1>1. x \in Int /\ y \in Int
  OBVIOUS
<1>2. \A a, b \in Grid : a .. b \subseteq Grid
  BY DEF GridReaches
<1>3. CASE ask.base <= x /\ x <= y
  <2> SUFFICES ASSUME ~Differs(y) PROVE FALSE
    OBVIOUS
  <2> DEFINE T == {k \in Nat : x + k \in Grid /\ ~Differs(x + k)}
  <2>1. y - x \in T
    <3>1. y - x \in Nat /\ x + (y - x) = y
      BY <1>1, <1>3
    <3> QED
      BY <3>1
  <2>2. PICK k \in T : \A j \in T : k <= j
    <3> HIDE DEF T
    <3>1. T \subseteq Nat
      BY DEF T
    <3> QED
      BY <2>1, <3>1, LeastOfSome
  <2>3. k \in Nat /\ x + k \in Grid /\ ~Differs(x + k)
    BY <2>2
  <2>4. k # 0
    <3>1. k = 0 => x + k = x
      BY <1>1
    <3> QED
      BY <2>3, <3>1
  <2>5. PICK z \in Int : z = x + (k - 1)
    BY <1>1, <2>3
  <2>6. k - 1 \in Nat /\ z + 1 = x + k /\ z \in x .. x + k /\ z >= ask.base
    BY <1>1, <1>3, <2>3, <2>4, <2>5
  <2>7. z \in Grid
    BY <1>2, <2>3, <2>6
  <2>8. Differs(z)
    <3>1. k - 1 \notin T
      BY <2>2, <2>3, <2>6
    <3> QED
      BY <2>5, <2>6, <2>7, <3>1
  <2>9. Differs(z + 1)
    BY <2>3, <2>6, <2>7, <2>8 DEF OneBoundaryARay
  <2> QED
    BY <2>3, <2>6, <2>9
<1>4. CASE ask.base >= x /\ x >= y
  <2> SUFFICES ASSUME ~Differs(y) PROVE FALSE
    OBVIOUS
  <2> DEFINE T == {k \in Nat : x - k \in Grid /\ ~Differs(x - k)}
  <2>1. x - y \in T
    <3>1. x - y \in Nat /\ x - (x - y) = y
      BY <1>1, <1>4
    <3> QED
      BY <3>1
  <2>2. PICK k \in T : \A j \in T : k <= j
    <3> HIDE DEF T
    <3>1. T \subseteq Nat
      BY DEF T
    <3> QED
      BY <2>1, <3>1, LeastOfSome
  <2>3. k \in Nat /\ x - k \in Grid /\ ~Differs(x - k)
    BY <2>2
  <2>4. k # 0
    <3>1. k = 0 => x - k = x
      BY <1>1
    <3> QED
      BY <2>3, <3>1
  <2>5. PICK z \in Int : z = x - (k - 1)
    BY <1>1, <2>3
  <2>6. k - 1 \in Nat /\ z - 1 = x - k /\ z \in x - k .. x /\ z <= ask.base
    BY <1>1, <1>4, <2>3, <2>4, <2>5
  <2>7. z \in Grid
    BY <1>2, <2>3, <2>6
  <2>8. Differs(z)
    <3>1. k - 1 \notin T
      BY <2>2, <2>3, <2>6
    <3> QED
      BY <2>5, <2>6, <2>7, <3>1
  <2>9. Differs(z - 1)
    BY <2>3, <2>6, <2>7, <2>8 DEF OneBoundaryARay
  <2> QED
    BY <2>3, <2>6, <2>9
<1> QED
  BY <1>3, <1>4

\* What lies between the footholds is as they are.
LEMMA PassedOverIsClear ==
  ASSUME GridReaches, SearchInv, Within, Answers, BaseAgrees, OneBoundaryARay,
         NEW x \in Grid, search.down <= x, x <= search.up
  PROVE  ~Differs(x)
<1> SUFFICES ASSUME Differs(x) PROVE FALSE
  OBVIOUS
<1>1. Grid \subseteq Int /\ x \in Int
  BY SweepAssumption
<1>2. DOMAIN ask.at = Grid
      /\ \A r \in Int :
          /\ (ask.max = Unbounded \/ r <= ask.max) => \E g \in Grid : g >= r
          /\ (ask.min = Unbounded \/ r >= ask.min) => \E g \in Grid : g <= r
  BY DEF Answers
<1>3. \A a, b \in Grid : a .. b \subseteq Grid
  BY DEF GridReaches
<1> USE EndsAreIntegers
<1>4. x # ask.base
  BY DEF BaseAgrees
<1>5. CASE x > ask.base
  <2>1. search.up # ask.base
    BY <1>1, <1>5
  <2>2. ~Differs(search.up)
    BY <2>1 DEF SearchInv, Footholds
  <2>3. PICK g \in Grid : g >= search.up
    BY <1>2, <2>1 DEF Within
  <2>4. search.up \in x .. g
    BY <1>1, <2>3
  <2>5. search.up \in Grid
    BY <1>3, <2>3, <2>4
  <2>6. ask.base \in Int /\ search.up \in Int
    BY <1>1, <2>5 DEF SearchInv, AskOK
  <2>7. (ask.base <= x /\ x <= search.up) \/ (ask.base >= x /\ x >= search.up)
    BY <1>1, <1>5, <2>6
  <2>8. Differs(search.up)
    BY <1>1, <1>2, <2>5, <2>6, <2>7, ChangesOnward
  <2> QED
    BY <2>2, <2>8
<1>6. CASE x < ask.base
  <2>1. search.down # ask.base
    BY <1>1, <1>6
  <2>2. ~Differs(search.down)
    BY <2>1 DEF SearchInv, Footholds
  <2>3. PICK g \in Grid : g <= search.down
    BY <1>2, <2>1 DEF Within
  <2>4. search.down \in g .. x
    BY <1>1, <2>3
  <2>5. search.down \in Grid
    BY <1>3, <2>3, <2>4
  <2>6. ask.base \in Int /\ search.down \in Int
    BY <1>1, <2>5 DEF SearchInv, AskOK
  <2>7. (ask.base <= x /\ x <= search.down) \/ (ask.base >= x /\ x >= search.down)
    BY <1>1, <1>6, <2>6
  <2>8. Differs(search.down)
    BY <1>1, <1>2, <2>5, <2>6, <2>7, ChangesOnward
  <2> QED
    BY <2>2, <2>8
<1> QED
  BY <1>1, <1>4, <1>5, <1>6

LEMMA LadderTellsAll ==
  ASSUME GridReaches, SearchInv, LadderInv, Answers
  PROVE  NothingIsPassedOver
<1> USE EndsAreIntegers
<1>1. Within /\ LadderEnded
  BY DEF LadderInv
<1>2. DOMAIN ask.at = Grid /\ Grid \subseteq Int
  BY SweepAssumption DEF Answers
<1>3. ASSUME BaseAgrees, OneBoundaryARay, NEW x \in Grid, search.down <= x, x <= search.up
      PROVE  ~Differs(x)
  BY <1>1, <1>3, PassedOverIsClear
<1>4. RangeIsClear
  <2>1. BaseAgrees /\ OneBoundaryARay =>
          \A x \in (search.down .. search.up) \cap DOMAIN ask.at : ~Differs(x)
    BY <1>2, <1>3
  <2>2. search.phase = "done" /\ ~Found /\ search.used < ask.cap => AtMax /\ AtMin
    BY <1>1 DEF LadderEnded
  <2> QED
    BY <2>1, <2>2 DEF RangeIsClear, AtMax, AtMin
<1>5. NearestWithinARung
  <2> SUFFICES ASSUME search.phase = "done", Found, BaseAgrees, OneBoundaryARay,
                      NEW x \in Grid, Allowed(x), Differs(x)
               PROVE  \/ Distance(ask.base, search.hi) <= 2 * Distance(ask.base, x)
                      \/ Distance(ask.base, search.hi) <= FirstStep(ask)
    BY <1>2 DEF NearestWithinARung
  <2>1. /\ 2 * (search.hi - ask.base) <= search.step
        /\ 2 * (ask.base - search.hi) <= search.step
        /\ \/ search.step = 2 * FirstStep(ask)
           \/ /\ AtMax \/ 4 * (search.up - ask.base) >= search.step
              /\ AtMin \/ 4 * (ask.base - search.down) >= search.step
    BY <1>1 DEF LadderEnded
  <2>2. search.hi \in Int /\ x \in Int
    BY <1>2 DEF Found
  <2>3. PICK d \in Int : d = Distance(ask.base, search.hi)
    BY <2>2 DEF Distance
  <2>4. 2 * d <= search.step
    BY <2>1, <2>2, <2>3 DEF Distance
  <2>5. CASE search.step = 2 * FirstStep(ask)
    <3>1. PICK f \in Int : f = FirstStep(ask)
      BY DEF FirstStep
    <3> QED
      BY <2>3, <2>4, <2>5, <3>1
  <2>6. CASE /\ AtMax \/ 4 * (search.up - ask.base) >= search.step
             /\ AtMin \/ 4 * (ask.base - search.down) >= search.step
    <3>1. x > search.up \/ x < search.down
      BY <1>3, <2>2
    <3>2. PICK e \in Int : e = Distance(ask.base, x)
      BY <2>2 DEF Distance
    <3>3. 4 * e >= search.step
      <4>1. CASE x > search.up
        <5>1. 4 * (search.up - ask.base) >= search.step
          BY <2>2, <2>6, <4>1 DEF AtMax, Allowed
        <5>2. e = x - ask.base
          BY <1>1, <2>2, <3>2, <4>1 DEF Distance, Within
        <5> QED
          BY <2>2, <4>1, <5>1, <5>2
      <4>2. CASE x < search.down
        <5>1. 4 * (ask.base - search.down) >= search.step
          BY <2>2, <2>6, <4>2 DEF AtMin, Allowed
        <5>2. e = ask.base - x
          BY <1>1, <2>2, <3>2, <4>2 DEF Distance, Within
        <5> QED
          BY <2>2, <4>2, <5>1, <5>2
      <4> QED
        BY <3>1, <4>1, <4>2
    <3> QED
      BY <2>3, <2>4, <3>2, <3>3
  <2> QED
    BY <2>1, <2>5, <2>6
<1> QED
  BY <1>4, <1>5 DEF NothingIsPassedOver

LEMMA AskReaches ==
  ASSUME GridReaches, NEW variable \in Variables, NEW tier \in Tiers, NEW base \in Int,
         NEW same, NEW at, NEW spent, DOMAIN at = Grid,
         Ask(variable, tier, base, same, at, spent)
  PROVE  LadderInv' /\ Answers'
<1>1. /\ Scope[variable].min \in Ends /\ Scope[variable].max \in Ends
      /\ Tol \in Nat \ {0} /\ Caps[tier] \in Nat \ {0}
  BY SweepAssumption
<1>2. ask' = [base |-> base, min |-> Scope[variable].min, max |-> Scope[variable].max,
              tol |-> Tol, cap |-> Caps[tier], same |-> same, at |-> at]
      /\ search' = Start(ask')
  BY DEF Ask
<1>3. /\ ask'.base = base /\ ask'.min = Scope[variable].min /\ ask'.max = Scope[variable].max
      /\ ask'.tol = Tol /\ ask'.at = at
  BY <1>2
<1>4. \A r \in Int :
        /\ (ask'.max = Unbounded \/ r <= ask'.max) => \E g \in Grid : g >= r
        /\ (ask'.min = Unbounded \/ r >= ask'.min) => \E g \in Grid : g <= r
  BY <1>3 DEF GridReaches
<1>5. Answers'
  BY <1>3, <1>4 DEF Answers
<1>6. /\ search'.phase = "up" /\ search'.step = 8 * Tol
      /\ search'.up = base /\ search'.upEnd = Unbounded
      /\ search'.down = base /\ search'.downEnd = Unbounded
  BY <1>2, <1>3 DEF Start, FirstStep
<1>7. /\ search'.upHit => ask'.max # Unbounded /\ ask'.max = base
      /\ search'.downHit => ask'.min # Unbounded /\ ask'.min = base
  BY <1>2, <1>3, Zenon DEF Start
<1>8. Within' /\ StepBounds'
  BY <1>1, <1>3, <1>6 DEF Within, StepBounds
<1>9. HitsAreEnds'
  BY <1>1, <1>3, <1>6, <1>7 DEF HitsAreEnds, AtMax, AtMin
<1>10. HalfAStepIsClear'
  BY <1>3, <1>6 DEF HalfAStepIsClear, FirstStep
<1>11. Rounds' /\ LadderEnded'
  BY <1>1, <1>3, <1>6 DEF Rounds, LadderEnded
<1> QED
  BY <1>5, <1>8, <1>9, <1>10, <1>11 DEF LadderInv

LEMMA LadderRests ==
  ASSUME LadderInv, Answers, UNCHANGED <<ask, search>>
  PROVE  LadderInv' /\ Answers'
<1>1. Answers'
  BY DEF Answers, Differs
<1>2. (AtMax' <=> AtMax) /\ (AtMin' <=> AtMin) /\ (Found' <=> Found) /\ (Climbing' <=> Climbing)
  BY DEF AtMax, AtMin, Found, Climbing
<1>3. Within' /\ StepBounds' /\ HitsAreEnds' /\ HalfAStepIsClear'
  BY <1>2 DEF LadderInv, Within, StepBounds, HitsAreEnds, HalfAStepIsClear
<1>4. Rounds'
  BY DEF LadderInv, Rounds, UpIsDone, DownIsDone
<1>5. LadderEnded'
  BY <1>2 DEF LadderInv, LadderEnded
<1> QED
  BY <1>1, <1>3, <1>4, <1>5 DEF LadderInv

LEMMA SearchStepClimbs ==
  ASSUME SearchInv, LadderInv, Answers, SearchStep
  PROVE  LadderInv' /\ Answers'
<1>1. UNCHANGED ask
  BY DEF SearchStep, ProbeUp, ProbeDown, Widen, Halve, Finish
<1>2. Answers'
  BY <1>1 DEF Answers, Differs
<1> QED
  BY <1>2, ProbeUpClimbs, ProbeDownClimbs, WidenClimbs, HalveClimbs, FinishClimbs DEF SearchStep

(***************************************************************************)
(* Whatever is asked: no value between the footholds of a search changes    *)
(* the decision if the answers change once a ray, a search that found       *)
(* nothing with budget to spare went to both ends of its range, and of the  *)
(* values that change the decision none is twice as near as the one         *)
(* reported, but within the first rung.                                     *)
(* (fragility/search.py:71-141, for every evaluator engine.py hands it)     *)
(***************************************************************************)
THEOREM SearchesPassNothingOver ==
  ASSUME GridReaches
  PROVE  Spec => []NothingIsPassedOver
<1> DEFINE Inv == LadderInv /\ Answers
<1>1. Init => Inv
  <2> SUFFICES ASSUME Init PROVE Inv
    OBVIOUS
  <2>1. /\ ask.base = 0 /\ ask.min = 0 /\ ask.max = 0 /\ ask.tol = 1 /\ ask.cap = 1
        /\ ask.same = "now" /\ ask.at = [x \in Grid |-> "now"]
    BY DEF Init, Rests
  <2>2. search = [Start(ask) EXCEPT !.phase = "done"]
    BY DEF Init
  <2>3. /\ search.phase = "done" /\ search.up = 0 /\ search.down = 0 /\ search.hi = Unbounded
    BY <2>1, <2>2 DEF Start
  <2>4. Answers
    BY <2>1 DEF Answers, Differs
  <2>5. Within /\ LadderEnded
    BY <2>1, <2>3, UnboundedAssumption DEF Within, LadderEnded, Found, AtMax, AtMin
  <2>6. StepBounds /\ HitsAreEnds /\ HalfAStepIsClear /\ Rounds
    BY <2>3 DEF StepBounds, HitsAreEnds, HalfAStepIsClear, Rounds, Climbing
  <2> QED
    BY <2>4, <2>5, <2>6 DEF LadderInv
<1>2. SweepInv /\ Inv /\ [Next]_vars => Inv'
  <2> SUFFICES ASSUME SweepInv, LadderInv, Answers, [Next]_vars PROVE Inv'
    OBVIOUS
  <2>1. /\ SearchInv /\ query \in Queries
    BY DEF SweepInv
  <2>2. /\ \A v \in Variables : query.base[v] \in Int
        /\ query.vessel["draft"] \in Int
    <3>1. query.vessel \in Vessel /\ \A v \in Variables : query.base[v] \in Int
      BY <2>1, SweepAssumption
    <3> QED
      BY <3>1 DEF Vessel, Checks
  <2>3. \A base : \A at \in OpenSignatures(base) : DOMAIN at = Grid
    BY DEF OpenSignatures
  <2>4. CASE AskCargo
    BY <2>2, <2>4, AskReaches DEF AskCargo, Variables, Tiers
  <2>5. CASE AskVesselDraft
    BY <2>2, <2>5, AskReaches DEF AskVesselDraft, Variables, Tiers
  <2>6. CASE AskLimit
    <3>1. query.vessel["draft"] + BindingMargin \in Int
      BY <2>2, <2>6 DEF AskLimit, DraftUntested
    <3>2. PICK base \in Int, same \in {Feasible(TRUE)} :
             Ask("limit", "closed_form", base, same, [x \in Grid |-> LimitSignature(x)], 0)
      BY <2>6, <3>1 DEF AskLimit
    <3>3. PICK at : /\ DOMAIN at = Grid
                    /\ Ask("limit", "closed_form", base, same, at, 0)
      BY <3>2
    <3> QED
      BY <3>3, AskReaches DEF Variables, Tiers
  <2>7. CASE AskFleetMix
    BY <2>2, <2>3, <2>7, AskReaches DEF AskFleetMix, Variables, Tiers
  <2>8. CASE \E variable \in {"laycan", "risk"} : AskQuote(variable)
    BY <2>2, <2>3, <2>8, AskReaches DEF AskQuote, Variables, Tiers
  <2>9. CASE Escalate
    BY <2>2, <2>3, <2>9, AskReaches DEF Escalate, Variables, Tiers
  <2>10. CASE Searches
    BY <2>1, <2>10, SearchStepClimbs DEF Searches
  <2>11. CASE UNCHANGED <<ask, search>>
    BY <2>11, LadderRests
  <2> QED
    BY <2>4, <2>5, <2>6, <2>7, <2>8, <2>9, <2>10, <2>11
       DEF Next, vars, Baseline, UnavailableDraft, UnavailableWait, Unavailable, Collect, Rank
<1>3. SweepInv /\ Inv => NothingIsPassedOver
  BY LadderTellsAll DEF SweepInv
<1> HIDE DEF Inv
<1> QED
  BY <1>1, <1>2, <1>3, SweepInvHolds, PTL DEF Spec

(***************************************************************************)
(* The report.  First the berth verdicts, which no step changes: for any    *)
(* register they are as the register's rows say.                            *)
(***************************************************************************)
LEMMA LimitsTested ==
  ASSUME query \in Queries, NEW row \in Row
  PROVE  Fits(IF row.daily THEN [row.limit EXCEPT !["draft"] = Unpublished] ELSE row.limit)
           <=> Clears(row, query.vessel)
<1> DEFINE limits == IF row.daily THEN [row.limit EXCEPT !["draft"] = Unpublished]
                     ELSE row.limit
<1>1. row.limit \in [Checks -> Limit]
  BY DEF Row
<1>2. \A check \in Checks : limits[check] = ResolvedLimit(row, check)
  BY <1>1 DEF ResolvedLimit
<1>3. Fits(limits) <=> \A check \in Checks :
                          limits[check] = Unpublished \/ query.vessel[check] <= limits[check]
  BY DEF Fits
<1> HIDE DEF limits
<1>4. Fits(limits) <=> Clears(row, query.vessel)
  BY <1>2, <1>3 DEF Clears
<1> QED
  BY <1>4 DEF limits

LEMMA BerthsAgree ==
  ASSUME query \in Queries
  PROVE  ClearsIffSomeBerthFits
<1>1. /\ query.registry \in Seq(Row) /\ query.day \in Nat /\ query.vessel \in Vessel
  BY SweepAssumption
<1>2. PICK registry \in Seq(Row), day \in Nat :
        registry = query.registry /\ day = query.day
  BY <1>1
<1> SUFFICES ASSUME NEW port \in Ports
             PROVE  LET verdict  == CanCall(port, query.vessel)
                        clearing == Clearing(port)
                    IN  IF Knows(port) = {}
                        THEN verdict.feasible <=> Fits(Legacy[port])
                        ELSE /\ verdict.feasible <=> clearing # {}
                             /\ verdict.feasible =>
                                  \E row \in clearing :
                                    /\ row.berth = verdict.berth
                                    /\ \A other \in clearing :
                                         LET mine   == CommodityPriority(row, query.commodity)
                                             theirs == CommodityPriority(other, query.commodity)
                                             depth  == other.limit["draft"]
                                         IN  /\ mine <= theirs
                                             /\ (mine = theirs /\ depth # Unpublished) =>
                                                  /\ row.limit["draft"] # Unpublished
                                                  /\ row.limit["draft"] >= depth
  BY DEF ClearsIffSomeBerthFits
<1> DEFINE verdict  == CanCall(port, query.vessel)
           clearing == BerthsThatClear(registry, port, day, query.vessel)
           known    == RowsOf(registry, port, day)
<1>3. \A i \in DOMAIN registry : registry[i] \in Row
  OBVIOUS
<1>4. \A row \in Row : InForce(row, day) <=>
                         row.from <= day /\ (row.to = Unpublished \/ row.to >= day)
  BY DEF InForce, Row, Limit
<1>5. Knows(port) = known
  BY <1>2, <1>3, <1>4 DEF Knows, RowsOf
<1>6. Clearing(port) = clearing
  <2>1. ASSUME NEW x \in Clearing(port)
        PROVE  x \in clearing
    <3>1. PICK i \in known : /\ x = registry[i] /\ x.published
                             /\ Fits(IF x.daily THEN [x.limit EXCEPT !["draft"] = Unpublished]
                                     ELSE x.limit)
      BY <1>2, <1>5 DEF Clearing
    <3>2. x \in Row /\ x \in Range(registry) /\ x.port = port /\ InForce(x, day)
      BY <1>3, <3>1 DEF RowsOf, Range
    <3> QED
      BY <3>1, <3>2, LimitsTested DEF BerthsThatClear
  <2>2. ASSUME NEW x \in clearing
        PROVE  x \in Clearing(port)
    <3>1. /\ x \in Range(registry) /\ x.port = port /\ InForce(x, day)
          /\ x.published /\ Clears(x, query.vessel)
      BY DEF BerthsThatClear
    <3>2. PICK i \in DOMAIN registry : x = registry[i]
      BY <3>1 DEF Range
    <3>3. i \in known /\ x \in Row
      BY <1>3, <3>1, <3>2 DEF RowsOf
    <3>4. Fits(IF x.daily THEN [x.limit EXCEPT !["draft"] = Unpublished] ELSE x.limit)
      BY <3>1, <3>3, LimitsTested
    <3> QED
      BY <1>2, <1>5, <3>1, <3>2, <3>3, <3>4 DEF Clearing
  <2> QED
    BY <2>1, <2>2
<1>7. /\ known = {} => verdict = PortVerdict(Legacy, port, query.vessel)
      /\ known # {} => (verdict.feasible <=> clearing # {})
      /\ known # {} /\ verdict.feasible => NamesABest(verdict, clearing, query.commodity)
  BY <1>2, VerdictIs DEF CanCall
<1>8. clearing \subseteq Row
  BY <1>3 DEF BerthsThatClear, Range
<1>9. known = {} => (verdict.feasible <=> Fits(Legacy[port]))
  <2>1. PICK yes \in BOOLEAN : yes <=> Fits(Legacy[port])
    OBVIOUS
  <2>2. yes = \A check \in Checks :
                Legacy[port][check] # Unpublished => query.vessel[check] <= Legacy[port][check]
    BY <2>1 DEF Fits
  <2>3. PortVerdict(Legacy, port, query.vessel) =
          Verdict(yes, Unpublished, "PORTENUM_FALLBACK", Legacy[port]["draft"], query.vessel)
    BY <2>2, Zenon DEF PortVerdict
  <2>4. PortVerdict(Legacy, port, query.vessel).feasible = yes
    BY <2>3, VerdictFields
  <2> QED
    BY <1>7, <2>1, <2>4
<1> HIDE DEF verdict, clearing, known
<1>10. ASSUME NamesABest(verdict, clearing, query.commodity)
       PROVE  \E row \in clearing :
                /\ row.berth = verdict.berth
                /\ \A other \in clearing :
                     LET mine   == CommodityPriority(row, query.commodity)
                         theirs == CommodityPriority(other, query.commodity)
                         depth  == other.limit["draft"]
                     IN  /\ mine <= theirs
                         /\ (mine = theirs /\ depth # Unpublished) =>
                              /\ row.limit["draft"] # Unpublished
                              /\ row.limit["draft"] >= depth
  <2>1. PICK row \in clearing : /\ row.berth = verdict.berth
                                /\ \A other \in clearing : ~Before(other, row, query.commodity)
    BY <1>10 DEF NamesABest
  <2>2. WITNESS row \in clearing
  <2>3. ASSUME NEW other \in clearing
        PROVE  LET mine   == CommodityPriority(row, query.commodity)
                   theirs == CommodityPriority(other, query.commodity)
                   depth  == other.limit["draft"]
               IN  /\ mine <= theirs
                   /\ (mine = theirs /\ depth # Unpublished) =>
                        /\ row.limit["draft"] # Unpublished
                        /\ row.limit["draft"] >= depth
    BY <1>8, <2>1, NotBeforeIs
  <2> QED
    BY <2>1, <2>3
<1>11. CASE known = {}
  BY <1>5, <1>9, <1>11 DEF verdict
<1>12. CASE known # {}
  BY <1>5, <1>6, <1>7, <1>10, <1>12 DEF verdict
<1> QED
  BY <1>11, <1>12

(***************************************************************************)
(* The ranking: a stable sort by class, and among flips by score.           *)
(***************************************************************************)
RankKey(f) ==
  [p |-> Class(f), c |-> IF f.kind = "FRAGILE" THEN Score(f) ELSE 0, d |-> 0]

\* A finding that reports a flip reports where.
FlipsNamed(f) == f.kind = "FRAGILE" => f.flip \in Int

LEMMA DistanceIs ==
  ASSUME NEW x \in Int, NEW y \in Int
  PROVE  Distance(x, y) \in Int
  BY DEF Distance

LEMMA ScoreIs ==
  ASSUME NEW f \in Findings, f.kind = "FRAGILE", f.flip \in Int
  PROVE  Score(f) \in Int
<1>1. PICK b \in Int, x \in Int : b = f.base /\ x = f.flip
  BY DEF Findings
<1>2. PICK delta \in Int : delta = Distance(b, x)
  BY DistanceIs
<1>3. CASE b # 0
  <2>1. PICK e \in Int : e = Distance(0, b) /\ e > 0
    BY <1>3 DEF Distance
  <2>2. Score(f) = (100 * delta) \div e
    BY <1>1, <1>2, <1>3, <2>1 DEF Score
  <2> QED
    BY <2>1, <2>2
<1>4. CASE b = 0
  <2>1. Score(f) = delta
    BY <1>1, <1>2, <1>4 DEF Score
  <2> QED
    BY <2>1
<1> QED
  BY <1>3, <1>4

LEMMA ClassIs ==
  ASSUME NEW f \in Findings
  PROVE  /\ f.kind = "FRAGILE" => Class(f) = 0
         /\ f.kind = "STABLE" => Class(f) = 1
         /\ f.kind = "UNAVAILABLE" => Class(f) = 2
         /\ f.kind \in {"FRAGILE", "STABLE", "UNAVAILABLE"}
  BY DEF Findings, Class

LEMMA RankKeyIs ==
  ASSUME NEW f \in Findings, FlipsNamed(f)
  PROVE  RankKey(f) \in [p : Int, c : Int, d : Int]
<1>1. Class(f) \in Int
  BY ClassIs
<1>2. f.kind = "FRAGILE" => Score(f) \in Int
  BY ScoreIs DEF FlipsNamed
<1> QED
  BY <1>1, <1>2 DEF RankKey

LEMMA RankBeforeIs ==
  ASSUME NEW f \in Findings, NEW g \in Findings, FlipsNamed(f), FlipsNamed(g)
  PROVE  RankBefore(f, g) <=> Lex(RankKey(f), RankKey(g))
<1>1. /\ f.kind = "FRAGILE" => Class(f) = 0
      /\ f.kind = "STABLE" => Class(f) = 1
      /\ f.kind = "UNAVAILABLE" => Class(f) = 2
      /\ f.kind \in {"FRAGILE", "STABLE", "UNAVAILABLE"}
  BY ClassIs
<1>2. /\ g.kind = "FRAGILE" => Class(g) = 0
      /\ g.kind = "STABLE" => Class(g) = 1
      /\ g.kind = "UNAVAILABLE" => Class(g) = 2
      /\ g.kind \in {"FRAGILE", "STABLE", "UNAVAILABLE"}
  BY ClassIs
<1>3. /\ RankKey(f).p = Class(f) /\ RankKey(f).d = 0
      /\ RankKey(f).c = IF f.kind = "FRAGILE" THEN Score(f) ELSE 0
      /\ RankKey(g).p = Class(g) /\ RankKey(g).d = 0
      /\ RankKey(g).c = IF g.kind = "FRAGILE" THEN Score(g) ELSE 0
  BY DEF RankKey
<1>4. CASE f.kind = "FRAGILE"
  BY <1>1, <1>2, <1>3, <1>4 DEF RankBefore, Lex
<1>5. CASE f.kind = "STABLE"
  BY <1>1, <1>2, <1>3, <1>5 DEF RankBefore, Lex
<1>6. CASE f.kind = "UNAVAILABLE"
  BY <1>1, <1>2, <1>3, <1>6 DEF RankBefore, Lex
<1> QED
  BY <1>1, <1>4, <1>5, <1>6

RankLeads(i, j, F) ==
  \/ RankBefore(F[i], F[j])
  \/ i < j /\ ~RankBefore(F[j], F[i])

RankFirst(F, D) == {q \in D \X D : RankLeads(q[1], q[2], F)}

LEMMA RankFirstIs ==
  ASSUME NEW F, NEW D, NEW i \in D, NEW j \in D
  PROVE  <<i, j>> \in RankFirst(F, D)
           <=> RankBefore(F[i], F[j]) \/ (i < j /\ ~RankBefore(F[j], F[i]))
<1>1. <<i, j>> \in RankFirst(F, D) <=> RankLeads(i, j, F)
  BY DEF RankFirst
<1> QED
  BY <1>1 DEF RankLeads

\* None of a ranking is led by one behind it.
InRank(s) ==
  \A i, j \in DOMAIN s :
    i < j => \/ Class(s[i]) < Class(s[j])
             \/ /\ Class(s[i]) = Class(s[j])
                /\ Class(s[i]) = 0 => Score(s[i]) <= Score(s[j])

LEMMA RankingIs ==
  ASSUME NEW F \in Seq(Findings), \A i \in DOMAIN F : FlipsNamed(F[i])
  PROVE  Range(RankFindings(F)) = Range(F) /\ InRank(RankFindings(F))
<1>1. PICK R : R = RankFirst(F, DOMAIN F)
  OBVIOUS
<1>2. \A i \in DOMAIN F : F[i] \in Findings
  OBVIOUS
<1>3. StrictOrder(R, DOMAIN F)
  <2> DEFINE key == [i \in DOMAIN F |-> RankKey(F[i])]
  <2>1. key \in [DOMAIN F -> [p : Int, c : Int, d : Int]]
    BY <1>2, RankKeyIs
  <2>2. DOMAIN F \subseteq Int
    OBVIOUS
  <2>3. \A i, j \in DOMAIN F : RankBefore(F[i], F[j]) <=> Lex(key[i], key[j])
    BY <1>2, RankBeforeIs
  <2>4. ASSUME NEW i \in DOMAIN F, NEW j \in DOMAIN F
        PROVE  <<i, j>> \in R <=> Lex(key[i], key[j]) \/ (i < j /\ ~Lex(key[j], key[i]))
    <3>1. <<i, j>> \in R <=> RankBefore(F[i], F[j]) \/ (i < j /\ ~RankBefore(F[j], F[i]))
      BY <1>1, RankFirstIs
    <3> HIDE DEF key
    <3> QED
      BY <2>3, <3>1
  <2> HIDE DEF key
  <2> QED
    BY <2>1, <2>2, <2>4, StableIsStrict
<1>4. RankFindings(F) = Along(F, Numbering(DOMAIN F, R))
  <2> DEFINE First(i, j) == \/ RankBefore(F[i], F[j])
                            \/ i < j /\ ~RankBefore(F[j], F[i])
  <2>1. \A x, y \in DOMAIN F : First(y, x) <=> <<y, x>> \in R
    <3> SUFFICES ASSUME NEW x \in DOMAIN F, NEW y \in DOMAIN F
                 PROVE  First(y, x) <=> <<y, x>> \in R
      OBVIOUS
    <3> QED
      BY <1>1, RankFirstIs
  <2>2. RankFindings(F) = Along(F, InOrder(DOMAIN F, First))
    BY DEF RankFindings
  <2>3. InOrder(DOMAIN F, First) =
          [k \in 1 .. Cardinality(DOMAIN F) |->
             CHOOSE x \in DOMAIN F : Cardinality({y \in DOMAIN F : First(y, x)}) = k - 1]
    BY DEF InOrder
  <2> HIDE DEF First
  <2>4. \A x \in DOMAIN F : {y \in DOMAIN F : First(y, x)} = {y \in DOMAIN F : <<y, x>> \in R}
    BY <2>1
  <2>5. InOrder(DOMAIN F, First) = Numbering(DOMAIN F, R)
    BY <2>3, <2>4 DEF Numbering, Leading
  <2> QED
    BY <2>2, <2>5
<1>5. PICK s : s = Along(F, Numbering(DOMAIN F, R))
  OBVIOUS
<1>6. s \in Seq(Findings) /\ DOMAIN s = DOMAIN F /\ Range(s) = Range(F) /\ SortedBy(s, F, R)
  BY <1>3, <1>5, SortedIs
<1>7. ASSUME NEW k \in DOMAIN s, NEW l \in DOMAIN s, k < l
      PROVE  \/ Class(s[k]) < Class(s[l])
             \/ /\ Class(s[k]) = Class(s[l])
                /\ Class(s[k]) = 0 => Score(s[k]) <= Score(s[l])
  <2>1. PICK i \in DOMAIN F, j \in DOMAIN F :
          s[k] = F[i] /\ s[l] = F[j] /\ <<i, j>> \in R
    BY <1>6, <1>7 DEF SortedBy
  <2>2. PICK f \in Findings, g \in Findings :
          f = s[k] /\ g = s[l] /\ FlipsNamed(f) /\ FlipsNamed(g)
    BY <1>2, <2>1
  <2>3. RankBefore(f, g) \/ ~RankBefore(g, f)
    BY <1>1, <2>1, <2>2, RankFirstIs
  <2>4. PICK x \in [p : Int, c : Int, d : Int], y \in [p : Int, c : Int, d : Int] :
          x = RankKey(f) /\ y = RankKey(g)
    BY <2>2, RankKeyIs
  <2>5. ~Lex(y, x)
    BY <2>2, <2>3, <2>4, RankBeforeIs, LexIsStrict
  <2>6. x.p = Class(f) /\ y.p = Class(g)
        /\ (f.kind = "FRAGILE" => x.c = Score(f)) /\ (g.kind = "FRAGILE" => y.c = Score(g))
    BY <2>4 DEF RankKey
  <2>7. (Class(f) = 0 => f.kind = "FRAGILE") /\ (Class(g) = 0 => g.kind = "FRAGILE")
    BY ClassIs
  <2> QED
    BY <2>2, <2>4, <2>5, <2>6, <2>7 DEF Lex
<1> QED
  BY <1>4, <1>5, <1>6, <1>7 DEF InRank

(***************************************************************************)
(* What the sweep knows at every step.  The report answers what was wanted  *)
(* and is no longer left; the evaluations made are those of the report, of  *)
(* the search in progress and of the one it was begun instead of.           *)
(***************************************************************************)
MostUsed(variable, tier) ==
  IF variable = "term" /\ tier = "full_quote"
  THEN Caps["fleet_mix"] + Caps["full_quote"] ELSE Caps[tier]

ReportTyped ==
  /\ report \in Seq(Findings)
  /\ \A i \in DOMAIN report :
       FlipsNamed(report[i]) /\ report[i].used <= MostUsed(report[i].variable, report[i].tier)

WantedAnswered ==
  /\ left \subseteq query.wanted
  /\ IsFiniteSet(query.wanted \ left)
  /\ Len(report) = Cardinality(query.wanted \ left)
  /\ \A v : v \in query.wanted \ left <=> \E i \in DOMAIN report : report[i].variable = v

\* The search in progress is for a variable that is left.
TurnKept ==
  /\ ~Idle => /\ asked.variable \in left
              /\ asked \in [variable : Variables, tier : Tiers, spent : Nat]
              /\ ask.cap = Caps[asked.tier]
              /\ asked.spent # 0 => asked.variable = "term" /\ asked.tier = "full_quote"
              /\ asked.spent <= Caps["fleet_mix"]
  /\ Idle => search.phase = "done"

EvaluationsCounted ==
  /\ total \in Nat /\ made \in Nat
  /\ total = 0 => Idle /\ made = 0
  /\ Idle /\ total > 0 => total = 1 + made
  /\ ~Idle => total + asked.spent + search.used = 1 + made

RankedLast ==
  ranked # <<>> => left = {} /\ Idle /\ total > 0 /\ ranked = RankFindings(report)

ReportInv ==
  /\ ReportTyped
  /\ WantedAnswered
  /\ TurnKept
  /\ EvaluationsCounted
  /\ RankedLast
  /\ DOMAIN ask.at = Grid

\* A finding more, and its variable no longer left.
LEMMA AnswerReports ==
  ASSUME ReportTyped, WantedAnswered, NEW f \in Findings, FlipsNamed(f),
         f.variable \in left, f.used <= MostUsed(f.variable, f.tier),
         report' = Append(report, f), left' = left \ {f.variable}, query' = query
  PROVE  ReportTyped' /\ WantedAnswered'
<1>1. /\ report \in Seq(Findings) /\ Len(report) \in Nat
      /\ \A i \in DOMAIN report :
           FlipsNamed(report[i]) /\ report[i].used <= MostUsed(report[i].variable, report[i].tier)
  BY DEF ReportTyped
<1>2. PICK n \in Nat : n = Len(report) /\ DOMAIN report = 1 .. n
  BY <1>1
<1>3. /\ report' \in Seq(Findings) /\ DOMAIN report' = 1 .. n + 1 /\ Len(report') = n + 1
      /\ report'[n + 1] = f /\ \A i \in 1 .. n : report'[i] = report[i]
  BY <1>1, <1>2
<1>4. \A i \in 1 .. n + 1 : i = n + 1 \/ i \in 1 .. n
  OBVIOUS
<1>5. ReportTyped'
  <2>1. ASSUME NEW i \in 1 .. n + 1
        PROVE  /\ FlipsNamed(report'[i])
               /\ report'[i].used <= MostUsed(report'[i].variable, report'[i].tier)
    <3>1. CASE i = n + 1
      BY <1>3, <3>1
    <3>2. CASE i \in 1 .. n
      BY <1>1, <1>2, <1>3, <3>2
    <3> QED
      BY <1>4, <3>1, <3>2
  <2> QED
    BY <1>3, <2>1 DEF ReportTyped, FlipsNamed
<1>6. PICK W, A : W = query.wanted /\ A = query.wanted \ left
  OBVIOUS
<1>7. /\ left \subseteq W /\ IsFiniteSet(A) /\ n = Cardinality(A)
      /\ \A v : v \in A <=> \E i \in DOMAIN report : report[i].variable = v
  BY <1>2, <1>6 DEF WantedAnswered
<1>8. W \ left' = A \cup {f.variable} /\ f.variable \notin A
  BY <1>6, <1>7
<1>9. IsFiniteSet(A \cup {f.variable}) /\ Cardinality(A \cup {f.variable}) = Cardinality(A) + 1
  BY <1>7, <1>8, FS_AddElement
<1>10. ASSUME NEW v
       PROVE  v \in W \ left' <=> \E i \in DOMAIN report' : report'[i].variable = v
  <2>1. ASSUME v \in A
        PROVE  \E i \in DOMAIN report' : report'[i].variable = v
    <3>1. PICK i \in 1 .. n : report[i].variable = v
      BY <1>2, <1>7, <2>1
    <3>2. i \in 1 .. n + 1 /\ report'[i].variable = v
      BY <1>3, <3>1
    <3> QED
      BY <1>3, <3>2
  <2>2. n + 1 \in DOMAIN report' /\ report'[n + 1].variable = f.variable
    BY <1>3
  <2>3. ASSUME NEW i \in DOMAIN report', report'[i].variable = v
        PROVE  v \in A \cup {f.variable}
    <3>1. CASE i = n + 1
      BY <1>3, <2>3, <3>1
    <3>2. CASE i \in 1 .. n
      <4>1. report[i].variable = v /\ i \in DOMAIN report
        BY <1>2, <1>3, <2>3, <3>2
      <4> QED
        BY <1>7, <4>1
    <3> QED
      BY <1>3, <1>4, <3>1, <3>2
  <2> QED
    BY <1>8, <2>1, <2>2, <2>3
<1>11. left' \subseteq W /\ query'.wanted = W
  BY <1>6, <1>7
<1>12. Len(report') = Cardinality(W \ left')
  BY <1>3, <1>7, <1>8, <1>9
<1>13. IsFiniteSet(W \ left')
  BY <1>8, <1>9
<1> QED
  BY <1>5, <1>10, <1>11, <1>12, <1>13 DEF WantedAnswered

LEMMA ReportRests ==
  ASSUME ReportTyped, WantedAnswered, UNCHANGED <<report, left, query>>
  PROVE  ReportTyped' /\ WantedAnswered'
  BY DEF ReportTyped, WantedAnswered, FlipsNamed

\* A search begins.
LEMMA AskReports ==
  ASSUME ReportInv, left \subseteq Variables,
         NEW variable \in left, NEW tier \in Tiers, NEW base, NEW same, NEW at,
         NEW spent \in Nat, DOMAIN at = Grid, Ask(variable, tier, base, same, at, spent),
         total > 0, total + spent = 1 + made,
         spent # 0 => variable = "term" /\ tier = "full_quote", spent <= Caps["fleet_mix"]
  PROVE  ReportInv'
<1>1. /\ ask' = [base |-> base, min |-> Scope[variable].min, max |-> Scope[variable].max,
                 tol |-> Tol, cap |-> Caps[tier], same |-> same, at |-> at]
      /\ search' = Start(ask')
      /\ asked' = [variable |-> variable, tier |-> tier, spent |-> spent]
      /\ UNCHANGED <<query, left, report, total, ranked, made>>
  BY DEF Ask
<1>2. ask'.cap = Caps[tier] /\ ask'.at = at /\ search'.used = 0
  BY <1>1 DEF Start
<1>3. /\ asked'.variable = variable /\ asked'.tier = tier /\ asked'.spent = spent
      /\ variable \in Variables
      /\ asked' \in [variable : Variables, tier : Tiers, spent : Nat]
  BY <1>1
<1>4. ~Idle'
  <2>1. variable # "none"
    BY <1>3 DEF Variables
  <2> QED
    BY <1>3, <2>1 DEF Idle, Nobody
<1>5. ReportTyped' /\ WantedAnswered'
  BY <1>1, ReportRests DEF ReportInv
<1>6. TurnKept'
  BY <1>1, <1>2, <1>3, <1>4 DEF TurnKept
<1>7. EvaluationsCounted'
  <2>1. total \in Nat /\ made \in Nat
    BY DEF ReportInv, EvaluationsCounted
  <2> QED
    BY <1>1, <1>2, <1>3, <1>4, <2>1 DEF EvaluationsCounted
<1>8. ranked = <<>>
  BY DEF ReportInv, RankedLast
<1> QED
  BY <1>1, <1>2, <1>5, <1>6, <1>7, <1>8 DEF ReportInv, RankedLast

LEMMA TurnReports ==
  ASSUME ReportInv, left \subseteq Variables,
         NEW variable, NEW tier \in Tiers, NEW base, NEW same, NEW at, DOMAIN at = Grid,
         Turn(variable), Ask(variable, tier, base, same, at, 0)
  PROVE  ReportInv'
<1>1. Idle /\ total > 0 /\ variable \in left
  BY DEF Turn
<1>2. total + 0 = 1 + made
  BY <1>1 DEF ReportInv, EvaluationsCounted
<1>3. 0 <= Caps["fleet_mix"]
  BY SweepAssumption DEF Tiers
<1> QED
  BY <1>1, <1>2, <1>3, AskReports

LEMMA EscalateReports ==
  ASSUME SweepInv, ReportInv, Escalate
  PROVE  ReportInv'
<1>1. PICK at \in OpenSignatures(query.base["term"]) :
        Ask("term", "full_quote", query.base["term"], "now", at, search.used)
  BY DEF Escalate
<1>2. DOMAIN at = Grid
  BY DEF OpenSignatures
<1>3. ~Idle /\ asked.variable = "term" /\ asked.tier = "fleet_mix"
  BY DEF Escalate, Escalates
<1>4. /\ asked.variable \in left /\ ask.cap = Caps["fleet_mix"]
      /\ asked.spent = 0
  BY <1>3 DEF ReportInv, TurnKept
<1>5. search.used \in Nat /\ search.used <= ask.cap
  BY DEF SweepInv, SearchInv, BudgetLeft, Search
<1>6. total \in Nat /\ total # 0 /\ total + asked.spent + search.used = 1 + made
  BY <1>3 DEF ReportInv, EvaluationsCounted
<1>7. total > 0 /\ total + search.used = 1 + made
  BY <1>4, <1>5, <1>6
<1>8. left \subseteq Variables /\ "full_quote" \in Tiers
  BY DEF SweepInv, Tiers
<1> QED
  BY <1>1, <1>2, <1>3, <1>4, <1>5, <1>7, <1>8, AskReports

LEMMA UnavailableReports ==
  ASSUME SweepInv, ReportInv, NEW variable, NEW tier \in Tiers, Unavailable(variable, tier)
  PROVE  ReportInv'
<1>1. /\ Idle /\ total > 0 /\ variable \in left
      /\ report' = Append(report, Finding(variable, tier, "UNAVAILABLE", 0, Unbounded, 0))
      /\ left' = left \ {variable}
      /\ UNCHANGED <<ask, search, query, asked, total, ranked, made>>
  BY DEF Unavailable, Turn
<1>2. variable \in Variables
  BY <1>1 DEF SweepInv
<1>3. PICK f : f = Finding(variable, tier, "UNAVAILABLE", 0, Unbounded, 0)
  OBVIOUS
<1>4. f \in Findings /\ f.variable = variable /\ f.tier = tier /\ f.used = 0
      /\ f.kind = "UNAVAILABLE"
  BY <1>2, <1>3 DEF Finding, Findings, Ends
<1>5. f.used <= MostUsed(f.variable, f.tier)
  <2>1. Caps[tier] \in Nat /\ Caps["fleet_mix"] \in Nat /\ Caps["full_quote"] \in Nat
    BY SweepAssumption DEF Tiers
  <2> QED
    BY <1>4, <2>1 DEF MostUsed
<1>6. ReportTyped' /\ WantedAnswered'
  BY <1>1, <1>3, <1>4, <1>5, AnswerReports DEF ReportInv, FlipsNamed
<1>7. TurnKept' /\ EvaluationsCounted'
  BY <1>1 DEF ReportInv, TurnKept, EvaluationsCounted, Idle
<1>8. RankedLast' /\ DOMAIN ask'.at = Grid
  BY <1>1 DEF ReportInv, RankedLast
<1> QED
  BY <1>6, <1>7, <1>8 DEF ReportInv

LEMMA CollectReports ==
  ASSUME SweepInv, ReportInv, Collect
  PROVE  ReportInv'
<1> DEFINE used == asked.spent + search.used
<1>1. PICK kind \in {"FRAGILE", "STABLE"} : kind = IF Found THEN "FRAGILE" ELSE "STABLE"
  OBVIOUS
<1>2. PICK f : f = Finding(asked.variable, asked.tier, kind, ask.base, search.hi, used)
  OBVIOUS
<1>3. /\ search.phase = "done" /\ ~Idle
      /\ report' = Append(report, f) /\ total' = total + used
      /\ left' = left \ {asked.variable} /\ asked' = Nobody
      /\ UNCHANGED <<ask, search, query, ranked, made>>
  BY <1>1, <1>2 DEF Collect
<1>4. /\ asked.variable \in left /\ asked.variable \in Variables
      /\ asked.tier \in Tiers /\ asked.spent \in Nat
      /\ ask.cap = Caps[asked.tier]
      /\ asked.spent # 0 => asked.variable = "term" /\ asked.tier = "full_quote"
      /\ asked.spent <= Caps["fleet_mix"]
  BY <1>3 DEF ReportInv, TurnKept
<1>5. /\ search.used \in Nat /\ search.used <= ask.cap /\ search.hi \in Ends
      /\ ask.base \in Int
  BY DEF SweepInv, SearchInv, BudgetLeft, Search, AskOK
<1>6. used \in Nat
  BY <1>4, <1>5
<1>7. /\ f.variable = asked.variable /\ f.tier = asked.tier /\ f.used = used
      /\ f.kind = kind /\ f.flip = search.hi
  BY <1>2 DEF Finding
<1>8. f \in Findings
  <2> HIDE DEF used
  <2> QED
    BY <1>2, <1>4, <1>5, <1>6 DEF Finding, Findings
<1>9. FlipsNamed(f)
  BY <1>1, <1>5, <1>7 DEF FlipsNamed, Found, Ends
<1>10. used <= MostUsed(asked.variable, asked.tier)
  <2>1. Caps[asked.tier] \in Nat /\ Caps["fleet_mix"] \in Nat /\ Caps["full_quote"] \in Nat
    BY <1>4, SweepAssumption DEF Tiers
  <2>2. CASE asked.variable = "term" /\ asked.tier = "full_quote"
    BY <1>4, <1>5, <2>1, <2>2 DEF MostUsed
  <2>3. CASE ~(asked.variable = "term" /\ asked.tier = "full_quote")
    <3>1. MostUsed(asked.variable, asked.tier) = Caps[asked.tier]
      BY <2>3, Zenon DEF MostUsed
    <3>2. asked.spent = 0
      BY <1>4, <2>3
    <3> QED
      BY <1>4, <1>5, <2>1, <3>1, <3>2
  <2> QED
    BY <2>2, <2>3
<1>11. ReportTyped' /\ WantedAnswered'
  BY <1>3, <1>4, <1>7, <1>8, <1>9, <1>10, AnswerReports DEF ReportInv
<1>12. Idle'
  BY <1>3 DEF Idle, Nobody
<1>13. TurnKept'
  BY <1>3, <1>12 DEF TurnKept
<1>14. EvaluationsCounted'
  <2>1. total \in Nat /\ made \in Nat /\ total # 0 /\ total + used = 1 + made
    BY <1>3, <1>4, <1>5 DEF ReportInv, EvaluationsCounted
  <2> QED
    BY <1>3, <1>6, <1>12, <2>1 DEF EvaluationsCounted
<1>15. RankedLast' /\ DOMAIN ask'.at = Grid
  BY <1>3, <1>4 DEF ReportInv, RankedLast
<1> QED
  BY <1>11, <1>13, <1>14, <1>15 DEF ReportInv

LEMMA SearchesReport ==
  ASSUME SweepInv, ReportInv, Searches, SearchInv'
  PROVE  ReportInv'
<1>1. /\ SearchStep /\ made' = made + (search'.used - search.used)
      /\ UNCHANGED <<query, left, asked, report, total, ranked>>
  BY DEF Searches
<1>2. UNCHANGED ask /\ search.phase # "done"
  BY <1>1 DEF SearchStep, ProbeUp, ProbeDown, Widen, Halve, Finish
<1>3. ~Idle
  BY <1>2 DEF ReportInv, TurnKept
<1>4. ~Idle'
  BY <1>1, <1>3 DEF Idle
<1>5. search.used \in Nat /\ search'.used \in Nat
  BY DEF SweepInv, SearchInv, Search
<1>6. ReportTyped' /\ WantedAnswered'
  BY <1>1, ReportRests DEF ReportInv
<1>7. TurnKept'
  BY <1>1, <1>2, <1>3, <1>4 DEF ReportInv, TurnKept
<1>8. EvaluationsCounted'
  <2>1. /\ total \in Nat /\ made \in Nat /\ total # 0 /\ asked.spent \in Nat
        /\ total + asked.spent + search.used = 1 + made
    BY <1>3 DEF ReportInv, EvaluationsCounted, TurnKept
  <2>2. total + asked.spent + search'.used = 1 + made'
    BY <1>1, <1>5, <2>1
  <2>3. made' \in Nat
    BY <1>1, <1>5, <2>1, <2>2
  <2> QED
    BY <1>1, <1>4, <2>1, <2>2, <2>3 DEF EvaluationsCounted
<1>9. RankedLast' /\ DOMAIN ask'.at = Grid
  BY <1>1, <1>2, <1>3 DEF ReportInv, RankedLast
<1> QED
  BY <1>6, <1>7, <1>8, <1>9 DEF ReportInv

(***************************************************************************)
(* For any queries, any register and any answers of the costlier tiers,     *)
(* what a report owes its reader holds at every step: a port lets a vessel  *)
(* in exactly if some berth in force fits it, and the berth named is a best *)
(* one that does; every variable wanted is answered once; total counts each *)
(* evaluation made once, a search given up included, within the caps; and   *)
(* the ranking is the report, nearest flips first.                          *)
(* (fragility/engine.py:170-345, ranking.py:37-66, berth_truth/service.py)  *)
(***************************************************************************)
THEOREM ReportsTellAll == Spec => []ReportTellsAll
<1>1. Init => ReportInv
  <2> SUFFICES ASSUME Init PROVE ReportInv
    OBVIOUS
  <2>1. /\ left = query.wanted /\ asked = Nobody /\ report = <<>> /\ total = 0
        /\ ranked = <<>> /\ made = 0 /\ ask = Rests
        /\ search = [Start(Rests) EXCEPT !.phase = "done"]
    BY DEF Init
  <2>2. search.phase = "done" /\ DOMAIN ask.at = Grid
    BY <2>1 DEF Start, Rests
  <2>3. Idle
    BY <2>1 DEF Idle
  <2>4. ReportTyped
    BY <2>1 DEF ReportTyped
  <2>5. WantedAnswered
    <3>1. query.wanted \ left = {} /\ Len(report) = 0 /\ DOMAIN report = {}
      BY <2>1
    <3> QED
      BY <2>1, <3>1, FS_EmptySet DEF WantedAnswered
  <2>6. TurnKept /\ EvaluationsCounted /\ RankedLast
    BY <2>1, <2>2, <2>3 DEF TurnKept, EvaluationsCounted, RankedLast
  <2> QED
    BY <2>2, <2>4, <2>5, <2>6 DEF ReportInv
<1>2. SweepInv /\ SweepInv' /\ ReportInv /\ [Next]_vars => ReportInv'
  <2> SUFFICES ASSUME SweepInv, SweepInv', ReportInv, [Next]_vars PROVE ReportInv'
    OBVIOUS
  <2>1. left \subseteq Variables /\ \A base : \A at \in OpenSignatures(base) : DOMAIN at = Grid
    BY DEF SweepInv, OpenSignatures
  <2>2. "closed_form" \in Tiers /\ "fleet_mix" \in Tiers /\ "full_quote" \in Tiers
    BY DEF Tiers
  <2>3. CASE Baseline
    <3>1. /\ total = 0 /\ total' = 1
          /\ UNCHANGED <<ask, search, query, left, asked, report, ranked, made>>
      BY <2>3 DEF Baseline
    <3>2. Idle /\ made = 0 /\ ranked = <<>>
      BY <3>1 DEF ReportInv, EvaluationsCounted, RankedLast
    <3>3. ReportTyped' /\ WantedAnswered'
      BY <3>1, ReportRests DEF ReportInv
    <3>4. TurnKept' /\ EvaluationsCounted' /\ RankedLast' /\ DOMAIN ask'.at = Grid
      BY <3>1, <3>2 DEF ReportInv, TurnKept, EvaluationsCounted, RankedLast, Idle
    <3> QED
      BY <3>3, <3>4 DEF ReportInv
  <2>4. CASE AskCargo
    <3>1. PICK at : /\ DOMAIN at = Grid /\ Turn("cargo")
                    /\ Ask("cargo", "closed_form", query.base["cargo"], TargetClass, at, 0)
      BY <2>4 DEF AskCargo
    <3> QED
      BY <2>1, <2>2, <3>1, TurnReports
  <2>5. CASE AskVesselDraft
    <3>1. PICK at, base, same :
            /\ DOMAIN at = Grid /\ Turn("vessel_draft")
            /\ Ask("vessel_draft", "closed_form", base, same, at, 0)
      BY <2>5 DEF AskVesselDraft
    <3> QED
      BY <2>1, <2>2, <3>1, TurnReports
  <2>6. CASE AskLimit
    <3>1. PICK at, base, same :
            /\ DOMAIN at = Grid /\ Turn("limit")
            /\ Ask("limit", "closed_form", base, same, at, 0)
      BY <2>6 DEF AskLimit
    <3> QED
      BY <2>1, <2>2, <3>1, TurnReports
  <2>7. CASE AskFleetMix
    <3>1. PICK at \in OpenSignatures(query.base["term"]) :
            /\ Turn("term")
            /\ Ask("term", "fleet_mix", query.base["term"], "now", at, 0)
      BY <2>7 DEF AskFleetMix
    <3> QED
      BY <2>1, <2>2, <3>1, TurnReports
  <2>8. CASE \E variable \in {"laycan", "risk"} : AskQuote(variable)
    <3>1. PICK variable : AskQuote(variable)
      BY <2>8
    <3>2. PICK at \in OpenSignatures(query.base[variable]) :
            /\ Turn(variable)
            /\ Ask(variable, "full_quote", query.base[variable], "now", at, 0)
      BY <3>1 DEF AskQuote
    <3> QED
      BY <2>1, <2>2, <3>2, TurnReports
  <2>9. CASE Escalate
    BY <2>9, EscalateReports
  <2>10. CASE UnavailableDraft \/ UnavailableWait
    BY <2>2, <2>10, UnavailableReports DEF UnavailableDraft, UnavailableWait
  <2>11. CASE Searches
    BY <2>11, SearchesReport DEF SweepInv
  <2>12. CASE Collect
    BY <2>12, CollectReports
  <2>13. CASE Rank
    <3>1. /\ Idle /\ total > 0 /\ left = {} /\ ranked' = RankFindings(report)
          /\ UNCHANGED <<ask, search, query, left, asked, report, total, made>>
      BY <2>13 DEF Rank
    <3>2. ReportTyped' /\ WantedAnswered'
      BY <3>1, ReportRests DEF ReportInv
    <3>3. TurnKept' /\ EvaluationsCounted' /\ Idle'
      BY <3>1 DEF ReportInv, TurnKept, EvaluationsCounted, Idle
    <3>4. RankFindings(report)' = RankFindings(report)
      BY <3>1
    <3>5. RankedLast'
      BY <3>1, <3>3, <3>4 DEF RankedLast
    <3> QED
      BY <3>1, <3>2, <3>3, <3>5 DEF ReportInv
  <2>14. CASE UNCHANGED vars
    <3>1. ReportTyped' /\ WantedAnswered'
      BY <2>14, ReportRests DEF ReportInv, vars
    <3>2. RankFindings(report)' = RankFindings(report)
      BY <2>14 DEF vars
    <3>3. TurnKept' /\ EvaluationsCounted' /\ RankedLast' /\ DOMAIN ask'.at = Grid
      BY <2>14, <3>2 DEF ReportInv, TurnKept, EvaluationsCounted, RankedLast, Idle, vars
    <3> QED
      BY <3>1, <3>3 DEF ReportInv
  <2> QED
    BY <2>3, <2>4, <2>5, <2>6, <2>7, <2>8, <2>9, <2>10, <2>11, <2>12, <2>13, <2>14 DEF Next
<1>3. SweepInv /\ ReportInv => ReportTellsAll
  <2> SUFFICES ASSUME SweepInv, ReportInv PROVE ReportTellsAll
    OBVIOUS
  <2>1. ClearsIffSomeBerthFits
    BY BerthsAgree DEF SweepInv
  <2>2. ranked # <<>> => Range(ranked) = Range(report) /\ InRank(ranked)
    BY RankingIs DEF ReportInv, RankedLast, ReportTyped
  <2>3. /\ report \in Seq(Findings)
        /\ \A i \in DOMAIN report :
             report[i] \in Findings
             /\ report[i].used <= MostUsed(report[i].variable, report[i].tier)
    BY DEF ReportInv, ReportTyped
  <2>4. TypeOK
    <3>1. /\ search \in Search
          /\ ask.base \in Int /\ ask.min \in Ends /\ ask.max \in Ends
          /\ ask.tol \in Nat \ {0} /\ ask.cap \in Nat \ {0} /\ DOMAIN ask.at = Grid
      BY DEF SweepInv, SearchInv, AskOK, ReportInv
    <3>2. left \subseteq query.wanted /\ total \in Nat /\ made \in Nat
      BY DEF ReportInv, WantedAnswered, EvaluationsCounted
    <3>3. asked \in [variable : Variables \cup {"none"}, tier : Tiers, spent : Nat]
      <4>1. CASE Idle
        BY <4>1 DEF Idle, Nobody, Tiers
      <4>2. CASE ~Idle
        BY <4>2 DEF ReportInv, TurnKept
      <4> QED
        BY <4>1, <4>2
    <3>4. Range(ranked) \subseteq Range(report)
      <4>1. CASE ranked = <<>>
        BY <4>1 DEF Range
      <4>2. CASE ranked # <<>>
        BY <2>2, <4>2
      <4> QED
        BY <4>1, <4>2
    <3> QED
      BY <2>3, <3>1, <3>2, <3>3, <3>4 DEF TypeOK
  <2>5. ReportIsComplete
    <3>1. Idle /\ total > 0 => total = 1 + made
      BY DEF ReportInv, EvaluationsCounted
    <3>2. \A i \in DOMAIN report :
            report[i].used <= IF report[i].variable = "term" /\ report[i].tier = "full_quote"
                              THEN Caps["fleet_mix"] + Caps["full_quote"]
                              ELSE Caps[report[i].tier]
      BY <2>3 DEF MostUsed
    <3>3. ASSUME ranked # <<>>
          PROVE  /\ Len(report) = Cardinality(query.wanted)
                 /\ {report[i].variable : i \in DOMAIN report} = query.wanted
                 /\ {ranked[i] : i \in DOMAIN ranked} = {report[i] : i \in DOMAIN report}
                 /\ InRank(ranked)
      <4>1. query.wanted \ left = query.wanted
        BY <3>3 DEF ReportInv, RankedLast
      <4>2. /\ Len(report) = Cardinality(query.wanted)
            /\ \A v : v \in query.wanted <=> \E i \in DOMAIN report : report[i].variable = v
        BY <4>1 DEF ReportInv, WantedAnswered
      <4>3. {report[i].variable : i \in DOMAIN report} = query.wanted
        BY <4>2
      <4>4. {ranked[i] : i \in DOMAIN ranked} = {report[i] : i \in DOMAIN report}
        BY <2>2, <3>3 DEF Range
      <4> QED
        BY <2>2, <3>3, <4>2, <4>3, <4>4
    <3> QED
      BY <3>1, <3>2, <3>3 DEF ReportIsComplete, InRank
  <2> QED
    BY <2>1, <2>4, <2>5 DEF ReportTellsAll
<1> QED
  BY <1>1, <1>2, <1>3, SweepInvHolds, PTL DEF Spec
=============================================================================
