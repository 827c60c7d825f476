----------------------------- MODULE FlipSearch -----------------------------
(***************************************************************************)
(* src/fragility/search.py: how far a value can move before a decision      *)
(* changes.  A ladder of probes, one up and one down a round, each round    *)
(* twice as far, until a probe changes the decision; then bisection of the  *)
(* last rung, all against one budget of evaluations.                        *)
(*                                                                         *)
(* A value is an integer, a tolerance two or more of them.  `ask.at` says   *)
(* what an evaluation at a value answers, `ask.same` the signature that     *)
(* answers are compared with.                                               *)
(***************************************************************************)
EXTENDS Integers

CONSTANT Unbounded      \* no min_value, or no max_value

ASSUME UnboundedAssumption == Unbounded \notin Int

VARIABLES
  ask,      \* the question: [base, min, max, tol, cap, same, at]
  search    \* the search for its answer

searchVars == <<ask, search>>

Distance(x, y) == IF x <= y THEN y - x ELSE x - y

\* The fields a signature differs in: none, or some.
Differs(x) == ask.at[x] # ask.same

Ends == Int \cup {Unbounded}

(***************************************************************************)
(* up and down are the furthest values known not to change the decision,    *)
(* upEnd and downEnd the first found to change it, lo and hi the rung that  *)
(* is bisected: hi changes the decision.                                    *)
(***************************************************************************)
Search ==
  [phase : {"up", "down", "widen", "halve", "done"},
   step : Int, used : Nat, progressed : BOOLEAN,
   up : Int, upHit : BOOLEAN, upEnd : Ends,
   down : Int, downHit : BOOLEAN, downEnd : Ends,
   lo : Int, hi : Ends]

FirstStep(q) == 8 * q.tol

Start(q) ==
  [phase |-> "up", step |-> FirstStep(q), used |-> 0, progressed |-> FALSE,
   up |-> q.base, upEnd |-> Unbounded,
   upHit |-> q.min # Unbounded /\ q.max # Unbounded /\ q.max = q.base,
   down |-> q.base, downEnd |-> Unbounded,
   downHit |-> q.min # Unbounded /\ q.min = q.base,
   lo |-> q.base, hi |-> Unbounded]

\* The ladder's foothold moves on to a rung that changes the decision.
BadProbeUp ==
  /\ search.phase = "up"
  /\ LET far     == ask.base + search.step
         beyond  == ask.max # Unbounded /\ far >= ask.max
         rung    == IF beyond THEN ask.max ELSE far
         probes  == ~search.upHit /\ rung > search.up
         changes == probes /\ Differs(rung)
     IN  search' = [search EXCEPT
           !.phase = "down",
           !.upHit = @ \/ beyond,
           !.progressed = probes,
           !.used = IF probes THEN @ + 1 ELSE @,
           !.up = IF probes THEN rung ELSE @,
           !.upEnd = IF changes THEN rung ELSE @]
  /\ UNCHANGED ask

(***************************************************************************)
(* One probe upward.  A rung beyond max_value stops at it and ends the      *)
(* upward ladder; a rung that does not lead further up is not evaluated.    *)
(***************************************************************************)
ProbeUp ==
  /\ search.phase = "up"
  /\ LET far     == ask.base + search.step
         beyond  == ask.max # Unbounded /\ far >= ask.max
         rung    == IF beyond THEN ask.max ELSE far
         probes  == ~search.upHit /\ rung > search.up
         changes == probes /\ Differs(rung)
     IN  search' = [search EXCEPT
           !.phase = "down",
           !.upHit = @ \/ beyond,
           !.progressed = probes,
           !.used = IF probes THEN @ + 1 ELSE @,
           !.up = IF probes /\ ~changes THEN rung ELSE @,
           !.upEnd = IF changes THEN rung ELSE @]
  /\ UNCHANGED ask

\* One probe downward, even when the one upward has just changed the decision.
ProbeDown ==
  /\ search.phase = "down"
  /\ LET far     == ask.base - search.step
         open    == ~search.downHit /\ search.used < ask.cap
         beyond  == ask.min # Unbounded /\ far <= ask.min
         rung    == IF beyond THEN ask.min ELSE far
         probes  == open /\ rung < search.down
         changes == probes /\ Differs(rung)
     IN  search' = [search EXCEPT
           !.phase = "widen",
           !.downHit = @ \/ (open /\ beyond),
           !.progressed = @ \/ probes,
           !.used = IF probes THEN @ + 1 ELSE @,
           !.down = IF probes /\ ~changes THEN rung ELSE @,
           !.downEnd = IF changes THEN rung ELSE @]
  /\ UNCHANGED ask

(***************************************************************************)
(* The end of a round: another one twice as far, or the ladder ends.  Of    *)
(* two rungs found in one round the upper one is taken.                     *)
(***************************************************************************)
BadLadderGoesOn ==          \* a flip below does not end the ladder
  /\ search.progressed
  /\ ~(search.upHit /\ search.downHit)
  /\ search.used < ask.cap
  /\ search.upEnd = Unbounded

LadderGoesOn ==
  /\ search.progressed
  /\ ~(search.upHit /\ search.downHit)
  /\ search.used < ask.cap
  /\ search.upEnd = Unbounded
  /\ search.downEnd = Unbounded

Widen ==
  /\ search.phase = "widen"
  /\ search' = [search EXCEPT
       !.step = 2 * @,
       !.progressed = FALSE,
       !.phase = IF LadderGoesOn THEN "up" ELSE "halve",
       !.lo = IF search.upEnd # Unbounded THEN search.up
              ELSE IF search.downEnd # Unbounded THEN search.down ELSE @,
       !.hi = IF search.upEnd # Unbounded THEN search.upEnd ELSE search.downEnd]
  /\ UNCHANGED ask

Found == search.hi # Unbounded

Bisects == Found /\ Distance(search.lo, search.hi) > ask.tol /\ search.used < ask.cap

BadHalve ==                 \* the halves are taken the wrong way round
  /\ search.phase = "halve"
  /\ Bisects
  /\ LET mid == (search.lo + search.hi) \div 2
     IN  search' = [search EXCEPT
           !.used = @ + 1,
           !.hi = IF Differs(mid) THEN @ ELSE mid,
           !.lo = IF Differs(mid) THEN mid ELSE @]
  /\ UNCHANGED ask

Halve ==
  /\ search.phase = "halve"
  /\ Bisects
  /\ LET mid == (search.lo + search.hi) \div 2
     IN  search' = [search EXCEPT
           !.used = @ + 1,
           !.hi = IF Differs(mid) THEN mid ELSE @,
           !.lo = IF Differs(mid) THEN @ ELSE mid]
  /\ UNCHANGED ask

Finish ==
  /\ search.phase = "halve"
  /\ ~Bisects
  /\ search' = [search EXCEPT !.phase = "done"]
  /\ UNCHANGED ask

SearchStep == ProbeUp \/ ProbeDown \/ Widen \/ Halve \/ Finish

-----------------------------------------------------------------------------
(***************************************************************************)
(* Properties.                                                             *)
(***************************************************************************)
\* The decision at the base is the one the answers are compared with.
BaseAgrees == ~Differs(ask.base)

\* search.py's assumption: on a ray from the base a decision changes once.
OneBoundaryARay ==
  \A x \in DOMAIN ask.at :
    Differs(x) => /\ (x >= ask.base /\ x + 1 \in DOMAIN ask.at) => Differs(x + 1)
                  /\ (x <= ask.base /\ x - 1 \in DOMAIN ask.at) => Differs(x - 1)

(***************************************************************************)
(* The flip reported changes the decision; beside it, within the tolerance  *)
(* unless the budget ran out, is a value that does not (or the base); and   *)
(* the budget is kept.                                                      *)
(***************************************************************************)
FlipStraddles ==
  /\ search.used <= ask.cap
  /\ Found => /\ Differs(search.hi)
              /\ search.lo = ask.base \/ ~Differs(search.lo)
  /\ (search.phase = "done" /\ Found) =>
       \/ Distance(search.lo, search.hi) <= ask.tol
       \/ search.used = ask.cap

(***************************************************************************)
(* No value of the range reported as searched changes the decision, so none *)
(* lies between the base and a rung passed over; and without a flip, a      *)
(* budget that did not run out means the whole range allowed was searched.  *)
(***************************************************************************)
RangeIsClear ==
  /\ \/ \A x \in (search.down .. search.up) \cap DOMAIN ask.at : ~Differs(x)
     \/ ~(BaseAgrees /\ OneBoundaryARay)
  /\ (search.phase = "done" /\ ~Found /\ search.used < ask.cap) =>
       /\ ask.max # Unbounded /\ search.up >= ask.max
       /\ ask.min # Unbounded /\ search.down <= ask.min

(***************************************************************************)
(* search_flip promises the nearest flip.  As both sides are probed in turn *)
(* no change of the decision in the range allowed is twice as near, except  *)
(* within the first rung, where the upper side is taken whatever the lower  *)
(* one holds.                                                               *)
(***************************************************************************)
Allowed(x) ==
  /\ ask.min = Unbounded \/ x >= ask.min
  /\ ask.max = Unbounded \/ x <= ask.max

NearestWithinARung ==
  (search.phase = "done" /\ Found /\ BaseAgrees /\ OneBoundaryARay) =>
    \A x \in DOMAIN ask.at :
      Allowed(x) /\ Differs(x) =>
        \/ Distance(ask.base, search.hi) <= 2 * Distance(ask.base, x)
        \/ Distance(ask.base, search.hi) <= FirstStep(ask)

(***************************************************************************)
(* What the search says of values it never tried: none it passed over       *)
(* changes the decision, and of those that do none is much nearer.          *)
(***************************************************************************)
NothingIsPassedOver == RangeIsClear /\ NearestWithinARung
=============================================================================
