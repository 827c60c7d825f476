------------------------------ MODULE FleetMix ------------------------------
(***************************************************************************)
(* Which vessel classes can move a cargo, and what is offered when none    *)
(* can: src/opt/fleetmix.py (enumerate_fleet_mix), src/opt/feasibility.py  *)
(* and the envelope around a quote (quote_envelope of src/opt/quote.py),   *)
(* which solves as asked, then with a wider laycan, then with a part load  *)
(* and transshipment allowed.                                              *)
(*                                                                         *)
(* A port's register is asked through BerthRegister; a cargo's price is    *)
(* its rank among the classes.                                             *)
(***************************************************************************)
EXTENDS BerthRegister, FiniteSetsExt, Functions

CONSTANTS
  Lifts,          \* requests: tonnes, ports, charter day, laycan end, term, register
  Classes,        \* the vessel classes
  HullOf,         \* the dimensions of a class's reference vessel; size is its dwt
  Hub,            \* TRANSSHIPMENT_HUB: the deep port next to a shallow one, or Unpublished
  SeaMiles,       \* the distance of a pair of ports, or Unpublished
  DraftTolerance, SizeTolerance,   \* the part load allowed: metres, percent
  MostLoads, LongestTerm           \* what a single lot and a charter can be

ASSUME FleetMixAssumption ==
  /\ HullOf \in [Classes -> Vessel] /\ \A c \in Classes : HullOf[c]["size"] > 0
  /\ Unpublished \notin Ports /\ Hub \in [Ports -> Ports \cup {Unpublished}]
  /\ SeaMiles \in [Ports -> [Ports -> Limit]]
  /\ {DraftTolerance, SizeTolerance, MostLoads, LongestTerm} \subseteq Nat

ASSUME LiftsAssumption ==
  Lifts \subseteq
    [tonnes : Nat, from : Ports, to : Ports, day : Nat, closes : Nat, term : Nat, today : Nat,
     priced : SUBSET Classes, legacy : [Ports -> [Checks -> Limit]], registry : Seq(Row)]

VARIABLES
  lift,       \* the request, or NoLift
  attempt,    \* 0 as asked, 1 laycan widened, 2 part load and transshipment
  offers,     \* the configurations of the last solve
  envelope    \* the status answered, or "open"

fleetVars == <<lift, attempt, offers, envelope>>

NoLift == [tonnes |-> 0]

FleetInit == lift = NoLift /\ attempt = 0 /\ offers = {} /\ envelope = "open"

-----------------------------------------------------------------------------
(* Whether a hull may call (_can_call).  No day is handed on, so the       *)
(* register is asked as of today, whatever the charter day is.  A part     *)
(* load is measured against the berth the register names, the first        *)
(* candidate, or the plain limits.                                         *)
Strictly(port, hull) ==
  VesselCanCall(lift.registry, lift.legacy, port, Unpublished, lift.today, hull).feasible

BerthLimits(port) ==
  LET rows == Candidates(lift.registry, port, Unpublished, lift.today)
  IN  IF rows # <<>> THEN Head(rows).limit ELSE lift.legacy[port]

Within(limit, value) == limit = Unpublished \/ value <= limit

BadPartLoaded(limits, hull) ==
  /\ limits["draft"] # Unpublished => hull["draft"] <= limits["draft"] + DraftTolerance
  /\ limits["size"] # Unpublished =>
       hull["size"] * 100 <= limits["size"] * (100 + SizeTolerance)

PartLoaded(limits, hull) ==
  /\ limits["draft"] # Unpublished => hull["draft"] <= limits["draft"] + DraftTolerance
  /\ limits["size"] # Unpublished =>
       hull["size"] * 100 <= limits["size"] * (100 + SizeTolerance)
  /\ Within(limits["loa"], hull["loa"]) /\ Within(limits["beam"], hull["beam"])

BadCanCall(port, hull, relaxed) ==
  IF relaxed THEN PartLoaded(BerthLimits(port), hull) ELSE Strictly(port, hull)

CanCall(port, hull, relaxed) ==
  Strictly(port, hull) \/ (relaxed /\ PartLoaded(BerthLimits(port), hull))

-----------------------------------------------------------------------------
(* One configuration per class, or none (enumerate_fleet_mix).             *)
Count(class) == (lift.tonnes + HullOf[class]["size"] - 1) \div HullOf[class]["size"]

Known(a, b) == SeaMiles[a][b] # Unpublished

\* The ports each class may call at.
Calls(relaxed) ==
  [class \in Classes |-> {port \in Ports : CanCall(port, HullOf[class], relaxed)}]

\* The port nearest to the destination of those that take the hull.
NearestHub(ports) ==
  LET hubs == {port \in ports \ {lift.from, lift.to} :
                 Known(port, lift.to) /\ Known(lift.from, port)}
  IN  CHOOSE hub \in hubs \cup {Unpublished} :
        IF hubs = {} THEN hub = Unpublished
        ELSE hub \in hubs /\ \A port \in hubs : SeaMiles[hub][lift.to] <= SeaMiles[port][lift.to]

\* A mapped hub is the only one tried, whether or not it takes the hull.
HubFor(ports, relaxed) ==
  IF Hub[lift.to] = Unpublished /\ relaxed THEN NearestHub(ports) ELSE Hub[lift.to]

\* Where a class that may call at ports discharges, or Unpublished.
Discharge(ports, relaxed) ==
  IF lift.to \in ports THEN lift.to
  ELSE IF HubFor(ports, relaxed) \in ports THEN HubFor(ports, relaxed) ELSE Unpublished

Serves(class, ports, relaxed) ==
  /\ lift.from \in ports /\ class \in lift.priced
  /\ Discharge(ports, relaxed) # Unpublished
  /\ Known(lift.from, Discharge(ports, relaxed))

FleetMixOf(calls, relaxed) ==
  {[class |-> class, ships |-> Count(class), at |-> Discharge(calls[class], relaxed),
    transship |-> Discharge(calls[class], relaxed) # lift.to] :
     class \in {c \in Classes : Serves(c, calls[c], relaxed)}}

-----------------------------------------------------------------------------
(* Inputs that no answer exists for (check_structural).                    *)
Largest == CHOOSE c \in Classes : \A d \in Classes : HullOf[d]["size"] <= HullOf[c]["size"]

StructuralProblems ==
  {problem \in {"volume", "route", "laycan", "term"} :
     CASE problem = "volume" -> Count(Largest) > MostLoads
       [] problem = "route"  -> ~Known(lift.from, lift.to)
       [] problem = "laycan" -> lift.closes < lift.day
       [] problem = "term"   -> lift.term > LongestTerm}

AskLift ==
  /\ lift = NoLift
  /\ lift' \in Lifts
  /\ UNCHANGED <<attempt, offers, envelope>>

RefuseLift ==
  /\ lift # NoLift /\ envelope = "open" /\ attempt = 0
  /\ StructuralProblems # {}
  /\ envelope' = "structural_infeasible"
  /\ UNCHANGED <<lift, attempt, offers>>

\* The laycan is no argument of the fleet mix: widening it repeats the first solve.
SolveLift ==
  /\ lift # NoLift /\ envelope = "open" /\ attempt <= 2
  /\ attempt = 0 => StructuralProblems = {}
  /\ \E calls \in {Calls(attempt = 2)} :
       LET found == FleetMixOf(calls, attempt = 2)
       IN  /\ offers' = found
           /\ envelope' = IF found = {} THEN (IF attempt = 2 THEN "structural_infeasible" ELSE "open")
                          ELSE IF attempt = 0 THEN "feasible" ELSE "contingent_infeasible"
  /\ attempt' = IF envelope' = "open" THEN attempt + 1 ELSE attempt
  /\ UNCHANGED lift

DeliverLift ==
  /\ envelope # "open"
  /\ lift' = NoLift /\ attempt' = 0 /\ offers' = {} /\ envelope' = "open"

FleetNext == AskLift \/ RefuseLift \/ SolveLift \/ DeliverLift

-----------------------------------------------------------------------------
(***************************************************************************)
(* Properties                                                              *)
(***************************************************************************)
\* The published berths in force at a port today, and the plain limits where
\* the register knows nothing of it: what a hull must fit into one of.
PlacesAt(port) ==
  LET rows == {row \in Range(lift.registry) : /\ row.port = port /\ row.published
                                              /\ InForce(row, lift.today)}
  IN  IF rows = {} THEN {lift.legacy[port]}
      ELSE {[check \in Checks |-> ResolvedLimit(row, check)] : row \in rows}

(* Whatever is offered can be done: the ships of a configuration carry the *)
(* whole cargo and none of them sails for nothing, each end of its voyage  *)
(* has one berth, in force today, that takes the hull in every dimension   *)
(* at once, within the tolerance and only on the last attempt, length and  *)
(* beam never loosened, and the cargo goes to a hub only where the hull    *)
(* cannot reach the port asked for.                                        *)
OffersCanBerth ==
  \A offer \in offers :
    LET hull  == HullOf[offer.class]
        slack == IF attempt = 2 THEN [draft |-> DraftTolerance, size |-> SizeTolerance]
                 ELSE [draft |-> 0, size |-> 0]
        Takes(port) ==
          \E limits \in PlacesAt(port) : \A check \in Checks :
            limits[check] # Unpublished =>
              CASE check \in {"loa", "beam"} -> hull[check] <= limits[check]
                [] check = "draft" -> hull["draft"] - limits["draft"] <= slack.draft
                [] check = "size"  ->
                     100 * (hull["size"] - limits["size"]) <= slack.size * limits["size"]
    IN  /\ Takes(lift.from) /\ Takes(offer.at)
        /\ offer.ships * hull["size"] >= lift.tonnes
        /\ (offer.ships - 1) * hull["size"] < lift.tonnes
        /\ offer.transship => ~Strictly(lift.to, hull)

(* Loosening loses nobody: a class that could serve the cargo as asked     *)
(* could serve it with a part load and transshipment allowed, so the       *)
(* status tells how far the request had to be bent and nothing else.       *)
LooseningLosesNobody ==
  lift # NoLift /\ StructuralProblems = {} =>
    \A asked \in {Calls(FALSE)}, loosened \in {Calls(TRUE)}, class \in Classes :
      Serves(class, asked[class], FALSE) => Serves(class, loosened[class], TRUE)

(* What a fleet mix promises: its offers can berth, and bending the        *)
(* request further never takes an offer away.                              *)
EnvelopeIsSound == OffersCanBerth /\ LooseningLosesNobody
=============================================================================
