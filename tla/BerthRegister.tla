---------------------------- MODULE BerthRegister ----------------------------
(***************************************************************************)
(* src/berth_truth: which berth of a port clears a vessel on a day, by the  *)
(* limits its documents publish (resolver.py, service.py), and the plain    *)
(* port limits where the register knows nothing (opt/voyage.py).            *)
(*                                                                         *)
(* A vessel is its four dimensions.  A limit no document states is          *)
(* Unpublished, and what is not published does not block.                   *)
(***************************************************************************)
EXTENDS Integers, SequencesExt

CONSTANTS Ports, Berths, Commodities, Unpublished

ASSUME UnpublishedAssumption == Unpublished \notin Int

Checks == {"draft", "loa", "beam", "size"}

Limit == Nat \cup {Unpublished}

Vessel == [Checks -> Nat]

\* A row of the register: one berth, by one document.
Row ==
  [port : Ports, berth : Berths, published : BOOLEAN,
   from : Nat, to : Limit, class : Commodities \cup {Unpublished},
   daily : BOOLEAN,             \* draft_source is DAILY_DECLARATION
   limit : [Checks -> Limit], displacement : Limit]

\* The last day of a row is not one of its days.
BadInForce(row, day) ==
  /\ row.from <= day
  /\ row.to = Unpublished \/ day < row.to

InForce(row, day) ==
  /\ row.from <= day
  /\ row.to = Unpublished \/ day <= row.to

\* 0 for a berth meant for the commodity (or no wish), 1 for any, 2 for another.
CommodityPriority(row, wanted) ==
  IF wanted = Unpublished \/ row.class = wanted THEN 0
  ELSE IF row.class = Unpublished THEN 1 ELSE 2

\* Deepest first, then largest displacement, then the rest.
CapacityKey(row) ==
  IF row.limit["draft"] # Unpublished THEN <<0, -row.limit["draft"]>>
  ELSE IF row.displacement # Unpublished THEN <<1, -row.displacement>>
  ELSE <<2, 0>>

\* The order of resolve_constraint's stable sort.
Before(r, s, wanted) ==
  LET rKey == <<CommodityPriority(r, wanted)>> \o CapacityKey(r)
      sKey == <<CommodityPriority(s, wanted)>> \o CapacityKey(s)
  IN  \E k \in 1 .. 3 : rKey[k] < sKey[k] /\ \A j \in 1 .. (k - 1) : rKey[j] = sKey[j]

\* The members of S, the k-th of them led by k - 1 others.
InOrder(S, Leads(_, _)) ==
  [k \in 1 .. Cardinality(S) |->
     CHOOSE x \in S : Cardinality({y \in S : Leads(y, x)}) = k - 1]

\* The rows of a sequence at some of its places, in the order they have there.
Along(rows, order) == [k \in DOMAIN order |-> rows[order[k]]]

RowsAt(rows, places) == Along(rows, InOrder(places, <))

\* The rows of a port in force, published or observed only, in register order.
RowsInForce(registry, port, day, published) ==
  RowsAt(registry, {i \in DOMAIN registry :
           /\ registry[i].port = port /\ InForce(registry[i], day)
           /\ registry[i].published = published})

Preferred(rows, wanted) ==
  LET First(i, j) == \/ Before(rows[i], rows[j], wanted)
                     \/ i < j /\ ~Before(rows[j], rows[i], wanted)
  IN  Along(rows, InOrder(DOMAIN rows, First))

Candidates(registry, port, wanted, day) ==
  Preferred(RowsInForce(registry, port, day, TRUE), wanted)

(***************************************************************************)
(* The limit a berth is tested by.  A draft that is declared day by day is  *)
(* looked up in declarations, and the check hands none over.                *)
(***************************************************************************)
ResolvedLimit(row, check) ==
  IF check = "draft" /\ row.daily THEN Unpublished ELSE row.limit[check]

Clears(row, vessel) ==
  \A check \in Checks :
    LET limit == ResolvedLimit(row, check)
    IN  limit # Unpublished => vessel[check] <= limit

Margin(limit, dimension) == IF limit = Unpublished THEN Unpublished ELSE limit - dimension

Verdict(feasible, berth, source, limit, vessel) ==
  [feasible |-> feasible, berth |-> berth, source |-> source,
   margin |-> Margin(limit, vessel["draft"])]

Nothing == [feasible |-> FALSE, berth |-> Unpublished, source |-> "NOTHING",
            margin |-> Unpublished]

(***************************************************************************)
(* check_vessel_against_register: the first candidate that clears, else the *)
(* first there is; berths without a citable limit never clear.              *)
(***************************************************************************)
CheckVessel(registry, port, wanted, day, vessel) ==
  LET candidates == Candidates(registry, port, wanted, day)
      cleared    == SelectInSeq(candidates, LAMBDA row : Clears(row, vessel))
      chosen     == candidates[IF cleared = 0 THEN 1 ELSE cleared]
  IN  IF candidates # <<>>
      THEN Verdict(cleared # 0, chosen.berth, "REGISTER", ResolvedLimit(chosen, "draft"), vessel)
      ELSE IF RowsInForce(registry, port, day, FALSE) # <<>>
           THEN [Nothing EXCEPT !.source = "REGISTER"]
           ELSE Nothing

(***************************************************************************)
(* _vessel_can_call: the register where it has anything on the port, else   *)
(* the port's own limits, `legacy`.                                         *)
(***************************************************************************)
PortVerdict(legacy, port, vessel) ==
  Verdict(\A check \in Checks :
            legacy[port][check] # Unpublished => vessel[check] <= legacy[port][check],
          Unpublished, "PORTENUM_FALLBACK", legacy[port]["draft"], vessel)

VesselCanCall(registry, legacy, port, wanted, day, vessel) ==
  LET verdict == CheckVessel(registry, port, wanted, day, vessel)
  IN  IF verdict.source # "NOTHING" THEN verdict ELSE PortVerdict(legacy, port, vessel)
=============================================================================
