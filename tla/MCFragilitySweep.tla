-------------------------- MODULE MCFragilitySweep --------------------------
(***************************************************************************)
(* A vessel of draft 24 between a port the register covers and one it does  *)
(* not; registers of at most two rows; one variable of a costlier tier a    *)
(* sweep.                                                                   *)
(***************************************************************************)
EXTENDS FragilitySweep

CONSTANTS dhamra, haldia, b1, b2, coal, ore

MCPorts == {dhamra, haldia}
MCBerths == {b1, b2}
MCCommodities == {coal, ore}
MCGrid == 0 .. 50
MCClassLimits == <<10, 18, 26, 40>>
MCScope == [v \in Variables |->
  CASE v = "laycan" -> [min |-> 1, max |-> 40]
    [] v = "risk"   -> [min |-> 0, max |-> 32]
    [] v = "term"   -> [min |-> 2, max |-> 46]
    [] OTHER        -> [min |-> 1, max |-> 48]]
MCCaps == [tier \in Tiers |->
  CASE tier = "closed_form" -> 14 [] tier = "fleet_mix" -> 9 [] tier = "full_quote" -> 6]

Limits(draft, loa) ==
  [check \in Checks |-> CASE check = "draft" -> draft [] check = "loa" -> loa
                          [] OTHER -> Unpublished]
MCLegacy == [p \in MCPorts |-> Limits(30, Unpublished)]

\* A row, in force or not, published, declared daily or only observed.
RowOf(berth, status, depth, loa, class) ==
  [port |-> dhamra, berth |-> berth, published |-> status # "observed",
   from |-> CASE status = "future" -> 3 [] status = "today" -> 2 [] OTHER -> 0,
   to |-> CASE status = "past" -> 1 [] status = "today" -> 2 [] OTHER -> Unpublished,
   class |-> class, daily |-> status = "daily",
   limit |-> Limits(IF status = "daily" THEN Unpublished ELSE depth.draft, loa),
   displacement |-> depth.displacement]

Depths == {[draft |-> 20, displacement |-> Unpublished],
           [draft |-> 40, displacement |-> Unpublished],
           [draft |-> Unpublished, displacement |-> Unpublished],
           [draft |-> Unpublished, displacement |-> 7]}
Rows(berth, statuses) ==
  {RowOf(berth, status, depth, loa, class) :
     status \in statuses,
     depth \in Depths, loa \in {Unpublished, 4}, class \in {Unpublished, coal}}
Single == Rows(b1, {"open", "today", "past", "future", "daily", "observed"})
FirstRows == {row \in Rows(b1, {"open", "past", "daily", "observed"}) :
            row.limit["loa"] = Unpublished}
SecondRows == Rows(b2, {"open", "today", "future", "daily", "observed"})
Registers == {<<>>} \cup {<<r>> : r \in Single}
             \cup {<<r, s>> : r \in FirstRows, s \in SecondRows}

QueryOf(wanted, commodity, registry, origin, small) ==
  [wanted |-> wanted, origin |-> origin, dest |-> dhamra, commodity |-> commodity,
   day |-> 2, registry |-> registry,
   vessel |-> [check \in Checks |-> CASE check = "draft" -> 24 [] OTHER -> 5],
   base |-> [v \in Variables |->
     CASE v = "cargo" -> (IF small THEN 12 ELSE 44)
       [] v = "risk" -> (IF small THEN 0 ELSE 16)
       [] v = "laycan" -> (IF small THEN 0 ELSE 20)
       [] OTHER -> 24]]

MCQueries ==
  {QueryOf({"vessel_draft", "limit"}, c, r, dhamra, TRUE) : c \in {coal, ore}, r \in Registers}
  \cup {QueryOf({"vessel_draft", "limit", "origin_wait"}, Unpublished, r, haldia, TRUE) :
          r \in {<<row>> : row \in Single}}
  \cup {QueryOf(wanted, coal, <<>>, haldia, small) :
          wanted \in {{"cargo", "risk", "dest_wait"}, {"cargo", "laycan"}, {"term", "limit"}},
          small \in BOOLEAN}
=============================================================================
