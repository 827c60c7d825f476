--------------------------- MODULE MCDeskRecords ---------------------------
(***************************************************************************)
(* What the desk keeps, with the scripts that fill it and the routes that  *)
(* read and change it: accounts, outcomes and watches behind the roles of  *)
(* the routes; the archive of schedule pages; the calls at two ports; the  *)
(* radar scenes; their census; the vintages of the series.  A behaviour is *)
(* about one record, and the others stay empty.                            *)
(***************************************************************************)
EXTENDS PortCalls, PortArchive, SceneHarvest, AnchorageCensus, VintageStore,
        DeskRoutes, TLC

CONSTANTS PD, DH, B1, B2, H1, H2, H3, S1, S2, Coal, Oil, p1, p2, c1, c2

VARIABLE record      \* the record this behaviour is about

-----------------------------------------------------------------------------
(* Three reports on two ports: a ship listed twice, her figures filled in  *)
(* by the later report, a further cargo, merged cells, a name not read.    *)
Line(kind, ship, times, cargo, rate, sound) ==
  [kind |-> kind, ship |-> ship, arrived |-> times[1], berthed |-> times[2], draft |-> times[3],
   cargo |-> cargo, rate |-> rate, sound |-> sound]

Further(cargo, rate) == Line("further", Unread, <<Unread, Unread, Unread>>, cargo, rate, TRUE)

MCReports ==
  (H1 :> [port |-> PD, date |-> 12,
          lines |-> <<Line("vessel", S1, <<11, Unread, 13>>, {Coal}, 0, TRUE),
                      Further({Oil}, 7),
                      Line("vessel", Unread, <<10, 11, 13>>, {Coal}, 0, TRUE)>>])
  @@ (H2 :> [port |-> PD, date |-> 14,
             lines |-> <<Line("vessel", S1, <<11, 13, 13>>, {Coal}, 5, TRUE),
                         Line("vessel", S2, <<12, 13, 9>>, {Coal}, 4, TRUE)>>])
  @@ (H3 :> [port |-> PD, date |-> 13,
             lines |-> <<Line("merged", Unread, <<Unread, Unread, Unread>>, {}, Unread, TRUE),
                         Line("vessel", S2, <<12, 12, 9>>, {Coal}, 6, TRUE)>>])

Limits(draft, loa) ==
  [check \in Checks |-> IF check = "draft" THEN draft ELSE IF check = "loa" THEN loa ELSE Unpublished]

Berth(berth, draft, loa, daily, published) ==
  [port |-> DH, berth |-> berth, published |-> published, from |-> 0, to |-> Unpublished,
   class |-> Unpublished, daily |-> daily, limit |-> Limits(draft, loa),
   displacement |-> Unpublished]

MCRegistry == <<Berth(B1, 14, 200, FALSE, TRUE), Berth(B2, Unpublished, 300, TRUE, TRUE)>>

MCPortLimits == [port \in Ports |-> Limits(12, 250)]

MCTideOf ==
  (B1 :> [rule |-> TRUE, allowance |-> FALSE, current |-> TRUE])
  @@ (B2 :> [rule |-> FALSE, allowance |-> FALSE, current |-> TRUE])

Question(port, draft, loa, laden, named) ==
  [port |-> port, wanted |-> Unpublished, named |-> named, day |-> 12, cape |-> TRUE,
   laden |-> laden, vessel |-> [Limits(draft, loa) EXCEPT !["beam"] = 1, !["size"] = 1]]

MCQuestions ==
  {Question(PD, 13, 200, FALSE, TRUE), Question(DH, 13, 190, FALSE, FALSE),
   Question(DH, 13, 190, TRUE, FALSE), Question(DH, 13, 250, FALSE, FALSE)}

-----------------------------------------------------------------------------
(* Radar scenes: two boxes that share a scene; ships of two strengths on a *)
(* calm sea, on the middle row, and every such row as a trial.             *)
MCBoxes == <<{1, 2}, {2, 3}>>

MCPortOf == <<PD, PD, DH>>
MCDays == <<1, 2, 2>>
Sea(row) == [c \in (1..3) \X (1..8) |-> IF c[1] # 2 THEN 1 ELSE row[c[2]]]
MCRaster ==
  <<Sea(<<1, 6, 1, 6, 1, 3, 1, 1>>), Sea(<<1, 6, 6, 3, 1, 6, 1, 6>>), Sea(<<1, 3, 1, 1, 1, 1, 6, 1>>)>>
MCTrials == {Sea(<<1>> \o row \o <<1, 1>>) : row \in [1..5 -> {1, 3, 6}]}
MCSettings == {[box |-> Null, area |-> 1], [box |-> <<1, 3, 2, 5>>, area |-> 2]}
MCPortWatch == [port \in AnchoragePorts |-> IF port = PD THEN <<4, 7>> ELSE <<5>>]
MCSpacing == <<1, 1>>

-----------------------------------------------------------------------------
(* Routes: one caller of any route, and one who changes accounts.          *)
MCCallers == [call \in Requests |-> IF call = c1 THEN Routes ELSE {"patch_user"}]
MCSymmetry == Permutations(People)

-----------------------------------------------------------------------------
\* A client either pages or asks one question.
OneClient ==
  /\ reports' = <<>> \/ reader'.port = Unread
  /\ Cardinality(DOMAIN reports') <= 1 /\ reader'.port # DH

\* On an open desk the requests come one at a time.
OneCaller == AUTH_ENFORCED \/ \E r \in Requests : request'[r] = Idle

RecordsInit ==
  /\ record \in {"accounts", "pages", "calls", "scenes", "census", "vintage"}
  /\ CallsInit /\ ArchiveInit /\ ScenesInit /\ AnchorageInit /\ VintageInit /\ RoutesInit
  /\ record # "vintage" => source = CHOOSE v \in Versions : TRUE
  /\ record # "accounts" => AUTH_ENFORCED

RecordsNext ==
  /\ UNCHANGED record
  /\ \/ record = "accounts" /\ RoutesNext /\ OneCaller
        /\ UNCHANGED <<archiveVars, callsVars, sceneVars, anchorageVars, vintageVars>>
     \/ record = "pages" /\ ArchiveNext
        /\ UNCHANGED <<routesVars, callsVars, sceneVars, anchorageVars, vintageVars>>
     \/ record = "calls" /\ CallsNext /\ OneClient
        /\ UNCHANGED <<routesVars, archiveVars, sceneVars, anchorageVars, vintageVars>>
     \/ record = "scenes" /\ ScenesNext
        /\ UNCHANGED <<routesVars, archiveVars, callsVars, anchorageVars, vintageVars>>
     \/ record = "census" /\ AnchorageNext
        /\ UNCHANGED <<routesVars, archiveVars, callsVars, sceneVars, vintageVars>>
     \/ record = "vintage" /\ VintageNext
        /\ UNCHANGED <<routesVars, archiveVars, callsVars, sceneVars, anchorageVars>>
=============================================================================
