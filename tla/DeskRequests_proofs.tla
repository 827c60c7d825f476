------------------------- MODULE DeskRequests_proofs -------------------------
(***************************************************************************)
(* Proofs about what a request of the desk is answered: quotes beside the    *)
(* refresh of the market (QuoteVintage over MarketRefresh), the envelope of  *)
(* places and ships a cargo is offered (FleetMix), the parts of a landed     *)
(* cost, the basis of a route and the mix of a portfolio (CostDesk), the sea *)
(* and the wait at the ends of a voyage (PortOutlook), where a ship could    *)
(* load next (Backhaul), what a route runs into (RouteRisk).                 *)
(***************************************************************************)
EXTENDS QuoteVintage, QuoteDesk, FleetMix, Backhaul, RouteRisk, CostDesk, PortOutlook,
        BerthRegister_proofs

(***************************************************************************)
(* Quotes beside the refresh of the market (QuoteVintage).                   *)
(***************************************************************************)
(* Where a pass stands, and what it holds. *)
Asking == [phase: {"ports"}, todo: Seq(FiledPorts), fresh: [FiledPorts -> SUBSET Days]]
Folding == [phase: {"foldLanes"}, day: Days]
Pass == {Idle, [phase |-> "classes"], [phase |-> "lanes"]} \cup Asking \cup Folding

(* A port's file is the days up to some day; the master has none the file  *)
(* lacks; the lanes of the day to be folded are in the CSV.                *)
StoreFacts ==
  /\ today \in Days
  /\ published \in [FiledPorts -> 1 .. today]
  /\ classDays \subseteq 1 .. today /\ 1 \in classDays
  /\ laneFile \subseteq 1 .. today /\ laneDays \subseteq laneFile
  /\ portFile \in [FiledPorts -> SUBSET (1 .. today)]
  /\ portDays \in [FiledPorts -> SUBSET (1 .. today)]
  /\ version \in Nat \ {0} /\ landed \in BOOLEAN

Behind ==
  /\ \A p \in FiledPorts : portDays[p] \subseteq portFile[p]
  /\ \A p \in FiledPorts : \E n \in 1 .. today : portFile[p] = 1 .. n
  /\ LandsWhole

PassFacts == pass \in Pass /\ (pass.phase = "foldLanes" => pass.day \in laneFile)

(* The quote of a day that had data is priced on that day in every solve.  *)
Stages == {"resolve", "forecast", "basis", "install", "judge", "record"}
Working ==
  [phase: Stages,
   day: Days, real: BOOLEAN, solve: 1 .. Solves, asOf: Days,
   newest: Nat \ {0}, priced: SUBSET Days]

OnItsDay(c) ==
  /\ c.newest <= version
  /\ c.real =>
       /\ c.day \in classDays /\ c.asOf = c.day
       /\ c.priced \in {{}, {c.day}}
       /\ c.phase \in {"basis", "install", "judge", "record"} => c.priced = {c.day}

QuoteFacts ==
  /\ basis \in 0 .. version
  /\ quoting \in [Quoters -> Quoting]
  /\ \A q \in Quoters : quoting[q] # Idle => OnItsDay(quoting[q])
  /\ entry.real => \E d \in Days : entry.priced = {d}
  /\ NothingNewerThanStamp

DeskInv == StoreFacts /\ Behind /\ PassFacts /\ QuoteFacts

-----------------------------------------------------------------------------
(* The latest day.                                                         *)

LEMMA MaxOfTwo ==
  ASSUME NEW a \in Nat, NEW b \in Nat
  PROVE  Max({a, b}) = IF a >= b THEN a ELSE b
<1>1. CASE a >= b
  BY <1>1, MaxIs
<1>2. CASE ~(a >= b)
  BY <1>2, MaxIs
<1> QED BY <1>1, <1>2

LEMMA LatestExists ==
  ASSUME NEW days \in SUBSET Days, days # {}
  PROVE  Latest(days) \in days /\ \A d \in days : Latest(days) >= d
<1> DEFINE T == {LastDay - d : d \in days}
<1>1. LastDay \in Nat /\ days \subseteq 1 .. LastDay
  BY MarketAssumption DEF Days
<1>2. T \subseteq Nat /\ T # {}
  <2>1. \A d \in days : LastDay - d \in Nat
    BY <1>1
  <2>2. PICK d \in days : TRUE
    OBVIOUS
  <2>3. LastDay - d \in T
    BY <2>2
  <2> QED BY <2>1, <2>3
<1>5. PICK t \in T : \A s \in T : t <= s
  <2> HIDE DEF T
  <2> QED BY <1>2, LeastOfSome
<1>6. PICK m \in days : t = LastDay - m
  BY <1>5
<1>7. \A d \in days : m >= d
  BY <1>1, <1>5, <1>6
<1>8. days \subseteq Int
  BY <1>1
<1> HIDE DEF T
<1> QED BY <1>6, <1>7, <1>8, MaxIs DEF Latest

LEMMA LatestOfRun ==
  ASSUME NEW n \in Nat \ {0}
  PROVE  Latest(1 .. n) = n
<1>1. 1 .. n \subseteq Int /\ n \in 1 .. n /\ \A d \in 1 .. n : n >= d
  OBVIOUS
<1> QED BY <1>1, MaxIs DEF Latest

-----------------------------------------------------------------------------
(* The refresh.                                                            *)

LEMMA PassKinds ==
  ASSUME NEW p \in Pass
  PROVE  /\ p.phase \in {"idle", "classes", "lanes", "ports", "foldLanes"}
         /\ p.phase = "ports" => p \in Asking /\ p.todo \in Seq(FiledPorts)
                                 /\ p.fresh \in [FiledPorts -> SUBSET Days]
         /\ p.phase = "foldLanes" => p.day \in Days
<1>1. CASE p = Idle
  BY <1>1 DEF Idle
<1>2. CASE p = [phase |-> "classes"] \/ p = [phase |-> "lanes"]
  BY <1>2
<1>3. CASE p \in Asking
  BY <1>3 DEF Asking
<1>4. CASE p \in Folding
  BY <1>4 DEF Folding
<1> QED BY <1>1, <1>2, <1>3, <1>4 DEF Pass

LEMMA TodoLeft ==
  ASSUME NEW p \in Asking, NEW t
  PROVE  [p EXCEPT !.todo = t] = [phase |-> "ports", todo |-> t, fresh |-> p.fresh]
BY DEF Asking

LEMMA Passes ==
  /\ Idle \in Pass /\ Idle.phase = "idle"
  /\ [phase |-> "classes"] \in Pass /\ [phase |-> "lanes"] \in Pass
  /\ AskPorts \in Pass /\ AskPorts.phase = "ports"
  /\ \A d \in Days : [phase |-> "foldLanes", day |-> d] \in Pass
  /\ \A todo \in Seq(FiledPorts), fresh \in [FiledPorts -> SUBSET Days] :
       [phase |-> "ports", todo |-> todo, fresh |-> fresh] \in Pass
BY MarketAssumption DEF Pass, Idle, AskPorts, Asking, Folding

LEMMA FirstStores ==
  ASSUME Init
  PROVE  StoreFacts /\ Behind /\ PassFacts
<1>1. FirstDay \in 1 .. LastDay /\ KnownPorts \subseteq FiledPorts /\ LastDay \in Nat
  BY MarketAssumption
<1>2. StoreFacts
  BY <1>1 DEF Init, StoreFacts, Days
<1>3. \A p \in FiledPorts : portFile[p] = {1} /\ portDays[p] \in {{}, {1}}
  BY DEF Init
<1>4. \A p \in KnownPorts : portDays[p] = portFile[p]
  BY <1>1 DEF Init
<1>5. 1 \in 1 .. today /\ {1} = 1 .. 1
  BY <1>1 DEF Init
<1>6. Behind
  BY <1>3, <1>4, <1>5 DEF Behind, LandsWhole
<1> QED BY <1>2, <1>6, Passes DEF PassFacts, Init

(* The days a port is asked for follow on those its file has.              *)
LEMMA PortCatchesUp ==
  ASSUME StoreFacts, Behind, NEW p \in FiledPorts
  PROVE  /\ Newer(p) \in SUBSET Days
         /\ \E n \in 1 .. today : portFile[p] \cup Newer(p) = 1 .. n
<1>1. PICK n \in 1 .. today : portFile[p] = 1 .. n
  BY DEF Behind
<1>2. today \in 1 .. LastDay /\ LastDay \in Nat /\ published[p] \in 1 .. today
  BY MarketAssumption DEF StoreFacts, Days
<1>3. Latest(portFile[p]) = n
  BY <1>1, <1>2, LatestOfRun
<1>4. Newer(p) = {d \in Days : d <= published[p] /\ d > n}
  BY <1>3 DEF Newer
<1> DEFINE m == IF published[p] > n THEN published[p] ELSE n
<1>5. m \in 1 .. today
  BY <1>2
<1>6. (1 .. n) \cup {d \in 1 .. LastDay : d <= published[p] /\ d > n} = 1 .. m
  BY <1>2
<1> QED BY <1>1, <1>4, <1>5, <1>6 DEF Days

LEMMA StoreStep ==
  ASSUME StoreFacts, Behind, PassFacts, Market \/ Kill
  PROVE  /\ StoreFacts' /\ Behind' /\ PassFacts'
         /\ classDays \subseteq classDays' /\ version <= version'
<1> DEFINE Goal == /\ StoreFacts' /\ Behind' /\ PassFacts'
                   /\ classDays \subseteq classDays' /\ version <= version'
<1>0. /\ today \in 1 .. LastDay /\ LastDay \in Nat /\ 1 .. today \subseteq Days
      /\ version \in Nat \ {0}
  BY MarketAssumption DEF StoreFacts, Days
<1>1. ASSUME pass' \in Pass, pass'.phase # "foldLanes",
             UNCHANGED <<today, published, stores, landed>>
      PROVE  Goal
  BY <1>0, <1>1 DEF StoreFacts, Behind, LandsWhole, PassFacts, stores
<1>2. CASE DayPasses
  <2>1. today' \in Days /\ today' = today + 1 /\ UNCHANGED <<published, stores, pass, landed>>
    BY <1>0, <1>2 DEF DayPasses, Days
  <2>2. \A S : S \in SUBSET (1 .. today) => S \in SUBSET (1 .. today')
    BY <1>0, <2>1
  <2>3. StoreFacts'
    BY <1>0, <2>1, <2>2 DEF StoreFacts, stores
  <2>4. \A n \in 1 .. today : n \in 1 .. today'
    BY <2>2
  <2> QED BY <1>0, <2>1, <2>3, <2>4 DEF Behind, LandsWhole, PassFacts, stores
<1>3. ASSUME NEW p \in FiledPorts, PortReports(p)
      PROVE  Goal
  <2>1. /\ published' = [published EXCEPT ![p] = published[p] + 1] /\ published[p] < today
        /\ UNCHANGED <<today, stores, pass, landed>>
    BY <1>3 DEF PortReports
  <2>2. published[p] + 1 \in 1 .. today
    BY <1>0, <2>1 DEF StoreFacts
  <2>3. StoreFacts'
    BY <2>1, <2>2 DEF StoreFacts, stores
  <2> QED BY <1>0, <2>1, <2>3 DEF Behind, LandsWhole, PassFacts, stores
<1>4. CASE BeginPass
  BY <1>1, <1>4, Passes DEF BeginPass, sources
<1>5. CASE ClassesFail
  BY <1>1, <1>5, Passes DEF ClassesFail, sources
<1>6. CASE LanesFail
  BY <1>1, <1>6, Passes DEF LanesFail, sources
<1>7. CASE PortFails
  <2>1. pass \in Asking /\ pass.todo \in Seq(FiledPorts) /\ pass.todo # <<>>
        /\ pass.fresh \in [FiledPorts -> SUBSET Days]
    BY <1>7, PassKinds DEF PortFails, PassFacts
  <2>2. Tail(pass.todo) \in Seq(FiledPorts)
    BY <2>1, HeadTailProperties
  <2>3. [pass EXCEPT !.todo = Tail(@)]
          = [phase |-> "ports", todo |-> Tail(pass.todo), fresh |-> pass.fresh]
    BY <2>1, TodoLeft
  <2>4. pass' = Idle
        \/ pass' = [phase |-> "ports", todo |-> Tail(pass.todo), fresh |-> pass.fresh]
    BY <1>7, <2>3 DEF PortFails
  <2>5. [phase |-> "ports", todo |-> Tail(pass.todo), fresh |-> pass.fresh] \in Pass
    BY <2>1, <2>2, Passes
  <2>6. pass' \in Pass
    BY <2>4, <2>5, Passes
  <2>7. pass'.phase # "foldLanes"
    BY <2>4, Passes
  <2> QED BY <1>1, <1>7, <2>6, <2>7 DEF PortFails, sources
<1>8. CASE RefreshClasses
  <2>1. PICK days \in SUBSET (1 .. today) :
          /\ classDays' = classDays \cup days
          /\ version' = IF days \subseteq classDays THEN version ELSE version + 1
    BY <1>8 DEF RefreshClasses
  <2>2. version' \in Nat \ {0} /\ version <= version'
    BY <1>0, <2>1
  <2>3. /\ pass' = [phase |-> "lanes"]
        /\ UNCHANGED <<today, published, laneFile, laneDays, portFile, portDays, landed>>
    BY <1>8 DEF RefreshClasses, sources
  <2>4. StoreFacts' /\ classDays \subseteq classDays'
    BY <2>1, <2>2, <2>3 DEF StoreFacts
  <2> QED BY <2>2, <2>3, <2>4, Passes DEF Behind, LandsWhole, PassFacts
<1>9. CASE AppendLanes
  <2>1. /\ laneFile' = laneFile \cup {today} /\ pass' = [phase |-> "foldLanes", day |-> today]
        /\ UNCHANGED <<today, published, classDays, laneDays, portFile, portDays, version, landed>>
    BY <1>9 DEF AppendLanes, sources
  <2>2. today \in Days /\ pass' \in Pass /\ pass'.day \in laneFile'
    BY <1>0, <2>1, Passes DEF StoreFacts
  <2>3. StoreFacts'
    BY <1>0, <2>1 DEF StoreFacts
  <2> QED BY <1>0, <2>1, <2>2, <2>3 DEF Behind, LandsWhole, PassFacts
<1>10. CASE FoldLanes
  <2>1. /\ laneDays' = laneDays \cup {pass.day} /\ pass.day \in laneFile /\ pass' = AskPorts
        /\ UNCHANGED <<today, published, classDays, laneFile, portFile, portDays, landed>>
    BY <1>10 DEF FoldLanes, sources, PassFacts
  <2>2. version' \in Nat \ {0} /\ version <= version'
    BY <1>0, <1>10 DEF FoldLanes
  <2>3. StoreFacts'
    BY <2>1, <2>2 DEF StoreFacts
  <2> QED BY <2>1, <2>2, <2>3, Passes DEF Behind, LandsWhole, PassFacts
<1>11. CASE PullPort
  <2> DEFINE p == Head(pass.todo)
  <2>1. /\ pass.todo \in Seq(FiledPorts) /\ pass.todo # <<>> /\ pass.fresh \in [FiledPorts -> SUBSET Days]
    BY <1>11, PassKinds DEF PullPort, PassFacts
  <2>2. p \in FiledPorts /\ Tail(pass.todo) \in Seq(FiledPorts)
    BY <2>1, HeadTailProperties
  <2>3. /\ portFile' = [portFile EXCEPT ![p] = portFile[p] \cup Newer(p)]
        /\ landed' = (landed /\ Newer(p) = {})
        /\ pass' = [phase |-> "ports", todo |-> Tail(pass.todo),
                    fresh |-> [pass.fresh EXCEPT ![p] = Newer(p)]]
        /\ UNCHANGED <<today, published, classDays, laneFile, laneDays, portDays, version>>
    BY <1>11 DEF PullPort, sources
  <2> HIDE DEF p
  <2>4. Newer(p) \in SUBSET Days /\ \E n \in 1 .. today : portFile[p] \cup Newer(p) = 1 .. n
    BY <2>2, PortCatchesUp
  <2>5. pass' \in Pass /\ pass'.phase = "ports"
    <3>1. [pass.fresh EXCEPT ![p] = Newer(p)] \in [FiledPorts -> SUBSET Days]
      BY <2>1, <2>4
    <3> QED BY <2>2, <2>3, <3>1, Passes
  <2>6. portFile[p] \cup Newer(p) \in SUBSET (1 .. today)
    BY <1>0, <2>4
  <2>7. /\ portFile' \in [FiledPorts -> SUBSET (1 .. today)]
        /\ portFile'[p] = portFile[p] \cup Newer(p)
        /\ \A o \in FiledPorts \ {p} : portFile'[o] = portFile[o]
    BY <2>2, <2>3, <2>6 DEF StoreFacts
  <2>8. StoreFacts'
    BY <1>0, <2>3, <2>7 DEF StoreFacts
  <2>9. \A o \in FiledPorts : /\ portDays'[o] \subseteq portFile'[o]
                         /\ \E n \in 1 .. today' : portFile'[o] = 1 .. n
    BY <2>3, <2>4, <2>7 DEF Behind
  <2>10. ASSUME landed', NEW o \in KnownPorts
         PROVE  portDays'[o] = portFile'[o]
    <3>1. landed /\ Newer(p) = {} /\ o \in FiledPorts
      BY <2>3, <2>10, MarketAssumption
    <3>2. portFile'[o] = portFile[o]
      BY <2>7, <3>1
    <3> QED BY <2>3, <2>10, <3>1, <3>2 DEF Behind, LandsWhole
  <2>11. Behind'
    BY <2>9, <2>10 DEF Behind, LandsWhole
  <2> QED BY <1>0, <2>3, <2>5, <2>8, <2>11 DEF PassFacts
<1>12. CASE FoldPorts
  <2> DEFINE added == \E p \in FiledPorts : pass.fresh[p] # {}
  <2>1. /\ portDays' = [p \in FiledPorts |->
             IF added /\ p \in KnownPorts THEN portDays[p] \cup portFile[p] ELSE portDays[p]]
        /\ landed' = (landed \/ added) /\ pass' = Idle
        /\ version' = IF portDays' = portDays THEN version ELSE version + 1
        /\ UNCHANGED <<today, published, classDays, laneFile, laneDays, portFile>>
    BY <1>12 DEF FoldPorts, sources
  <2>2. added \in BOOLEAN
    OBVIOUS
  <2> HIDE DEF added
  <2>3. version' \in Nat \ {0} /\ version <= version'
    BY <1>0, <2>1
  <2>4. \A p \in FiledPorts : portDays'[p] =
          IF added /\ p \in KnownPorts THEN portFile[p] ELSE portDays[p]
    BY <2>1 DEF Behind
  <2>5. StoreFacts'
    BY <2>1, <2>2, <2>3, <2>4 DEF StoreFacts
  <2>6. Behind'
    <3>1. \A p \in FiledPorts : /\ portDays'[p] \subseteq portFile'[p]
                           /\ \E n \in 1 .. today' : portFile'[p] = 1 .. n
      BY <2>1, <2>4 DEF Behind
    <3>2. ASSUME landed', NEW p \in KnownPorts
          PROVE  portDays'[p] = portFile'[p]
      <4>1. p \in FiledPorts /\ (added \/ landed)
        BY <2>1, <3>2, MarketAssumption
      <4> QED BY <2>1, <2>4, <4>1 DEF Behind, LandsWhole
    <3> QED BY <3>1, <3>2 DEF Behind, LandsWhole
  <2> QED BY <2>1, <2>3, <2>5, <2>6, Passes DEF PassFacts
<1>13. CASE Kill
  BY <1>1, <1>13, Passes DEF Kill, sources
<1> QED BY <1>2, <1>3, <1>4, <1>5, <1>6, <1>7, <1>8, <1>9, <1>10, <1>11, <1>12, <1>13
        DEF Market, Step

-----------------------------------------------------------------------------
(* Quotes.                                                                 *)

LEMMA QuotingKinds ==
  /\ Quoting = {Idle} \cup Working
  /\ Idle.phase = "idle"
  /\ \A c \in Quoting : c # Idle <=> c \in Working
  /\ \A c \in Quoting : c # Idle <=> c.phase # "idle"
BY DEF Quoting, Working, Stages, Idle

LEMMA QuoteOf ==
  ASSUME QuoteFacts, NEW q \in Quoters, NEW c \in Quoting, quoting' = [quoting EXCEPT ![q] = c]
  PROVE  /\ quoting' \in [Quoters -> Quoting]
         /\ quoting'[q] = c
         /\ \A o \in Quoters \ {q} : quoting'[o] = quoting[o]
BY DEF QuoteFacts

(* A quote moves on: which of its fields a step replaces. *)
SameQuestion(s, r) == s \in Working /\ s.day = r.day /\ s.real = r.real

LEMMA Resolved ==
  ASSUME StoreFacts, NEW d \in Days
  PROVE  ResolveAsOf(d) \in Days /\ (d \in classDays => ResolveAsOf(d) = d)
<1> DEFINE dates == {x \in classDays : x <= d /\ x >= d - Lookback}
<1>1. dates \in SUBSET Days /\ d \in Int /\ Lookback \in Nat
  <2>1. 1 .. today \subseteq Days
    BY MarketAssumption DEF StoreFacts, Days
  <2>2. classDays \subseteq Days
    BY <2>1 DEF StoreFacts
  <2>3. dates \in SUBSET Days
    BY <2>2
  <2> QED BY <2>3, MarketAssumption, QuoteAssumption DEF Days
<1>2. ResolveAsOf(d) = IF dates = {} THEN d ELSE Latest(dates)
  BY DEF ResolveAsOf
<1>3. CASE dates = {}
  <2>1. d \notin classDays
    BY <1>1, <1>3
  <2> QED BY <1>2, <1>3, <2>1
<1>4. CASE dates # {}
  <2>1. d \in classDays => d \in dates
    BY <1>1
  <2>2. \A x \in dates : x <= d
    OBVIOUS
  <2> HIDE DEF dates
  <2>3. Latest(dates) \in dates /\ \A x \in dates : Latest(dates) >= x
    BY <1>1, <1>4, LatestExists
  <2>4. Latest(dates) \in Days /\ Latest(dates) \in Int /\ Latest(dates) <= d
    <3>1. Latest(dates) \in Days /\ Latest(dates) <= d
      BY <1>1, <2>2, <2>3
    <3> QED BY <3>1, MarketAssumption DEF Days
  <2>5. d \in classDays => Latest(dates) = d
    BY <1>1, <2>1, <2>3, <2>4
  <2> QED BY <1>2, <1>4, <2>4, <2>5
<1> QED BY <1>3, <1>4

(* The stores move on beneath the quotes, and leave what they hold good.   *)
LEMMA QuotesHold ==
  ASSUME QuoteFacts, version' \in Nat, version \in Nat, version <= version',
         classDays \subseteq classDays', UNCHANGED quotes
  PROVE  QuoteFacts'
<1>1. basis' = basis /\ quoting' = quoting /\ entry' = entry
  BY DEF quotes
<1>2. basis' \in 0 .. version'
  BY <1>1 DEF QuoteFacts
<1>3. ASSUME NEW q \in Quoters, quoting[q] # Idle
      PROVE  OnItsDay(quoting[q])'
  <2>1. quoting[q].newest \in Nat /\ OnItsDay(quoting[q])
    BY <1>3 DEF QuoteFacts, Quoting
  <2>2. quoting[q].newest <= version'
    BY <2>1 DEF OnItsDay
  <2> QED BY <1>1, <2>1, <2>2 DEF OnItsDay
<1> QED BY <1>1, <1>2, <1>3 DEF QuoteFacts, NothingNewerThanStamp

(* One quote is replaced, and the others stay as they are.                 *)
LEMMA QuoteMoves ==
  ASSUME QuoteFacts, UNCHANGED vars, version \in Nat, basis' \in 0 .. version,
         NEW q \in Quoters, NEW c \in Quoting, quoting' = [quoting EXCEPT ![q] = c],
         c # Idle => OnItsDay(c),
         entry'.real => \E d \in Days : entry'.priced = {d},
         entry'.newest <= entry'.stamp
  PROVE  QuoteFacts'
<1>1. version' = version /\ classDays' = classDays
  BY DEF vars, stores
<1>2. /\ quoting' \in [Quoters -> Quoting] /\ quoting'[q] = c
      /\ \A o \in Quoters \ {q} : quoting'[o] = quoting[o]
  BY QuoteOf
<1>3. \A o \in Quoters : quoting'[o] # Idle => OnItsDay(quoting'[o])
  BY <1>2 DEF QuoteFacts
<1>4. \A o \in Quoters : OnItsDay(quoting[o])' <=> OnItsDay(quoting'[o])
  BY <1>1 DEF OnItsDay
<1> QED BY <1>1, <1>2, <1>3, <1>4 DEF QuoteFacts, NothingNewerThanStamp

(* A quote that goes on: the replaced record, once for all its steps.      *)
LEMMA QuoteGoesOn ==
  ASSUME StoreFacts, QuoteFacts, UNCHANGED <<vars, entry>>, basis' \in 0 .. version,
         NEW q \in Quoters, quoting[q] \in Working,
         NEW s \in Working, SameQuestion(s, quoting[q]), quoting' = [quoting EXCEPT ![q] = s],
         s.newest <= version,
         quoting[q].real =>
           /\ s.asOf = s.day
           /\ s.priced \in {{}, {s.day}}
           /\ s.phase \in {"basis", "install", "judge", "record"} => s.priced = {s.day}
  PROVE  QuoteFacts'
<1>1. OnItsDay(quoting[q]) /\ version \in Nat
  BY QuotingKinds DEF QuoteFacts, StoreFacts
<1>2. OnItsDay(s)
  BY <1>1 DEF OnItsDay, SameQuestion
<1>3. /\ entry'.real => \E d \in Days : entry'.priced = {d}
      /\ entry'.newest <= entry'.stamp
  BY DEF QuoteFacts, NothingNewerThanStamp
<1>4. s \in Quoting
  BY QuotingKinds
<1> QED BY <1>1, <1>2, <1>3, <1>4, QuoteMoves

LEMMA QuoteEnds ==
  ASSUME StoreFacts, QuoteFacts, UNCHANGED <<vars, entry, basis>>, NEW q \in Quoters, Refuse(q)
  PROVE  QuoteFacts'
<1>1. version \in Nat /\ Idle \in Quoting /\ basis' \in 0 .. version
  BY QuotingKinds DEF StoreFacts, QuoteFacts
<1>2. /\ entry'.real => \E d \in Days : entry'.priced = {d}
      /\ entry'.newest <= entry'.stamp
  BY DEF QuoteFacts, NothingNewerThanStamp
<1> QED BY <1>1, <1>2, QuoteMoves DEF Refuse

LEMMA SolveStep ==
  ASSUME StoreFacts, QuoteFacts, UNCHANGED <<vars, entry, basis>>, NEW q \in Quoters,
         quoting[q] \in Working, Solve(q, quoting[q].solve + 1)
  PROVE  QuoteFacts'
<1> DEFINE n == quoting[q].solve + 1
           s == [quoting[q] EXCEPT !.phase = "resolve", !.solve = n]
<1>1. CASE n > Solves
  BY <1>1, QuoteEnds DEF Solve
<1>2. CASE ~(n > Solves)
  <2>1. n \in 1 .. Solves
    BY <1>2 DEF Working, Solves
  <2>2. quoting' = [quoting EXCEPT ![q].phase = "resolve", ![q].solve = n]
    BY <1>2 DEF Solve
  <2>3. quoting' = [quoting EXCEPT ![q] = s]
    BY <2>2 DEF QuoteFacts
  <2>4. /\ SameQuestion(s, quoting[q]) /\ s.phase = "resolve" /\ s.newest = quoting[q].newest
        /\ s.asOf = quoting[q].asOf /\ s.priced = quoting[q].priced
    <3>1. "resolve" \in Stages
      BY DEF Stages
    <3> HIDE DEF n
    <3> QED BY <2>1, <3>1 DEF Working, SameQuestion
  <2>5. OnItsDay(quoting[q]) /\ basis' \in 0 .. version
    BY QuotingKinds DEF QuoteFacts
  <2> HIDE DEF s
  <2> QED BY <2>3, <2>4, <2>5, QuoteGoesOn DEF OnItsDay, SameQuestion
<1> QED BY <1>1, <1>2

LEMMA NewestIs ==
  ASSUME StoreFacts, QuoteFacts, NEW q \in Quoters, quoting[q] \in Working
  PROVE  Newest(q) = version
<1>1. quoting[q].newest \in Nat /\ version \in Nat /\ quoting[q].newest <= version
  BY QuotingKinds DEF QuoteFacts, StoreFacts, OnItsDay, Working
<1> QED BY <1>1, MaxOfTwo DEF Newest

LEMMA QuoteStep ==
  ASSUME StoreFacts, QuoteFacts, NEW q \in Quoters, Quote(q)
  PROVE  QuoteFacts' /\ UNCHANGED vars
<1>0. /\ version \in Nat \ {0} /\ basis \in 0 .. version
      /\ quoting \in [Quoters -> Quoting] /\ Idle \in Quoting
  BY QuotingKinds DEF StoreFacts, QuoteFacts
<1>1. ASSUME quoting[q].phase # "idle"
      PROVE  quoting[q] \in Working /\ OnItsDay(quoting[q]) /\ Newest(q) = version
  BY <1>0, <1>1, QuotingKinds, NewestIs DEF QuoteFacts
<1>2. /\ classDays \in SUBSET Days /\ classDays # {}
  <2>1. 1 .. today \subseteq Days
    BY MarketAssumption DEF StoreFacts, Days
  <2> QED BY <2>1 DEF StoreFacts
<1>3. ASSUME NEW requested \in {NoAsOf} \cup Days, Ask(q, requested)
      PROVE  QuoteFacts' /\ UNCHANGED vars
  <2> DEFINE day == IF requested = NoAsOf THEN Latest(classDays) ELSE ResolveAsOf(requested)
             c == [phase |-> "resolve", day |-> day, real |-> day \in classDays, solve |-> 1,
                   asOf |-> day, newest |-> version, priced |-> {}]
  <2>1. UNCHANGED <<vars, basis, entry>> /\ quoting' = [quoting EXCEPT ![q] = c]
    BY <1>3 DEF Ask
  <2>2. day \in Days
    BY <1>2, Resolved, LatestExists
  <2>3. (day \in classDays) \in BOOLEAN
    OBVIOUS
  <2> HIDE DEF day
  <2>4. c \in Working
    BY <1>0, <2>2, <2>3 DEF Working, Stages, Solves
  <2>5. OnItsDay(c)
    <3>1. /\ c.newest = version /\ c.real = (day \in classDays) /\ c.day = day /\ c.asOf = day
          /\ c.priced = {} /\ c.phase = "resolve" /\ version <= version
      BY <1>0
    <3> HIDE DEF c
    <3> QED BY <3>1 DEF OnItsDay
  <2> HIDE DEF c
  <2>6. /\ entry'.real => \E d \in Days : entry'.priced = {d}
        /\ entry'.newest <= entry'.stamp
    BY <2>1 DEF QuoteFacts, NothingNewerThanStamp
  <2> QED BY <1>0, <2>1, <2>4, <2>5, <2>6, QuotingKinds, QuoteMoves
<1>4. CASE Impossible(q)
  BY <1>4, QuoteEnds DEF Impossible
<1>5. CASE Resolve(q)
  <2> DEFINE day == ResolveAsOf(quoting[q].day)
             s == [quoting[q] EXCEPT !.phase = "forecast", !.newest = version, !.asOf = day]
  <2>1. quoting[q] \in Working /\ OnItsDay(quoting[q]) /\ Newest(q) = version
    BY <1>1, <1>5 DEF Resolve
  <2>2. UNCHANGED <<vars, basis, entry>>
        /\ quoting' = [quoting EXCEPT ![q].phase = "forecast", ![q].newest = version,
                                      ![q].asOf = day]
    BY <1>5, <2>1 DEF Resolve
  <2>3. day \in Days /\ (quoting[q].day \in classDays => day = quoting[q].day)
    BY <2>1, Resolved DEF Working
  <2> HIDE DEF day
  <2>4. quoting' = [quoting EXCEPT ![q] = s]
    BY <1>0, <2>2
  <2>5. "forecast" \in Stages
    BY DEF Stages
  <2>6. SameQuestion(s, quoting[q])
    BY <1>0, <2>1, <2>3, <2>5 DEF Working, SameQuestion
  <2>7. s.phase = "forecast" /\ s.newest = version /\ s.asOf = day /\ s.priced = quoting[q].priced
    BY <2>1 DEF Working
  <2> HIDE DEF s
  <2>8. /\ s.newest <= version /\ s \in Working
        /\ quoting[q].real => s.asOf = s.day /\ s.priced \in {{}, {s.day}}
        /\ s.phase \notin {"basis", "install", "judge", "record"}
    BY <1>0, <2>1, <2>3, <2>6, <2>7 DEF OnItsDay, SameQuestion
  <2> QED BY <1>0, <2>1, <2>2, <2>4, <2>6, <2>8, QuoteGoesOn
<1>6. CASE Forecast(q)
  <2>1. quoting[q] \in Working /\ OnItsDay(quoting[q]) /\ Newest(q) = version
        /\ UNCHANGED <<vars, basis, entry>> /\ quoting[q].phase = "forecast"
    BY <1>1, <1>6 DEF Forecast
  <2>2. CASE quoting[q].asOf \in classDays
    <3> DEFINE priced == quoting[q].priced \cup {quoting[q].asOf}
               s == [quoting[q] EXCEPT !.phase = "basis", !.newest = version, !.priced = priced]
    <3>1. quoting' = [quoting EXCEPT ![q].phase = "basis", ![q].newest = version,
                                     ![q].priced = priced]
      BY <1>6, <2>1, <2>2 DEF Forecast
    <3>2. /\ priced \in SUBSET Days
          /\ quoting[q].real => priced = {quoting[q].day} /\ quoting[q].asOf = quoting[q].day
      BY <2>1 DEF Working, OnItsDay
    <3> HIDE DEF priced
    <3>3. quoting' = [quoting EXCEPT ![q] = s]
      BY <1>0, <3>1
    <3>4. "basis" \in Stages
      BY DEF Stages
    <3>5. SameQuestion(s, quoting[q])
      BY <1>0, <2>1, <3>2, <3>4 DEF Working, SameQuestion
    <3>6. s.newest = version /\ s.asOf = quoting[q].asOf /\ s.priced = priced
      BY <2>1 DEF Working
    <3> HIDE DEF s
    <3>7. /\ s.newest <= version /\ s \in Working
          /\ quoting[q].real => s.asOf = s.day /\ s.priced = {s.day}
      BY <1>0, <2>1, <3>2, <3>5, <3>6 DEF SameQuestion
    <3> QED BY <1>0, <2>1, <3>3, <3>5, <3>7, QuoteGoesOn
  <2>3. CASE quoting[q].asOf \notin classDays
    <3>1. Refuse(q) \/ Solve(q, quoting[q].solve + 1)
      BY <1>6, <2>3 DEF Forecast
    <3> QED BY <2>1, <3>1, QuoteEnds, SolveStep
  <2> QED BY <2>2, <2>3
<1>7. CASE CachedBasis(q)
  <2> DEFINE m == Max({quoting[q].newest, basis})
             s == [quoting[q] EXCEPT !.phase = "judge", !.newest = m]
  <2>1. quoting[q] \in Working /\ OnItsDay(quoting[q])
        /\ UNCHANGED <<vars, basis, entry>> /\ quoting[q].phase = "basis"
    BY <1>1, <1>7 DEF CachedBasis
  <2>2. quoting' = [quoting EXCEPT ![q].phase = "judge", ![q].newest = m]
    BY <1>7 DEF CachedBasis
  <2>3. m \in Nat \ {0} /\ m <= version
    <3>1. quoting[q].newest \in Nat \ {0} /\ basis \in Nat /\ basis <= version
          /\ quoting[q].newest <= version
      BY <1>0, <2>1 DEF Working, OnItsDay
    <3>2. m = IF quoting[q].newest >= basis THEN quoting[q].newest ELSE basis
      BY <3>1, MaxOfTwo
    <3> QED BY <3>1, <3>2
  <2> HIDE DEF m
  <2>4. quoting' = [quoting EXCEPT ![q] = s]
    BY <1>0, <2>2
  <2>5. "judge" \in Stages
    BY DEF Stages
  <2>6. SameQuestion(s, quoting[q])
    BY <2>1, <2>3, <2>5 DEF Working, SameQuestion
  <2>7. s.newest = m /\ s.asOf = quoting[q].asOf /\ s.priced = quoting[q].priced
    BY <2>1 DEF Working
  <2> HIDE DEF s
  <2> QED BY <1>0, <2>1, <2>3, <2>4, <2>6, <2>7, QuoteGoesOn DEF OnItsDay, SameQuestion
<1>8. CASE BuildBasis(q)
  <2> DEFINE s == [quoting[q] EXCEPT !.phase = "install", !.newest = version]
  <2>1. quoting[q] \in Working /\ OnItsDay(quoting[q]) /\ Newest(q) = version
        /\ UNCHANGED <<vars, basis, entry>> /\ quoting[q].phase = "basis"
    BY <1>1, <1>8 DEF BuildBasis
  <2>2. quoting' = [quoting EXCEPT ![q].phase = "install", ![q].newest = version]
    BY <1>8, <2>1 DEF BuildBasis
  <2>3. quoting' = [quoting EXCEPT ![q] = s]
    BY <1>0, <2>2
  <2>4. "install" \in Stages
    BY DEF Stages
  <2>5. SameQuestion(s, quoting[q])
    BY <1>0, <2>1, <2>4 DEF Working, SameQuestion
  <2>6. s.newest = version /\ s.asOf = quoting[q].asOf /\ s.priced = quoting[q].priced
    BY <2>1 DEF Working
  <2> HIDE DEF s
  <2>7. /\ s.newest <= version /\ s \in Working
        /\ quoting[q].real => s.asOf = s.day /\ s.priced = {s.day}
    BY <1>0, <2>1, <2>5, <2>6 DEF OnItsDay, SameQuestion
  <2> QED BY <1>0, <2>1, <2>3, <2>5, <2>7, QuoteGoesOn
<1>9. CASE InstallBasis(q)
  <2> DEFINE s == [quoting[q] EXCEPT !.phase = "judge"]
  <2>1. quoting[q] \in Working /\ OnItsDay(quoting[q])
        /\ UNCHANGED <<vars, entry>> /\ quoting[q].phase = "install"
    BY <1>1, <1>9 DEF InstallBasis
  <2>2. quoting' = [quoting EXCEPT ![q].phase = "judge"] /\ basis' = quoting[q].newest
    BY <1>9 DEF InstallBasis
  <2>3. quoting' = [quoting EXCEPT ![q] = s]
    BY <1>0, <2>2
  <2>4. "judge" \in Stages
    BY DEF Stages
  <2>5. SameQuestion(s, quoting[q])
    BY <2>1, <2>4 DEF Working, SameQuestion
  <2>6. s.newest = quoting[q].newest /\ s.asOf = quoting[q].asOf /\ s.priced = quoting[q].priced
    BY <2>1 DEF Working
  <2>7. basis' \in 0 .. version
    BY <1>0, <2>1, <2>2 DEF Working, OnItsDay
  <2> HIDE DEF s
  <2> QED BY <2>1, <2>3, <2>5, <2>6, <2>7, QuoteGoesOn DEF OnItsDay, SameQuestion
<1>10. CASE Judge(q)
  <2> DEFINE s == [quoting[q] EXCEPT !.phase = "record"]
  <2>1. quoting[q] \in Working /\ OnItsDay(quoting[q])
        /\ UNCHANGED <<vars, basis, entry>> /\ quoting[q].phase = "judge"
    BY <1>1, <1>10 DEF Judge
  <2>2. CASE Solve(q, quoting[q].solve + 1)
    BY <2>1, <2>2, SolveStep
  <2>3. CASE quoting' = [quoting EXCEPT ![q].phase = "record"]
    <3>1. quoting' = [quoting EXCEPT ![q] = s]
      BY <1>0, <2>3
    <3>2. "record" \in Stages
      BY DEF Stages
    <3>3. SameQuestion(s, quoting[q])
      BY <2>1, <3>2 DEF Working, SameQuestion
    <3>4. s.newest = quoting[q].newest /\ s.asOf = quoting[q].asOf /\ s.priced = quoting[q].priced
      BY <2>1 DEF Working
    <3> HIDE DEF s
    <3> QED BY <1>0, <2>1, <3>1, <3>3, <3>4, QuoteGoesOn DEF OnItsDay, SameQuestion
  <2> QED BY <1>10, <2>2, <2>3, <2>1 DEF Judge
<1>11. CASE Record(q)
  <2>1. quoting[q] \in Working /\ OnItsDay(quoting[q]) /\ quoting[q].phase = "record"
    BY <1>1, <1>11 DEF Record
  <2>2. /\ entry' = [stamp |-> version, newest |-> quoting[q].newest,
                     real |-> quoting[q].real, priced |-> quoting[q].priced]
        /\ quoting' = [quoting EXCEPT ![q] = Idle] /\ UNCHANGED <<vars, basis>>
    BY <1>11 DEF Record, Refuse
  <2>3. /\ entry'.real => \E d \in Days : entry'.priced = {d}
        /\ entry'.newest <= entry'.stamp
    BY <2>1, <2>2 DEF OnItsDay, Working
  <2> QED BY <1>0, <2>2, <2>3, QuoteMoves
<1> QED BY <1>3, <1>4, <1>5, <1>6, <1>7, <1>8, <1>9, <1>10, <1>11
        DEF Quote, Impossible, Resolve, Forecast, CachedBasis, BuildBasis, InstallBasis, Judge, Record

-----------------------------------------------------------------------------
(* The desk.                                                               *)

LEMMA RestartStep ==
  ASSUME StoreFacts, Behind, PassFacts, QuoteFacts, Restart
  PROVE  DeskInv'
<1>1. StoreFacts' /\ Behind' /\ PassFacts'
  BY StoreStep DEF Restart
<1>2. version' = version /\ version \in Nat /\ basis' = 0 /\ entry' = entry
      /\ quoting' = [q \in Quoters |-> Idle]
  BY DEF Restart, Kill, stores, StoreFacts, NoTable
<1>3. QuoteFacts'
  BY <1>2, QuotingKinds DEF QuoteFacts, NothingNewerThanStamp
<1> QED BY <1>1, <1>3 DEF DeskInv

LEMMA DeskInvariant == DeskSpec => []DeskInv
<1>1. ASSUME DeskInit
      PROVE  DeskInv
  <2>1. StoreFacts /\ Behind /\ PassFacts
    BY <1>1, FirstStores DEF DeskInit
  <2>2. version \in Nat /\ basis = 0 /\ quoting = [q \in Quoters |-> Idle]
        /\ entry.real = FALSE /\ entry.newest <= entry.stamp
    BY <1>1, <2>1 DEF DeskInit, StoreFacts, NoTable, NoEntry
  <2>3. QuoteFacts
    BY <2>2, QuotingKinds DEF QuoteFacts, NothingNewerThanStamp
  <2> QED BY <2>1, <2>3 DEF DeskInv
<1>2. ASSUME DeskInv, [DeskNext]_deskVars
      PROVE  DeskInv'
  <2>1. CASE UNCHANGED deskVars
    BY <1>2, <2>1
       DEF deskVars, vars, sources, stores, quotes, DeskInv, StoreFacts, Behind, LandsWhole,
           PassFacts, QuoteFacts, NothingNewerThanStamp, OnItsDay
  <2>2. CASE Market /\ UNCHANGED quotes
    <3>1. StoreFacts' /\ Behind' /\ PassFacts' /\ classDays \subseteq classDays'
          /\ version <= version'
      BY <1>2, <2>2, StoreStep DEF DeskInv
    <3>2. version \in Nat /\ version' \in Nat
      BY <1>2, <3>1 DEF DeskInv, StoreFacts
    <3> QED BY <1>2, <2>2, <3>1, <3>2, QuotesHold DEF DeskInv
  <2>3. CASE Restart
    BY <1>2, <2>3, RestartStep DEF DeskInv
  <2>4. ASSUME NEW q \in Quoters, Quote(q)
        PROVE  DeskInv'
    <3>1. QuoteFacts' /\ UNCHANGED vars
      BY <1>2, <2>4, QuoteStep DEF DeskInv
    <3> QED BY <1>2, <3>1
            DEF vars, sources, stores, DeskInv, StoreFacts, Behind, LandsWhole, PassFacts
  <2> QED BY <1>2, <2>1, <2>2, <2>3, <2>4 DEF DeskNext
<1> QED BY <1>1, <1>2, PTL DEF DeskSpec

(* What the refresh leaves behind is whole, for any ports and at any kill: *)
(* a fold lands every row of the files, a port's file has no hole and the  *)
(* lanes' CSV every lane the master has.                                   *)
THEOREM RefreshLeavesStoresSound == DeskSpec => []StoresAreSound
<1>1. ASSUME DeskInv
      PROVE  StoresAreSound
  <2>1. TypeOK
    BY <1>1 DEF DeskInv, StoreFacts, QuoteFacts, TypeOK
  <2>2. PortFilesHaveNoHoles
    <3>1. ASSUME NEW p \in FiledPorts
          PROVE  portFile[p] = 1 .. Latest(portFile[p])
      <4>1. PICK n \in 1 .. today : portFile[p] = 1 .. n
        BY <1>1 DEF DeskInv, Behind
      <4>2. n \in Nat \ {0}
        BY <1>1, MarketAssumption DEF DeskInv, StoreFacts, Days
      <4> QED BY <4>1, <4>2, LatestOfRun
    <3> QED BY <3>1 DEF PortFilesHaveNoHoles
  <2> QED BY <1>1, <2>1, <2>2
          DEF DeskInv, StoreFacts, Behind, StoresAreSound, LanesRebuildable
<1> QED BY <1>1, DeskInvariant, PTL

(* An answer whose day had data is priced on one day, however many solves  *)
(* are behind it and whatever the refresh adds between them.               *)
THEOREM AnswersHaveOneDay == DeskSpec => []OneDayPerAnswer
<1>1. ASSUME DeskInv
      PROVE  OneDayPerAnswer
  BY <1>1, FS_Singleton DEF DeskInv, QuoteFacts, OneDayPerAnswer
<1> QED BY <1>1, DeskInvariant, PTL

(* No entry of the ledger rests on data newer than the version it is       *)
(* stamped with, the cached basis table's included.                        *)
THEOREM StampsCoverTheirData == DeskSpec => []NothingNewerThanStamp
<1>1. DeskInv => NothingNewerThanStamp
  BY DEF DeskInv, QuoteFacts
<1> QED BY <1>1, DeskInvariant, PTL

(***************************************************************************)
(* The fleet mix: what a place takes, what a cargo is offered (FleetMix).    *)
(***************************************************************************)

(* What a place takes: every limit it publishes, loosened by some slack.    *)
Fits(limits, hull, slack) ==
  \A check \in Checks :
    limits[check] # Unpublished =>
      CASE check \in {"loa", "beam"} -> hull[check] <= limits[check]
        [] check = "draft" -> hull["draft"] - limits["draft"] <= slack.draft
        [] check = "size"  -> 100 * (hull["size"] - limits["size"]) <= slack.size * limits["size"]

Slack(relaxed) == IF relaxed THEN [draft |-> DraftTolerance, size |-> SizeTolerance]
                  ELSE [draft |-> 0, size |-> 0]

LEMMA TimesNat == \A a, b \in Nat : a * b \in Nat
  OBVIOUS

LEMMA FitsStrictly ==
  ASSUME NEW limits \in [Checks -> Limit], NEW hull \in Vessel, NEW relaxed \in BOOLEAN,
         \A check \in Checks : limits[check] # Unpublished => hull[check] <= limits[check]
  PROVE  Fits(limits, hull, Slack(relaxed))
<1> SUFFICES ASSUME NEW check \in Checks, limits[check] # Unpublished
             PROVE  CASE check \in {"loa", "beam"} -> hull[check] <= limits[check]
                      [] check = "draft" -> hull["draft"] - limits["draft"] <= Slack(relaxed).draft
                      [] check = "size"  -> 100 * (hull["size"] - limits["size"])
                                              <= Slack(relaxed).size * limits["size"]
  BY DEF Fits
<1>1. /\ limits[check] \in Nat /\ hull[check] \in Nat /\ hull[check] <= limits[check]
      /\ Slack(relaxed).draft \in Nat /\ Slack(relaxed).size \in Nat
  BY FleetMixAssumption DEF Limit, Vessel, Slack
<1>2. Slack(relaxed).size * limits[check] \in Nat
  BY <1>1, TimesNat
<1>3. CASE check \in {"loa", "beam"}
  BY <1>1, <1>3
<1>4. CASE check = "draft"
  BY <1>1, <1>4
<1>5. CASE check = "size"
  <2>1. 100 * (hull["size"] - limits["size"]) <= 0
    BY <1>1, <1>5
  <2>2. Slack(relaxed).size * limits["size"] >= 0
    BY <1>2, <1>5
  <2>3. /\ 100 * (hull["size"] - limits["size"]) \in Int
        /\ Slack(relaxed).size * limits["size"] \in Int
    BY <1>1, <1>2, <1>5
  <2>4. 100 * (hull["size"] - limits["size"]) <= Slack(relaxed).size * limits["size"]
    BY <2>1, <2>2, <2>3
  <2> QED
    BY <1>5, <2>4
<1> QED
  BY <1>3, <1>4, <1>5 DEF Checks

LEMMA FitsPartLoaded ==
  ASSUME NEW limits \in [Checks -> Limit], NEW hull \in Vessel, PartLoaded(limits, hull)
  PROVE  Fits(limits, hull, Slack(TRUE))
<1> SUFFICES ASSUME NEW check \in Checks, limits[check] # Unpublished
             PROVE  CASE check \in {"loa", "beam"} -> hull[check] <= limits[check]
                      [] check = "draft" -> hull["draft"] - limits["draft"] <= Slack(TRUE).draft
                      [] check = "size"  -> 100 * (hull["size"] - limits["size"])
                                              <= Slack(TRUE).size * limits["size"]
  BY DEF Fits
<1>1. limits[check] \in Nat /\ hull[check] \in Nat
  BY DEF Limit, Vessel
<1>2. /\ DraftTolerance \in Nat /\ SizeTolerance \in Nat
      /\ Slack(TRUE).draft = DraftTolerance /\ Slack(TRUE).size = SizeTolerance
  BY FleetMixAssumption DEF Slack
<1>3. CASE check \in {"loa", "beam"}
  BY <1>3 DEF PartLoaded, Within
<1>4. CASE check = "draft"
  <2>1. hull["draft"] <= limits["draft"] + DraftTolerance
    BY <1>4 DEF PartLoaded
  <2>2. PICK h \in Nat, l \in Nat, t \in Nat :
          h = hull["draft"] /\ l = limits["draft"] /\ t = DraftTolerance
    BY <1>1, <1>2, <1>4
  <2>3. h - l <= t
    BY <2>1, <2>2
  <2>4. hull["draft"] - limits["draft"] <= Slack(TRUE).draft
    BY <1>2, <2>2, <2>3
  <2> QED
    BY <1>4, <2>4
<1>5. CASE check = "size"
  <2>1. hull["size"] * 100 <= limits["size"] * (100 + SizeTolerance)
    BY <1>5 DEF PartLoaded
  <2>2. PICK h \in Nat, l \in Nat : h = hull["size"] /\ l = limits["size"]
    BY <1>1, <1>5
  <2>3. PICK t \in Nat : t = SizeTolerance
    BY <1>2
  <2>4. PICK tl \in Nat : tl = t * l
    BY TimesNat
  <2>5. l * (100 + t) = 100 * l + tl
    BY <2>4
  <2>6. 100 * (h - l) <= t * l
    BY <2>1, <2>2, <2>3, <2>4, <2>5
  <2> QED
    BY <1>2, <1>5, <2>2, <2>3, <2>6
<1> QED
  BY <1>3, <1>4, <1>5 DEF Checks

LEMMA LiftIs ==
  ASSUME lift \in Lifts
  PROVE  /\ lift.tonnes \in Nat /\ lift.from \in Ports /\ lift.to \in Ports /\ lift.today \in Nat
         /\ lift.registry \in Seq(Row) /\ lift.legacy \in [Ports -> [Checks -> Limit]]
  BY LiftsAssumption

(* The berths at a port are its candidates.                                 *)
PublishedRows(port) ==
  {row \in Range(lift.registry) : row.port = port /\ row.published /\ InForce(row, lift.today)}

LEMMA PlacesAre ==
  ASSUME lift \in Lifts, NEW port \in Ports
  PROVE  LET rows == Candidates(lift.registry, port, Unpublished, lift.today)
         IN  /\ rows \in Seq(Row)
             /\ Range(rows) = PublishedRows(port)
             /\ rows = <<>> <=> PublishedRows(port) = {}
             /\ PlacesAt(port) = IF rows = <<>> THEN {lift.legacy[port]}
                                 ELSE {[check \in Checks |-> ResolvedLimit(row, check)] :
                                         row \in PublishedRows(port)}
<1> DEFINE rows == Candidates(lift.registry, port, Unpublished, lift.today)
<1>1. /\ rows \in Seq(Row)
      /\ Range(rows) = {row \in Range(lift.registry) :
                          row.port = port /\ InForce(row, lift.today) /\ row.published}
  BY LiftIs, CandidatesAre
<1>2. Range(rows) = PublishedRows(port)
  BY <1>1, Zenon DEF PublishedRows
<1> HIDE DEF rows
<1>3. rows = <<>> <=> Range(rows) = {}
  <2>1. rows # <<>> => 1 \in DOMAIN rows
    BY <1>1
  <2> QED
    BY <1>1, <2>1 DEF Range
<1>4. PlacesAt(port) = IF PublishedRows(port) = {} THEN {lift.legacy[port]}
                       ELSE {[check \in Checks |-> ResolvedLimit(row, check)] :
                               row \in PublishedRows(port)}
  BY Zenon DEF PlacesAt, PublishedRows
<1> QED
  BY <1>1, <1>2, <1>3, <1>4 DEF rows

LEMMA ResolvedIs ==
  ASSUME NEW row \in Row
  PROVE  /\ [check \in Checks |-> ResolvedLimit(row, check)] \in [Checks -> Limit]
         /\ row.limit \in [Checks -> Limit]
  BY DEF ResolvedLimit, Row, Limit

LEMMA StrictlyIs ==
  ASSUME lift \in Lifts, NEW port \in Ports, NEW hull \in Vessel, Strictly(port, hull),
         NEW relaxed \in BOOLEAN
  PROVE  \E limits \in PlacesAt(port) : Fits(limits, hull, Slack(relaxed))
<1> DEFINE rows == Candidates(lift.registry, port, Unpublished, lift.today)
           cleared == SelectInSeq(rows, LAMBDA row : Clears(row, hull))
           chosen == rows[IF cleared = 0 THEN 1 ELSE cleared]
           check == CheckVessel(lift.registry, port, Unpublished, lift.today, hull)
           legacy == lift.legacy[port]
<1>1. /\ rows \in Seq(Row) /\ Range(rows) = PublishedRows(port)
      /\ PlacesAt(port) = IF rows = <<>> THEN {legacy}
                          ELSE {[c \in Checks |-> ResolvedLimit(row, c)] :
                                  row \in PublishedRows(port)}
  BY PlacesAre
<1>2. cleared # 0 => cleared \in DOMAIN rows /\ Clears(rows[cleared], hull)
  <2> HIDE DEF rows
  <2> QED
    BY <1>1, ClearingIs
<1>3. check = IF rows # <<>>
              THEN Verdict(cleared # 0, chosen.berth, "REGISTER",
                           ResolvedLimit(chosen, "draft"), hull)
              ELSE IF RowsInForce(lift.registry, port, lift.today, FALSE) # <<>>
                   THEN [Nothing EXCEPT !.source = "REGISTER"]
                   ELSE Nothing
  BY DEF CheckVessel
<1>4. (IF check.source # "NOTHING" THEN check
       ELSE PortVerdict(lift.legacy, port, hull)).feasible
  BY DEF Strictly, VesselCanCall
<1> HIDE DEF rows, cleared, chosen, check
<1>5. CASE check.source # "NOTHING"
  <2>1. check.feasible
    BY <1>4, <1>5
  <2>2. rows # <<>> /\ cleared # 0
    BY <1>3, <2>1 DEF Verdict, Nothing
  <2>3. PICK row \in PublishedRows(port) : row \in Row /\ Clears(row, hull)
    <3>1. rows[cleared] \in Range(rows) /\ rows[cleared] \in Row
      BY <1>1, <1>2, <2>2 DEF Range
    <3> QED
      BY <1>1, <1>2, <2>2, <3>1
  <2> DEFINE limits == [c \in Checks |-> ResolvedLimit(row, c)]
  <2>4. limits \in PlacesAt(port)
    BY <1>1, <2>2
  <2>5. \A c \in Checks : limits[c] # Unpublished => hull[c] <= limits[c]
    BY <2>3 DEF Clears
  <2>6. Fits(limits, hull, Slack(relaxed))
    <3>1. limits \in [Checks -> Limit]
      BY <2>3, ResolvedIs
    <3> HIDE DEF limits
    <3> QED
      BY <2>5, <3>1, FitsStrictly
  <2> QED
    BY <2>4, <2>6
<1>6. CASE check.source = "NOTHING"
  <2>1. \A c \in Checks : legacy[c] # Unpublished => hull[c] <= legacy[c]
    BY <1>4, <1>6 DEF PortVerdict, Verdict
  <2>2. rows = <<>>
    BY <1>3, <1>6 DEF Verdict
  <2>3. legacy \in [Checks -> Limit]
    BY LiftIs
  <2>4. Fits(legacy, hull, Slack(relaxed))
    <3> HIDE DEF legacy
    <3> QED
      BY <2>1, <2>3, FitsStrictly
  <2> QED
    BY <1>1, <2>2, <2>4
<1> QED
  BY <1>5, <1>6

LEMMA PartLoadedIs ==
  ASSUME lift \in Lifts, NEW port \in Ports, NEW hull \in Vessel,
         PartLoaded(BerthLimits(port), hull)
  PROVE  \E limits \in PlacesAt(port) : Fits(limits, hull, Slack(TRUE))
<1> DEFINE rows == Candidates(lift.registry, port, Unpublished, lift.today)
           legacy == lift.legacy[port]
<1>1. /\ rows \in Seq(Row) /\ Range(rows) = PublishedRows(port)
      /\ PlacesAt(port) = IF rows = <<>> THEN {legacy}
                          ELSE {[c \in Checks |-> ResolvedLimit(row, c)] :
                                  row \in PublishedRows(port)}
  BY PlacesAre
<1>2. BerthLimits(port) = IF rows # <<>> THEN Head(rows).limit ELSE legacy
  BY DEF BerthLimits
<1> HIDE DEF rows
<1>3. CASE rows = <<>>
  <2>1. legacy \in [Checks -> Limit]
    BY LiftIs
  <2>2. PartLoaded(legacy, hull)
    BY <1>2, <1>3
  <2> HIDE DEF legacy
  <2>3. Fits(legacy, hull, Slack(TRUE))
    BY <2>1, <2>2, FitsPartLoaded
  <2> QED
    BY <1>1, <1>3, <2>3
<1>4. CASE rows # <<>>
  <2>1. PICK row \in PublishedRows(port) : row \in Row /\ row = Head(rows)
    <3>1. 1 \in DOMAIN rows /\ Head(rows) = rows[1] /\ Head(rows) \in Row
      BY <1>1, <1>4
    <3> QED
      BY <1>1, <3>1 DEF Range
  <2> DEFINE limits == [c \in Checks |-> ResolvedLimit(row, c)]
  <2>2. limits \in PlacesAt(port)
    BY <1>1, <1>4
  <2>3. PartLoaded(row.limit, hull)
    BY <1>2, <1>4, <2>1
  <2>4. \A c \in Checks : limits[c] = row.limit[c] \/ limits[c] = Unpublished
    BY DEF ResolvedLimit
  <2>5. PartLoaded(limits, hull)
    <3>1. {"draft", "size", "loa", "beam"} = Checks
      BY DEF Checks
    <3> HIDE DEF limits
    <3> QED
      BY <2>3, <2>4, <3>1 DEF PartLoaded, Within
  <2>6. Fits(limits, hull, Slack(TRUE))
    <3>1. limits \in [Checks -> Limit]
      BY <2>1, ResolvedIs
    <3> HIDE DEF limits
    <3> QED
      BY <2>5, <3>1, FitsPartLoaded
  <2> QED
    BY <2>2, <2>6
<1> QED
  BY <1>3, <1>4

FleetInv ==
  /\ lift \in Lifts \cup {NoLift}
  /\ offers # {} => lift \in Lifts
  /\ \E relaxed \in BOOLEAN :
       /\ relaxed <=> attempt = 2
       /\ offers # {} => offers = FleetMixOf(Calls(relaxed), relaxed)

(* The offers of a request are worked out from it and nothing else.         *)
LEMMA MixStays ==
  ASSUME lift' = lift, NEW relaxed
  PROVE  FleetMixOf(Calls(relaxed), relaxed)' = FleetMixOf(Calls(relaxed), relaxed)
<1>1. \A port, hull : Strictly(port, hull)' = Strictly(port, hull)
  BY DEF Strictly
<1>2. \A port : BerthLimits(port)' = BerthLimits(port)
  BY DEF BerthLimits
<1>3. \A port, hull : CanCall(port, hull, relaxed)' = CanCall(port, hull, relaxed)
  BY <1>1, <1>2 DEF CanCall
<1>4. Calls(relaxed)' = Calls(relaxed)
  BY <1>3 DEF Calls
<1>5. \A ports : NearestHub(ports)' = NearestHub(ports)
  BY DEF NearestHub, Known
<1>6. \A ports : Discharge(ports, relaxed)' = Discharge(ports, relaxed)
  BY <1>5 DEF Discharge, HubFor
<1>7. \A kind, ports : Serves(kind, ports, relaxed)' = Serves(kind, ports, relaxed)
  BY <1>6 DEF Serves, Known
<1>8. \A kind : Count(kind)' = Count(kind)
  BY DEF Count
<1> QED
  BY <1>4, <1>6, <1>7, <1>8 DEF FleetMixOf

LEMMA FleetInvStep ==
  ASSUME FleetInv, [FleetNext]_fleetVars
  PROVE  FleetInv'
<1>1. CASE AskLift
  <2>1. lift = NoLift /\ lift' \in Lifts /\ attempt' = attempt /\ offers' = offers
    BY <1>1 DEF AskLift
  <2>2. CASE offers = {}
    <3>1. PICK relaxed \in BOOLEAN : relaxed <=> attempt = 2
      OBVIOUS
    <3> QED
      BY <2>1, <2>2, <3>1 DEF FleetInv
  <2>3. CASE offers # {}
    <3>1. NoLift \in Lifts
      BY <2>1, <2>3 DEF FleetInv
    <3>2. FALSE
      <4>1. NoLift \in [tonnes : Nat, from : Ports, to : Ports, day : Nat, closes : Nat, term : Nat,
               today : Nat,
               priced : SUBSET Classes, legacy : [Ports -> [Checks -> Limit]], registry : Seq(Row)]
        BY <3>1, LiftsAssumption
      <4>2. "from" \in DOMAIN NoLift
        BY <4>1
      <4>3. DOMAIN NoLift = {"tonnes"}
        BY DEF NoLift
      <4> QED
        BY <4>2, <4>3
    <3> QED
      BY <3>2
  <2> QED
    BY <2>2, <2>3
<1>2. CASE RefuseLift
  <2>1. lift' = lift /\ attempt' = attempt /\ offers' = offers
    BY <1>2 DEF RefuseLift
  <2> QED
    BY <2>1, MixStays DEF FleetInv
<1>3. CASE SolveLift
  <2>1. PICK relaxed \in BOOLEAN : relaxed <=> attempt = 2
    OBVIOUS
  <2> DEFINE found == FleetMixOf(Calls(relaxed), relaxed)
  <2>2. /\ lift # NoLift /\ lift' = lift /\ offers' = found
        /\ envelope' = IF found = {}
                       THEN (IF attempt = 2 THEN "structural_infeasible" ELSE "open")
                       ELSE IF attempt = 0 THEN "feasible" ELSE "contingent_infeasible"
        /\ attempt' = IF envelope' = "open" THEN attempt + 1 ELSE attempt
    <3>1. relaxed = (attempt = 2)
      BY <2>1
    <3> QED
      BY <1>3, <3>1 DEF SolveLift
  <2> HIDE DEF found
  <2>3. lift' \in Lifts
    BY <2>2 DEF FleetInv
  <2>4. CASE found = {}
    <3>1. PICK later \in BOOLEAN : later <=> attempt' = 2
      OBVIOUS
    <3> QED
      BY <2>2, <2>3, <2>4, <3>1 DEF FleetInv
  <2>5. CASE found # {}
    <3>1. attempt' = attempt
      BY <2>2, <2>5
    <3>2. offers' = FleetMixOf(Calls(relaxed), relaxed)'
      BY <2>2, MixStays DEF found
    <3> QED
      BY <2>1, <2>3, <3>1, <3>2 DEF FleetInv
  <2> QED
    BY <2>4, <2>5
<1>4. CASE DeliverLift
  <2>1. lift' = NoLift /\ offers' = {} /\ attempt' = 0
    BY <1>4 DEF DeliverLift
  <2>2. FALSE \in BOOLEAN /\ (FALSE <=> attempt' = 2)
    BY <2>1
  <2> QED
    BY <2>1, <2>2 DEF FleetInv
<1>5. CASE UNCHANGED fleetVars
  <2>1. lift' = lift /\ attempt' = attempt /\ offers' = offers
    BY <1>5 DEF fleetVars
  <2> QED
    BY <2>1, MixStays DEF FleetInv
<1> QED
  BY <1>1, <1>2, <1>3, <1>4, <1>5 DEF FleetNext

LEMMA ShipsCarry ==
  ASSUME NEW tonnes \in Nat, NEW size \in Nat, size > 0
  PROVE  LET ships == (tonnes + size - 1) \div size
         IN  ships * size >= tonnes /\ (ships - 1) * size < tonnes
<1>1. PICK q \in Int : q = (tonnes + size - 1) \div size
  OBVIOUS
<1>2. PICK r \in 0 .. size - 1 : tonnes + size - 1 = q * size + r
  <2>1. (tonnes + size - 1) % size \in 0 .. size - 1
    OBVIOUS
  <2>2. tonnes + size - 1 = size * ((tonnes + size - 1) \div size) + ((tonnes + size - 1) % size)
    OBVIOUS
  <2> QED
    BY <1>1, <2>1, <2>2
<1>3. PICK p \in Int : p = q * size
  BY <1>1
<1>4. (q - 1) * size = p - size
  BY <1>3
<1> QED
  BY <1>1, <1>2, <1>3, <1>4

LEMMA OffersDoBerth ==
  ASSUME FleetInv
  PROVE  OffersCanBerth
<1> SUFFICES ASSUME NEW offer \in offers
             PROVE  LET hull  == HullOf[offer.class]
                        slack == Slack(attempt = 2)
                        Takes(port) == \E limits \in PlacesAt(port) : Fits(limits, hull, slack)
                    IN  /\ Takes(lift.from) /\ Takes(offer.at)
                        /\ offer.ships * hull["size"] >= lift.tonnes
                        /\ (offer.ships - 1) * hull["size"] < lift.tonnes
                        /\ offer.transship => ~Strictly(lift.to, hull)
  BY DEF OffersCanBerth, Slack, Fits
<1>r. PICK relaxed \in BOOLEAN :
        /\ relaxed <=> attempt = 2
        /\ offers # {} => offers = FleetMixOf(Calls(relaxed), relaxed)
  BY DEF FleetInv
<1>1. lift \in Lifts /\ offers = FleetMixOf(Calls(relaxed), relaxed)
  BY <1>r DEF FleetInv
<1>2. PICK kind \in Classes :
        /\ Serves(kind, Calls(relaxed)[kind], relaxed)
        /\ offer = [class |-> kind, ships |-> Count(kind),
                    at |-> Discharge(Calls(relaxed)[kind], relaxed),
                    transship |-> Discharge(Calls(relaxed)[kind], relaxed) # lift.to]
  BY <1>1 DEF FleetMixOf
<1> DEFINE hull == HullOf[kind]
           ports == {port \in Ports : CanCall(port, hull, relaxed)}
<1>3. Calls(relaxed)[kind] = ports
  BY DEF Calls
<1>4. hull \in Vessel /\ hull["size"] \in Nat /\ hull["size"] > 0
  BY FleetMixAssumption DEF Vessel, Checks
<1>5. ASSUME NEW port \in ports
      PROVE  \E limits \in PlacesAt(port) : Fits(limits, hull, Slack(relaxed))
  <2>1. port \in Ports /\ (Strictly(port, hull) \/ (relaxed /\ PartLoaded(BerthLimits(port), hull)))
    BY DEF CanCall
  <2> HIDE DEF hull
  <2>2. CASE Strictly(port, hull)
    BY <1>1, <1>4, <1>r, <2>1, <2>2, StrictlyIs
  <2>3. CASE relaxed /\ PartLoaded(BerthLimits(port), hull)
    <3>1. relaxed = TRUE
      BY <1>r, <2>3
    <3>2. \E limits \in PlacesAt(port) : Fits(limits, hull, Slack(TRUE))
      BY <1>1, <1>4, <2>1, <2>3, PartLoadedIs
    <3> QED
      BY <3>1, <3>2
  <2> QED
    BY <2>1, <2>2, <2>3
<1>6. lift.from \in ports /\ Discharge(ports, relaxed) # Unpublished
  BY <1>2, <1>3 DEF Serves
<1>7. /\ Discharge(ports, relaxed) \in ports
      /\ Discharge(ports, relaxed) # lift.to => lift.to \notin ports
  <2> HIDE DEF ports
  <2> QED
    BY <1>6 DEF Discharge
<1>8. offer.transship => ~Strictly(lift.to, hull)
  <2>1. ASSUME offer.transship
        PROVE  ~Strictly(lift.to, hull)
    <3>1. Discharge(ports, relaxed) # lift.to
      BY <1>2, <1>3, <2>1
    <3>2. lift.to \in Ports /\ lift.to \notin ports
      BY <1>1, <1>7, <3>1, LiftIs
    <3> QED
      BY <3>2 DEF CanCall
  <2> QED
    BY <2>1
<1>9. /\ offer.ships * hull["size"] >= lift.tonnes
      /\ (offer.ships - 1) * hull["size"] < lift.tonnes
  <2>1. offer.ships = (lift.tonnes + hull["size"] - 1) \div hull["size"] /\ lift.tonnes \in Nat
    BY <1>1, <1>2, LiftIs DEF Count
  <2> HIDE DEF hull
  <2> QED
    BY <1>4, <2>1, ShipsCarry
<1>10. offer.class = kind /\ offer.at = Discharge(ports, relaxed)
  BY <1>2, <1>3
<1>11. /\ \E limits \in PlacesAt(lift.from) : Fits(limits, hull, Slack(relaxed))
       /\ \E limits \in PlacesAt(offer.at) : Fits(limits, hull, Slack(relaxed))
  <2> HIDE DEF ports, hull
  <2> QED
    BY <1>5, <1>6, <1>7, <1>10
<1> HIDE DEF ports
<1>12. Slack(relaxed) = Slack(attempt = 2)
  BY <1>r DEF Slack
<1> QED
  BY <1>8, <1>9, <1>10, <1>11, <1>12

LEMMA NobodyIsLost ==
  ASSUME FleetInv
  PROVE  LooseningLosesNobody
<1> SUFFICES ASSUME lift # NoLift, StructuralProblems = {}, NEW kind \in Classes,
                    Serves(kind, Calls(FALSE)[kind], FALSE)
             PROVE  Serves(kind, Calls(TRUE)[kind], TRUE)
  BY DEF LooseningLosesNobody
<1> DEFINE asked == Calls(FALSE)[kind]
           loosened == Calls(TRUE)[kind]
<1>1. lift \in Lifts
  BY DEF FleetInv
<1>2. lift.to \in Ports /\ lift.to # Unpublished
  BY <1>1, LiftIs, FleetMixAssumption
<1>3. asked \subseteq loosened
  BY DEF Calls, CanCall
<1>4. Known(lift.from, lift.to)
  <2>1. "route" \notin StructuralProblems
    OBVIOUS
  <2> QED
    BY <2>1 DEF StructuralProblems
<1> HIDE DEF asked, loosened
<1>5. /\ lift.from \in asked /\ kind \in lift.priced
      /\ Discharge(asked, FALSE) # Unpublished /\ Known(lift.from, Discharge(asked, FALSE))
  BY DEF Serves, asked
<1>6. CASE lift.to \in loosened
  <2>1. Discharge(loosened, TRUE) = lift.to
    BY <1>6 DEF Discharge
  <2> QED
    BY <1>2, <1>3, <1>4, <1>5, <2>1 DEF Serves, loosened
<1>7. CASE lift.to \notin loosened
  <2>1. lift.to \notin asked
    BY <1>3, <1>7
  <2>2. /\ HubFor(asked, FALSE) \in asked /\ Discharge(asked, FALSE) = HubFor(asked, FALSE)
        /\ HubFor(asked, FALSE) # Unpublished
    BY <1>5, <2>1 DEF Discharge
  <2>3. HubFor(asked, FALSE) = Hub[lift.to]
    BY DEF HubFor
  <2>4. HubFor(loosened, TRUE) = Hub[lift.to]
    BY <2>2, <2>3 DEF HubFor
  <2>5. Discharge(loosened, TRUE) = Discharge(asked, FALSE)
    BY <1>3, <1>7, <2>2, <2>3, <2>4 DEF Discharge
  <2> QED
    BY <1>3, <1>5, <2>5 DEF Serves, loosened
<1> QED
  BY <1>6, <1>7

FleetSpec == FleetInit /\ [][FleetNext]_fleetVars

(***************************************************************************)
(* For any register, ports, ships and requests: what the envelope offers can *)
(* berth wherever it calls, and a looser question loses no ship              *)
(* (solve_with_feasibility_envelope).                                        *)
(***************************************************************************)
THEOREM EnvelopesAreSound == FleetSpec => []EnvelopeIsSound
<1>1. FleetInv => EnvelopeIsSound
  BY OffersDoBerth, NobodyIsLost DEF EnvelopeIsSound
<1>2. FleetInit => FleetInv
  <2>1. FALSE \in BOOLEAN /\ (FALSE <=> 0 = 2)
    OBVIOUS
  <2> QED
    BY <2>1 DEF FleetInit, FleetInv
<1>3. FleetInv /\ [FleetNext]_fleetVars => FleetInv'
  BY FleetInvStep
<1> QED
  BY <1>1, <1>2, <1>3, PTL DEF FleetSpec

(***************************************************************************)
(* Landed costs, the basis of a route, the mix of a portfolio (CostDesk).    *)
(***************************************************************************)

(* A table of the sums, told one member at a time.                         *)
AddsUp(g, S, W) ==
  /\ W = [s \in SUBSET S |-> W[s]]
  /\ W[{}] = 0
  /\ \A s \in SUBSET S : \A x \in s : W[s] = g[x] + W[s \ {x}]

LEMMA SumIs ==
  ASSUME NEW g, NEW S, IsFiniteSet(S), NEW W, AddsUp(g, S, W)
  PROVE  SumOver(g, S) = W[S]
<1> USE DEF AddsUp
<1> DEFINE f == CHOOSE h : Sums(g, S, h)
<1>1. SumOver(g, S) = f[S]
  BY DEF SumOver, MapThenSumSet, MapThenFoldSet, Sums, Picked
<1>2. \A s \in SUBSET S : s # {} => Picked(s) \in s
  BY DEF Picked
<1>3. Sums(g, S, W)
  <2>1. \A s \in SUBSET S :
          W[s] = IF s = {} THEN 0 ELSE g[Picked(s)] + W[s \ {Picked(s)}]
    BY <1>2
  <2>2. [s \in SUBSET S |-> W[s]]
          = [s \in SUBSET S |-> IF s = {} THEN 0 ELSE g[Picked(s)] + W[s \ {Picked(s)}]]
    BY <2>1
  <2> QED
    BY <2>2 DEF Sums
<1>4. Sums(g, S, f)
  BY <1>3
<1> HIDE DEF f
<1>5. \A s \in SUBSET S :
        f[s] = IF s = {} THEN 0 ELSE g[Picked(s)] + f[s \ {Picked(s)}]
  <2>1. f = [s \in SUBSET S |-> IF s = {} THEN 0 ELSE g[Picked(s)] + f[s \ {Picked(s)}]]
    BY <1>4 DEF Sums
  <2> SUFFICES ASSUME NEW s \in SUBSET S
               PROVE  f[s] = IF s = {} THEN 0 ELSE g[Picked(s)] + f[s \ {Picked(s)}]
    OBVIOUS
  <2> DEFINE R(t) == IF t = {} THEN 0 ELSE g[Picked(t)] + f[t \ {Picked(t)}]
  <2>2. f = [t \in SUBSET S |-> R(t)]
    BY <2>1
  <2> HIDE DEF R
  <2>3. f[s] = R(s)
    BY <2>2
  <2> QED
    BY <2>3 DEF R
<1> DEFINE Odd(s) == f[s] # W[s]
           T == {n \in Nat : \E s \in SUBSET S : Odd(s) /\ Cardinality(s) = n}
<1>6. \A s \in SUBSET S : IsFiniteSet(s) /\ Cardinality(s) \in Nat
  BY FS_Subset, FS_CardinalityType
<1>7. T = {}
  <2> SUFFICES ASSUME T # {} PROVE FALSE
    OBVIOUS
  <2>1. PICK n \in T : \A m \in T : n <= m
    <3> HIDE DEF T
    <3>1. T \subseteq Nat
      BY DEF T
    <3> QED
      BY <3>1, LeastOfSome
  <2>2. PICK s \in SUBSET S : Odd(s) /\ Cardinality(s) = n
    OBVIOUS
  <2>3. s # {}
    BY <1>5, <2>2
  <2>4. Picked(s) \in s
    BY <1>2, <2>3
  <2>5. Cardinality(s \ {Picked(s)}) = n - 1 /\ n - 1 \in Nat
    <3>1. Cardinality(s \ {Picked(s)}) = Cardinality(s) - 1
      BY <1>6, <2>4, FS_RemoveElement
    <3>2. Cardinality(s \ {Picked(s)}) \in Nat /\ Cardinality(s) \in Nat
      BY <1>6
    <3> QED
      BY <2>2, <3>1, <3>2
  <2>6. ~Odd(s \ {Picked(s)})
    <3>1. s \ {Picked(s)} \in SUBSET S
      OBVIOUS
    <3>2. n \in Nat
      OBVIOUS
    <3> QED
      BY <2>1, <2>5, <3>1, <3>2
  <2>7. f[s] = g[Picked(s)] + f[s \ {Picked(s)}]
    BY <1>5, <2>3
  <2>8. W[s] = g[Picked(s)] + W[s \ {Picked(s)}]
    BY <2>4
  <2> QED
    BY <2>2, <2>6, <2>7, <2>8
<1>8. f[S] = W[S]
  BY <1>6, <1>7
<1> QED
  BY <1>1, <1>8

PartNames == {"freight", "wait", "handling", "demurrage", "war_risk", "commodity"}
Share(g, s, name) == IF name \in s THEN g[name] ELSE 0
AllShares(g, s) ==
  Share(g, s, "freight") + Share(g, s, "wait") + Share(g, s, "handling")
  + Share(g, s, "demurrage") + Share(g, s, "war_risk") + Share(g, s, "commodity")

LEMMA PartsAddUp ==
  ASSUME NEW g, NEW S, S \subseteq PartNames, \A name \in S : g[name] \in Int
  PROVE  SumOver(g, S) = AllShares(g, S)
<1> DEFINE W == [s \in SUBSET S |-> AllShares(g, s)]
<1>1. IsFiniteSet(S)
  <2>1. IsFiniteSet(PartNames)
    <3> DEFINE names == <<"freight", "wait", "handling", "demurrage", "war_risk", "commodity">>
    <3>1. Range(names) = PartNames /\ DOMAIN names = 1 .. 6
      BY DEF Range, PartNames
    <3>2. \A n \in Nat : IsFiniteSet(1 .. n)
      BY FS_Interval
    <3> HIDE DEF names
    <3> QED
      BY <3>1, <3>2, ImageIsFinite
  <2> QED
    BY <2>1, FS_Subset
<1>2. \A s \in SUBSET S : \A name \in PartNames : Share(g, s, name) \in Int
  BY DEF Share
<1>3. W[{}] = 0
  <2>1. AllShares(g, {}) = 0
    BY DEF AllShares, Share
  <2> QED
    BY <2>1
<1>4. ASSUME NEW s \in SUBSET S, NEW x \in s
      PROVE  AllShares(g, s) = g[x] + AllShares(g, s \ {x})
  <2>1. x \in PartNames /\ g[x] \in Int
    OBVIOUS
  <2>2. \A name \in PartNames :
          Share(g, s, name) = IF name = x THEN g[x] ELSE Share(g, s \ {x}, name)
    BY DEF Share
  <2>3. Share(g, s \ {x}, x) = 0
    BY DEF Share
  <2>4. \A name \in PartNames : Share(g, s \ {x}, name) \in Int
    BY <1>2
  <2>5. CASE x = "freight"
    BY <2>1, <2>2, <2>3, <2>4, <2>5 DEF AllShares, PartNames
  <2>6. CASE x = "wait"
    BY <2>1, <2>2, <2>3, <2>4, <2>6 DEF AllShares, PartNames
  <2>7. CASE x = "handling"
    BY <2>1, <2>2, <2>3, <2>4, <2>7 DEF AllShares, PartNames
  <2>8. CASE x = "demurrage"
    BY <2>1, <2>2, <2>3, <2>4, <2>8 DEF AllShares, PartNames
  <2>9. CASE x = "war_risk"
    BY <2>1, <2>2, <2>3, <2>4, <2>9 DEF AllShares, PartNames
  <2>10. CASE x = "commodity"
    BY <2>1, <2>2, <2>3, <2>4, <2>10 DEF AllShares, PartNames
  <2> QED
    BY <2>1, <2>5, <2>6, <2>7, <2>8, <2>9, <2>10 DEF PartNames
<1>5. AddsUp(g, S, W) /\ W[S] = AllShares(g, S)
  BY <1>3, <1>4 DEF AddsUp
<1> HIDE DEF W
<1> QED
  BY <1>1, <1>5, SumIs

-----------------------------------------------------------------------------

LandedAsk(r) ==
  r \in [tonnes : Nat, freight : Nat, days : Nat, opex : Nat, wait : Figure(Nat),
         handling : Figure(Int), demurrage : Figure(Int), laytime : Figure(Int),
         hull : Figure(Nat), areas : {r.areas}, commodity : {r.commodity},
         day : Int, inr : BOOLEAN]

LEMMA ProductsAre ==
  /\ \A a, b \in Nat : a * b \in Nat
  /\ \A a, b \in Int : a * b \in Int
  /\ \A a \in Nat, b \in Int : a * b < 0 => b < 0
  OBVIOUS

LEMMA CommodityIs ==
  ASSUME NEW r, LandedAsk(r)
  PROVE  Commodity(r) \in Figure(Nat)
<1> DEFINE rows == {row \in MacroRows : row.series = r.commodity /\ row.day <= r.day}
           point == Macro(r.commodity, r.day)
<1> SUFFICES ASSUME r.commodity # NoFigure, point # NoFigure, point.unit = "usd_per_mt"
             PROVE  point.value * r.tonnes \in Nat
  BY DEF Commodity, Figure
<1>1. rows # {} /\ point = CHOOSE row \in rows : \A other \in rows : other.day <= row.day
  BY DEF Macro
<1>2. \E row \in rows : \A other \in rows : other.day <= row.day
  <2> DEFINE f == [row \in rows |-> row.day]
             days == Range(f)
  <2>1. IsFiniteSet(rows) /\ \A row \in rows : row.day \in Int
    <3>1. rows \subseteq MacroRows
      OBVIOUS
    <3> QED
      BY <3>1, TableAssumption, FS_Subset
  <2>2. days \subseteq Int /\ IsFiniteSet(days) /\ days # {}
    <3>1. days = {row.day : row \in rows}
      BY DEF Range
    <3> HIDE DEF rows
    <3>2. IsFiniteSet(DOMAIN f)
      BY <2>1
    <3> HIDE DEF f
    <3>3. IsFiniteSet(days)
      BY <3>2, ImageIsFinite
    <3> HIDE DEF days
    <3> QED
      BY <1>1, <2>1, <3>1, <3>3
  <2>3. PICK last \in days : \A d \in days : last >= d
    <3> HIDE DEF days
    <3> QED
      BY <2>2, FiniteHasMax
  <2>4. PICK row \in rows : row.day = last
    BY DEF Range
  <2>5. \A other \in rows : other.day \in days
    BY DEF Range
  <2> HIDE DEF rows, days
  <2> QED
    BY <2>1, <2>3, <2>4, <2>5
<1>3. point \in rows
  <2> HIDE DEF point, rows
  <2> QED
    BY <1>1, <1>2
<1>4. point.value \in Nat
  <2>1. point \in MacroRows
    BY <1>3
  <2> HIDE DEF point, rows
  <2> QED
    BY <2>1, TableAssumption
<1>5. r.tonnes \in Nat
  BY DEF LandedAsk
<1> HIDE DEF point
<1> QED
  BY <1>4, <1>5, ProductsAre

LEMMA PartsAre ==
  ASSUME NEW r, LandedAsk(r)
  PROVE  /\ DOMAIN Parts(r) = PartNames
         /\ \A name \in PartNames : Parts(r)[name] \in Figure(Int)
         /\ \A name \in PartNames : Parts(r)[name] # NoFigure /\ Parts(r)[name] < 0 =>
              name \in {"handling", "demurrage"} /\ r[name] < 0
<1>1. DOMAIN Parts(r) = PartNames
  BY DEF Parts, PartNames
<1>2. r.freight * r.days \in Nat
  BY ProductsAre DEF LandedAsk
<1>3. WaitCost(r) \in Figure(Nat)
  BY ProductsAre DEF LandedAsk, WaitCost, Figure
<1>4. WarRisk(r) \in Figure(Nat)
  <2>1. Max({1, (r.days + 6) \div 7}) \in Nat
    <3>1. (r.days + 6) \div 7 \in Nat
      BY DEF LandedAsk
    <3> DEFINE w == (r.days + 6) \div 7
    <3> HIDE DEF w
    <3>2. Max({1, w}) \in {1, w}
      <4>1. \E m \in {1, w} : \A x \in {1, w} : m >= x
        BY <3>1 DEF w
      <4> QED
        BY <4>1 DEF Max
    <3> QED
      BY <3>1, <3>2 DEF w
  <2> DEFINE m == Max({1, (r.days + 6) \div 7})
  <2> HIDE DEF m
  <2>2. r.hull # NoFigure => r.hull \in Nat
    BY DEF LandedAsk, Figure
  <2>3. r.hull # NoFigure => r.hull * m \in Nat
    BY <2>1, <2>2, ProductsAre DEF m
  <2> QED
    BY <2>3 DEF WarRisk, Figure, m
<1>5. Commodity(r) \in Figure(Nat)
  BY CommodityIs
<1>6. /\ Demurrage(r) \in Figure(Int)
      /\ Demurrage(r) # NoFigure /\ Demurrage(r) < 0 => r.demurrage < 0
  <2> SUFFICES ASSUME NoFigure \notin {r.wait, r.demurrage, r.laytime}
               PROVE  /\ Max({0, r.wait - r.laytime}) * r.demurrage \in Int
                      /\ Max({0, r.wait - r.laytime}) * r.demurrage < 0 => r.demurrage < 0
    BY DEF Demurrage, Figure
  <2>1. r.wait \in Nat /\ r.laytime \in Int /\ r.demurrage \in Int
    BY DEF LandedAsk, Figure
  <2>2. Max({0, r.wait - r.laytime}) \in Nat
    <3> DEFINE w == r.wait - r.laytime
    <3>1. w \in Int
      BY <2>1
    <3> HIDE DEF w
    <3>2. \E m \in {0, w} : \A x \in {0, w} : m >= x
      BY <3>1
    <3>3. Max({0, w}) \in {0, w} /\ Max({0, w}) >= 0
      BY <3>2 DEF Max
    <3> QED
      BY <3>1, <3>3 DEF w
  <2> DEFINE m == Max({0, r.wait - r.laytime})
  <2> HIDE DEF m
  <2>3. m * r.demurrage \in Int /\ (m * r.demurrage < 0 => r.demurrage < 0)
    BY <2>1, <2>2, ProductsAre DEF m
  <2> QED
    BY <2>3 DEF m
<1>7. r.handling # NoFigure =>
        r.handling * r.tonnes \in Int /\ (r.handling * r.tonnes < 0 => r.handling < 0)
  <2>1. r.tonnes \in Nat /\ (r.handling # NoFigure => r.handling \in Int)
    BY DEF LandedAsk, Figure
  <2>2. \A a \in Nat, b \in Int : b * a \in Int /\ (b * a < 0 => b < 0)
    OBVIOUS
  <2> QED
    BY <2>1, <2>2
<1>8. \A name \in PartNames : Parts(r)[name] \in Figure(Int)
  BY <1>2, <1>3, <1>4, <1>5, <1>6, <1>7 DEF Parts, PartNames, Figure
<1>9. ASSUME NEW name \in PartNames, Parts(r)[name] # NoFigure, Parts(r)[name] < 0
      PROVE  name \in {"handling", "demurrage"} /\ r[name] < 0
  <2>1. name \notin {"freight", "wait", "war_risk", "commodity"}
    BY <1>2, <1>3, <1>4, <1>5, <1>9 DEF Parts, PartNames, Figure
  <2>2. CASE name = "handling"
    BY <1>7, <1>9, <2>2 DEF Parts, PartNames
  <2>3. CASE name = "demurrage"
    BY <1>6, <1>9, <2>3 DEF Parts, PartNames
  <2> QED
    BY <2>1, <2>2, <2>3 DEF PartNames
<1> QED
  BY <1>1, <1>8, <1>9

LEMMA TotalIs ==
  ASSUME NEW r, Landed(r).kind = "landed"
  PROVE  Landed(r).total = SumOver(Parts(r), Included(Parts(r)))
  BY DEF Landed, SumOver

(* What TotalIsOfItsParts says of the breakdown b of a request r.          *)
IsAddedUp(b, r) ==
  /\ b.included \cap b.missing = {} /\ b.included \cup b.missing = DOMAIN b.parts
  /\ \A name \in b.included :
       /\ b.parts[name] # NoFigure
       /\ b.parts[name] < 0 => name \in {"handling", "demurrage"} /\ r[name] < 0
  /\ \A name \in b.missing : b.parts[name] = NoFigure
  /\ b.total = SumOver(b.parts, b.included)

LEMMA LandedAddsUp ==
  ASSUME NEW r, LandedAsk(r)
  PROVE  IsAddedUp(Landed(r), r)
<1> DEFINE b == Landed(r)
<1>1. /\ b.parts = Parts(r) /\ b.included = Included(Parts(r))
      /\ b.missing = DOMAIN Parts(r) \ Included(Parts(r))
      /\ b.total = SumOver(Parts(r), Included(Parts(r)))
  BY DEF Landed, SumOver
<1>2. Included(Parts(r)) = {name \in PartNames : Parts(r)[name] # NoFigure}
  BY PartsAre DEF Included
<1> HIDE DEF b
<1>3. b.included \cap b.missing = {} /\ b.included \cup b.missing = DOMAIN b.parts
  BY <1>1, <1>2, PartsAre
<1>4. \A name \in b.included :
        /\ b.parts[name] # NoFigure
        /\ b.parts[name] < 0 => name \in {"handling", "demurrage"} /\ r[name] < 0
  BY <1>1, <1>2, PartsAre
<1>5. \A name \in b.missing : b.parts[name] = NoFigure
  BY <1>1, <1>2, PartsAre
<1>6. b.total = SumOver(b.parts, b.included)
  BY <1>1
<1> QED
  BY <1>3, <1>4, <1>5, <1>6 DEF b, IsAddedUp

AskFields == {"tonnes", "freight", "days", "opex", "wait", "handling", "demurrage", "laytime",
              "hull", "areas", "commodity", "day", "inr"}

LEMMA QuoteAsks ==
  ASSUME NEW r, LandedAsk(r)
  PROVE  LandedAsk(OfQuote(r)) /\ OfQuote(r).opex = 0
<1>1. /\ OfQuote(r).tonnes = r.tonnes /\ OfQuote(r).freight = r.freight
      /\ OfQuote(r).days = r.days /\ OfQuote(r).wait = r.wait
      /\ OfQuote(r).areas = r.areas /\ OfQuote(r).day = r.day
      /\ OfQuote(r).opex = 0 /\ OfQuote(r).handling = NoFigure
      /\ OfQuote(r).demurrage = NoFigure /\ OfQuote(r).laytime = NoFigure
      /\ OfQuote(r).hull = NoFigure /\ OfQuote(r).commodity = NoFigure
      /\ OfQuote(r).inr = FALSE
  BY DEF LandedAsk, OfQuote
<1>2. OfQuote(r) = [r EXCEPT !.opex = 0, !.handling = NoFigure, !.demurrage = NoFigure,
                      !.laytime = NoFigure, !.hull = NoFigure, !.commodity = NoFigure,
                      !.inr = FALSE]
  BY DEF OfQuote
<1>3. OfQuote(r) \in [tonnes : Nat, freight : Nat, days : Nat, opex : Nat, wait : Figure(Nat),
                      handling : Figure(Int), demurrage : Figure(Int), laytime : Figure(Int),
                      hull : Figure(Nat), areas : {r.areas}, commodity : {NoFigure},
                      day : Int, inr : BOOLEAN]
  <2> DEFINE q == OfQuote(r)
  <2>1. /\ q.tonnes \in Nat /\ q.freight \in Nat /\ q.days \in Nat /\ q.opex \in Nat
        /\ q.wait \in Figure(Nat) /\ q.handling \in Figure(Int) /\ q.demurrage \in Figure(Int)
        /\ q.laytime \in Figure(Int) /\ q.hull \in Figure(Nat) /\ q.areas \in {r.areas}
        /\ q.commodity \in {NoFigure} /\ q.day \in Int /\ q.inr \in BOOLEAN
    <3>1. /\ r.tonnes \in Nat /\ r.freight \in Nat /\ r.days \in Nat
          /\ r.wait \in Figure(Nat) /\ r.day \in Int
      BY DEF LandedAsk
    <3>2. 0 \in Nat /\ FALSE \in BOOLEAN /\ NoFigure \in Figure(Int) /\ NoFigure \in Figure(Nat)
      BY DEF Figure
    <3> QED
      BY <1>1, <3>1, <3>2
  <2>2. DOMAIN r = AskFields /\ r = [f \in AskFields |-> r[f]]
    BY DEF LandedAsk, AskFields
  <2>3. DOMAIN q = AskFields /\ q = [f \in AskFields |-> q[f]]
    BY <2>2, <1>2
  <2> HIDE DEF q
  <2>4. q \in [tonnes : Nat, freight : Nat, days : Nat, opex : Nat, wait : Figure(Nat),
               handling : Figure(Int), demurrage : Figure(Int), laytime : Figure(Int),
               hull : Figure(Nat), areas : {r.areas}, commodity : {NoFigure},
               day : Int, inr : BOOLEAN]
    BY <2>1, <2>3 DEF AskFields
  <2> QED
    BY <2>4 DEF q
<1> QED
  BY <1>1, <1>3 DEF LandedAsk

(* A wait without running costs costs nothing, so taking it out of the     *)
(* breakdown leaves the sum of the others.                                 *)
LEMMA PartialAddsUp ==
  ASSUME NEW r, LandedAsk(r), r.opex = 0
  PROVE  IsAddedUp(Partial(Landed(r)), r) /\ "wait" \in Partial(Landed(r)).missing
<1> DEFINE a == Landed(r)
           b == Partial(a)
           parts == Parts(r)
           others == a.included \ {"wait"}
<1>1. /\ a.parts = parts /\ a.included = Included(parts)
      /\ a.missing = DOMAIN parts \ Included(parts)
      /\ a.total = SumOver(parts, Included(parts))
  BY DEF Landed, SumOver
<1>2. Included(parts) = {name \in PartNames : parts[name] # NoFigure}
  BY PartsAre DEF Included
<1>3. IsAddedUp(a, r)
  BY LandedAddsUp
<1>4. "wait" \in PartNames /\ DOMAIN parts = PartNames
  BY PartsAre DEF PartNames
<1>5. parts["wait"] \in {NoFigure, 0}
  <2>1. r.wait # NoFigure => r.wait * 0 = 0
    BY DEF LandedAsk, Figure
  <2> QED
    BY <2>1 DEF Parts, WaitCost
<1>6. /\ b.parts = [a.parts EXCEPT !["wait"] = NoFigure]
      /\ b.included = others /\ b.missing = a.missing \cup {"wait"}
      /\ b.total = a.total - (IF a.parts.wait = NoFigure THEN 0 ELSE a.parts.wait)
  <2>1. DOMAIN a = {"kind", "parts", "included", "missing", "total", "rupees"}
        /\ a.parts = [a.parts EXCEPT !.wait = @]
    BY DEF Landed, Parts
  <2> HIDE DEF a
  <2> QED
    BY <2>1 DEF Partial
<1> HIDE DEF a, b, parts
<1>7. \A name \in PartNames \ {"wait"} : b.parts[name] = parts[name]
  BY <1>1, <1>4, <1>6
<1>8. b.parts["wait"] = NoFigure /\ DOMAIN b.parts = PartNames
  BY <1>1, <1>4, <1>6
<1>9. b.included = {name \in PartNames : b.parts[name] # NoFigure}
  BY <1>1, <1>2, <1>6, <1>7, <1>8
<1>10. b.missing = {name \in PartNames : b.parts[name] = NoFigure}
  BY <1>1, <1>2, <1>4, <1>6, <1>7, <1>8
<1>11. b.included \cap b.missing = {} /\ b.included \cup b.missing = DOMAIN b.parts
  BY <1>8, <1>9, <1>10
<1>12. ASSUME NEW name \in b.included
       PROVE  /\ b.parts[name] # NoFigure
              /\ b.parts[name] < 0 => name \in {"handling", "demurrage"} /\ r[name] < 0
  <2>1. name \in PartNames \ {"wait"} /\ b.parts[name] # NoFigure
    BY <1>8, <1>9
  <2>2. b.parts[name] = parts[name] /\ name \in a.included
    BY <1>1, <1>2, <1>7, <2>1
  <2> QED
    BY <1>1, <1>3, <2>1, <2>2 DEF IsAddedUp
<1>13. b.total = SumOver(b.parts, b.included)
  <2>1. a.included \subseteq PartNames /\ \A name \in a.included : parts[name] \in Int
    BY <1>1, <1>2, PartsAre DEF parts, Figure
  <2>2. a.total = AllShares(parts, a.included)
    BY <1>1, <2>1, PartsAddUp
  <2>3. \A name \in others : b.parts[name] = parts[name]
    BY <1>7, <2>1
  <2>4. others \subseteq PartNames /\ \A name \in others : b.parts[name] \in Int
    BY <2>1, <2>3
  <2>5. SumOver(b.parts, others) = AllShares(b.parts, others)
    BY <2>4, PartsAddUp
  <2>6. \A name \in PartNames \ {"wait"} :
          Share(b.parts, others, name) = Share(parts, a.included, name)
    BY <2>3 DEF Share
  <2>7. Share(b.parts, others, "wait") = 0 /\ Share(parts, a.included, "wait") = 0
    BY <1>1, <1>2, <1>5 DEF Share
  <2>8. AllShares(b.parts, others) = AllShares(parts, a.included)
    BY <2>6, <2>7 DEF AllShares, PartNames
  <2>9. a.total \in Int
    <3>1. \A name \in PartNames : Share(parts, a.included, name) \in Int
      BY <2>1 DEF Share
    <3> QED
      BY <2>2, <3>1 DEF AllShares, PartNames
  <2>10. b.total = a.total
    <3>1. (IF a.parts.wait = NoFigure THEN 0 ELSE a.parts.wait) = 0
      BY <1>1, <1>5
    <3> QED
      BY <1>6, <2>9, <3>1
  <2> QED
    BY <1>6, <2>2, <2>5, <2>8, <2>10
<1>14. "wait" \in b.missing /\ \A name \in b.missing : b.parts[name] = NoFigure
  BY <1>4, <1>8, <1>10
<1>15. IsAddedUp(b, r)
  BY <1>11, <1>12, <1>13, <1>14 DEF IsAddedUp
<1> QED
  BY <1>14, <1>15 DEF a, b

LEMMA SumOfSame ==
  ASSUME NEW g, NEW S, IsFiniteSet(S), NEW c \in Int, \A x \in S : g[x] = c
  PROVE  SumOver(g, S) = c * Cardinality(S)
<1> DEFINE W == [s \in SUBSET S |-> c * Cardinality(s)]
<1>1. \A s \in SUBSET S : IsFiniteSet(s) /\ Cardinality(s) \in Nat
  BY FS_Subset, FS_CardinalityType
<1>2. ASSUME NEW s \in SUBSET S, NEW x \in s
      PROVE  c * Cardinality(s) = g[x] + c * Cardinality(s \ {x})
  <2>1. Cardinality(s \ {x}) = Cardinality(s) - 1
    BY <1>1, FS_RemoveElement
  <2>2. \A n \in Int : c * n = c + c * (n - 1)
    OBVIOUS
  <2>3. Cardinality(s) \in Int
    BY <1>1
  <2>4. g[x] = c
    OBVIOUS
  <2> QED
    BY <2>1, <2>2, <2>3, <2>4
<1>3. W[{}] = 0
  BY FS_EmptySet
<1>4. AddsUp(g, S, W) /\ W[S] = c * Cardinality(S)
  BY <1>2, <1>3 DEF AddsUp
<1> HIDE DEF W
<1> QED
  BY <1>4, SumIs

-----------------------------------------------------------------------------

(* What was printed by a day decides the basis of that day.                *)
LEMMA BenchmarksAreOfTheirDay ==
  ASSUME NEW world \in Worlds, NEW day \in Int, NEW row \in world, row.day <= day
  PROVE  BenchmarkRate({r \in world : r.day <= day}, row) = BenchmarkRate(world, row)
<1> DEFINE known == {r \in world : r.day <= day}
<1>1. \A r \in world : r.day \in Int
  BY TableAssumption
<1>2. Benchmark(known, row.series, row.day) = Benchmark(world, row.series, row.day)
  <2>1. \A r \in world : r.day <= row.day => r \in known
    BY <1>1
  <2>2. known \subseteq world
    OBVIOUS
  <2> HIDE DEF known
  <2> QED
    BY <2>1, <2>2 DEF Benchmark
<1> HIDE DEF known
<1>3. BenchmarkRate(known, row) = BenchmarkRate(world, row)
  BY <1>2 DEF BenchmarkRate
<1> QED
  BY <1>3 DEF known

LEMMA BasisIsOfItsDay ==
  ASSUME NEW world \in Worlds, NEW day \in Int
  PROVE  Basis({r \in world : r.day <= day}, day) = Basis(world, day)
<1> DEFINE known == {r \in world : r.day <= day}
           Told(w) == {o \in Observations(w, day) : o.unit = "usd/day" /\ BenchmarkRate(w, o) > 0}
<1>1. Observations(known, day) = Observations(world, day)
  BY DEF Observations
<1>2. \A o \in Observations(world, day) : BenchmarkRate(known, o) = BenchmarkRate(world, o)
  BY BenchmarksAreOfTheirDay DEF Observations
<1>3. Told(known) = Told(world)
  <2> HIDE DEF known
  <2> QED
    BY <1>1, <1>2
<1>4. \A o \in Told(world) : RoutePremium(known, o) = RoutePremium(world, o)
  <2> HIDE DEF known
  <2> QED
    BY <1>2 DEF RoutePremium
<1>5. Ratios(known, day) = Ratios(world, day)
  <2>1. /\ Ratios(known, day) = [row \in Told(known) |-> RoutePremium(known, row)]
        /\ Ratios(world, day) = [row \in Told(world) |-> RoutePremium(world, row)]
    BY DEF Ratios
  <2> HIDE DEF known, Told
  <2> QED
    BY <1>3, <1>4, <2>1
<1> HIDE DEF known
<1>6. Basis(known, day) = Basis(world, day)
  BY <1>5 DEF Basis
<1> QED
  BY <1>6 DEF known

LEMMA QuotientIs == \A n \in Nat \ {0}, c \in Int : (c * n) \div n = c
  OBVIOUS

LEMMA MeanIsThePremium ==
  ASSUME NEW world \in Worlds, NEW day \in Int, NEW seen,
         seen = {row \in Observations(world, day) : row.unit = "usd/day"},
         NEW premium, UNION {PremiumOf(row, world) : row \in seen} = {premium},
         \A row \in seen : PremiumOf(row, world) # {}
  PROVE  Basis(world, day).mean = premium
<1> DEFINE ratios == Ratios(world, day)
           n == Cardinality(DOMAIN ratios)
<1>1. /\ IsFiniteSet(world)
      /\ \A row \in world : row.day \in Int /\ row.rate \in Int
      /\ \A row, other \in world :
            row.series = other.series /\ row.day = other.day => row = other
  BY TableAssumption
<1>2. seen \subseteq world
  BY DEF Observations
<1>3. ASSUME NEW row \in seen
      PROVE  /\ BenchmarkRate(world, row) > 0 /\ BenchmarkRate(world, row) \in Int
             /\ RoutePremium(world, row) = premium
  <2>1. PICK tc \in world : /\ tc.series = BenchmarkOf[row.series] /\ tc.day = row.day
                            /\ tc.rate > 0
    BY DEF PremiumOf
  <2>2. Benchmark(world, row.series, row.day) = {tc}
    <3>1. tc \in Benchmark(world, row.series, row.day)
      BY <1>1, <2>1 DEF Benchmark
    <3>2. ASSUME NEW other \in Benchmark(world, row.series, row.day)
          PROVE  other = tc
      <4>1. /\ other \in world /\ other.series = tc.series /\ other.day <= row.day
            /\ tc.day <= other.day
        BY <1>1, <2>1 DEF Benchmark
      <4> QED
        BY <1>1, <1>2, <2>1, <4>1
    <3> QED
      BY <3>1, <3>2
  <2>3. BenchmarkRate(world, row) = tc.rate
    BY <2>2 DEF BenchmarkRate
  <2>4. RoutePremium(world, row) \in PremiumOf(row, world)
    BY <2>1, <2>3 DEF RoutePremium, PremiumOf
  <2> QED
    BY <1>1, <2>1, <2>3, <2>4
<1>4. DOMAIN ratios = seen /\ \A row \in seen : ratios[row] = premium
  <2>1. DOMAIN ratios = {o \in seen : BenchmarkRate(world, o) > 0}
    BY DEF Ratios
  <2>2. \A row \in DOMAIN ratios : ratios[row] = RoutePremium(world, row)
    BY DEF Ratios
  <2> HIDE DEF ratios
  <2> QED
    BY <1>3, <2>1, <2>2
<1>5. PICK row \in seen : premium \in PremiumOf(row, world)
  OBVIOUS
<1>6. premium \in Int
  <2>1. BenchmarkRate(world, row) \in Int /\ BenchmarkRate(world, row) > 0 /\ row.rate \in Int
    BY <1>1, <1>2, <1>3
  <2>2. \A a, b \in Int : b > 0 => (100 * (a - b)) \div b \in Int
    OBVIOUS
  <2>3. RoutePremium(world, row) \in Int
    BY <2>1, <2>2 DEF RoutePremium
  <2> QED
    BY <1>3, <2>3
<1>7. IsFiniteSet(seen)
  BY <1>1, <1>2, FS_Subset
<1>8. n \in Nat \ {0}
  BY <1>4, <1>5, <1>7, FS_CardinalityType, FS_EmptySet
<1>9. SumOver(ratios, DOMAIN ratios) = premium * n
  <2> HIDE DEF ratios
  <2> QED
    BY <1>4, <1>6, <1>7, SumOfSame
<1>10. Basis(world, day).mean = IF n = 0 THEN NoFigure
                                ELSE SumOver(ratios, DOMAIN ratios) \div n
  BY DEF Basis, SumOver
<1> HIDE DEF n, ratios
<1>11. (premium * n) \div n = premium
  BY <1>6, <1>8, QuotientIs
<1> QED
  BY <1>8, <1>9, <1>10, <1>11

MixAsk(r) ==
  /\ r.p50 \in Int /\ r.p10 \in Int /\ r.quote \in Int
  /\ r.missed \in Nat /\ r.stockout \in Nat /\ r.k \in Nat

LEMMA MixesAre ==
  ASSUME NEW mix \in Mixes
  PROVE  /\ mix[1] \in Nat /\ mix[2] \in Nat /\ mix[3] \in Nat
         /\ mix[1] + mix[2] + mix[3] = Steps
         /\ mix = <<mix[1], mix[2], mix[3]>>
  BY CostDeskAssumption DEF Mixes

LEMMA MixIs ==
  ASSUME NEW a \in Nat, NEW b \in Nat, NEW c \in Nat, a + b + c = Steps
  PROVE  <<a, b, c>> \in Mixes
  BY CostDeskAssumption DEF Mixes

LEMMA SigmaIs ==
  ASSUME NEW r, MixAsk(r)
  PROVE  SpotSigma(r) \in Nat
<1> DEFINE w == r.p50 - r.p10
<1>1. w \in Int
  BY DEF MixAsk
<1> HIDE DEF w
<1>2. \E m \in {w, 0} : \A x \in {w, 0} : m >= x
  BY <1>1
<1>3. Max({w, 0}) \in {w, 0} /\ Max({w, 0}) >= 0
  BY <1>2 DEF Max
<1>4. Max({w, 0}) \in Nat
  BY <1>1, <1>3
<1> QED
  BY <1>4 DEF w, SpotSigma

LEMMA ObjectivesAre ==
  ASSUME NEW r, MixAsk(r), NEW mix \in Mixes, NEW k \in Nat
  PROVE  /\ Spend(mix, r) \in Int /\ Spread(mix) \in Nat
         /\ k * SpotSigma(r) \in Nat
         /\ MixObjective(mix, k, r) = Spend(mix, r) + k * SpotSigma(r) * Spread(mix)
         /\ MixObjective(mix, k, r) \in Int
<1>1. /\ mix[1] \in Nat /\ mix[2] \in Nat /\ mix[3] \in Nat
  BY MixesAre
<1>2. /\ r.p50 \in Int /\ r.quote \in Int /\ r.missed \in Nat /\ r.stockout \in Nat
  BY DEF MixAsk
<1>3. mix[1] * r.p50 \in Int /\ mix[2] * r.quote \in Int
  BY <1>1, <1>2, ProductsAre
<1>4. 1030 * mix[3] * r.p50 \in Int
  <2>1. 1030 * mix[3] \in Int
    BY <1>1
  <2> QED
    BY <1>2, <2>1, ProductsAre
<1>5. mix[1] * r.missed * r.stockout \in Int
  <2>1. mix[1] * r.missed \in Int
    BY <1>1, <1>2, ProductsAre
  <2> QED
    BY <1>2, <2>1, ProductsAre
<1>6. Spend(mix, r) \in Int
  <2>1. 1000 * (mix[1] * r.p50 + mix[2] * r.quote) + 1030 * mix[3] * r.p50
        + mix[1] * r.missed * r.stockout \in Int
    BY <1>3, <1>4, <1>5
  <2>2. Steps \in Int
    BY CostDeskAssumption
  <2> QED
    BY <2>1, <2>2, ProductsAre DEF Spend
<1>7. Spread(mix) \in Nat
  <2>1. 10 * mix[1] \in Nat /\ 3 * mix[3] \in Nat
    BY <1>1
  <2>2. 10 * mix[1] * mix[1] \in Nat /\ 3 * mix[3] * mix[3] \in Nat
    BY <1>1, <2>1, ProductsAre
  <2> QED
    BY <2>2 DEF Spread
<1>8. k * SpotSigma(r) \in Nat
  BY SigmaIs, ProductsAre
<1>9. k * SpotSigma(r) * Spread(mix) \in Nat
  BY <1>7, <1>8, ProductsAre
<1> QED
  BY <1>6, <1>7, <1>8, <1>9 DEF MixObjective

(* There are finitely many mixes, and one at least.                        *)
LEMMA MixesAreFinite == IsFiniteSet(Mixes) /\ Mixes # {}
<1>1. IsFiniteSet(0 .. Steps)
  BY CostDeskAssumption, FS_Interval
<1> DEFINE pairs == (0 .. Steps) \X (0 .. Steps)
           f == [p \in pairs |-> <<p[1], p[2], Steps - p[1] - p[2]>>]
<1>2. IsFiniteSet(pairs)
  BY <1>1, FS_Product
<1>3. Mixes \subseteq Range(f)
  <2> SUFFICES ASSUME NEW mix \in Mixes PROVE mix \in Range(f)
    OBVIOUS
  <2>1. <<mix[1], mix[2]>> \in pairs
    BY CostDeskAssumption, MixesAre
  <2>2. f[<<mix[1], mix[2]>>] = <<mix[1], mix[2], Steps - mix[1] - mix[2]>>
    BY <2>1
  <2>3. Steps - mix[1] - mix[2] = mix[3]
    BY CostDeskAssumption, MixesAre
  <2>4. f[<<mix[1], mix[2]>>] = mix
    BY <2>2, <2>3, MixesAre
  <2>5. DOMAIN f = pairs
    OBVIOUS
  <2> HIDE DEF f, pairs
  <2> QED
    BY <2>1, <2>4, <2>5 DEF Range
<1>4. IsFiniteSet(Range(f))
  <2>1. IsFiniteSet(DOMAIN f)
    BY <1>2
  <2> HIDE DEF f
  <2> QED
    BY <2>1, ImageIsFinite
<1>5. IsFiniteSet(Mixes)
  <2> HIDE DEF f
  <2> QED
    BY <1>3, <1>4, FS_Subset
<1>6. <<0, 0, Steps>> \in Mixes
  BY CostDeskAssumption, MixIs
<1> QED
  BY <1>5, <1>6

(* The loops' best mix: none is better, and of those as good it is first.  *)
IsBest(mix, k, r) ==
  /\ mix \in Mixes
  /\ \A other \in Mixes :
       /\ MixObjective(mix, k, r) <= MixObjective(other, k, r)
       /\ other # mix /\ MixObjective(other, k, r) = MixObjective(mix, k, r) =>
            Precedes(mix, other)

LEMMA BestIs ==
  ASSUME NEW r, MixAsk(r), NEW k \in Nat
  PROVE  IsBest(Best(k, r), k, r)
<1> DEFINE O(mix) == MixObjective(mix, k, r)
           f == [mix \in Mixes |-> -O(mix)]
           gains == Range(f)
           best == {mix \in Mixes : \A other \in Mixes : O(mix) <= O(other)}
<1>1. \A mix \in Mixes : O(mix) \in Int
  BY ObjectivesAre
<1>2. gains \subseteq Int /\ IsFiniteSet(gains) /\ gains # {}
  <2>1. DOMAIN f = Mixes /\ \A mix \in Mixes : f[mix] \in Int
    BY <1>1
  <2> HIDE DEF f
  <2> QED
    BY <2>1, MixesAreFinite, ImageIsFinite DEF Range
<1>3. PICK most \in gains : \A x \in gains : most >= x
  <2> HIDE DEF gains
  <2> QED
    BY <1>2, FiniteHasMax
<1>4. PICK top \in Mixes : f[top] = most
  BY DEF Range
<1>5. \A mix \in Mixes : O(top) <= O(mix)
  <2> SUFFICES ASSUME NEW mix \in Mixes PROVE O(top) <= O(mix)
    OBVIOUS
  <2>1. f[mix] \in gains
    BY DEF Range
  <2>2. -O(top) >= -O(mix)
    BY <1>3, <1>4, <2>1
  <2>3. O(top) \in Int /\ O(mix) \in Int
    BY <1>1
  <2> HIDE DEF O
  <2> QED
    BY <2>2, <2>3
<1>6. best # {} /\ best \subseteq Mixes
  BY <1>5
<1>7. \A mix, other \in best : O(mix) = O(other)
  <2> HIDE DEF O
  <2> QED
    BY <1>1
<1> HIDE DEF gains, f
<1>8. \A mix \in best : mix[1] \in Nat /\ mix[2] \in Nat /\ mix[3] \in Nat
         /\ mix[1] + mix[2] + mix[3] = Steps /\ mix = <<mix[1], mix[2], mix[3]>>
  BY MixesAre
<1>9. \E first \in best : \A other \in best \ {first} : Precedes(first, other)
  <2> HIDE DEF best
  <2> DEFINE A == {mix[1] : mix \in best}
  <2>1. PICK a \in A : \A x \in A : a <= x
    <3>1. A \subseteq Nat /\ A # {}
      BY <1>6, <1>8
    <3> HIDE DEF A
    <3> QED
      BY <3>1, LeastOfSome
  <2> DEFINE B == {mix[2] : mix \in {m \in best : m[1] = a}}
  <2>2. PICK b \in B : \A x \in B : b <= x
    <3>1. B \subseteq Nat /\ B # {}
      BY <1>8
    <3> HIDE DEF B
    <3> QED
      BY <3>1, LeastOfSome
  <2>3. PICK first \in best : first[1] = a /\ first[2] = b
    OBVIOUS
  <2>4. ASSUME NEW other \in best, other # first
        PROVE  Precedes(first, other)
    <3>1. other[1] \in A /\ (other[1] = a => other[2] \in B)
      OBVIOUS
    <3>2. a <= other[1] /\ (other[1] = a => b <= other[2])
      BY <2>1, <2>2, <3>1
    <3>3. /\ first[1] \in Nat /\ first[2] \in Nat /\ first[3] \in Nat
          /\ other[1] \in Nat /\ other[2] \in Nat /\ other[3] \in Nat
          /\ first[1] + first[2] + first[3] = Steps /\ other[1] + other[2] + other[3] = Steps
      BY <1>8
    <3>4. ~(first[1] = other[1] /\ first[2] = other[2])
      <4> SUFFICES ASSUME first[1] = other[1], first[2] = other[2] PROVE FALSE
        OBVIOUS
      <4>1. first[3] = other[3]
        BY <3>3, CostDeskAssumption
      <4> QED
        BY <1>8, <2>4, <4>1
    <3> QED
      BY <2>3, <3>2, <3>3, <3>4 DEF Precedes
  <2> QED
    BY <2>4
<1>10. Best(k, r) = CHOOSE mix \in best : \A other \in best \ {mix} : Precedes(mix, other)
  BY DEF Best
<1>11. Best(k, r) \in best /\ \A other \in best \ {Best(k, r)} : Precedes(Best(k, r), other)
  <2> HIDE DEF best
  <2> QED
    BY <1>9, <1>10
<1>12. ASSUME NEW other \in Mixes, O(other) = O(Best(k, r))
       PROVE  other \in best
  BY <1>11, <1>12
<1> QED
  BY <1>11, <1>12 DEF IsBest

(* More aversion weighs the spread more: of two best mixes, that of the    *)
(* more averse has no more of it, and no smaller cost.                     *)
LEMMA Exchange ==
  ASSUME NEW u \in Int, NEW v \in Int, NEW s \in Nat, NEW t \in Nat,
         NEW a \in Nat, NEW b \in Nat, a < b,
         u + a * s <= v + a * t, v + b * t <= u + b * s
  PROVE  t <= s /\ u <= v
<1>1. /\ a * s \in Int /\ a * t \in Int /\ b * s \in Int /\ b * t \in Int
  OBVIOUS
<1>2. b * t - a * t <= b * s - a * s
  BY <1>1
<1>3. b * t - a * t = (b - a) * t /\ b * s - a * s = (b - a) * s
  OBVIOUS
<1>4. (b - a) * t <= (b - a) * s
  BY <1>2, <1>3
<1>5. \A n \in Nat \ {0}, x, y \in Nat : n * x <= n * y => x <= y
  OBVIOUS
<1>6. b - a \in Nat \ {0}
  OBVIOUS
<1>7. t <= s
  BY <1>4, <1>5, <1>6
<1>8. \A n \in Nat, x, y \in Nat : x <= y => n * x <= n * y
  OBVIOUS
<1>9. a * t <= a * s
  BY <1>7, <1>8
<1>10. u <= v
  BY <1>1, <1>9
<1> QED
  BY <1>7, <1>10

LEMMA Ascending ==
  \A i, j \in DOMAIN FrontierK : i < j => FrontierK[i] < FrontierK[j]
<1> DEFINE Bad(j) == j \in DOMAIN FrontierK
                     /\ \E i \in DOMAIN FrontierK : i < j /\ ~(FrontierK[i] < FrontierK[j])
           T == {j \in Nat : Bad(j)}
<1>1. /\ Len(FrontierK) \in Nat /\ DOMAIN FrontierK = 1 .. Len(FrontierK)
      /\ \A i \in DOMAIN FrontierK : FrontierK[i] \in Nat
  BY MixAssumption
<1>2. T = {}
  <2> SUFFICES ASSUME T # {} PROVE FALSE
    OBVIOUS
  <2>1. PICK j \in T : \A m \in T : j <= m
    <3> HIDE DEF T
    <3>1. T \subseteq Nat
      BY DEF T
    <3> QED
      BY <3>1, LeastOfSome
  <2>2. PICK i \in DOMAIN FrontierK : i < j /\ ~(FrontierK[i] < FrontierK[j])
    OBVIOUS
  <2>3. /\ j - 1 \in 1 .. Len(FrontierK) - 1 /\ j - 1 \in DOMAIN FrontierK /\ j \in DOMAIN FrontierK
        /\ j \in Nat /\ i \in Nat /\ j - 1 \in Nat
    BY <1>1, <2>2
  <2>4. FrontierK[j - 1] < FrontierK[j]
    <3>1. FrontierK[j - 1] < FrontierK[(j - 1) + 1]
      BY <2>3, CostDeskAssumption
    <3>2. (j - 1) + 1 = j
      BY <2>3
    <3> QED
      BY <3>1, <3>2
  <2>5. i # j - 1
    BY <2>2, <2>4
  <2>6. i < j - 1
    BY <2>2, <2>3, <2>5
  <2>7. ~Bad(j - 1)
    <3>1. ~(j <= j - 1)
      BY <2>3
    <3> QED
      BY <2>1, <2>3, <3>1
  <2>8. FrontierK[i] < FrontierK[j - 1]
    BY <2>3, <2>6, <2>7
  <2> QED
    BY <1>1, <2>2, <2>3, <2>4, <2>8
<1> QED
  BY <1>1, <1>2

LEMMA MoreAversion ==
  ASSUME NEW r, MixAsk(r), NEW a \in Nat, NEW b \in Nat, a < b, SpotSigma(r) > 0
  PROVE  /\ Spread(Best(b, r)) <= Spread(Best(a, r))
         /\ Spend(Best(a, r), r) <= Spend(Best(b, r), r)
<1> DEFINE f == Best(a, r)
           g == Best(b, r)
           sigma == SpotSigma(r)
<1>1. IsBest(f, a, r) /\ IsBest(g, b, r)
  BY BestIs
<1>2. f \in Mixes /\ g \in Mixes
  BY <1>1 DEF IsBest
<1>3. /\ MixObjective(f, a, r) <= MixObjective(g, a, r)
      /\ MixObjective(g, b, r) <= MixObjective(f, b, r)
  BY <1>1, <1>2 DEF IsBest
<1> HIDE DEF f, g
<1>4. /\ Spend(f, r) \in Int /\ Spend(g, r) \in Int /\ Spread(f) \in Nat /\ Spread(g) \in Nat
      /\ a * sigma \in Nat /\ b * sigma \in Nat /\ sigma \in Nat
  BY <1>2, ObjectivesAre, SigmaIs
<1>5. a * sigma < b * sigma
  <2>1. \A n \in Nat : n > 0 => a * n < b * n
    OBVIOUS
  <2> HIDE DEF sigma
  <2> QED
    BY <1>4, <2>1 DEF sigma
<1>6. /\ Spend(f, r) + (a * sigma) * Spread(f) <= Spend(g, r) + (a * sigma) * Spread(g)
      /\ Spend(g, r) + (b * sigma) * Spread(g) <= Spend(f, r) + (b * sigma) * Spread(f)
  BY <1>3 DEF MixObjective
<1>7. PICK u, v, s, t, x, y :
        /\ u = Spend(f, r) /\ v = Spend(g, r) /\ s = Spread(f) /\ t = Spread(g)
        /\ x = a * sigma /\ y = b * sigma
  OBVIOUS
<1>8. t <= s /\ u <= v
  <2>1. u \in Int /\ v \in Int /\ s \in Nat /\ t \in Nat /\ x \in Nat /\ y \in Nat /\ x < y
    BY <1>4, <1>5, <1>7
  <2>2. u + x * s <= v + x * t /\ v + y * t <= u + y * s
    BY <1>6, <1>7
  <2> QED
    BY <2>1, <2>2, Exchange
<1> QED
  BY <1>7, <1>8 DEF f, g

(* What one step of each way of covering costs without aversion.           *)
SpotStep(r) == 1000 * r.p50 + r.missed * r.stockout
CharterStep(r) == 1000 * r.quote
ContractStep(r) == 1030 * r.p50
InSteps(mix, r) ==
  mix[1] * SpotStep(r) + mix[2] * CharterStep(r) + mix[3] * ContractStep(r)

LEMMA StepsAre ==
  ASSUME NEW r, MixAsk(r)
  PROVE  SpotStep(r) \in Int /\ CharterStep(r) \in Int /\ ContractStep(r) \in Int
<1>1. r.missed * r.stockout \in Int
  BY ProductsAre DEF MixAsk
<1> QED
  BY <1>1 DEF MixAsk, SpotStep, CharterStep, ContractStep

LEMMA SpendIs ==
  ASSUME NEW r, MixAsk(r), NEW mix \in Mixes
  PROVE  Spend(mix, r) = Steps * InSteps(mix, r) /\ InSteps(mix, r) \in Int
<1>1. PICK a, b, c, p, q, m, s :
        /\ a = mix[1] /\ b = mix[2] /\ c = mix[3]
        /\ p = r.p50 /\ q = r.quote /\ m = r.missed /\ s = r.stockout
  OBVIOUS
<1>2. a \in Int /\ b \in Int /\ c \in Int /\ p \in Int /\ q \in Int /\ m \in Int /\ s \in Int
  BY <1>1, MixesAre DEF MixAsk
<1>3. a * (1000 * p + m * s) = 1000 * (a * p) + a * m * s
  <2>1. a * (1000 * p + m * s) = a * (1000 * p) + a * (m * s)
    BY <1>2
  <2>2. a * (1000 * p) = 1000 * (a * p)
    BY <1>2
  <2>3. a * (m * s) = a * m * s
    BY <1>2
  <2> QED
    BY <2>1, <2>2, <2>3
<1>4. b * (1000 * q) = 1000 * (b * q)
  BY <1>2
<1>5. c * (1030 * p) = 1030 * c * p
  BY <1>2
<1>6. /\ a * p \in Int /\ b * q \in Int /\ 1030 * c * p \in Int /\ a * m * s \in Int
  <2>1. a * m \in Int /\ 1030 * c \in Int
    BY <1>2
  <2> QED
    BY <1>2, <2>1, ProductsAre
<1>7. a * (1000 * p + m * s) + b * (1000 * q) + c * (1030 * p)
        = 1000 * (a * p + b * q) + 1030 * c * p + a * m * s
  BY <1>3, <1>4, <1>5, <1>6
<1>8. a * (1000 * p + m * s) + b * (1000 * q) + c * (1030 * p) \in Int
  BY <1>6, <1>7
<1> QED
  BY <1>1, <1>7, <1>8 DEF Spend, InSteps, SpotStep, CharterStep, ContractStep

LEMMA Weights ==
  ASSUME NEW a \in Nat, NEW b \in Nat, NEW c \in Nat,
         NEW x \in Int, NEW y \in Int, NEW z \in Int
  PROVE  /\ a * x + b * y + c * z = (a + b + c) * x + b * (y - x) + c * (z - x)
         /\ b * (y - x) \in Int /\ c * (z - x) \in Int /\ (a + b + c) * x \in Int
<1>1. (a + b + c) * x = a * x + b * x + c * x
  OBVIOUS
<1>2. b * (y - x) = b * y - b * x /\ c * (z - x) = c * z - c * x
  OBVIOUS
<1>3. /\ a * x \in Int /\ b * x \in Int /\ c * x \in Int /\ b * y \in Int /\ c * z \in Int
  OBVIOUS
<1> QED
  BY <1>1, <1>2, <1>3

(* A best mix weighs no way that costs more than the cheapest.             *)
LEMMA Cheapest ==
  ASSUME NEW n \in Nat, NEW a \in Nat, NEW b \in Nat, NEW c \in Nat, a + b + c = n,
         NEW x \in Int, NEW y \in Int, NEW z \in Int, x <= y, x <= z,
         a * x + b * y + c * z <= n * x
  PROVE  /\ a * x + b * y + c * z = n * x
         /\ x < y => b = 0
         /\ x < z => c = 0
<1>1. \A k \in Nat, d \in Nat : k * d \in Nat /\ (k > 0 /\ d > 0 => k * d > 0)
  OBVIOUS
<1>2. y - x \in Nat /\ z - x \in Nat
  OBVIOUS
<1>3. b * (y - x) \in Nat /\ c * (z - x) \in Nat
  BY <1>1, <1>2
<1>4. a * x + b * y + c * z = n * x + b * (y - x) + c * (z - x) /\ n * x \in Int
  BY Weights
<1>5. b * (y - x) = 0 /\ c * (z - x) = 0
  BY <1>3, <1>4
<1>6. x < y => b = 0
  BY <1>1, <1>2, <1>5
<1>7. x < z => c = 0
  BY <1>1, <1>2, <1>5
<1> QED
  BY <1>4, <1>5, <1>6, <1>7

LEMMA NothingIsSplit ==
  ASSUME NEW r, MixAsk(r)
  PROVE  \E way \in 1 .. 3 : Best(0, r)[way] = Steps
<1> DEFINE m == Best(0, r)
<1>1. PICK x, y, z : x = SpotStep(r) /\ y = CharterStep(r) /\ z = ContractStep(r)
  OBVIOUS
<1>2. x \in Int /\ y \in Int /\ z \in Int /\ Steps \in Nat \ {0}
  BY <1>1, StepsAre, CostDeskAssumption
<1>3. IsBest(m, 0, r)
  BY BestIs
<1> HIDE DEF m
<1>4. m \in Mixes
  BY <1>3 DEF IsBest
<1>5. PICK a, b, c : a = m[1] /\ b = m[2] /\ c = m[3]
  OBVIOUS
<1>6. a \in Nat /\ b \in Nat /\ c \in Nat /\ a + b + c = Steps /\ m = <<a, b, c>>
  BY <1>4, <1>5, MixesAre
<1>7. InSteps(m, r) = a * x + b * y + c * z
  BY <1>1, <1>5 DEF InSteps
<1>8. \A mix \in Mixes : MixObjective(mix, 0, r) = Steps * InSteps(mix, r)
  <2> SUFFICES ASSUME NEW mix \in Mixes
               PROVE  MixObjective(mix, 0, r) = Steps * InSteps(mix, r)
    OBVIOUS
  <2>1. SpotSigma(r) \in Nat /\ Spread(mix) \in Nat /\ Spend(mix, r) \in Int
    BY SigmaIs, ObjectivesAre
  <2>2. 0 * SpotSigma(r) * Spread(mix) = 0
    BY <2>1
  <2> QED
    BY <2>1, <2>2, SpendIs DEF MixObjective
<1>9. ASSUME NEW mix \in Mixes
      PROVE  /\ InSteps(m, r) <= InSteps(mix, r)
             /\ mix # m /\ InSteps(mix, r) = InSteps(m, r) => Precedes(m, mix)
  <2>1. MixObjective(m, 0, r) <= MixObjective(mix, 0, r)
        /\ (mix # m /\ MixObjective(mix, 0, r) = MixObjective(m, 0, r) => Precedes(m, mix))
    BY <1>3 DEF IsBest
  <2>2. MixObjective(m, 0, r) = Steps * InSteps(m, r)
        /\ MixObjective(mix, 0, r) = Steps * InSteps(mix, r)
    BY <1>4, <1>8
  <2>3. InSteps(m, r) \in Int /\ InSteps(mix, r) \in Int
    BY <1>4, SpendIs
  <2>4. \A n \in Nat \ {0}, u, v \in Int : n * u <= n * v => u <= v
    OBVIOUS
  <2> QED
    BY <1>2, <2>1, <2>2, <2>3, <2>4
<1>10. /\ <<Steps, 0, 0>> \in Mixes /\ <<0, Steps, 0>> \in Mixes /\ <<0, 0, Steps>> \in Mixes
  <2>1. 0 \in Nat /\ Steps \in Nat /\ Steps + 0 + 0 = Steps /\ 0 + Steps + 0 = Steps
        /\ 0 + 0 + Steps = Steps
    BY <1>2
  <2> QED
    BY <2>1, MixIs
<1>11. /\ InSteps(<<Steps, 0, 0>>, r) = Steps * x
       /\ InSteps(<<0, Steps, 0>>, r) = Steps * y
       /\ InSteps(<<0, 0, Steps>>, r) = Steps * z
  <2>1. \A u \in Int : 0 * u = 0 /\ Steps * u \in Int
    BY <1>2
  <2> QED
    BY <1>1, <1>2, <2>1 DEF InSteps
<1>12. CASE z <= x /\ z <= y
  <2>1. c * z + a * x + b * y <= Steps * z
    BY <1>2, <1>6, <1>7, <1>9, <1>10, <1>11, <1>12
  <2>2. c * z + a * x + b * y = Steps * z
    BY <1>2, <1>6, <1>12, <2>1, Cheapest
  <2>3. InSteps(m, r) = Steps * z
    BY <1>2, <1>6, <1>7, <2>2
  <2>4. <<0, 0, Steps>> # m => Precedes(m, <<0, 0, Steps>>)
    BY <1>9, <1>10, <1>11, <2>3
  <2>5. ~Precedes(m, <<0, 0, Steps>>)
    BY <1>5, <1>6 DEF Precedes
  <2>6. m[3] = Steps
    BY <2>4, <2>5
  <2> QED
    BY <2>6 DEF m
<1>13. CASE y <= x /\ y < z
  <2>1. b * y + a * x + c * z <= Steps * y
    BY <1>2, <1>6, <1>7, <1>9, <1>10, <1>11, <1>13
  <2>2. b * y + a * x + c * z = Steps * y /\ c = 0
    BY <1>2, <1>6, <1>13, <2>1, Cheapest
  <2>3. InSteps(m, r) = Steps * y
    BY <1>2, <1>6, <1>7, <2>2
  <2>4. <<0, Steps, 0>> # m => Precedes(m, <<0, Steps, 0>>)
    BY <1>9, <1>10, <1>11, <2>3
  <2>5. Precedes(m, <<0, Steps, 0>>) => a = 0
    BY <1>5, <1>6 DEF Precedes
  <2>6. m[2] = Steps
    BY <1>2, <1>5, <1>6, <2>2, <2>4, <2>5
  <2> QED
    BY <2>6 DEF m
<1>14. CASE x < y /\ x < z
  <2>1. a * x + b * y + c * z <= Steps * x
    BY <1>7, <1>9, <1>10, <1>11
  <2>2. b = 0 /\ c = 0
    BY <1>2, <1>6, <1>14, <2>1, Cheapest
  <2>3. m[1] = Steps
    BY <1>2, <1>5, <1>6, <2>2
  <2> QED
    BY <2>3 DEF m
<1> QED
  BY <1>2, <1>12, <1>13, <1>14

(* What is in hand: nothing, or a request with the answer made for it.     *)
CostInv ==
  \/ costAsked = NoCost
  \/ \E r \in LandedRequests :
       costAsked = [kind |-> "landed", of |-> r] /\ costAnswer = Landed(r)
  \/ \E r \in LandedRequests :
       /\ costAsked = [kind |-> "partial", of |-> OfQuote(r)]
       /\ costAnswer = Partial(Landed(OfQuote(r)))
  \/ \E world \in Worlds, day \in Int :
       costAsked = [kind |-> "basis", of |-> world, day |-> day] /\ costAnswer = Basis(world, day)
  \/ \E r \in MixRequests :
       /\ costAsked = [kind |-> "mix", of |-> r]
       /\ costAnswer = [kind |-> "refused"] \/ costAnswer = Mix(r)

LEMMA CostInvStep ==
  ASSUME CostInv, [CostNext]_costVars
  PROVE  CostInv'
<1>1. CASE UNCHANGED costVars
  BY <1>1 DEF CostInv, costVars
<1>2. ASSUME NEW r \in LandedRequests, AskLanded(r)
      PROVE  CostInv'
  BY <1>2 DEF AskLanded, CostInv
<1>3. ASSUME NEW r \in LandedRequests, AskPartial(r)
      PROVE  CostInv'
  BY <1>3 DEF AskPartial, CostInv
<1>4. ASSUME NEW world \in Worlds, NEW day \in {row.day : row \in world}, AskBasis(world, day)
      PROVE  CostInv'
  <2>1. day \in Int
    BY TableAssumption
  <2> QED
    BY <1>4, <2>1 DEF AskBasis, CostInv
<1>5. ASSUME NEW r \in MixRequests, AskMix(r)
      PROVE  CostInv'
  BY <1>5 DEF AskMix, CostInv
<1>6. CASE CloseCost
  BY <1>6 DEF CloseCost, CostInv
<1> QED
  BY <1>1, <1>2, <1>3, <1>4, <1>5, <1>6 DEF CostNext

LEMMA CostsAddUp ==
  ASSUME CostInv
  PROVE  TotalIsOfItsParts
<1> SUFFICES ASSUME Answers("landed") \/ Answers("partial")
             PROVE  /\ IsAddedUp(costAnswer, costAsked.of)
                    /\ Answers("partial") => "wait" \in costAnswer.missing
  BY DEF TotalIsOfItsParts, IsAddedUp, SumOver
<1>1. \A r \in LandedRequests : LandedAsk(r)
  BY LandedAssumption DEF LandedAsk
<1>2. CASE Answers("landed")
  <2>1. PICK r \in LandedRequests :
          costAsked = [kind |-> "landed", of |-> r] /\ costAnswer = Landed(r)
    BY <1>2 DEF CostInv, Answers
  <2>2. ~Answers("partial") /\ costAsked.of = r
    BY <2>1 DEF Answers
  <2> QED
    BY <1>1, <2>1, <2>2, LandedAddsUp
<1>3. CASE Answers("partial")
  <2>1. PICK r \in LandedRequests :
          costAsked = [kind |-> "partial", of |-> OfQuote(r)]
          /\ costAnswer = Partial(Landed(OfQuote(r)))
    BY <1>3 DEF CostInv, Answers
  <2>2. LandedAsk(OfQuote(r)) /\ OfQuote(r).opex = 0 /\ costAsked.of = OfQuote(r)
    BY <1>1, <2>1, QuoteAsks
  <2> QED
    BY <2>1, <2>2, PartialAddsUp
<1> QED
  BY <1>2, <1>3

\* A basis of the rows of a day.
PremiumHolds(world, day, answer) ==
  LET seen  == {row \in Observations(world, day) : row.unit = "usd/day"}
      premia == UNION {PremiumOf(row, world) : row \in seen}
  IN /\ answer = Basis({row \in world : row.day <= day}, day)
     /\ \A premium \in premia :
          premia = {premium} /\ (\A row \in seen : PremiumOf(row, world) # {})
            => answer.mean = premium

LEMMA PremiumsStay ==
  ASSUME CostInv
  PROVE  BasisIsThePremium
<1> SUFFICES ASSUME Answers("basis")
             PROVE  PremiumHolds(costAsked.of, costAsked.day, costAnswer)
  BY DEF BasisIsThePremium, PremiumHolds
<1>1. PICK world \in Worlds, day \in Int :
        costAsked = [kind |-> "basis", of |-> world, day |-> day] /\ costAnswer = Basis(world, day)
  BY DEF CostInv, Answers
<1>2. costAsked.of = world /\ costAsked.day = day
  BY <1>1
<1>3. costAnswer = Basis({row \in world : row.day <= day}, day)
  BY <1>1, BasisIsOfItsDay
<1> DEFINE seen == {row \in Observations(world, day) : row.unit = "usd/day"}
           premia == UNION {PremiumOf(row, world) : row \in seen}
<1>4. ASSUME NEW premium \in premia, premia = {premium},
             \A row \in seen : PremiumOf(row, world) # {}
      PROVE  costAnswer.mean = premium
  BY <1>1, <1>4, MeanIsThePremium
<1>5. PremiumHolds(world, day, costAnswer)
  BY <1>3, <1>4 DEF PremiumHolds
<1> QED
  BY <1>2, <1>5

LEMMA CertaintyIsBought ==
  ASSUME CostInv
  PROVE  AversionBuysCertainty
<1> SUFFICES ASSUME Answers("mix"), costAnswer.kind = "mix"
             PROVE  LET r == costAsked.of  f == costAnswer.frontier
                    IN /\ SpotSigma(r) > 0 =>
                            \A i, j \in DOMAIN f : i < j =>
                              Spread(f[j]) <= Spread(f[i]) /\ Spend(f[i], r) <= Spend(f[j], r)
                       /\ FrontierK[1] = 0 => \E way \in 1 .. 3 : f[1][way] = Steps
                       /\ \A i \in DOMAIN f : FrontierK[i] = r.k => costAnswer.recommended = f[i]
  BY DEF AversionBuysCertainty
<1>1. PICK r \in MixRequests :
        costAsked = [kind |-> "mix", of |-> r] /\ costAnswer = Mix(r)
  BY DEF CostInv, Answers
<1>2. costAsked.of = r /\ MixAsk(r)
  BY <1>1, MixAssumption DEF MixAsk
<1> DEFINE f == costAnswer.frontier
<1>3. /\ DOMAIN f = DOMAIN FrontierK /\ \A i \in DOMAIN f : f[i] = Best(FrontierK[i], r)
      /\ costAnswer.recommended = Best(r.k, r)
  BY <1>1 DEF Mix
<1> HIDE DEF f
<1>4. \A i \in DOMAIN FrontierK : FrontierK[i] \in Nat
  BY MixAssumption
<1>5. ASSUME SpotSigma(r) > 0, NEW i \in DOMAIN f, NEW j \in DOMAIN f, i < j
      PROVE  Spread(f[j]) <= Spread(f[i]) /\ Spend(f[i], r) <= Spend(f[j], r)
  <2>1. FrontierK[i] < FrontierK[j] /\ FrontierK[i] \in Nat /\ FrontierK[j] \in Nat
    BY <1>3, <1>4, <1>5, Ascending
  <2> QED
    BY <1>2, <1>3, <1>5, <2>1, MoreAversion
<1>6. ASSUME FrontierK[1] = 0
      PROVE  \E way \in 1 .. 3 : f[1][way] = Steps
  <2>1. 1 \in DOMAIN f
    BY <1>3, CostDeskAssumption, MixAssumption
  <2>2. f[1] = Best(0, r)
    BY <1>3, <1>6, <2>1
  <2> QED
    BY <1>2, <2>2, NothingIsSplit
<1> QED
  BY <1>2, <1>3, <1>5, <1>6 DEF f

CostSpec == CostInit /\ [][CostNext]_costVars

(***************************************************************************)
(* For any tables, requests, grid and frontier: a landed cost adds up its    *)
(* parts, a basis is the premium that was always paid, and aversion buys     *)
(* certainty (compute_landed_cost, _fit_basis, optimize_portfolio_mix).      *)
(***************************************************************************)
THEOREM CostsAreExplainedAlways == CostSpec => []CostsAreExplained
<1>1. CostInit => CostInv
  BY DEF CostInit, CostInv
<1>2. CostInv /\ [CostNext]_costVars => CostInv'
  BY CostInvStep
<1>3. CostInv => CostsAreExplained
  BY CostsAddUp, PremiumsStay, CertaintyIsBought DEF CostsAreExplained
<1> QED
  BY <1>1, <1>2, <1>3, PTL DEF CostSpec

(***************************************************************************)
(* The outlook of a port.                                                   *)
(***************************************************************************)

\* A reply as the service made it: a forecast starts on the day it was made.
IsOutlook(f, now) ==
  /\ f.kind \in {"forecast", "unusable"} /\ f.at \in Nat /\ f.at <= now
  /\ f.kind = "forecast" => f.from = f.at \div TicksPerDay /\ f.to = f.from + Horizon - 1

Roughs   == {s[p] : s \in Skies, p \in OutPorts}
Outlooks == [kind: {"forecast"}, at: Nat, from: Int, to: Int, rough: Roughs]
              \cup [kind: {"unusable"}, at: Nat]
Payloads == {NoPayload} \cup Outlooks

\* A request that is being answered, and what it was told of an end: a reply
\* that is recent, or none, for want of a coordinate, a network or a disk.
Answering == [phase: {"look", "fetch", "write", "done"}, voyage: Voyages,
           got: Seq(Payloads), failed: BOOLEAN]

Told(payload, p, failed, now) ==
  \/ IsOutlook(payload, now) /\ now - payload.at < Max({Ttl, 1})
  \/ payload = NoPayload /\ (p \in Situated => failed)

Keeps(a, now) ==
  /\ Len(a.got) <= 2
  /\ a.phase \in {"fetch", "write"} =>
       Len(a.got) < 2 /\ Ends(a.voyage)[Len(a.got) + 1] \in Situated
  /\ a.phase = "done" => Len(a.got) = 2
  /\ \A i \in 1 .. Len(a.got) : Told(a.got[i], Ends(a.voyage)[i], a.failed, now)

SeaType ==
  /\ clock \in Nat /\ sky \in Skies
  /\ sea \in [OutPorts -> {NoFile, Torn} \cup Outlooks]
  /\ asker \in [Askers -> {Away} \cup Answering]

SeaInv ==
  /\ SeaType
  /\ \A p \in OutPorts : sea[p] \in Outlooks => IsOutlook(sea[p], clock)
  /\ \A t \in Askers : asker[t] # Away => Keeps(asker[t], clock)

LEMMA LifeIs == Max({Ttl, 1}) \in Nat /\ Max({Ttl, 1}) >= Ttl /\ Max({Ttl, 1}) >= 1
<1>1. Ttl \in Nat
  BY OutlookAssumption
<1>2. CASE Ttl >= 1
  BY <1>1, <1>2, MaxIs
<1>3. CASE Ttl < 1
  BY <1>1, <1>3, MaxIs
<1> QED
  BY <1>1, <1>2, <1>3

LEMMA DayIs == \A a \in Int : a \div TicksPerDay \in Int
  BY OutlookAssumption

\* An earlier tick is of no later day.
LEMMA DaysGoOn ==
  ASSUME NEW a \in Int, NEW b \in Int, a <= b
  PROVE  a \div TicksPerDay <= b \div TicksPerDay
<1>1. PICK n \in Int : n = TicksPerDay /\ n > 0
  BY OutlookAssumption
<1>2. PICK q \in Int : q = a \div n
  BY <1>1
<1>3. PICK r \in Int : r = b \div n
  BY <1>1
<1>4. a = n * q + (a % n) /\ a % n \in 0 .. n - 1
  BY <1>1, <1>2
<1>5. b = n * r + (b % n) /\ b % n \in 0 .. n - 1
  BY <1>1, <1>3
<1>6. ASSUME q >= r + 1 PROVE FALSE
  <2>1. n * q >= n * (r + 1)
    BY <1>1, <1>6
  <2>2. n * (r + 1) = n * r + n
    BY <1>1
  <2>3. n * q \in Int /\ n * r \in Int
    BY <1>1
  <2> QED
    BY <1>1, <1>4, <1>5, <2>1, <2>2, <2>3
<1> QED
  BY <1>1, <1>2, <1>3, <1>6

LEMMA ForecastIs ==
  ASSUME SeaType, NEW p \in OutPorts
  PROVE  \A reply \in Replies(p) :
           reply \in Outlooks /\ IsOutlook(reply, clock) /\ clock - reply.at < Max({Ttl, 1})
<1>1. clock \in Nat /\ sky[p] \in Roughs
  BY DEF SeaType, Roughs
<1>2. Today \in Int /\ Today + Horizon - 1 \in Int
  BY <1>1, DayIs, OutlookAssumption DEF Today
<1>3. SeaForecast(p) \in Outlooks /\ Unusable \in Outlooks
  BY <1>1, <1>2 DEF SeaForecast, Unusable, Outlooks
<1>4. IsOutlook(SeaForecast(p), clock) /\ IsOutlook(Unusable, clock)
  BY <1>1 DEF SeaForecast, Unusable, IsOutlook, Today
<1>5. clock - SeaForecast(p).at = 0 /\ clock - Unusable.at = 0
  BY <1>1 DEF SeaForecast, Unusable
<1> QED
  BY <1>3, <1>4, <1>5, LifeIs DEF Replies

LEMMA EndIs ==
  ASSUME NEW a \in Answering, Len(a.got) < 2
  PROVE  Ends(a.voyage)[Len(a.got) + 1] \in OutPorts
<1>1. a.voyage \in Voyages /\ Len(a.got) \in Nat
  BY DEF Answering
<1>2. a.voyage.from \in OutPorts /\ a.voyage.to \in OutPorts
  BY <1>1, AskedAssumption
<1>3. Len(a.got) + 1 = 1 \/ Len(a.got) + 1 = 2
  BY <1>1
<1> QED
  BY <1>2, <1>3 DEF Ends

\* An asker that is told of an end goes on to the next.
LEMMA TellKeeps ==
  ASSUME NEW a \in Answering, NEW now \in Nat, Keeps(a, now), Len(a.got) < 2,
         NEW payload \in Payloads, NEW failed \in BOOLEAN, a.failed => failed,
         Told(payload, Ends(a.voyage)[Len(a.got) + 1], failed, now),
         NEW b, b = [phase |-> "look", voyage |-> a.voyage,
                     got |-> Append(a.got, payload), failed |-> failed]
  PROVE  b \in Answering /\ Keeps(b, now) /\ b # Away
<1>1. a.got \in Seq(Payloads) /\ Len(a.got) \in Nat /\ a.voyage \in Voyages
  BY DEF Answering
<1>2. /\ b.got \in Seq(Payloads) /\ Len(b.got) = Len(a.got) + 1
      /\ b.got[Len(a.got) + 1] = payload
      /\ \A i \in 1 .. Len(a.got) : b.got[i] = a.got[i]
  BY <1>1
<1>3. b \in Answering
  BY <1>1, <1>2 DEF Answering
<1>4. b.phase = "look" /\ b.voyage = a.voyage /\ b.failed = failed
  OBVIOUS
<1>5. ASSUME NEW i \in 1 .. Len(b.got)
      PROVE  Told(b.got[i], Ends(b.voyage)[i], b.failed, now)
  <2>1. CASE i = Len(a.got) + 1
    BY <1>2, <1>4, <2>1
  <2>2. CASE i \in 1 .. Len(a.got)
    <3>1. Told(a.got[i], Ends(a.voyage)[i], a.failed, now)
      BY <2>2 DEF Keeps
    <3>2. b.got[i] = a.got[i]
      BY <1>2, <2>2
    <3> QED
      BY <1>4, <3>1, <3>2 DEF Told
  <2> QED
    BY <1>1, <1>2, <2>1, <2>2
<1>6. Keeps(b, now)
  BY <1>1, <1>2, <1>4, <1>5 DEF Keeps
<1> QED
  BY <1>3, <1>4, <1>6 DEF Away

\* One asker moves, the clock stands.
LEMMA AskerMoves ==
  ASSUME SeaInv, NEW t \in Askers, NEW b,
         b \in {Away} \cup Answering, b # Away => Keeps(b, clock),
         asker' = [asker EXCEPT ![t] = b], UNCHANGED <<clock, sky>>,
         \/ UNCHANGED sea
         \/ \E p \in OutPorts : sea' = [sea EXCEPT ![p] = Torn]
         \/ \E p \in OutPorts : \E f \in Outlooks :
              sea' = [sea EXCEPT ![p] = f] /\ IsOutlook(f, clock)
  PROVE  SeaInv'
<1>1. SeaType /\ clock' = clock /\ sky' = sky
  BY DEF SeaInv
<1>2. asker' \in [Askers -> {Away} \cup Answering]
  BY <1>1 DEF SeaType
<1>3. ASSUME NEW u \in Askers, asker'[u] # Away
      PROVE  Keeps(asker'[u], clock)
  BY <1>1, <1>3 DEF SeaInv, SeaType
<1>4. /\ sea' \in [OutPorts -> {NoFile, Torn} \cup Outlooks]
      /\ \A q \in OutPorts : sea'[q] \in Outlooks => IsOutlook(sea'[q], clock)
  <2>1. CASE UNCHANGED sea
    BY <1>1, <2>1 DEF SeaInv, SeaType
  <2>2. CASE \E p \in OutPorts : sea' = [sea EXCEPT ![p] = Torn]
    <3>1. PICK p \in OutPorts : sea' = [sea EXCEPT ![p] = Torn]
      BY <2>2
    <3>2. sea' \in [OutPorts -> {NoFile, Torn} \cup Outlooks]
      BY <1>1, <3>1 DEF SeaType
    <3>3. Torn \notin Outlooks
      BY DEF Torn, Outlooks
    <3> QED
      BY <1>1, <3>1, <3>2, <3>3 DEF SeaInv, SeaType
  <2>3. CASE \E p \in OutPorts : \E f \in Outlooks :
               sea' = [sea EXCEPT ![p] = f] /\ IsOutlook(f, clock)
    BY <1>1, <2>3 DEF SeaInv, SeaType
  <2> QED
    BY <2>1, <2>2, <2>3
<1> QED
  BY <1>1, <1>2, <1>3, <1>4 DEF SeaInv, SeaType

\* What an end of a voyage answers, written out.
LEMMA GotIs ==
  ASSUME SeaType, NEW t \in Askers, asker[t] \in Answering, NEW payload
  PROVE  Got(t, payload) =
           [asker EXCEPT ![t] = [phase |-> "look", voyage |-> asker[t].voyage,
                                 got |-> Append(asker[t].got, payload),
                                 failed |-> asker[t].failed]]
<1>1. [asker[t] EXCEPT !.got = Append(@, payload), !.phase = "look"]
        = [phase |-> "look", voyage |-> asker[t].voyage,
           got |-> Append(asker[t].got, payload), failed |-> asker[t].failed]
  <2>1. PICK a : a = asker[t]
    OBVIOUS
  <2>2. a = [phase |-> a.phase, voyage |-> a.voyage, got |-> a.got, failed |-> a.failed]
    BY <2>1 DEF Answering
  <2>3. PICK b : b = [a EXCEPT !.got = Append(a.got, payload), !.phase = "look"]
    OBVIOUS
  <2>4. DOMAIN b = {"phase", "voyage", "got", "failed"}
    BY <2>2, <2>3
  <2>5. /\ b.phase = "look" /\ b.voyage = a.voyage /\ b.failed = a.failed
        /\ b.got = Append(a.got, payload)
    BY <2>2, <2>3
  <2>6. b = [x \in {"phase", "voyage", "got", "failed"} |-> b[x]]
    BY <2>2, <2>3
  <2> QED
    BY <2>1, <2>3, <2>4, <2>5, <2>6
<1>2. Got(t, payload) =
        [asker EXCEPT ![t] = [asker[t] EXCEPT !.got = Append(@, payload), !.phase = "look"]]
  BY DEF Got, SeaType
<1> QED
  BY <1>1, <1>2

LEMMA PhaseIs ==
  ASSUME NEW a \in Answering, NEW phase \in {"look", "fetch", "write", "done"}
  PROVE  [a EXCEPT !.phase = phase]
           = [phase |-> phase, voyage |-> a.voyage, got |-> a.got, failed |-> a.failed]
<1>1. a = [phase |-> a.phase, voyage |-> a.voyage, got |-> a.got, failed |-> a.failed]
  BY DEF Answering
<1>2. \A w, x, y, z : [[phase |-> w, voyage |-> x, got |-> y, failed |-> z] EXCEPT !.phase = phase]
                     = [phase |-> phase, voyage |-> x, got |-> y, failed |-> z]
  OBVIOUS
<1> QED
  BY <1>1, <1>2

LEMMA SeaInvStep == SeaInv /\ [SeaNext]_seaVars => SeaInv'
<1> SUFFICES ASSUME SeaInv, [SeaNext]_seaVars PROVE SeaInv'
  OBVIOUS
<1>1. SeaType
  BY DEF SeaInv
<1>2. CASE UNCHANGED seaVars
  BY <1>2 DEF SeaInv, SeaType, seaVars
<1>3. CASE Tick
  <2>1. clock' = clock + 1 /\ sky' \in Skies /\ sea' = sea /\ asker' = asker
        /\ \A t \in Askers : asker[t] = Away
    BY <1>3 DEF Tick
  <2>2. clock' \in Nat /\ SeaType'
    BY <1>1, <2>1 DEF SeaType
  <2>3. ASSUME NEW p \in OutPorts, sea[p] \in Outlooks PROVE IsOutlook(sea[p], clock')
    <3>1. IsOutlook(sea[p], clock) /\ clock \in Nat
      BY <1>1, <2>3 DEF SeaInv, SeaType
    <3> QED
      BY <2>1, <3>1 DEF IsOutlook
  <2> QED
    BY <2>1, <2>2, <2>3 DEF SeaInv
<1>4. ASSUME NEW t \in Askers, AskOutlook(t) PROVE SeaInv'
  <2>1. PICK v \in Voyages :
          asker' = [asker EXCEPT ![t] = [phase |-> "look", voyage |-> v, got |-> <<>>, failed |-> FALSE]]
    BY <1>4 DEF AskOutlook
  <2> DEFINE b == [phase |-> "look", voyage |-> v, got |-> <<>>, failed |-> FALSE]
  <2>2. b \in Answering
    BY DEF Answering
  <2>3. b.got = <<>> /\ b.phase = "look"
    OBVIOUS
  <2>4. Keeps(b, clock)
    <3> HIDE DEF b
    <3> QED
      BY <2>3 DEF Keeps
  <2>5. asker' = [asker EXCEPT ![t] = b] /\ UNCHANGED <<clock, sky, sea>>
    BY <1>4, <2>1 DEF AskOutlook
  <2> HIDE DEF b
  <2> QED
    BY <2>2, <2>4, <2>5, AskerMoves
<1>5. ASSUME NEW t \in Askers, asker[t].phase # "idle"
      PROVE  asker[t] \in Answering /\ Keeps(asker[t], clock)
  BY <1>1, <1>5 DEF SeaInv, SeaType, Away
<1>6. ASSUME NEW t \in Askers, Look(t) PROVE SeaInv'
  <2> DEFINE a == asker[t]
             p == Port(t)
  <2>1. a \in Answering /\ Keeps(a, clock) /\ a.phase = "look" /\ Len(a.got) < 2
    BY <1>5, <1>6 DEF Look
  <2>2. p = Ends(a.voyage)[Len(a.got) + 1] /\ p \in OutPorts
    BY <2>1, EndIs DEF Port
  <2>3. UNCHANGED <<clock, sky, sea>> /\ clock \in Nat
    BY <1>1, <1>6 DEF Look, SeaType
  <2>4. a.failed \in BOOLEAN
    BY <2>1 DEF Answering
  <2>5. CASE p \notin Situated
    <3>1. asker' = Got(t, NoPayload)
      BY <1>6, <2>5 DEF Look
    <3>2. PICK b : b = [phase |-> "look", voyage |-> a.voyage,
                        got |-> Append(a.got, NoPayload), failed |-> a.failed]
      OBVIOUS
    <3>3. asker' = [asker EXCEPT ![t] = b]
      BY <1>1, <2>1, <3>1, <3>2, GotIs
    <3>4. NoPayload \in Payloads /\ Told(NoPayload, p, a.failed, clock)
      BY <2>5 DEF Payloads, Told
    <3>5. b \in Answering /\ Keeps(b, clock)
      BY <2>1, <2>2, <2>3, <2>4, <3>2, <3>4, TellKeeps
    <3> QED
      BY <2>3, <3>3, <3>5, AskerMoves
  <2>6. CASE p \in Situated /\ Fresh(sea[p]) /\ sea[p] # Torn
    <3>1. asker' = Got(t, sea[p])
      BY <1>6, <2>6 DEF Look
    <3>2. PICK b : b = [phase |-> "look", voyage |-> a.voyage,
                        got |-> Append(a.got, sea[p]), failed |-> a.failed]
      OBVIOUS
    <3>3. asker' = [asker EXCEPT ![t] = b]
      BY <1>1, <2>1, <3>1, <3>2, GotIs
    <3>4. sea[p] \in {NoFile, Torn} \cup Outlooks
      BY <1>1, <2>2 DEF SeaType
    <3>5. sea[p] \in Outlooks
      BY <2>6, <3>4 DEF Fresh, NoFile
    <3>6. IsOutlook(sea[p], clock) /\ sea[p].kind \in {"forecast", "unusable"}
      BY <2>2, <3>5 DEF SeaInv, IsOutlook
    <3>7. clock - sea[p].at < Ttl /\ sea[p].at \in Nat
      BY <2>6, <3>6 DEF Fresh, IsOutlook
    <3>8. Told(sea[p], p, a.failed, clock)
      BY <2>3, <3>6, <3>7, LifeIs, OutlookAssumption DEF Told
    <3>9. sea[p] \in Payloads
      BY <3>5 DEF Payloads
    <3>10. b \in Answering /\ Keeps(b, clock)
      BY <2>1, <2>2, <2>3, <2>4, <3>2, <3>8, <3>9, TellKeeps
    <3> QED
      BY <2>3, <3>3, <3>10, AskerMoves
  <2>7. CASE p \in Situated /\ ~(Fresh(sea[p]) /\ sea[p] # Torn)
    <3>1. asker' = [asker EXCEPT ![t].phase = "fetch"]
      BY <1>6, <2>7 DEF Look
    <3>2. PICK b : b = [a EXCEPT !.phase = "fetch"]
      OBVIOUS
    <3>3. asker' = [asker EXCEPT ![t] = b]
      BY <1>1, <3>1, <3>2 DEF SeaType
    <3>4. b = [phase |-> "fetch", voyage |-> a.voyage, got |-> a.got, failed |-> a.failed]
      BY <2>1, <3>2, PhaseIs
    <3>5. b \in Answering
      BY <2>1, <3>4 DEF Answering
    <3>6. /\ b.phase = "fetch" /\ b.voyage = a.voyage /\ b.got = a.got /\ b.failed = a.failed
      BY <3>4
    <3>7. Keeps(b, clock)
      BY <2>1, <2>2, <2>7, <3>6 DEF Keeps
    <3> QED
      BY <2>3, <3>3, <3>5, <3>7, AskerMoves
  <2> QED
    BY <2>5, <2>6, <2>7
<1>7. ASSUME NEW t \in Askers, asker[t].phase \in {"fetch", "write"}
      PROVE  /\ asker[t] \in Answering /\ Keeps(asker[t], clock) /\ Len(asker[t].got) < 2
             /\ Port(t) = Ends(asker[t].voyage)[Len(asker[t].got) + 1]
             /\ Port(t) \in OutPorts /\ Port(t) \in Situated /\ asker[t].failed \in BOOLEAN
  <2>1. asker[t] \in Answering /\ Keeps(asker[t], clock)
    BY <1>5, <1>7
  <2>2. Len(asker[t].got) < 2 /\ Port(t) \in Situated
    BY <1>7, <2>1 DEF Keeps, Port
  <2>3. Port(t) = Ends(asker[t].voyage)[Len(asker[t].got) + 1]
    BY DEF Port
  <2> QED
    BY <2>1, <2>2, <2>3, EndIs DEF Answering
<1>8. ASSUME NEW t \in Askers, FetchFails(t) \/ DirectoryFails(t) PROVE SeaInv'
  <2> DEFINE a == asker[t]
  <2>1. /\ a \in Answering /\ Keeps(a, clock) /\ Len(a.got) < 2 /\ a.failed \in BOOLEAN
    <3>1. CASE FetchFails(t)
      BY <1>7, <3>1 DEF FetchFails
    <3>2. CASE DirectoryFails(t)
      BY <1>5, <3>2 DEF DirectoryFails, Answering
    <3> QED
      BY <1>8, <3>1, <3>2
  <2>2. asker' = [Got(t, NoPayload) EXCEPT ![t].failed = TRUE] /\ UNCHANGED <<clock, sky, sea>>
        /\ clock \in Nat
    BY <1>1, <1>8 DEF FetchFails, DirectoryFails, SeaType
  <2>3. PICK b : b = [phase |-> "look", voyage |-> a.voyage,
                      got |-> Append(a.got, NoPayload), failed |-> TRUE]
    OBVIOUS
  <2>4. PICK c : c = [phase |-> "look", voyage |-> a.voyage,
                      got |-> Append(a.got, NoPayload), failed |-> a.failed]
    OBVIOUS
  <2>5. Got(t, NoPayload) = [asker EXCEPT ![t] = c]
    BY <1>1, <2>1, <2>4, GotIs
  <2>6. [c EXCEPT !.failed = TRUE] = b
    <3>1. PICK d : d = [c EXCEPT !.failed = TRUE]
      OBVIOUS
    <3>2. DOMAIN d = {"phase", "voyage", "got", "failed"}
      BY <2>4, <3>1
    <3>3. d.phase = "look" /\ d.voyage = c.voyage /\ d.got = c.got /\ d.failed = TRUE
      BY <2>4, <3>1
    <3>4. d = [x \in {"phase", "voyage", "got", "failed"} |-> d[x]]
      BY <2>4, <3>1
    <3> QED
      BY <2>3, <2>4, <3>1, <3>2, <3>3, <3>4
  <2>7. asker' = [asker EXCEPT ![t] = b]
    BY <1>1, <2>2, <2>5, <2>6 DEF SeaType
  <2>8. NoPayload \in Payloads /\ Told(NoPayload, Ends(a.voyage)[Len(a.got) + 1], TRUE, clock)
    BY DEF Payloads, Told
  <2>9. b \in Answering /\ Keeps(b, clock)
    BY <2>1, <2>2, <2>3, <2>8, TellKeeps
  <2> QED
    BY <2>2, <2>7, <2>9, AskerMoves
<1>9. ASSUME NEW t \in Askers, WriteFails(t) \/ WriteSea(t) PROVE SeaInv'
  <2> DEFINE a == asker[t]
             p == Port(t)
  <2>1. /\ a \in Answering /\ Keeps(a, clock) /\ Len(a.got) < 2 /\ a.failed \in BOOLEAN
        /\ p = Ends(a.voyage)[Len(a.got) + 1] /\ p \in OutPorts
    BY <1>7, <1>9 DEF WriteFails, WriteSea
  <2>2. PICK f \in Replies(p) :
          /\ asker' = Got(t, f) /\ UNCHANGED <<clock, sky>> /\ clock \in Nat
          /\ (UNCHANGED sea \/ sea' = [sea EXCEPT ![p] = f])
    BY <1>1, <1>9 DEF WriteFails, WriteSea, SeaType
  <2>3. f \in Outlooks /\ IsOutlook(f, clock) /\ clock - f.at < Max({Ttl, 1})
    BY <1>1, <2>1, ForecastIs
  <2> HIDE DEF p
  <2>4. PICK b : b = [phase |-> "look", voyage |-> a.voyage,
                      got |-> Append(a.got, f), failed |-> a.failed]
    OBVIOUS
  <2>5. asker' = [asker EXCEPT ![t] = b]
    BY <1>1, <2>1, <2>2, <2>4, GotIs
  <2>6. f \in Payloads /\ Told(f, Ends(a.voyage)[Len(a.got) + 1], a.failed, clock)
    BY <2>3 DEF Payloads, Told
  <2>7. b \in Answering /\ Keeps(b, clock)
    <3>1. a.failed => a.failed
      OBVIOUS
    <3>2. clock \in Nat
      BY <2>2
    <3> HIDE DEF a
    <3> QED
      BY <2>1, <2>4, <2>6, <3>1, <3>2, TellKeeps
  <2> QED
    BY <2>1, <2>2, <2>3, <2>5, <2>7, AskerMoves
<1>10. ASSUME NEW t \in Askers, Fetch(t) PROVE SeaInv'
  <2> DEFINE a == asker[t]
  <2>1. /\ a \in Answering /\ Keeps(a, clock) /\ Len(a.got) < 2 /\ Port(t) \in OutPorts
        /\ Ends(a.voyage)[Len(a.got) + 1] \in Situated
    BY <1>7, <1>10 DEF Fetch
  <2>2. PICK b : b = [a EXCEPT !.phase = "write"]
    OBVIOUS
  <2>3. asker' = [asker EXCEPT ![t] = b] /\ UNCHANGED <<clock, sky>>
        /\ sea' = [sea EXCEPT ![Port(t)] = Torn]
    BY <1>1, <1>10, <2>2 DEF Fetch, SeaType
  <2>4. b = [phase |-> "write", voyage |-> a.voyage, got |-> a.got, failed |-> a.failed]
    BY <2>1, <2>2, PhaseIs
  <2>5. b \in Answering
    BY <2>1, <2>4 DEF Answering
  <2>6. /\ b.phase = "write" /\ b.voyage = a.voyage /\ b.got = a.got /\ b.failed = a.failed
    BY <2>4
  <2>7. Keeps(b, clock)
    BY <2>1, <2>6 DEF Keeps
  <2>8. \E p \in OutPorts : sea' = [sea EXCEPT ![p] = Torn]
    BY <2>1, <2>3
  <2> QED
    BY <2>3, <2>5, <2>7, <2>8, AskerMoves
<1>11. ASSUME NEW t \in Askers, Conclude(t) PROVE SeaInv'
  <2> DEFINE a == asker[t]
  <2>1. a \in Answering /\ Keeps(a, clock) /\ Len(a.got) = 2
    BY <1>5, <1>11 DEF Conclude
  <2>2. PICK b : b = [a EXCEPT !.phase = "done"]
    OBVIOUS
  <2>3. asker' = [asker EXCEPT ![t] = b] /\ UNCHANGED <<clock, sky, sea>>
    BY <1>1, <1>11, <2>2 DEF Conclude, SeaType
  <2>4. b = [phase |-> "done", voyage |-> a.voyage, got |-> a.got, failed |-> a.failed]
    BY <2>1, <2>2, PhaseIs
  <2>5. b \in Answering
    BY <2>1, <2>4 DEF Answering
  <2>6. /\ b.phase = "done" /\ b.voyage = a.voyage /\ b.got = a.got /\ b.failed = a.failed
    BY <2>4
  <2>7. Keeps(b, clock)
    BY <2>1, <2>6 DEF Keeps
  <2> QED
    BY <2>3, <2>5, <2>7, AskerMoves
<1>12. ASSUME NEW t \in Askers, Leave(t) PROVE SeaInv'
  <2>1. asker' = [asker EXCEPT ![t] = Away] /\ UNCHANGED <<clock, sky, sea>>
    BY <1>12 DEF Leave
  <2> QED
    BY <2>1, AskerMoves
<1> QED
  BY <1>2, <1>3, <1>4, <1>6, <1>8, <1>9, <1>10, <1>11, <1>12 DEF SeaNext

\* A request that is answered has been told of both ends.
LEMMA BothTold ==
  ASSUME SeaInv, NEW t \in Done
  PROVE  /\ asker[t] \in Answering /\ DOMAIN asker[t].got = 1 .. 2 /\ clock \in Nat
         /\ \A i \in 1 .. 2 :
              Told(asker[t].got[i], Ends(asker[t].voyage)[i], asker[t].failed, clock)
<1>1. t \in Askers /\ asker[t].phase = "done"
  BY DEF Done
<1>2. asker[t] \in Answering /\ Keeps(asker[t], clock) /\ clock \in Nat
  BY <1>1 DEF SeaInv, SeaType, Away
<1>3. Len(asker[t].got) = 2 /\ asker[t].got \in Seq(Payloads)
  BY <1>1, <1>2 DEF Keeps, Answering
<1> QED
  BY <1>2, <1>3 DEF Keeps

LEMMA NoneIsOld ==
  ASSUME SeaInv
  PROVE  SeaIsRecent
<1> SUFFICES ASSUME NEW t \in Done, NEW i \in 1 .. 2, asker[t].got[i] # NoPayload
             PROVE  clock - asker[t].got[i].at < Max({Ttl, 1})
  BY DEF SeaIsRecent
<1> QED
  BY BothTold DEF Told

LEMMA NoneIsLost ==
  ASSUME SeaInv
  PROVE  NoForecastIsMislaid
<1> SUFFICES ASSUME NEW t \in Done,
                    ~Buffer(asker[t].voyage, asker[t].got).covers, ~asker[t].failed,
                    NEW i \in 1 .. 2, Ends(asker[t].voyage)[i] \in Situated,
                    asker[t].got[i].kind # "unusable",
                    NEW day \in Laycan(asker[t].voyage)
             PROVE  \/ day > (clock - Max({Ttl, 1}) + 1) \div TicksPerDay + Horizon - 1
                    \/ day < Today
  BY DEF NoForecastIsMislaid
<1> DEFINE v == asker[t].voyage
           got == asker[t].got
<1>1. v \in Voyages /\ DOMAIN got = 1 .. 2 /\ clock \in Nat
  BY BothTold DEF Answering
<1>2. day \in Int
  BY <1>1, AskedAssumption DEF Laycan
<1>4. Told(got[i], Ends(v)[i], asker[t].failed, clock)
  BY BothTold
<1>5. /\ IsOutlook(got[i], clock) /\ clock - got[i].at < Max({Ttl, 1})
      /\ got[i].kind = "forecast"
  BY <1>4 DEF Told, IsOutlook
<1>6. InLaycan(got[i], v) = {}
  BY <1>1 DEF Buffer
<1>8. ~(got[i].from <= day /\ day <= got[i].to)
  <2>1. got[i].from \in Int /\ got[i].to \in Int
    BY <1>5, DayIs, OutlookAssumption DEF IsOutlook
  <2> QED
    BY <1>2, <1>5, <1>6, <2>1 DEF InLaycan
<1> HIDE DEF v, got
<1>9. PICK at \in Nat : at = got[i].at /\ at <= clock
  BY <1>5 DEF IsOutlook
<1>10. PICK from \in Int : from = got[i].from /\ from = at \div TicksPerDay
  BY <1>5, <1>9, DayIs DEF IsOutlook
<1>11. from <= Today /\ Today \in Int
  BY <1>1, <1>9, <1>10, DaysGoOn, DayIs DEF Today
<1>12. PICK first \in Int : first = clock - Max({Ttl, 1}) + 1 /\ first <= at
  BY <1>1, <1>5, <1>9, LifeIs
<1>13. first \div TicksPerDay <= from /\ first \div TicksPerDay \in Int
  BY <1>9, <1>10, <1>12, DaysGoOn, DayIs
<1>14. got[i].to = from + Horizon - 1
  BY <1>5, <1>10 DEF IsOutlook
<1>15. day < from \/ day > from + Horizon - 1
  BY <1>2, <1>8, <1>10, <1>14, OutlookAssumption
<1>16. CASE day < from
  BY <1>2, <1>11, <1>16
<1>17. CASE day > from + Horizon - 1
  BY <1>2, <1>12, <1>13, <1>17, OutlookAssumption
<1> QED
  BY <1>15, <1>16, <1>17

\* A wait of a day comes from the rows its port had on it, or from fewer.
OfItsDay(p, day, of) ==
  day # AnyDay =>
    \E n \in Nat : /\ n <= day /\ n <= Len(counts[p])
                   /\ of = RealWait(p, SubSeq(counts[p], 1, n))

WaitInv ==
  /\ counts \in [OutPorts -> Seq(CallCounts \cup {2})]
  /\ \A w \in waits : /\ w.port \in OutPorts /\ w.day \in Nat \cup {AnyDay}
                      /\ OfItsDay(w.port, w.day, w.of)
  /\ wait # NoWait =>
       \E w \in waits : /\ wait.port = w.port /\ wait.day = w.day
                        /\ wait.days = w.of.days /\ wait.real = w.of.real

LEMMA LeastIs ==
  ASSUME NEW a \in Nat, NEW b \in Nat
  PROVE  /\ Min({a, b}) \in Nat /\ Min({a, b}) <= a /\ Min({a, b}) <= b
         /\ \A n \in Nat : n <= a /\ n <= b => n <= Min({a, b})
<1>1. \E x \in {a, b} : \A y \in {a, b} : x <= y
  <2>1. CASE a <= b
    BY <2>1
  <2>2. CASE b <= a
    BY <2>2
  <2> QED
    BY <2>1, <2>2
<1>2. Min({a, b}) \in {a, b} /\ \A y \in {a, b} : Min({a, b}) <= y
  BY <1>1 DEF Min
<1> QED
  BY <1>2

\* A wait is days and whether they were counted.
LEMMA WaitIs ==
  ASSUME NEW p, NEW rows, RealWait(p, rows).real
  PROVE  RealWait(p, rows) = [days |-> RealWait(p, rows).days, real |-> TRUE]
<1>1. \/ \E d : RealWait(p, rows) = [days |-> d, real |-> FALSE]
      \/ \E d : RealWait(p, rows) = [days |-> d, real |-> TRUE]
  BY DEF RealWait
<1> QED
  BY <1>1

LEMMA WaitInvStep == WaitInv /\ [WaitNext]_waitVars => WaitInv'
<1> SUFFICES ASSUME WaitInv, [WaitNext]_waitVars PROVE WaitInv'
  OBVIOUS
<1>1. CASE UNCHANGED waitVars
  BY <1>1 DEF WaitInv, OfItsDay, waitVars
<1>2. CASE CloseWait
  BY <1>2 DEF CloseWait, WaitInv, OfItsDay
<1>3. ASSUME NEW ask \in Asks, AskWait(ask[1], ask[2]) PROVE WaitInv'
  <2>1. PICK p \in OutPorts, day \in Nat \cup {AnyDay} : ask[1] = p /\ ask[2] = day
    BY AskedAssumption
  <2> DEFINE known == {w \in waits : w.port = p /\ w.day = day}
             computed == [port |-> p, day |-> day, of |-> RealWait(p, KnownBy(p, day))]
  <2>2. PICK w \in IF known = {} THEN {computed} ELSE known :
          /\ waits' = waits \cup {w}
          /\ wait' = [port |-> p, day |-> day, days |-> w.of.days, real |-> w.of.real,
                      label |-> Label(p, w.of.days)]
    BY <1>3, <2>1 DEF AskWait
  <2>3. counts' = counts
    BY <1>3 DEF AskWait
  <2>4. w.port = p /\ w.day = day /\ OfItsDay(p, day, w.of)
    <3>1. CASE w \in known
      BY <3>1 DEF WaitInv
    <3>2. CASE w = computed
      <4>1. w.port = p /\ w.day = day /\ w.of = RealWait(p, KnownBy(p, day))
        BY <3>2
      <4>2. CASE day = AnyDay
        BY <4>1, <4>2 DEF OfItsDay
      <4>3. CASE day # AnyDay
        <5>1. day \in Nat /\ Len(counts[p]) \in Nat
          BY <4>3 DEF WaitInv
        <5>2. KnownBy(p, day) = SubSeq(counts[p], 1, Min({day, Len(counts[p])}))
          BY <4>3 DEF KnownBy
        <5> QED
          BY <4>1, <5>1, <5>2, LeastIs DEF OfItsDay
      <4> QED
        BY <4>2, <4>3
    <3> QED
      BY <2>2, <3>1, <3>2
  <2> HIDE DEF known, computed
  <2>5. \A u \in waits' : /\ u.port \in OutPorts /\ u.day \in Nat \cup {AnyDay}
                          /\ OfItsDay(u.port, u.day, u.of)
    BY <2>2, <2>4 DEF WaitInv
  <2>6. w \in waits' /\ wait'.port = w.port /\ wait'.day = w.day
        /\ wait'.days = w.of.days /\ wait'.real = w.of.real
    BY <2>2, <2>4
  <2> QED
    BY <2>3, <2>5, <2>6 DEF WaitInv, OfItsDay
<1>4. ASSUME NEW p \in OutPorts, Harvest(p) PROVE WaitInv'
  <2>1. PICK count \in CallCounts : counts' = [counts EXCEPT ![p] = Append(@, count)]
    BY <1>4 DEF Harvest
  <2>2. wait = NoWait /\ UNCHANGED <<waits, wait>>
    BY <1>4 DEF Harvest
  <2>3. counts' \in [OutPorts -> Seq(CallCounts \cup {2})]
    BY <2>1 DEF WaitInv
  <2>4. ASSUME NEW q \in OutPorts, NEW n \in Nat, n <= Len(counts[q])
        PROVE  n <= Len(counts'[q]) /\ SubSeq(counts'[q], 1, n) = SubSeq(counts[q], 1, n)
    <3>1. counts[q] \in Seq(CallCounts \cup {2}) /\ Len(counts[q]) \in Nat
      BY DEF WaitInv
    <3>2. CASE q = p
      <4>1. counts'[q] = Append(counts[q], count)
        BY <2>1, <3>2 DEF WaitInv
      <4> QED
        BY <2>4, <3>1, <4>1
    <3>3. CASE q # p
      BY <2>1, <2>4, <3>3 DEF WaitInv
    <3> QED
      BY <3>2, <3>3
  <2>5. ASSUME NEW w \in waits PROVE OfItsDay(w.port, w.day, w.of)'
    <3>1. w.port \in OutPorts /\ OfItsDay(w.port, w.day, w.of)
      BY DEF WaitInv
    <3>2. CASE w.day = AnyDay
      BY <3>2 DEF OfItsDay
    <3>3. CASE w.day # AnyDay
      <4>1. PICK n \in Nat : /\ n <= w.day /\ n <= Len(counts[w.port])
                             /\ w.of = RealWait(w.port, SubSeq(counts[w.port], 1, n))
        BY <3>1, <3>3 DEF OfItsDay
      <4> QED
        BY <2>4, <3>1, <4>1 DEF OfItsDay
    <3> QED
      BY <3>2, <3>3
  <2> QED
    BY <2>2, <2>3, <2>5 DEF WaitInv
<1> QED
  BY <1>1, <1>2, <1>3, <1>4 DEF WaitNext

LEMMA NothingIsLater ==
  ASSUME WaitInv
  PROVE  NothingAfterItsDay
<1> SUFFICES ASSUME wait # NoWait, wait.day # AnyDay, wait.real
             PROVE  \E n \in 0 .. Min({wait.day, Len(counts[wait.port])}) :
                      RealWait(wait.port, SubSeq(counts[wait.port], 1, n))
                        = [days |-> wait.days, real |-> TRUE]
  BY DEF NothingAfterItsDay
<1>1. PICK w \in waits : /\ wait.port = w.port /\ wait.day = w.day
                         /\ wait.days = w.of.days /\ wait.real = w.of.real
  BY DEF WaitInv
<1>2. w.port \in OutPorts /\ w.day \in Nat /\ OfItsDay(w.port, w.day, w.of)
  BY <1>1 DEF WaitInv
<1>3. PICK n \in Nat : /\ n <= w.day /\ n <= Len(counts[w.port])
                       /\ w.of = RealWait(w.port, SubSeq(counts[w.port], 1, n))
  BY <1>1, <1>2 DEF OfItsDay
<1>4. RealWait(w.port, SubSeq(counts[w.port], 1, n)) = [days |-> w.of.days, real |-> TRUE]
  BY <1>1, <1>3, WaitIs
<1>5. Len(counts[w.port]) \in Nat
  BY <1>2 DEF WaitInv
<1>6. PICK a \in Nat, b \in Nat : a = w.day /\ b = Len(counts[w.port])
  BY <1>2, <1>5
<1>7. n <= Min({a, b}) /\ Min({a, b}) \in Nat
  BY <1>3, <1>6, LeastIs
<1>8. n \in 0 .. Min({w.day, Len(counts[w.port])})
  BY <1>6, <1>7
<1> QED
  BY <1>1, <1>4, <1>8

OutlookNext ==
  \/ SeaNext /\ UNCHANGED waitVars
  \/ WaitNext /\ UNCHANGED seaVars

OutlookSpec == OutlookInit /\ [][OutlookNext]_outlookVars

(***************************************************************************)
(* Whatever the network, the disk and other requests do: no quote rests on   *)
(* a forecast older than the cache keeps it, none is without one but for the *)
(* network, and a past day's wait knows no later call (_load_raw,            *)
(* transit_buffer, dynamic_wait_days).                                       *)
(***************************************************************************)
THEOREM OutlooksAreOfTheirTime == OutlookSpec => []OutlookIsOfItsTime
<1>1. OutlookInit => SeaInv /\ WaitInv
  <2> SUFFICES ASSUME OutlookInit PROVE SeaInv /\ WaitInv
    OBVIOUS
  <2>1. NoFile \notin Outlooks
    BY DEF NoFile, Outlooks
  <2>2. SeaInv
    BY <2>1 DEF OutlookInit, SeaInv, SeaType
  <2>3. [i \in 1 .. Recent + Base |-> 2] \in Seq(CallCounts \cup {2})
    BY OutlookAssumption
  <2>4. <<>> \in Seq(CallCounts \cup {2})
    OBVIOUS
  <2>5. counts \in [OutPorts -> Seq(CallCounts \cup {2})]
    BY <2>3, <2>4 DEF OutlookInit
  <2>6. waits = {} /\ wait = NoWait
    BY DEF OutlookInit
  <2> QED
    BY <2>2, <2>5, <2>6 DEF WaitInv
<1>2. SeaInv /\ WaitInv /\ [OutlookNext]_outlookVars => SeaInv' /\ WaitInv'
  <2> SUFFICES ASSUME SeaInv, WaitInv, [OutlookNext]_outlookVars PROVE SeaInv' /\ WaitInv'
    OBVIOUS
  <2>1. [SeaNext]_seaVars /\ [WaitNext]_waitVars
    BY DEF OutlookNext, outlookVars, seaVars, waitVars
  <2> QED
    BY <2>1, SeaInvStep, WaitInvStep
<1>3. SeaInv /\ WaitInv => OutlookIsOfItsTime
  BY NoneIsOld, NoneIsLost, NothingIsLater DEF OutlookIsOfItsTime
<1> QED
  BY <1>1, <1>2, <1>3, PTL DEF OutlookSpec

(***************************************************************************)
(* Where a ship could load next (Backhaul).                                  *)
(***************************************************************************)
(* BestFirst, as an order of the places of the candidates.                 *)
WorthMore(worth, candidates, i, j) ==
  \/ worth[candidates[i]] > worth[candidates[j]]
  \/ worth[candidates[i]] = worth[candidates[j]] /\ i < j

WorthPairs(worth, candidates) ==
  {ij \in (DOMAIN candidates) \X (DOMAIN candidates) : WorthMore(worth, candidates, ij[1], ij[2])}

LEMMA WorthPairsAre ==
  ASSUME NEW worth, NEW candidates, NEW i \in DOMAIN candidates, NEW j \in DOMAIN candidates
  PROVE  <<i, j>> \in WorthPairs(worth, candidates) <=> WorthMore(worth, candidates, i, j)
<1>1. PICK p : p = <<i, j>>
  OBVIOUS
<1>2. p \in (DOMAIN candidates) \X (DOMAIN candidates) /\ p[1] = i /\ p[2] = j
  BY <1>1
<1>3. p \in WorthPairs(worth, candidates) <=> WorthMore(worth, candidates, p[1], p[2])
  BY <1>2 DEF WorthPairs
<1> QED
  BY <1>1, <1>2, <1>3

LEMMA WorthIsStrict ==
  ASSUME NEW X, NEW candidates \in Seq(X), NEW worth \in [Range(candidates) -> Int]
  PROVE  StrictOrder(WorthPairs(worth, candidates), DOMAIN candidates)
<1> DEFINE D == DOMAIN candidates
           R == WorthPairs(worth, candidates)
<1>1. PICK w : w = [i \in D |-> worth[candidates[i]]]
  OBVIOUS
<1>0. \A i, j \in D : <<i, j>> \in R <=> WorthMore(worth, candidates, i, j)
  BY WorthPairsAre
<1>2. \A i \in D : w[i] \in Int /\ i \in Int
  <2>1. \A i \in D : candidates[i] \in Range(candidates) /\ i \in Int
    BY DEF Range
  <2> QED
    BY <1>1, <2>1
<1>3. \A i, j \in D : <<i, j>> \in R <=> w[i] > w[j] \/ (w[i] = w[j] /\ i < j)
  BY <1>0, <1>1 DEF WorthMore
<1> HIDE DEF R, D
<1>4. \A i \in D : <<i, i>> \notin R
  BY <1>2, <1>3
<1>5. \A i, j \in D : i # j => <<i, j>> \in R \/ <<j, i>> \in R
  BY <1>2, <1>3
<1>6. \A i, j, k \in D : <<i, j>> \in R /\ <<j, k>> \in R => <<i, k>> \in R
  <2> SUFFICES ASSUME NEW i \in D, NEW j \in D, NEW k \in D, <<i, j>> \in R, <<j, k>> \in R
               PROVE  <<i, k>> \in R
    OBVIOUS
  <2>1. PICK a \in Int, b \in Int, c \in Int : a = w[i] /\ b = w[j] /\ c = w[k]
    BY <1>2
  <2>2. i \in Int /\ j \in Int /\ k \in Int
    BY <1>2
  <2>3. (a > b \/ (a = b /\ i < j)) /\ (b > c \/ (b = c /\ j < k))
    BY <1>3, <2>1
  <2>4. a > c \/ (a = c /\ i < k)
    BY <2>1, <2>2, <2>3
  <2> QED
    BY <1>3, <2>1, <2>4
<1>7. StrictOrder(R, D)
  BY <1>4, <1>5, <1>6 DEF StrictOrder
<1> QED
  BY <1>7 DEF R, D

(* The candidates again, none after one that is worth less.                *)
Descending(s, worth) == \A k, l \in DOMAIN s : k < l => worth[s[k]] >= worth[s[l]]

LEMMA BestFirstIs ==
  ASSUME NEW X, NEW candidates \in Seq(X), NEW worth \in [Range(candidates) -> Int]
  PROVE  /\ Range(BestFirst(worth, candidates)) = Range(candidates)
         /\ Descending(BestFirst(worth, candidates), worth)
<1>1. PICK R : R = WorthPairs(worth, candidates)
  OBVIOUS
<1>2. StrictOrder(R, DOMAIN candidates)
  BY <1>1, WorthIsStrict
<1>3. BestFirst(worth, candidates) = Along(candidates, Numbering(DOMAIN candidates, R))
  <2> DEFINE First(i, j) == \/ worth[candidates[i]] > worth[candidates[j]]
                            \/ worth[candidates[i]] = worth[candidates[j]] /\ i < j
  <2>1. \A x, y \in DOMAIN candidates : First(y, x) <=> <<y, x>> \in R
    BY <1>1, WorthPairsAre DEF WorthMore
  <2>2. BestFirst(worth, candidates) = Along(candidates, InOrder(DOMAIN candidates, First))
    BY DEF BestFirst
  <2>3. InOrder(DOMAIN candidates, First) =
          [k \in 1 .. Cardinality(DOMAIN candidates) |->
             CHOOSE x \in DOMAIN candidates :
               Cardinality({y \in DOMAIN candidates : First(y, x)}) = k - 1]
    BY DEF InOrder
  <2> HIDE DEF First
  <2>4. \A x \in DOMAIN candidates :
          {y \in DOMAIN candidates : First(y, x)} = {y \in DOMAIN candidates : <<y, x>> \in R}
    BY <2>1
  <2>5. InOrder(DOMAIN candidates, First) = Numbering(DOMAIN candidates, R)
    BY <2>3, <2>4 DEF Numbering, Leading
  <2> QED
    BY <2>2, <2>5
<1>4. PICK s : s = BestFirst(worth, candidates)
  OBVIOUS
<1>5. Range(s) = Range(candidates) /\ SortedBy(s, candidates, R)
  BY <1>2, <1>3, <1>4, SortedIs
<1>6. ASSUME NEW k \in DOMAIN s, NEW l \in DOMAIN s, k < l
      PROVE  worth[s[k]] >= worth[s[l]]
  <2>1. PICK i \in DOMAIN candidates, j \in DOMAIN candidates :
          s[k] = candidates[i] /\ s[l] = candidates[j] /\ <<i, j>> \in R
    BY <1>5, <1>6 DEF SortedBy
  <2>2. WorthMore(worth, candidates, i, j)
    BY <1>1, <2>1, WorthPairsAre
  <2>3. worth[candidates[i]] \in Int /\ worth[candidates[j]] \in Int
    BY DEF Range
  <2> QED
    BY <2>1, <2>2, <2>3 DEF WorthMore
<1> QED
  BY <1>4, <1>5, <1>6 DEF Descending

(* A search in hand looks at the calls kept, and its answer is its         *)
(* candidates by what they are worth to it.                                *)
BackhaulInv ==
  /\ log \in CallLogs /\ (cached = NoRate \/ cached \in CallLogs)
  /\ search = NoSearch => ranking = <<>>
  /\ search # NoSearch =>
       /\ search \in Searches /\ cached \in CallLogs
       /\ ranking # <<>> =>
            ranking = BestFirst([port \in Range(search.candidates) |-> Value(port)],
                                search.candidates)

LEMMA BackhaulStep ==
  ASSUME BackhaulInv, [BackhaulNext]_backhaulVars
  PROVE  BackhaulInv'
<1> USE DEF BackhaulInv
<1>1. CASE AskBackhaul
  BY <1>1 DEF AskBackhaul
<1>2. CASE RankBackhaul
  <2>1. UNCHANGED <<log, cached, search>> /\ search # NoSearch
    BY <1>2 DEF RankBackhaul
  <2>2. ranking' = BestFirst([port \in Range(search.candidates) |-> Value(port)],
                             search.candidates)
    BY <1>2 DEF RankBackhaul
  <2>3. \A port : Value(port)' = Value(port)
    BY <2>1 DEF Value, Position, Worth, Score, Dollars, Viable, Vetoes, Sufficient, PairedHulls,
                Paired, Seen, DaysOf, CallsAt, Likely, BallastCost
  <2>4. [port \in Range(search.candidates) |-> Value(port)]'
          = [port \in Range(search.candidates) |-> Value(port)]
    BY <2>1, <2>3
  <2>5. (BestFirst([port \in Range(search.candidates) |-> Value(port)], search.candidates))'
          = BestFirst([port \in Range(search.candidates) |-> Value(port)], search.candidates)
    BY <2>1, <2>4
  <2> QED
    BY <2>1, <2>2, <2>5
<1>3. CASE DeliverBackhaul
  BY <1>3 DEF DeliverBackhaul
<1>4. CASE HarvestCalls
  BY <1>4 DEF HarvestCalls
<1>5. CASE ForgetCalls
  BY <1>5 DEF ForgetCalls
<1>6. CASE UNCHANGED backhaulVars
  <2>1. UNCHANGED <<log, cached, search, ranking>>
    BY <1>6 DEF backhaulVars
  <2>3. \A port : Value(port)' = Value(port)
    BY <2>1 DEF Value, Position, Worth, Score, Dollars, Viable, Vetoes, Sufficient, PairedHulls,
                Paired, Seen, DaysOf, CallsAt, Likely, BallastCost
  <2>4. [port \in Range(search.candidates) |-> Value(port)]'
          = [port \in Range(search.candidates) |-> Value(port)]
    BY <2>1, <2>3
  <2>5. (BestFirst([port \in Range(search.candidates) |-> Value(port)], search.candidates))'
          = BestFirst([port \in Range(search.candidates) |-> Value(port)], search.candidates)
    BY <2>1, <2>4
  <2> QED
    BY <2>1, <2>5
<1> QED
  BY <1>1, <1>2, <1>3, <1>4, <1>5, <1>6 DEF BackhaulNext

(* What a place is worth to a search, and to whom.                         *)
LEMMA WorthIs ==
  ASSUME search \in Searches, NEW port \in Places
  PROVE  /\ Likely(port) \in 1 .. 100 /\ BallastCost(port) \in Nat
         /\ Likely(port) * search.window \in Nat
         /\ search.rate \in Int => Likely(port) * search.rate * search.window \in Int
         /\ Value(port) \in Int
<1>1. /\ search.from \in Places /\ search.window \in Nat
      /\ search.rate \in Int \/ (search.rate = NoRate /\ ~search.idle)
  BY BackhaulAssumption DEF IsSearch
<1>2. Likely(port) \in 1 .. 100
  BY BackhaulAssumption DEF Likely, Neutral
<1>3. BallastCost(port) \in Nat
  <2>1. Far[search.from][port] \in Nat /\ Fuel \in Nat
    BY <1>1, BackhaulAssumption
  <2> QED
    BY <2>1 DEF BallastCost
<1>4. Waiting[port] \in Nat
  BY BackhaulAssumption
<1>5. Score(port) \in Int
  BY <1>2 DEF Score
<1>6. ASSUME search.rate \in Int
      PROVE  Likely(port) * search.rate * search.window \in Int
  BY <1>1, <1>2, <1>6
<1>7. search.rate \in Int => Dollars(port) \in Int /\ Position(port) \in Int
  BY <1>3, <1>4, <1>6 DEF Dollars, Position
<1>8. Value(port) \in Int
  BY <1>1, <1>5, <1>7 DEF Value, Worth
<1>9. Likely(port) * search.window \in Nat
  BY <1>1, <1>2
<1> QED
  BY <1>2, <1>3, <1>6, <1>8, <1>9

LEMMA OnlyLossesAreOutranked == BackhaulInv => UnusableOutranksOnlyLosses
<1> SUFFICES ASSUME BackhaulInv, search # NoSearch, ~search.idle,
                    NEW i \in DOMAIN ranking, NEW j \in DOMAIN ranking,
                    i < j, ~Viable(ranking[i]), Viable(ranking[j])
             PROVE  /\ search.rate # NoRate
                    /\ Likely(ranking[j]) * search.rate * search.window <= BallastCost(ranking[j])
  BY DEF UnusableOutranksOnlyLosses
<1>1. PICK worth : worth = [port \in Range(search.candidates) |-> Value(port)]
  OBVIOUS
<1>2. search \in Searches /\ ranking = BestFirst(worth, search.candidates)
  BY <1>1 DEF BackhaulInv
<1>3. /\ search.candidates \in Seq(Places)
      /\ search.rate \in Int \/ search.rate = NoRate
  BY <1>2, BackhaulAssumption DEF IsSearch
<1>4. Range(search.candidates) \subseteq Places
  BY <1>3 DEF Range
<1>5. worth \in [Range(search.candidates) -> Int]
  BY <1>1, <1>2, <1>4, WorthIs
<1>6. Range(ranking) = Range(search.candidates) /\ Descending(ranking, worth)
  BY <1>2, <1>3, <1>5, BestFirstIs
<1>7. ranking[i] \in Range(search.candidates) /\ ranking[j] \in Range(search.candidates)
  BY <1>6 DEF Range
<1>8. Value(ranking[i]) >= Value(ranking[j])
  BY <1>1, <1>6, <1>7 DEF Descending
<1>9. Value(ranking[i]) = 0
  BY DEF Value, Worth, Score, Dollars
<1>10. PICK p \in Places : p = ranking[j]
  BY <1>4, <1>7
<1>11. Likely(p) \in 1 .. 100 /\ BallastCost(p) \in Nat
  BY <1>2, WorthIs
<1>12. search.rate # NoRate
  <2> SUFFICES ASSUME search.rate = NoRate PROVE FALSE
    OBVIOUS
  <2>1. Value(p) = Likely(p)
    BY <1>10 DEF Value, Worth, Score
  <2> QED
    BY <1>8, <1>9, <1>10, <1>11, <2>1
<1>13. Value(p) = Likely(p) * search.rate * search.window - BallastCost(p)
  BY <1>10, <1>12 DEF Value, Worth, Dollars
<1>14. Likely(p) * search.rate * search.window \in Int
  BY <1>2, <1>3, <1>12, WorthIs
<1> QED
  BY <1>8, <1>9, <1>10, <1>11, <1>12, <1>13, <1>14

LEMMA VetoesHaveEvidence == BackhaulInv => VetoIsEvidenced
<1> SUFFICES ASSUME BackhaulInv, search # NoSearch,
                    NEW port \in Range(search.candidates), Vetoes(search.from, port)
             PROVE
      /\ Cardinality(Seen(search.from)) >= MinPairs
      /\ \E call \in cached : call.port = port /\ ~call.quarantined
      /\ \A load \in cached :
           load.port = port /\ load.what = "LOAD" /\ ~load.quarantined =>
             \/ \E call \in cached : /\ call.vessel = load.vessel /\ call.port = search.from
                                     /\ call.what = "DISCHARGE" /\ ~call.quarantined
                                     /\ call.day > load.day
             \/ ~ \E call \in cached : /\ call.vessel = load.vessel /\ call.port = search.from
                                       /\ call.what = "DISCHARGE" /\ ~call.quarantined
  BY DEF VetoIsEvidenced
<1>1. /\ Cardinality(Seen(search.from)) >= MinPairs
      /\ search.from = port \/ Seen(port) # {}
      /\ PairedHulls(search.from, port) = {}
  BY DEF Vetoes, Sufficient
<1>2. IsFiniteSet(cached) /\ \A call \in cached : IsCall(call)
  BY BackhaulAssumption DEF BackhaulInv
<1>3. Seen(port) # {}
  <2>1. Seen(search.from) # {}
    <3>1. Cardinality({}) = 0 /\ MinPairs \in Nat \ {0}
      BY FS_EmptySet, BackhaulAssumption
    <3> QED
      BY <1>1, <3>1
  <2> QED
    BY <1>1, <2>1
<1>4. \E call \in cached : call.port = port /\ ~call.quarantined
  BY <1>3 DEF Seen, CallsAt
<1>5. ASSUME NEW load \in cached, load.port = port, load.what = "LOAD", ~load.quarantined,
             NEW down \in cached, down.vessel = load.vessel, down.port = search.from,
             down.what = "DISCHARGE", ~down.quarantined
      PROVE  \E call \in cached : /\ call.vessel = load.vessel /\ call.port = search.from
                                  /\ call.what = "DISCHARGE" /\ ~call.quarantined
                                  /\ call.day > load.day
  <2>1. PICK hull \in Hulls : hull = load.vessel
    BY <1>2 DEF IsCall
  <2> DEFINE discharges == DaysOf(search.from, hull, "DISCHARGE")
             loads == DaysOf(port, hull, "LOAD")
  <2>2. down.day \in discharges /\ load.day \in loads
    BY <1>5, <2>1 DEF DaysOf, CallsAt
  <2>3. hull \in Seen(search.from)
    BY <1>5, <2>1 DEF Seen, CallsAt
  <2>4. ~Paired(search.from, port, hull)
    BY <1>1, <2>3 DEF PairedHulls
  <2>5. search.from # port /\ \A day \in loads : ~(day >= Max(discharges))
    BY <2>2, <2>4 DEF Paired
  <2>6. Max(discharges) \in discharges /\ \A day \in discharges : day \in Nat
    <3>1. \A day \in discharges : day \in Nat
      BY <1>2 DEF DaysOf, CallsAt, IsCall
    <3>2. IsFiniteSet(discharges)
      <4> DEFINE calls == {call \in CallsAt(search.from, hull) : call.what = "DISCHARGE"}
                 f == [call \in calls |-> call.day]
      <4>1. IsFiniteSet(calls)
        <5>1. calls \subseteq cached
          BY DEF CallsAt
        <5> QED
          BY <1>2, <5>1, FS_Subset
      <4>2. discharges = Range(f)
        BY DEF DaysOf, Range
      <4>3. DOMAIN f = calls
        OBVIOUS
      <4> HIDE DEF f, calls
      <4> QED
        BY <4>1, <4>2, <4>3, ImageIsFinite
    <3> HIDE DEF discharges
    <3>3. discharges \subseteq Int /\ discharges # {}
      BY <2>2, <3>1
    <3>4. PICK m \in discharges : \A x \in discharges : m >= x
      BY <3>2, <3>3, FiniteHasMax
    <3>5. Max(discharges) = m
      BY <3>3, <3>4, MaxIs
    <3> QED
      BY <3>1, <3>4, <3>5
  <2>7. PICK call \in cached :
          /\ call.port = search.from /\ call.vessel = hull /\ ~call.quarantined
          /\ call.what = "DISCHARGE" /\ call.day = Max(discharges)
    BY <2>6 DEF DaysOf, CallsAt
  <2>8. load.day \in Nat /\ Max(discharges) \in Nat
    BY <1>2, <2>6 DEF IsCall
  <2> HIDE DEF discharges, loads
  <2>9. call.day > load.day
    BY <2>2, <2>5, <2>7, <2>8
  <2> QED
    BY <2>1, <2>7, <2>9
<1> QED
  BY <1>1, <1>4, <1>5

BackhaulSpec == BackhaulInit /\ [][BackhaulNext]_backhaulVars

(***************************************************************************)
(* For any log of calls, search, rate and distances: a place a ship cannot   *)
(* use outranks only what would lose money, and a veto rests on vessels seen *)
(* at both ports (backhaul_opportunity_score, observed_pairing_evidence).    *)
(***************************************************************************)
THEOREM SearchesAreSound == BackhaulSpec => []SearchIsSound
<1>1. BackhaulInit => BackhaulInv
  BY DEF BackhaulInit, BackhaulInv
<1>2. BackhaulInv /\ [BackhaulNext]_backhaulVars => BackhaulInv'
  BY BackhaulStep
<1>3. BackhaulInv => SearchIsSound
  BY OnlyLossesAreOutranked, VetoesHaveEvidence DEF SearchIsSound
<1> QED
  BY <1>1, <1>2, <1>3, PTL DEF BackhaulSpec

(***************************************************************************)
(* What a route runs into (RouteRisk).                                       *)
(***************************************************************************)
(* The plane.                                                              *)
LEMMA PlaneIs ==
  ASSUME NEW a \in Point, NEW b \in Point
  PROVE  /\ a[1] \in Int /\ a[2] \in Int
         /\ To(a, b) \in Point
         /\ To(a, b)[1] = b[1] - a[1] /\ To(a, b)[2] = b[2] - a[2]
         /\ Dot(a, b) \in Int /\ Cross(a, b) \in Int /\ Sq(a) \in Nat
         /\ a # b => Sq(To(a, b)) > 0
<1>1. a[1] \in Int /\ a[2] \in Int /\ b[1] \in Int /\ b[2] \in Int
  BY DEF Point
<1>2. To(a, b)[1] = b[1] - a[1] /\ To(a, b)[2] = b[2] - a[2] /\ To(a, b) \in Point
  BY <1>1 DEF To, Point
<1>3. Dot(a, b) \in Int /\ Cross(a, b) \in Int
  BY <1>1 DEF Dot, Cross
<1>4. Sq(a) \in Nat
  BY <1>1 DEF Sq, Dot
<1>5. ASSUME a # b PROVE Sq(To(a, b)) > 0
  <2>1. a[1] # b[1] \/ a[2] # b[2]
    BY <1>5 DEF Point
  <2>2. PICK x \in Int, y \in Int : x = b[1] - a[1] /\ y = b[2] - a[2]
    BY <1>1
  <2>3. x # 0 \/ y # 0
    BY <1>1, <2>1, <2>2
  <2>4. x * x + y * y > 0
    BY <2>3
  <2> QED
    BY <1>2, <2>2, <2>4 DEF Sq, Dot
<1> QED
  BY <1>1, <1>2, <1>3, <1>4, <1>5

(* The square of what lies across is at most the product of the squares.   *)
LEMMA CrossIsBounded ==
  ASSUME NEW u \in Point, NEW w \in Point
  PROVE  Cross(u, w) * Cross(u, w) <= Sq(u) * Sq(w)
<1>1. PICK a \in Int, b \in Int, c \in Int, d \in Int :
        a = u[1] /\ b = u[2] /\ c = w[1] /\ d = w[2]
  BY DEF Point
<1>2. (a * a + b * b) * (c * c + d * d) - (a * d - b * c) * (a * d - b * c)
        = (a * c + b * d) * (a * c + b * d)
  OBVIOUS
<1>3. \A n \in Int : n * n >= 0
  OBVIOUS
<1>4. PICK m \in Int : m = a * c + b * d
  OBVIOUS
<1>5. m * m >= 0
  BY <1>3
<1>6. PICK k \in Int, l \in Int :
        /\ k = (a * a + b * b) * (c * c + d * d) /\ l = (a * d - b * c) * (a * d - b * c)
  OBVIOUS
<1>7. k - l = m * m
  BY <1>2, <1>4, <1>6
<1>8. l <= k
  <2>1. m * m \in Int
    OBVIOUS
  <2> QED
    BY <1>5, <1>6, <1>7, <2>1
<1> QED
  BY <1>1, <1>6, <1>8 DEF Cross, Sq, Dot

LEMMA AcrossFromEither ==
  ASSUME NEW a \in Point, NEW b \in Point, NEW c \in Point
  PROVE  /\ Cross(To(a, b), To(a, c)) = Cross(To(a, b), To(b, c))
         /\ Dot(To(a, b), To(a, c)) = Sq(To(a, b)) + Dot(To(a, b), To(b, c))
         /\ Sq(To(c, b)) = Sq(To(b, c))
<1>1. PICK a1 \in Int, a2 \in Int, b1 \in Int, b2 \in Int, c1 \in Int, c2 \in Int :
        a1 = a[1] /\ a2 = a[2] /\ b1 = b[1] /\ b2 = b[2] /\ c1 = c[1] /\ c2 = c[2]
  BY DEF Point
<1>2. (b1 - a1) * (c2 - a2) - (b2 - a2) * (c1 - a1)
        = (b1 - a1) * (c2 - b2) - (b2 - a2) * (c1 - b1)
  OBVIOUS
<1>3. (b1 - a1) * (c1 - a1) + (b2 - a2) * (c2 - a2)
        = (b1 - a1) * (b1 - a1) + (b2 - a2) * (b2 - a2)
          + ((b1 - a1) * (c1 - b1) + (b2 - a2) * (c2 - b2))
  OBVIOUS
<1>4. (b1 - c1) * (b1 - c1) + (b2 - c2) * (b2 - c2)
        = (c1 - b1) * (c1 - b1) + (c2 - b2) * (c2 - b2)
  OBVIOUS
<1> QED
  BY <1>1, <1>2, <1>3, <1>4 DEF Cross, Dot, Sq, To

(* A point of a circle leaves nothing of the line across it outside.       *)
LEMMA WithinAcross ==
  ASSUME NEW u \in Point, NEW w \in Point, NEW r \in Nat, Sq(w) <= r * r
  PROVE  Cross(u, w) * Cross(u, w) <= r * r * Sq(u)
<1>1. PICK s \in Nat, t \in Nat, q \in Nat : s = Sq(u) /\ t = Sq(w) /\ q = r * r
  BY PlaneIs
<1>2. \A x, y, z \in Nat : y <= z => x * y <= z * x
  OBVIOUS
<1>3. s * t <= q * s
  BY <1>1, <1>2
<1>4. Cross(u, w) * Cross(u, w) \in Int
  BY PlaneIs
<1> QED
  BY <1>1, <1>3, <1>4, CrossIsBounded

LEMMA EndInCircle ==
  ASSUME NEW a \in Point, NEW b \in Point, NEW at \in Point, NEW r \in Nat,
         Sq(To(b, at)) <= r * r
  PROVE  WithinCircle(at, r, a, b)
<1>1. Sq(To(at, b)) <= r * r
  BY AcrossFromEither
<1>2. To(a, b) \in Point /\ To(b, at) \in Point
  BY PlaneIs
<1>3. Cross(To(a, b), To(b, at)) * Cross(To(a, b), To(b, at)) <= r * r * Sq(To(a, b))
  BY <1>2, WithinAcross
<1>4. Cross(To(a, b), To(a, at)) = Cross(To(a, b), To(b, at))
  BY AcrossFromEither
<1>5. a = b => Sq(To(a, at)) <= r * r
  OBVIOUS
<1> QED
  BY <1>1, <1>3, <1>4, <1>5 DEF WithinCircle

(* A segment that meets a circle is within it by the code's measure, but   *)
(* for one that leaves the circle with its centre astern.                  *)
LEMMA MetIsWithin ==
  ASSUME NEW passage, passage.at \in Point, passage.radius \in Nat,
         NEW a \in Point, NEW b \in Point, Meets(passage, a, b), ~LeftBehind(passage, a, b)
  PROVE  WithinCircle(passage.at, passage.radius, a, b)
<1>1. PICK at \in Point, r \in Nat : at = passage.at /\ r = passage.radius
  OBVIOUS
<1>2. PICK u \in Point, w \in Point : u = To(a, b) /\ w = To(a, at)
  BY PlaneIs
<1>3. PICK d \in Int, s \in Nat : d = Dot(u, w) /\ s = Sq(u)
  BY PlaneIs
<1>4. CASE a = b
  <2>1. d = 0 /\ s = 0
    <3>1. To(a, b)[1] = 0 /\ To(a, b)[2] = 0 /\ w[1] \in Int /\ w[2] \in Int
      BY <1>4, PlaneIs
    <3> QED
      BY <1>2, <1>3, <3>1 DEF Dot, Sq
  <2>2. Sq(w) <= r * r
    BY <1>1, <1>2, <1>3, <2>1 DEF Meets
  <2> QED
    BY <1>1, <1>2, <1>4, <2>2 DEF WithinCircle
<1>5. CASE a # b /\ d <= 0
  <2>1. Sq(w) <= r * r
    BY <1>1, <1>2, <1>3, <1>5 DEF Meets
  <2>2. ~(d < 0)
    BY <1>1, <1>2, <1>3, <2>1 DEF LeftBehind
  <2>3. Cross(u, w) * Cross(u, w) <= r * r * Sq(u)
    BY <2>1, WithinAcross
  <2> QED
    BY <1>1, <1>2, <1>3, <1>5, <2>2, <2>3 DEF WithinCircle
<1>6. CASE a # b /\ d > 0 /\ d >= s
  <2>1. Sq(To(b, at)) <= r * r
    BY <1>1, <1>2, <1>3, <1>6 DEF Meets
  <2> QED
    BY <1>1, <2>1, EndInCircle
<1>7. CASE a # b /\ d > 0 /\ d < s
  <2>1. Cross(u, w) * Cross(u, w) <= r * r * Sq(u)
    BY <1>1, <1>2, <1>3, <1>7 DEF Meets
  <2> QED
    BY <1>1, <1>2, <1>3, <1>7, <2>1 DEF WithinCircle
<1> QED
  BY <1>4, <1>5, <1>6, <1>7

LEMMA MetIsHit ==
  ASSUME NEW line \in Seq(Point), NEW passage \in MetUnderWay(line)
  PROVE  Hits(line, passage) # {}
<1>1. passage.at \in Point /\ passage.radius \in Nat
  BY RouteAssumption DEF MetUnderWay
<1>2. PICK i \in Segments(line) :
        /\ Meets(passage, line[i], line[i + 1])
        /\ i = 1 => ~LeftBehind(passage, line[1], line[2])
  BY DEF MetUnderWay
<1>3. PICK n \in Nat : n = Len(line) /\ DOMAIN line = 1 .. n
  OBVIOUS
<1>4. i \in 1 .. n - 1 /\ i \in Int
  BY <1>2, <1>3 DEF Segments
<1>5. line[i] \in Point /\ line[i + 1] \in Point
  BY <1>3, <1>4
<1>8. PICK a \in Point, b \in Point : a = line[i] /\ b = line[i + 1]
  BY <1>5
<1>6. CASE ~LeftBehind(passage, line[i], line[i + 1])
  <2>1. WithinCircle(passage.at, passage.radius, line[i], line[i + 1])
    <3>1. Meets(passage, a, b) /\ ~LeftBehind(passage, a, b)
      BY <1>2, <1>6, <1>8
    <3>2. WithinCircle(passage.at, passage.radius, a, b)
      BY <1>1, <3>1, MetIsWithin
    <3> QED
      BY <1>8, <3>2
  <2> QED
    BY <1>2, <2>1 DEF Hits
<1>7. CASE LeftBehind(passage, line[i], line[i + 1])
  <2>1. i # 1
    <3> SUFFICES ASSUME i = 1 PROVE FALSE
      OBVIOUS
    <3>1. i + 1 = 2
      OBVIOUS
    <3>2. ~LeftBehind(passage, line[1], line[2])
      BY <1>2
    <3> QED
      BY <1>7, <3>1, <3>2
  <2>2. PICK j \in 1 .. n - 1 : i = j + 1
    BY <1>4, <2>1
  <2>3. j \in Segments(line) /\ line[j] \in Point
    BY <1>3, <2>2 DEF Segments
  <2>4. Sq(To(line[i], passage.at)) <= passage.radius * passage.radius
    BY <1>7 DEF LeftBehind
  <2>5. WithinCircle(passage.at, passage.radius, line[j], line[i])
    BY <1>1, <1>5, <2>3, <2>4, EndInCircle
  <2> QED
    BY <2>2, <2>3, <2>5 DEF Hits
<1> QED
  BY <1>6, <1>7

(* What the trims leave has an end of its own at either side.              *)
LEMMA TrimsLeaveTwo ==
  ASSUME NEW n \in Nat, n >= 2, NEW line, Len(line) = n, NEW hooked
  PROVE  Trims(line, hooked) \in 0 .. MaxTrim /\ n - Trims(line, hooked) >= 2
<1> DEFINE K == {k \in 0 .. MaxTrim : k = MaxTrim \/ Len(line) - k < 3 \/ k \notin hooked}
<1>1. K \subseteq Nat /\ MaxTrim \in K /\ MaxTrim = 2
  BY DEF MaxTrim
<1>2. PICK k \in K : \A j \in K : k <= j
  <2> HIDE DEF K
  <2> QED
    BY <1>1, LeastOfSome
<1>3. Trims(line, hooked) = k
  <2>1. Trims(line, hooked) = CHOOSE x \in K : \A y \in K : x =< y
    BY DEF Trims, Min
  <2>2. \A x \in K : (\A y \in K : x =< y) => x = k
    BY <1>1, <1>2
  <2> HIDE DEF K
  <2> QED
    BY <1>2, <2>1, <2>2
<1>4. k \in {0, 1, 2} /\ k \in 0 .. MaxTrim
  BY <1>1
<1>5. n - k >= 2
  <2>1. CASE k = 0
    BY <2>1
  <2>2. CASE k # 0
    <3>1. k - 1 \in 0 .. MaxTrim /\ ~(k <= k - 1) /\ k - 1 # MaxTrim
      BY <1>1, <1>4, <2>2
    <3>2. k - 1 \notin K
      BY <1>2, <3>1
    <3>3. ~(n - (k - 1) < 3)
      BY <3>1, <3>2
    <3> QED
      BY <1>4, <3>3
  <2> QED
    BY <2>1, <2>2
<1> QED
  BY <1>3, <1>4, <1>5

LEMMA TrimmedIs ==
  ASSUME NEW line \in Seq(Point), Len(line) >= 2, NEW p \in Point
  PROVE  /\ TrimEnd(line, p) \in Seq(Point) /\ Len(TrimEnd(line, p)) >= 2
         /\ TrimStart(line, p) \in Seq(Point) /\ Len(TrimStart(line, p)) >= 2
<1>1. PICK n \in Nat : n = Len(line) /\ DOMAIN line = 1 .. n /\ n >= 2
  OBVIOUS
<1>2. ASSUME NEW k \in 0 .. MaxTrim, n - k >= 2
      PROVE  /\ SubSeq(line, 1, n - k) \in Seq(Point) /\ Len(SubSeq(line, 1, n - k)) >= 2
             /\ SubSeq(line, 1 + k, n) \in Seq(Point) /\ Len(SubSeq(line, 1 + k, n)) >= 2
  <2>1. k \in Int /\ k >= 0
    BY DEF MaxTrim
  <2>2. 1 .. n - k \subseteq DOMAIN line /\ 1 + k .. n \subseteq DOMAIN line
    BY <1>1, <2>1
  <2> QED
    BY <1>1, <1>2, <2>1, <2>2
<1>3. TrimEnd(line, p) \in Seq(Point) /\ Len(TrimEnd(line, p)) >= 2
  <2>1. \E h : TrimEnd(line, p) = SubSeq(line, 1, n - Trims(line, h))
    BY <1>1, Zenon DEF TrimEnd
  <2>2. PICK h : TrimEnd(line, p) = SubSeq(line, 1, n - Trims(line, h))
    BY <2>1
  <2>3. Trims(line, h) \in 0 .. MaxTrim /\ n - Trims(line, h) >= 2
    BY <1>1, TrimsLeaveTwo
  <2> QED
    BY <1>2, <2>2, <2>3
<1>4. TrimStart(line, p) \in Seq(Point) /\ Len(TrimStart(line, p)) >= 2
  <2>1. \E h : TrimStart(line, p) = SubSeq(line, 1 + Trims(line, h), n)
    BY <1>1, Zenon DEF TrimStart
  <2>2. PICK h : TrimStart(line, p) = SubSeq(line, 1 + Trims(line, h), n)
    BY <2>1
  <2>3. Trims(line, h) \in 0 .. MaxTrim /\ n - Trims(line, h) >= 2
    BY <1>1, TrimsLeaveTwo
  <2> QED
    BY <1>2, <2>2, <2>3
<1> QED
  BY <1>3, <1>4

LEMMA JoinIs ==
  ASSUME NEW line \in Seq(Point), Len(line) >= 2, NEW a \in Point, NEW b \in Point
  PROVE  /\ Join(line, a, b) \in Seq(Point) /\ Len(Join(line, a, b)) >= 2
         /\ Join(line, a, b)[1] = a /\ Join(line, a, b)[Len(Join(line, a, b))] = b
<1>1. PICK n \in Nat : n = Len(line) /\ n >= 2
  OBVIOUS
<1>2. PICK head : head = IF line[1] = a THEN <<>> ELSE <<a>>
  OBVIOUS
<1>3. PICK tail : tail = IF line[n] = b THEN <<>> ELSE <<b>>
  OBVIOUS
<1>4. Join(line, a, b) = head \o line \o tail
  BY <1>1, <1>2, <1>3 DEF Join
<1>5. PICK start : start = head \o line
  OBVIOUS
<1>6. start \in Seq(Point) /\ Len(start) >= 2 /\ start[1] = a /\ start[Len(start)] = line[n]
  BY <1>1, <1>2, <1>5
<1>7. start \o tail \in Seq(Point) /\ Len(start \o tail) >= 2
  BY <1>3, <1>6
<1>8. (start \o tail)[1] = a
  BY <1>3, <1>6
<1>9. (start \o tail)[Len(start \o tail)] = b
  BY <1>3, <1>6
<1> QED
  BY <1>4, <1>5, <1>7, <1>8, <1>9

(* A leg runs from port to port.                                           *)
RunsTo(leg) ==
  /\ leg.line \in Seq(Point) /\ Len(leg.line) >= 2
  /\ leg.line[1] = Place[leg.from] /\ leg.line[Len(leg.line)] = Place[leg.to]

LEMMA LegIs ==
  ASSUME NEW from \in RoutePorts, NEW to \in RoutePorts,
         NEW raw \in Lines[from][to] \cup {<<>>}
  PROVE  /\ LegOf(from, to, raw).from = from /\ LegOf(from, to, raw).to = to
         /\ RunsTo(LegOf(from, to, raw))
<1>0. Place \in [RoutePorts -> Point] /\ Lines[from][to] \subseteq Seq(Point)
  BY RouteAssumption, Zenon
<1>1. PICK a \in Point, b \in Point : a = Place[from] /\ b = Place[to]
  BY <1>0
<1>2. raw \in Seq(Point)
  <2>1. <<>> \in Seq(Point)
    OBVIOUS
  <2> QED
    BY <1>0, <2>1, Zenon
<1>3. PICK leg : leg = LegOf(from, to, raw)
  OBVIOUS
<1>4. /\ leg.from = from /\ leg.to = to
      /\ leg.line = IF Len(raw) < 2 THEN <<a, b>> ELSE Join(TrimStart(TrimEnd(raw, b), a), a, b)
  BY <1>1, <1>3 DEF LegOf
<1>5. /\ leg.line \in Seq(Point) /\ Len(leg.line) >= 2
      /\ leg.line[1] = a /\ leg.line[Len(leg.line)] = b
  <2>1. CASE Len(raw) < 2
    BY <1>4, <2>1
  <2>2. CASE ~(Len(raw) < 2)
    <3>1. PICK kept : kept = TrimEnd(raw, b)
      OBVIOUS
    <3>2. kept \in Seq(Point) /\ Len(kept) >= 2
      BY <1>2, <2>2, <3>1, TrimmedIs
    <3>3. PICK rest : rest = TrimStart(kept, a)
      OBVIOUS
    <3>4. rest \in Seq(Point) /\ Len(rest) >= 2
      BY <3>2, <3>3, TrimmedIs
    <3>5. leg.line = Join(rest, a, b)
      BY <1>4, <2>2, <3>1, <3>3
    <3> QED
      BY <3>4, <3>5, JoinIs
  <2> QED
    BY <2>1, <2>2
<1> QED
  BY <1>1, <1>3, <1>4, <1>5 DEF RunsTo

(* An order by a key, ties by the place.                                   *)
ByKey(S, key) ==
  {ij \in S \X S : key[ij[1]] < key[ij[2]] \/ (key[ij[1]] = key[ij[2]] /\ ij[1] < ij[2])}

LEMMA ByKeyIs ==
  ASSUME NEW S, S \subseteq Int, NEW key \in [S -> Int]
  PROVE  /\ \A i, j \in S :
              <<i, j>> \in ByKey(S, key) <=> key[i] < key[j] \/ (key[i] = key[j] /\ i < j)
         /\ StrictOrder(ByKey(S, key), S)
<1>1. ASSUME NEW i \in S, NEW j \in S
      PROVE  <<i, j>> \in ByKey(S, key) <=> key[i] < key[j] \/ (key[i] = key[j] /\ i < j)
  <2>1. PICK p : p = <<i, j>>
    OBVIOUS
  <2>2. p \in S \X S /\ p[1] = i /\ p[2] = j
    BY <2>1
  <2>3. p \in ByKey(S, key) <=> key[p[1]] < key[p[2]] \/ (key[p[1]] = key[p[2]] /\ p[1] < p[2])
    BY <2>2 DEF ByKey
  <2> QED
    BY <2>1, <2>2, <2>3
<1>2. PICK R : R = ByKey(S, key)
  OBVIOUS
<1>3. \A i, j \in S : <<i, j>> \in R <=> key[i] < key[j] \/ (key[i] = key[j] /\ i < j)
  BY <1>1, <1>2
<1>4. \A i \in S : key[i] \in Int /\ i \in Int
  OBVIOUS
<1>5. \A i \in S : <<i, i>> \notin R
  BY <1>3, <1>4
<1>6. \A i, j \in S : i # j => <<i, j>> \in R \/ <<j, i>> \in R
  BY <1>3, <1>4
<1>7. \A i, j, k \in S : <<i, j>> \in R /\ <<j, k>> \in R => <<i, k>> \in R
  <2> SUFFICES ASSUME NEW i \in S, NEW j \in S, NEW k \in S, <<i, j>> \in R, <<j, k>> \in R
               PROVE  <<i, k>> \in R
    OBVIOUS
  <2>1. PICK a \in Int, b \in Int, c \in Int : a = key[i] /\ b = key[j] /\ c = key[k]
    BY <1>4
  <2>2. i \in Int /\ j \in Int /\ k \in Int
    BY <1>4
  <2>3. (a < b \/ (a = b /\ i < j)) /\ (b < c \/ (b = c /\ j < k))
    BY <1>3, <2>1
  <2>4. a < c \/ (a = c /\ i < k)
    BY <2>1, <2>2, <2>3
  <2> QED
    BY <1>3, <2>1, <2>4
<1> QED
  BY <1>1, <1>2, <1>5, <1>6, <1>7 DEF StrictOrder

(* The passages of a line are those some segment of it hits.               *)
Struck(line) == {i \in DOMAIN Passages : Hits(line, Passages[i]) # {}}

LEMMA PassagesAre ==
  ASSUME NEW line \in Seq(Point)
  PROVE  /\ \E n \in Nat : DOMAIN PassagesOn(line) = 1 .. n
         /\ \A i \in Struck(line) :
              \E k \in DOMAIN PassagesOn(line) : PassagesOn(line)[k] = Passages[i]
         /\ \A k \in DOMAIN PassagesOn(line) : PassagesOn(line)[k] \in Range(Passages)
<1>1. PICK hits : hits = [i \in DOMAIN Passages |-> Hits(line, Passages[i])]
  OBVIOUS
<1>2. PICK S : S = Struck(line)
  OBVIOUS
<1>0. Passages \in Seq(Range(Passages))
  BY RouteAssumption, Zenon
<1>3. PICK m \in Nat : DOMAIN Passages = 1 .. m
  BY <1>0
<1>4. S \subseteq Int /\ IsFiniteSet(S) /\ S \subseteq DOMAIN Passages
  <2>1. S \subseteq 1 .. m
    BY <1>2, <1>3 DEF Struck
  <2>2. IsFiniteSet(1 .. m)
    BY FS_Interval
  <2>3. IsFiniteSet(S)
    BY <2>1, <2>2, FS_Subset
  <2> QED
    BY <1>3, <2>1, <2>3
<1>5. S = {i \in DOMAIN Passages : hits[i] # {}}
  BY <1>1, <1>2 DEF Struck
<1>6. PICK key : key = [i \in S |-> Min(hits[i])]
  OBVIOUS
<1>7. key \in [S -> Int]
  <2> SUFFICES ASSUME NEW i \in S PROVE Min(hits[i]) \in Int
    BY <1>6
  <2>1. hits[i] # {} /\ hits[i] = Hits(line, Passages[i])
    BY <1>1, <1>5
  <2>2. Hits(line, Passages[i]) \subseteq Nat
    BY DEF Hits, Segments
  <2>3. PICK T : T = hits[i]
    OBVIOUS
  <2>4. PICK t \in T : \A s \in T : t <= s
    BY <2>1, <2>2, <2>3, LeastOfSome
  <2>5. Min(T) \in T
    BY <2>4 DEF Min
  <2> QED
    BY <2>1, <2>2, <2>3, <2>5
<1>8. PICK R : R = ByKey(S, key)
  OBVIOUS
<1>9. /\ \A i, j \in S : <<i, j>> \in R <=> key[i] < key[j] \/ (key[i] = key[j] /\ i < j)
      /\ StrictOrder(R, S)
  BY <1>4, <1>7, <1>8, ByKeyIs
<1>10. PICK order : order = Numbering(S, R)
  OBVIOUS
<1>11. Cardinality(S) \in Nat /\ Numbers(order, S, R, Cardinality(S))
  BY <1>4, <1>9, <1>10, InOrderIs
<1>12. PassagesOn(line) = Along(Passages, order)
  <2> DEFINE Sooner(i, j) == Min(hits[i]) < Min(hits[j]) \/ (Min(hits[i]) = Min(hits[j]) /\ i < j)
  <2>1. PassagesOn(line) = Along(Passages, InOrder(S, Sooner))
    BY <1>1, <1>5 DEF PassagesOn
  <2>2. InOrder(S, Sooner) =
          [k \in 1 .. Cardinality(S) |->
             CHOOSE x \in S : Cardinality({y \in S : Sooner(y, x)}) = k - 1]
    BY DEF InOrder
  <2>3. \A x, y \in S : Sooner(y, x) <=> <<y, x>> \in R
    BY <1>6, <1>9
  <2> HIDE DEF Sooner
  <2>4. \A x \in S : {y \in S : Sooner(y, x)} = {y \in S : <<y, x>> \in R}
    BY <2>3
  <2>5. InOrder(S, Sooner) = order
    BY <1>10, <2>2, <2>4 DEF Numbering, Leading
  <2> QED
    BY <2>1, <2>5
<1>13. PICK n \in Nat : /\ order \in [1 .. n -> S]
                        /\ \A x \in S : \E k \in 1 .. n : order[k] = x
  BY <1>11 DEF Numbers
<1>14. PassagesOn(line) = [k \in 1 .. n |-> Passages[order[k]]]
  BY <1>12, <1>13 DEF Along
<1>15. \A k \in 1 .. n : Passages[order[k]] \in Range(Passages)
  BY <1>4, <1>13 DEF Range
<1>16. \A i \in S : \E k \in 1 .. n : Passages[order[k]] = Passages[i]
  BY <1>13
<1> QED
  BY <1>2, <1>14, <1>15, <1>16

(* A point of the line is among the samples of the segment it ends.        *)
LEMMA SamplesAre ==
  ASSUME NEW a \in Point, NEW b \in Point
  PROVE  Samples(a, b) \in Nat \ {0}
<1>1. PICK s \in Nat : s = Sq(To(a, b))
  BY PlaneIs
<1>2. PICK m : m = Max({1, s})
  OBVIOUS
<1>3. m \in Nat /\ m >= 1 /\ m >= s
  <2>1. CASE s >= 1
    <3>1. Max({1, s}) = s
      BY <2>1, MaxIs
    <3> QED
      BY <1>2, <2>1, <3>1
  <2>2. CASE ~(s >= 1)
    <3>1. Max({1, s}) = 1
      BY <2>2, MaxIs
    <3> QED
      BY <1>2, <2>2, <3>1
  <2> QED
    BY <2>1, <2>2
<1>4. PICK q \in Nat : q = SampleStep /\ q >= 1
  BY RouteAssumption
<1> DEFINE K == {k \in 1 .. m : k * k * q * q >= s}
<1>5. m \in K
  <2>1. m * m >= m
    BY <1>3
  <2>2. \A x \in Nat : x * q >= x
    BY <1>4
  <2>3. m * m \in Nat /\ m * m * q \in Nat
    BY <1>3
  <2>4. m * m * q * q >= m * m * q /\ m * m * q >= m * m /\ m * m * q * q \in Nat
    BY <2>2, <2>3
  <2>5. m * m * q * q >= s
    BY <1>1, <1>3, <2>1, <2>3, <2>4
  <2> QED
    BY <1>3, <2>5
<1>6. K \subseteq Nat
  BY <1>3
<1>7. \A k \in K : k >= 1
  BY <1>3
<1>8. Samples(a, b) = Min(K)
  BY <1>1, <1>2, <1>4 DEF Samples
<1> HIDE DEF K
<1>9. PICK k \in K : \A j \in K : k <= j
  BY <1>5, <1>6, LeastOfSome
<1>10. PICK t \in K : t = Min(K)
  BY <1>9 DEF Min
<1>11. t \in Nat /\ t >= 1
  BY <1>6, <1>7
<1> QED
  BY <1>8, <1>10, <1>11

LEMMA EndsAreSampled ==
  ASSUME NEW area, area.low \in Point, area.high \in Point, NEW a \in Point, NEW b \in Point,
         Covers(area, a, a, 1, 0) \/ Covers(area, b, b, 1, 0)
  PROVE  Enters(area, a, b)
<1>1. PICK k \in Nat \ {0} : k = Samples(a, b)
  BY SamplesAre
<1>2. \A x, y \in Int : x <= y => k * x <= k * y
  OBVIOUS
<1>3. \A axis \in {1, 2} :
        a[axis] \in Int /\ b[axis] \in Int /\ area.low[axis] \in Int /\ area.high[axis] \in Int
  BY DEF Point
<1>4. CASE Covers(area, a, a, 1, 0)
  <2>1. ASSUME NEW axis \in {1, 2}
        PROVE  /\ k * area.low[axis] <= k * a[axis] + 0 * (b[axis] - a[axis])
               /\ k * a[axis] + 0 * (b[axis] - a[axis]) <= k * area.high[axis]
    <3>1. PICK x \in Int, y \in Int, l \in Int, h \in Int :
            x = a[axis] /\ y = b[axis] /\ l = area.low[axis] /\ h = area.high[axis]
      BY <1>3
    <3>2. l <= x /\ x <= h
      <4>1. 1 * l <= 1 * x + 0 * (x - x) /\ 1 * x + 0 * (x - x) <= 1 * h
        BY <1>4, <3>1, Zenon DEF Covers
      <4> QED
        BY <4>1
    <3>3. k * l <= k * x /\ k * x <= k * h
      BY <1>2, <3>2
    <3>4. k * x + 0 * (y - x) = k * x
      OBVIOUS
    <3> QED
      BY <3>1, <3>3, <3>4
  <2>2. Covers(area, a, b, k, 0)
    BY <2>1 DEF Covers
  <2>3. 0 \in 0 .. k
    OBVIOUS
  <2> QED
    BY <1>1, <2>2, <2>3 DEF Enters
<1>5. CASE Covers(area, b, b, 1, 0)
  <2>1. ASSUME NEW axis \in {1, 2}
        PROVE  /\ k * area.low[axis] <= k * a[axis] + k * (b[axis] - a[axis])
               /\ k * a[axis] + k * (b[axis] - a[axis]) <= k * area.high[axis]
    <3>1. PICK x \in Int, y \in Int, l \in Int, h \in Int :
            x = a[axis] /\ y = b[axis] /\ l = area.low[axis] /\ h = area.high[axis]
      BY <1>3
    <3>2. l <= y /\ y <= h
      <4>1. 1 * l <= 1 * y + 0 * (y - y) /\ 1 * y + 0 * (y - y) <= 1 * h
        BY <1>5, <3>1, Zenon DEF Covers
      <4> QED
        BY <4>1
    <3>3. k * l <= k * y /\ k * y <= k * h
      BY <1>2, <3>2
    <3>4. k * x + k * (y - x) = k * y
      OBVIOUS
    <3> QED
      BY <3>1, <3>3, <3>4
  <2>2. Covers(area, a, b, k, k)
    BY <2>1 DEF Covers
  <2>3. k \in 0 .. k
    OBVIOUS
  <2> QED
    BY <1>1, <2>2, <2>3 DEF Enters
<1> QED
  BY <1>4, <1>5

(* The sign of a z score is the side of the window the last count is on:   *)
(* some count of the window is on the other.                               *)
LEMMA SignOfQuotient ==
  ASSUME NEW x \in Int, NEW d \in Nat \ {0}
  PROVE  /\ x \div d \in Int /\ (x \div d < 0 => x < 0) /\ (x \div d > 0 => x > 0)
<1>1. PICK q \in Int : q = x \div d /\ d * q <= x /\ x < d * (q + 1)
  OBVIOUS
<1>2. \A k \in Int : (k <= 0 => d * k <= 0) /\ (k >= 0 => d * k >= 0) /\ d * k \in Int
  OBVIOUS
<1>3. q < 0 => x < 0
  <2>1. q < 0 => q + 1 <= 0
    OBVIOUS
  <2>2. q < 0 => d * (q + 1) <= 0
    BY <1>2, <2>1
  <2> QED
    BY <1>1, <1>2, <2>2
<1>4. q > 0 => x > 0
  <2> SUFFICES ASSUME q > 0 PROVE x > 0
    OBVIOUS
  <2>1. q - 1 >= 0 /\ q - 1 \in Int
    OBVIOUS
  <2>2. d * (q - 1) >= 0
    BY <1>2, <2>1
  <2>3. d * q = d + d * (q - 1)
    OBVIOUS
  <2> QED
    BY <1>1, <1>2, <2>1, <2>2, <2>3
<1> QED
  BY <1>1, <1>3, <1>4

LEMMA RowIs ==
  ASSUME NEW rows \in Seq(Reading), NEW i \in DOMAIN rows
  PROVE  rows[i] \in Reading /\ rows[i].day \in Int /\ rows[i].count \in Int
<1>1. rows[i] \in Reading
  OBVIOUS
<1> QED
  BY <1>1 DEF Reading

LEMMA ZIsOfTheWindow ==
  ASSUME NEW rows \in Seq(Reading), ZOfLast(rows) # Absent
  PROVE  /\ ZOfLast(rows) \in Int /\ Len(rows) \in Nat \ {0}
         /\ ZOfLast(rows) < 0 => \E i \in DOMAIN rows : rows[i].count > rows[Len(rows)].count
         /\ ZOfLast(rows) > 0 => \E i \in DOMAIN rows : rows[i].count < rows[Len(rows)].count
<1>1. PICK n \in Nat : n = Len(rows) /\ DOMAIN rows = 1 .. n
  OBVIOUS
<1>2. PICK w \in Nat \ {0} : w = Window
  BY RouteAssumption
<1>3. PICK past : past = [i \in n - w .. n - 1 |-> rows[i].count]
  OBVIOUS
<1>4. PICK base : base = {past[i] : i \in DOMAIN past}
  OBVIOUS
<1>5. PICK total : total = SumOver(past, DOMAIN past)
  OBVIOUS
<1>6. PICK last : last = rows[n].count
  OBVIOUS
<1>7. ZOfLast(rows) =
        IF n < w + 1 THEN Absent
        ELSE IF Cardinality(base) = 1 THEN Absent
        ELSE (100 * (w * last - total)) \div (w * (Max(base) - Min(base)))
  BY <1>1, <1>2, <1>3, <1>4, <1>5, <1>6 DEF ZOfLast, SumOver
<1>8. n >= w + 1 /\ Cardinality(base) # 1
  BY <1>1, <1>2, <1>7
<1>9. \A i \in 1 .. n : rows[i].count \in Int
  BY <1>1, RowIs
<1>10. last \in Int
  BY <1>6, <1>8, <1>9
<1>11. n - w .. n - 1 \subseteq 1 .. n
  BY <1>8
<1>12. \A i \in DOMAIN past : past[i] \in Int /\ past[i] = rows[i].count /\ i \in DOMAIN rows
  BY <1>1, <1>3, <1>9, <1>11
<1>13. DOMAIN past = n - w .. n - 1
  BY <1>3
<1>14. IsFiniteSet(DOMAIN past) /\ Cardinality(DOMAIN past) = w
  <2>1. PICK lo \in Int, hi \in Int : lo = n - w /\ hi = n - 1
    OBVIOUS
  <2>2. IsFiniteSet(lo .. hi) /\ Cardinality(lo .. hi) = IF lo > hi THEN 0 ELSE hi - lo + 1
    BY FS_Interval
  <2> QED
    BY <1>13, <2>1, <2>2
<1>15. PICK lowest \in Int, highest \in Int :
         lowest = Min(base) /\ highest = Max(base) /\ highest > lowest
  <2>1. IsFiniteSet(base) /\ base \subseteq Int
    <3>1. Range(past) = base
      BY <1>4 DEF Range
    <3> QED
      BY <1>4, <1>12, <1>14, <3>1, ImageIsFinite
  <2>2. n - 1 \in DOMAIN past
    BY <1>8, <1>13
  <2>3. base # {}
    BY <1>4, <2>2
  <2>4. PICK high \in base : \A x \in base : high >= x
    BY <2>1, <2>3, FiniteHasMax
  <2>5. Max(base) \in base /\ \A x \in base : Max(base) >= x
    BY <2>4 DEF Max
  <2>6. PICK low \in base : \A x \in base : low <= x
    <3> DEFINE minus == {-x : x \in base}
    <3>1. minus \subseteq Int /\ minus # {}
      BY <2>1, <2>3
    <3>2. IsFiniteSet(minus)
      <4> DEFINE f == [x \in base |-> -x]
      <4>1. DOMAIN f = base /\ Range(f) = minus
        BY DEF Range
      <4> HIDE DEF f
      <4> QED
        BY <2>1, <4>1, ImageIsFinite
    <3>3. PICK m \in minus : \A x \in minus : m >= x
      <4> HIDE DEF minus
      <4> QED
        BY <3>1, <3>2, FiniteHasMax
    <3>4. PICK low \in base : m = -low
      OBVIOUS
    <3>5. ASSUME NEW x \in base PROVE low <= x
      <4>1. -x \in minus /\ x \in Int /\ low \in Int
        BY <2>1
      <4>2. -low >= -x
        BY <3>3, <3>4, <4>1
      <4> QED
        BY <4>1, <4>2
    <3> QED
      BY <3>4, <3>5
  <2>7. Min(base) \in base /\ \A x \in base : Min(base) <= x
    BY <2>6 DEF Min
  <2>8. PICK lo \in Int, hi \in Int : lo = Min(base) /\ hi = Max(base)
    BY <2>1, <2>5, <2>7
  <2>9. lo # hi
    <3> SUFFICES ASSUME lo = hi PROVE FALSE
      OBVIOUS
    <3>1. \A x \in base : x = lo
      <4>1. \A x \in base : x \in Int /\ lo <= x /\ hi >= x
        BY <2>1, <2>5, <2>7, <2>8
      <4> QED
        BY <4>1
    <3>2. base = {lo}
      BY <2>3, <3>1
    <3>3. Cardinality({lo}) = 1
      BY FS_Singleton
    <3> QED
      BY <1>8, <3>2, <3>3
  <2>10. hi >= lo
    BY <2>5, <2>7, <2>8
  <2> QED
    BY <2>8, <2>9, <2>10
<1>16. PICK d \in Nat \ {0} : d = w * (highest - lowest)
  <2>1. \A x, y \in Nat \ {0} : x * y \in Nat \ {0}
    OBVIOUS
  <2>2. highest - lowest \in Nat \ {0}
    BY <1>15
  <2> QED
    BY <2>1, <2>2
<1>17. /\ total \in Int
       /\ (\A i \in DOMAIN past : past[i] <= last) => total <= last * w
       /\ (\A i \in DOMAIN past : past[i] >= last) => total >= last * w
  BY <1>5, <1>10, <1>12, <1>14, SumIsBounded
<1>18. PICK x \in Int : x = 100 * (w * last - total)
  BY <1>10, <1>17
<1>19. ZOfLast(rows) = x \div d
  BY <1>2, <1>7, <1>8, <1>15, <1>16, <1>18
<1>20. PICK m \in Int : m = w * last /\ m = last * w
  BY <1>10
<1>21. (x < 0 => m < total) /\ (x > 0 => m > total)
  BY <1>17, <1>18, <1>20
<1>22. x \div d \in Int /\ (x \div d < 0 => x < 0) /\ (x \div d > 0 => x > 0)
  BY SignOfQuotient
<1>23. m < total => \E i \in DOMAIN past : past[i] > last
  BY <1>10, <1>12, <1>17, <1>20
<1>24. m > total => \E i \in DOMAIN past : past[i] < last
  BY <1>10, <1>12, <1>17, <1>20
<1>25. n \in Nat \ {0}
  BY <1>8
<1>26. x < 0 => \E i \in DOMAIN rows : rows[i].count > last
  BY <1>12, <1>21, <1>23
<1>27. x > 0 => \E i \in DOMAIN rows : rows[i].count < last
  BY <1>12, <1>21, <1>24
<1> QED
  BY <1>1, <1>6, <1>19, <1>22, <1>25, <1>26, <1>27

(* The rows of the days up to one, by day whatever the order of the file.  *)
LEMMA UpToIs ==
  ASSUME NEW rows \in Seq(Reading), NEW day \in Int
  PROVE  \E n \in Nat : \E order \in [1 .. n -> DaysUpTo(rows, day)] :
           /\ UpTo(rows, day) = [k \in 1 .. n |-> rows[order[k]]]
           /\ \A x \in DaysUpTo(rows, day) : \E k \in 1 .. n : order[k] = x
           /\ \A k, l \in 1 .. n : k < l => rows[order[k]].day <= rows[order[l]].day
<1>1. PICK S : S = DaysUpTo(rows, day)
  OBVIOUS
<1>2. PICK m \in Nat : DOMAIN rows = 1 .. m
  OBVIOUS
<1>3. S \subseteq Int /\ IsFiniteSet(S) /\ S \subseteq DOMAIN rows
  <2>1. S \subseteq 1 .. m
    BY <1>1, <1>2 DEF DaysUpTo
  <2>2. IsFiniteSet(1 .. m)
    BY FS_Interval
  <2>3. IsFiniteSet(S)
    BY <2>1, <2>2, FS_Subset
  <2> QED
    BY <1>2, <2>1, <2>3
<1>4. PICK key : key = [i \in S |-> rows[i].day]
  OBVIOUS
<1>5. key \in [S -> Int]
  <2>1. \A i \in S : rows[i].day \in Int
    BY <1>3, RowIs
  <2> QED
    BY <1>4, <2>1
<1>6. PICK R : R = ByKey(S, key)
  OBVIOUS
<1>7. /\ \A i, j \in S : <<i, j>> \in R <=> key[i] < key[j] \/ (key[i] = key[j] /\ i < j)
      /\ StrictOrder(R, S)
  BY <1>3, <1>5, <1>6, ByKeyIs
<1>8. PICK order : order = Numbering(S, R)
  OBVIOUS
<1>9. Cardinality(S) \in Nat /\ Numbers(order, S, R, Cardinality(S))
  BY <1>3, <1>7, <1>8, InOrderIs
<1>10. UpTo(rows, day) = Along(rows, order)
  <2> DEFINE Earlier(i, j) == rows[i].day < rows[j].day \/ (rows[i].day = rows[j].day /\ i < j)
  <2>1. UpTo(rows, day) = Along(rows, InOrder(S, Earlier))
    BY <1>1 DEF UpTo
  <2>2. InOrder(S, Earlier) =
          [k \in 1 .. Cardinality(S) |->
             CHOOSE x \in S : Cardinality({y \in S : Earlier(y, x)}) = k - 1]
    BY DEF InOrder
  <2>3. \A x, y \in S : Earlier(y, x) <=> <<y, x>> \in R
    BY <1>4, <1>7
  <2> HIDE DEF Earlier
  <2>4. \A x \in S : {y \in S : Earlier(y, x)} = {y \in S : <<y, x>> \in R}
    BY <2>3
  <2>5. InOrder(S, Earlier) = order
    BY <1>8, <2>2, <2>4 DEF Numbering, Leading
  <2> QED
    BY <2>1, <2>5
<1>11. PICK n \in Nat : /\ order \in [1 .. n -> S]
                        /\ \A x \in S : \E k \in 1 .. n : order[k] = x
                        /\ \A k, l \in 1 .. n : <<order[k], order[l]>> \in R <=> k < l
  BY <1>9 DEF Numbers
<1>12. UpTo(rows, day) = [k \in 1 .. n |-> rows[order[k]]]
  BY <1>10, <1>11 DEF Along
<1>13. \A k, l \in 1 .. n : k < l => rows[order[k]].day <= rows[order[l]].day
  <2> SUFFICES ASSUME NEW k \in 1 .. n, NEW l \in 1 .. n, k < l
               PROVE  rows[order[k]].day <= rows[order[l]].day
    OBVIOUS
  <2>1. PICK i \in S, j \in S : i = order[k] /\ j = order[l]
    BY <1>11
  <2>2. <<i, j>> \in R
    BY <1>11, <2>1
  <2>3. key[i] <= key[j]
    BY <1>5, <1>7, <2>2
  <2> QED
    BY <1>4, <2>1, <2>3
<1> QED
  BY <1>1, <1>11, <1>12, <1>13

(* A figure read from the rows up to a day is that of the latest of them.  *)
FigureIsOf(z, rows, known) ==
  \E j \in known : /\ \A k \in known : rows[k].day <= rows[j].day
                   /\ z < 0 => \E k \in known : rows[k].count > rows[j].count
                   /\ z > 0 => \E k \in known : rows[k].count < rows[j].count

LEMMA FigureIs ==
  ASSUME NEW rows \in Seq(Reading), NEW day \in Int, NEW z, z = ZOfLast(UpTo(rows, day)), z # Absent
  PROVE  z \in Int /\ FigureIsOf(z, rows, DaysUpTo(rows, day))
<1>1. PICK known : known = DaysUpTo(rows, day)
  OBVIOUS
<1>0. PICK n \in Nat :
        \E order \in [1 .. n -> known] :
          /\ UpTo(rows, day) = [k \in 1 .. n |-> rows[order[k]]]
          /\ \A x \in known : \E k \in 1 .. n : order[k] = x
          /\ \A k, l \in 1 .. n : k < l => rows[order[k]].day <= rows[order[l]].day
  BY <1>1, UpToIs
<1>2. PICK order \in [1 .. n -> known] :
        /\ UpTo(rows, day) = [k \in 1 .. n |-> rows[order[k]]]
        /\ \A x \in known : \E k \in 1 .. n : order[k] = x
        /\ \A k, l \in 1 .. n : k < l => rows[order[k]].day <= rows[order[l]].day
  BY <1>0
<1>3. PICK s : s = UpTo(rows, day)
  OBVIOUS
<1>4. known \subseteq DOMAIN rows
  BY <1>1 DEF DaysUpTo
<1>5. \A k \in 1 .. n : rows[order[k]] \in Reading
  BY <1>2, <1>4
<1>6. /\ s \in Seq(Reading) /\ Len(s) = n /\ DOMAIN s = 1 .. n
      /\ \A k \in 1 .. n : s[k] = rows[order[k]]
  BY <1>2, <1>3, <1>5
<1>7. /\ z \in Int /\ n \in Nat \ {0}
      /\ z < 0 => \E i \in 1 .. n : s[i].count > s[n].count
      /\ z > 0 => \E i \in 1 .. n : s[i].count < s[n].count
  BY <1>3, <1>6, ZIsOfTheWindow
<1>8. PICK j \in known : j = order[n]
  BY <1>2, <1>7
<1>9. ASSUME NEW k \in known PROVE rows[k].day <= rows[j].day
  <2>1. PICK i \in 1 .. n : order[i] = k
    BY <1>2
  <2>2. CASE i < n
    BY <1>2, <1>7, <1>8, <2>1, <2>2
  <2>3. CASE ~(i < n)
    <3>1. i = n
      BY <2>3
    <3>2. rows[j].day \in Int
      BY <1>4, <1>8, RowIs
    <3> QED
      BY <1>8, <2>1, <3>1, <3>2
  <2> QED
    BY <2>2, <2>3
<1>10. s[n] = rows[j]
  BY <1>6, <1>7, <1>8
<1>11. z < 0 => \E k \in known : rows[k].count > rows[j].count
  <2> SUFFICES ASSUME z < 0 PROVE \E k \in known : rows[k].count > rows[j].count
    OBVIOUS
  <2>1. PICK i \in 1 .. n : s[i].count > s[n].count
    BY <1>7
  <2>2. order[i] \in known /\ s[i] = rows[order[i]]
    BY <1>2, <1>6
  <2> QED
    BY <1>10, <2>1, <2>2
<1>12. z > 0 => \E k \in known : rows[k].count < rows[j].count
  <2> SUFFICES ASSUME z > 0 PROVE \E k \in known : rows[k].count < rows[j].count
    OBVIOUS
  <2>1. PICK i \in 1 .. n : s[i].count < s[n].count
    BY <1>7
  <2>2. order[i] \in known /\ s[i] = rows[order[i]]
    BY <1>2, <1>6
  <2> QED
    BY <1>10, <2>1, <2>2
<1> QED
  BY <1>1, <1>7, <1>9, <1>11, <1>12 DEF FigureIsOf

(* Which alerts there are.                                                 *)
LEMMA AlertsAre ==
  ASSUME NEW day
  PROVE  /\ \A alert \in RateAlert(day) : alert.of = "rate"
         /\ \A port : \A alert \in CongestionAlert(port, day) : alert.of = "port"
         /\ \A ports, opens, closes : \A alert \in CycloneAlert(ports, opens, closes) :
              alert.of = "season"
<1>1. \A alert \in RateAlert(day) : alert.of = "rate"
  BY DEF RateAlert, Alert
<1>2. ASSUME NEW port, NEW alert \in CongestionAlert(port, day) PROVE alert.of = "port"
  BY DEF CongestionAlert, Alert
<1>3. ASSUME NEW ports, NEW opens, NEW closes, NEW alert \in CycloneAlert(ports, opens, closes)
      PROVE  alert.of = "season"
  BY DEF CycloneAlert
<1> QED
  BY <1>1, <1>2, <1>3

(* The alert of a passage rests on the figure of its fracture.             *)
LEMMA DisruptionIs ==
  ASSUME NEW id, NEW day, files.transits[id] # Garbled,
         NEW z, z = TransitZ(id, day)
  PROVE  DisruptionAlert(id, day) =
           IF z = Absent THEN {} ELSE IF z > -AlertZ THEN {} ELSE {Alert("passage", id, z)}
<1>1. z = IF files.transits[id] = Absent THEN Absent ELSE ZOfLast(UpTo(files.transits[id], day))
  BY DEF TransitZ
<1> QED
  BY <1>1 DEF DisruptionAlert

(* What the two readers owe each other on one passage.                     *)
RaisedOn(alerts, id) == {alert \in alerts : alert.of = "passage" /\ alert.id = id}

Agrees(z, rows, raised, day) ==
  /\ \A alert \in raised : alert.z = z
  /\ z # Absent => (z <= -AlertZ) = (raised # {})
  /\ z # Absent => FigureIsOf(z, rows, DaysUpTo(rows, day))

ReadersAgreeIn(found, transits, day) ==
  found.alerts # Garbled =>
    \A i \in DOMAIN found.passages :
      Agrees(found.passages[i].transit, transits[found.passages[i].id],
             RaisedOn(found.alerts, found.passages[i].id), day)

LEMMA RaisedAre ==
  ASSUME NEW request, NEW ids, NEW id \in ids, NEW alerts,
         alerts = Assess(ids, request), alerts # Garbled,
         NEW z, z = TransitZ(id, request.day), z = Absent \/ z \in Int
  PROVE  /\ \A alert \in RaisedOn(alerts, id) : alert.z = z
         /\ z # Absent => (z <= -AlertZ) = (RaisedOn(alerts, id) # {})
<1>1. \A one \in ids : files.transits[one] # Garbled
  BY DEF Assess
<1>2. PICK ports : ports = {request.from, request.to}
  OBVIOUS
<1>3. alerts = RateAlert(request.day)
               \cup (UNION {CongestionAlert(port, request.day) : port \in ports})
               \cup (UNION {DisruptionAlert(one, request.day) : one \in ids})
               \cup CycloneAlert(ports, request.opens, request.closes)
  BY <1>1, <1>2 DEF Assess
<1>a. PICK calls : calls = UNION {CongestionAlert(port, request.day) : port \in ports}
  OBVIOUS
<1>b. PICK falls : falls = UNION {DisruptionAlert(one, request.day) : one \in ids}
  OBVIOUS
<1>c. alerts = RateAlert(request.day) \cup calls \cup falls
               \cup CycloneAlert(ports, request.opens, request.closes)
  BY <1>3, <1>a, <1>b
<1>d. \A alert \in calls : \E port \in ports : alert \in CongestionAlert(port, request.day)
  BY <1>a
<1>e. \A alert : alert \in falls <=> \E one \in ids : alert \in DisruptionAlert(one, request.day)
  BY <1>b
<1>4. DisruptionAlert(id, request.day) =
        IF z = Absent THEN {} ELSE IF z > -AlertZ THEN {} ELSE {Alert("passage", id, z)}
  BY <1>1, DisruptionIs
<1>5. ASSUME NEW one \in ids, NEW alert \in DisruptionAlert(one, request.day)
      PROVE  alert.of = "passage" /\ alert.id = one
  <2>1. PICK y : y = TransitZ(one, request.day)
    OBVIOUS
  <2>2. DisruptionAlert(one, request.day) =
          IF y = Absent THEN {} ELSE IF y > -AlertZ THEN {} ELSE {Alert("passage", one, y)}
    BY <1>1, <2>1, DisruptionIs
  <2>3. alert = Alert("passage", one, y)
    BY <2>2
  <2> QED
    BY <2>3 DEF Alert
<1>6. RaisedOn(alerts, id) = DisruptionAlert(id, request.day)
  <2>1. ASSUME NEW alert \in RaisedOn(alerts, id) PROVE alert \in DisruptionAlert(id, request.day)
    <3>1. alert \in alerts /\ alert.of = "passage" /\ alert.id = id
      BY DEF RaisedOn
    <3>2. alert \notin RateAlert(request.day)
      BY <3>1, AlertsAre
    <3>3. alert \notin CycloneAlert(ports, request.opens, request.closes)
      BY <3>1, AlertsAre
    <3>4. \A port \in ports : alert \notin CongestionAlert(port, request.day)
      BY <3>1, AlertsAre
    <3>5. PICK one \in ids : alert \in DisruptionAlert(one, request.day)
      BY <1>c, <1>d, <1>e, <3>1, <3>2, <3>3, <3>4
    <3> QED
      BY <1>5, <3>1, <3>5
  <2>2. ASSUME NEW alert \in DisruptionAlert(id, request.day) PROVE alert \in RaisedOn(alerts, id)
    <3>1. alert \in alerts
      BY <1>c, <1>e
    <3> QED
      BY <1>5, <3>1 DEF RaisedOn
  <2> QED
    BY <2>1, <2>2
<1>7. Alert("passage", id, z).z = z
  BY DEF Alert
<1>8. AlertZ = 175
  BY DEF AlertZ
<1>9. CASE z = Absent
  BY <1>4, <1>6, <1>9
<1>10. CASE z # Absent /\ z > -AlertZ
  BY <1>4, <1>6, <1>8, <1>10
<1>11. CASE z # Absent /\ ~(z > -AlertZ)
  <2>1. RaisedOn(alerts, id) = {Alert("passage", id, z)}
    BY <1>4, <1>6, <1>11
  <2>2. z <= -AlertZ
    BY <1>8, <1>11
  <2> QED
    BY <1>7, <2>1, <2>2
<1> QED
  BY <1>9, <1>10, <1>11

FindingSays(found, request, passages, areas) ==
  /\ DOMAIN found.passages = DOMAIN passages
  /\ found.areas = {area.id : area \in areas}
  /\ found.alerts = Assess({passages[i].id : i \in DOMAIN passages}, request)
  /\ \A i \in DOMAIN passages :
       /\ found.passages[i].id = passages[i].id
       /\ found.passages[i].transit = TransitZ(passages[i].id, request.day)

LEMMA FindingTells ==
  ASSUME NEW request, NEW passages, NEW areas
  PROVE  FindingSays(FindingOf(request, passages, areas), request, passages, areas)
<1>0. PICK found : found = FindingOf(request, passages, areas)
  OBVIOUS
<1>1. /\ found.passages = [i \in DOMAIN passages |-> Fracture(passages[i], request.day)]
      /\ found.areas = {area.id : area \in areas}
      /\ found.alerts = Assess({passages[i].id : i \in DOMAIN passages}, request)
  BY <1>0 DEF FindingOf
<1>2. \A p : /\ Fracture(p, request.day).id = p.id
             /\ Fracture(p, request.day).transit = TransitZ(p.id, request.day)
  BY DEF Fracture
<1>3. FindingSays(found, request, passages, areas)
  BY <1>1, <1>2 DEF FindingSays
<1> QED
  BY <1>0, <1>3

LEMMA ReadersAgree ==
  ASSUME files \in FileSets, NEW request \in Inquiries, NEW areas,
         NEW passages, \A i \in DOMAIN passages : passages[i] \in Range(Passages),
         NEW found, found = FindingOf(request, passages, areas)
  PROVE  ReadersAgreeIn(found, files.transits, request.day)
<1> SUFFICES ASSUME found.alerts # Garbled, NEW i \in DOMAIN found.passages
             PROVE  Agrees(found.passages[i].transit, files.transits[found.passages[i].id],
                           RaisedOn(found.alerts, found.passages[i].id), request.day)
  BY DEF ReadersAgreeIn
<1>0. FindingSays(found, request, passages, areas)
  BY FindingTells
<1>1. PICK passage \in Range(Passages) : passage = passages[i] /\ i \in DOMAIN passages
  BY <1>0 DEF FindingSays
<1>2. PICK id : id = passage.id
  OBVIOUS
<1>3. PICK z : z = TransitZ(id, request.day)
  OBVIOUS
<1>4. PICK ids : ids = {passages[j].id : j \in DOMAIN passages}
  OBVIOUS
<1>5. found.passages[i].id = id /\ found.passages[i].transit = z
  BY <1>0, <1>1, <1>2, <1>3 DEF FindingSays
<1>6. id \in ids
  BY <1>1, <1>2, <1>4
<1>7. PICK alerts : alerts = found.alerts
  OBVIOUS
<1>8. alerts = Assess(ids, request) /\ alerts # Garbled
  BY <1>0, <1>4, <1>7 DEF FindingSays
<1>9. PICK rows : rows = files.transits[id]
  OBVIOUS
<1>10. rows \in Seq(Reading) \cup {Absent, Garbled}
  BY <1>1, <1>2, <1>9, RouteAssumption
<1>11. request.day \in Int
  BY RouteAssumption
<1>12. z # Absent => z \in Int /\ FigureIsOf(z, rows, DaysUpTo(rows, request.day))
  <2> SUFFICES ASSUME z # Absent
               PROVE  z \in Int /\ FigureIsOf(z, rows, DaysUpTo(rows, request.day))
    OBVIOUS
  <2>1. rows \notin {Absent, Garbled} /\ z = ZOfLast(UpTo(rows, request.day))
    BY <1>3, <1>9 DEF TransitZ
  <2>2. rows \in Seq(Reading)
    BY <1>10, <2>1
  <2> QED
    BY <1>11, <2>1, <2>2, FigureIs
<1>13. /\ \A alert \in RaisedOn(alerts, id) : alert.z = z
       /\ z # Absent => (z <= -AlertZ) = (RaisedOn(alerts, id) # {})
  BY <1>3, <1>6, <1>8, <1>12, RaisedAre
<1> QED
  BY <1>5, <1>7, <1>9, <1>12, <1>13 DEF Agrees

(* Nothing a line meets is missing from what is told of it.                *)
NamesAll(found, line) ==
  /\ \A passage \in MetUnderWay(line) :
       \E i \in DOMAIN found.passages : found.passages[i].id = passage.id
  /\ \A area \in Range(Areas) :
       (\E i \in DOMAIN line : Covers(area, line[i], line[i], 1, 0)) => area.id \in found.areas

LEMMA AllIsNamed ==
  ASSUME NEW line \in Seq(Point), Len(line) >= 2, NEW request,
         NEW found, found = FindingOf(request, PassagesOn(line), AreasOn(line))
  PROVE  NamesAll(found, line)
<1>1. PICK passages : passages = PassagesOn(line)
  OBVIOUS
<1>2. PICK areas : areas = AreasOn(line)
  OBVIOUS
<1>3. FindingSays(found, request, passages, areas)
  BY <1>1, <1>2, FindingTells
<1>4. ASSUME NEW passage \in MetUnderWay(line)
      PROVE  \E i \in DOMAIN found.passages : found.passages[i].id = passage.id
  <2>1. Hits(line, passage) # {}
    BY MetIsHit
  <2>2. PICK i \in DOMAIN Passages : passage = Passages[i]
    BY DEF MetUnderWay, Range
  <2>3. i \in Struck(line)
    BY <2>1, <2>2 DEF Struck
  <2>4. PICK k \in DOMAIN passages : passages[k] = passage
    BY <1>1, <2>2, <2>3, PassagesAre
  <2> QED
    BY <1>3, <2>4 DEF FindingSays
<1>5. ASSUME NEW area \in Range(Areas), NEW i \in DOMAIN line, Covers(area, line[i], line[i], 1, 0)
      PROVE  area.id \in found.areas
  <2>1. area.low \in Point /\ area.high \in Point
    BY RouteAssumption
  <2>2. PICK n \in Nat : n = Len(line) /\ DOMAIN line = 1 .. n /\ n >= 2
    OBVIOUS
  <2>3. PICK j \in 1 .. n - 1 : i = j \/ i = j + 1
    <3>1. CASE i = n
      <4>1. n - 1 \in 1 .. n - 1 /\ n = n - 1 + 1
        BY <2>2
      <4> QED
        BY <3>1, <4>1
    <3>2. CASE i # n
      <4>1. i \in 1 .. n - 1
        BY <2>2, <3>2
      <4> QED
        BY <4>1
    <3> QED
      BY <3>1, <3>2
  <2>4. j \in 1 .. n /\ j + 1 \in 1 .. n
    BY <2>2
  <2>5. PICK a \in Point, b \in Point : a = line[j] /\ b = line[j + 1]
    BY <2>2, <2>4
  <2>6. Covers(area, a, a, 1, 0) \/ Covers(area, b, b, 1, 0)
    BY <1>5, <2>3, <2>5
  <2>7. Enters(area, a, b)
    BY <2>1, <2>6, EndsAreSampled
  <2>8. j \in Segments(line)
    BY <2>2 DEF Segments
  <2>9. area \in areas
    BY <1>2, <2>5, <2>7, <2>8 DEF AreasOn
  <2> QED
    BY <1>3, <2>9 DEF FindingSays
<1> QED
  BY <1>4, <1>5 DEF NamesAll

(* A pair of ports has one leg, which runs from the one to the other; the  *)
(* answer to a request is right while the request is in hand.              *)
RouteInv ==
  /\ files \in FileSets
  /\ \A leg \in legs : leg.from \in RoutePorts /\ leg.to \in RoutePorts /\ RunsTo(leg)
  /\ \A leg, other \in legs : leg.from = other.from /\ leg.to = other.to => leg = other
  /\ inquiry # NoInquiry => inquiry \in Inquiries
  /\ inquiry = NoInquiry => finding = NoFinding
  /\ RouteIsReadWhole

LEMMA WholeWithoutFinding ==
  /\ finding = NoFinding => RouteIsReadWhole
  /\ finding' = NoFinding => RouteIsReadWhole'
BY DEF RouteIsReadWhole, NothingOnTheWayIsMissed, TwoReadersAgree

LEMMA RouteInvStep == RouteInv /\ [RouteNext]_routeVars => RouteInv'
<1> SUFFICES ASSUME RouteInv, [RouteNext]_routeVars PROVE RouteInv'
  OBVIOUS
<1> USE DEF RouteInv
<1>1. CASE \E request \in Inquiries : Inquire(request)
  <2>1. finding' = NoFinding /\ legs' = legs /\ files' = files /\ inquiry' \in Inquiries
    BY <1>1 DEF Inquire
  <2>2. RouteIsReadWhole'
    BY <2>1, WholeWithoutFinding
  <2> QED
    BY <2>1, <2>2
<1>2. CASE FetchLeg
  <2>1. PICK raw \in Lines[inquiry.from][inquiry.to] \cup {<<>>} :
          legs' = legs \cup {LegOf(inquiry.from, inquiry.to, raw)}
    BY <1>2 DEF FetchLeg
  <2>2. inquiry \in Inquiries /\ finding' = NoFinding /\ files' = files /\ inquiry' = inquiry
    BY <1>2 DEF FetchLeg
  <2>3. PICK from \in RoutePorts, to \in RoutePorts : from = inquiry.from /\ to = inquiry.to
    BY <2>2, RouteAssumption
  <2>4. PICK new : new = LegOf(from, to, raw)
    OBVIOUS
  <2>5. new.from = from /\ new.to = to /\ RunsTo(new)
    BY <2>1, <2>3, <2>4, LegIs
  <2>6. legs' = legs \cup {new}
    BY <2>1, <2>3, <2>4
  <2>7. \A leg \in legs : ~(leg.from = from /\ leg.to = to)
    BY <1>2, <2>3 DEF FetchLeg, Fetched
  <2>8. \A leg \in legs' : leg.from \in RoutePorts /\ leg.to \in RoutePorts /\ RunsTo(leg)
    BY <2>5, <2>6
  <2>9. \A leg, other \in legs' : leg.from = other.from /\ leg.to = other.to => leg = other
    BY <2>5, <2>6, <2>7
  <2>10. RouteIsReadWhole'
    BY <2>2, WholeWithoutFinding
  <2> QED
    BY <2>2, <2>8, <2>9, <2>10
<1>3. CASE AnswerInquiry
  <2>1. UNCHANGED <<legs, files, inquiry>> /\ inquiry # NoInquiry /\ inquiry \in Inquiries
    BY <1>3 DEF AnswerInquiry
  <2>2. PICK leg \in Fetched(inquiry.from, inquiry.to) :
          finding' = FindingOf(inquiry, PassagesOn(leg.line), AreasOn(leg.line))
    BY <1>3 DEF AnswerInquiry
  <2>3. leg \in legs /\ leg.from = inquiry.from /\ leg.to = inquiry.to
    BY DEF Fetched
  <2>4. PICK line \in Seq(Point) :
          /\ line = leg.line /\ Len(line) >= 2
          /\ line[1] = Place[inquiry.from] /\ line[Len(line)] = Place[inquiry.to]
    BY <2>3 DEF RunsTo
  <2>5. TheLeg' = leg
    <3>1. \A other \in Fetched(inquiry.from, inquiry.to) : other = leg
      BY <2>3 DEF Fetched
    <3>2. TheLeg \in Fetched(inquiry.from, inquiry.to)
      BY <2>2 DEF TheLeg
    <3>3. TheLeg' = TheLeg
      BY <2>1 DEF TheLeg, Fetched
    <3> QED
      BY <3>1, <3>2, <3>3
  <2>6. PICK found : found = FindingOf(inquiry, PassagesOn(line), AreasOn(line)) /\ found = finding'
    BY <2>2, <2>4
  <2>7. NamesAll(found, line)
    BY <2>4, <2>6, AllIsNamed
  <2>8. NothingOnTheWayIsMissed'
    BY <2>1, <2>4, <2>5, <2>6, <2>7 DEF NothingOnTheWayIsMissed, NamesAll
  <2>9. ReadersAgreeIn(found, files.transits, inquiry.day)
    <3>1. \A i \in DOMAIN PassagesOn(line) : PassagesOn(line)[i] \in Range(Passages)
      BY PassagesAre
    <3> QED
      BY <2>1, <2>6, <3>1, ReadersAgree
  <2>10. TwoReadersAgree'
    <3>1. ReadersAgreeIn(finding', files'.transits, inquiry'.day)
      BY <2>1, <2>6, <2>9
    <3>2. TwoReadersAgree' <=>
            (finding' # NoFinding => ReadersAgreeIn(finding', files'.transits, inquiry'.day))
      BY DEF TwoReadersAgree, ReadersAgreeIn, Agrees, RaisedOn, FigureIsOf
    <3> QED
      BY <3>1, <3>2
  <2> QED
    BY <2>1, <2>8, <2>10 DEF RouteIsReadWhole
<1>4. CASE ConcludeInquiry
  <2>1. finding' = NoFinding /\ inquiry' = NoInquiry /\ legs' = legs /\ files' = files
    BY <1>4 DEF ConcludeInquiry
  <2>2. RouteIsReadWhole'
    BY <2>1, WholeWithoutFinding
  <2> QED
    BY <2>1, <2>2
<1>5. CASE Republish
  <2>1. /\ finding' = NoFinding /\ inquiry' = NoInquiry /\ legs' = legs /\ files' \in FileSets
    BY <1>5 DEF Republish
  <2>2. RouteIsReadWhole'
    BY <2>1, WholeWithoutFinding
  <2> QED
    BY <2>1, <2>2
<1>6. CASE UNCHANGED routeVars
  <2>1. legs' = legs /\ files' = files /\ inquiry' = inquiry /\ finding' = finding
    BY <1>6 DEF routeVars
  <2>2. TheLeg' = TheLeg
    BY <2>1 DEF TheLeg, Fetched
  <2>3. NothingOnTheWayIsMissed'
    BY <2>1, <2>2 DEF RouteIsReadWhole, NothingOnTheWayIsMissed
  <2>4. TwoReadersAgree'
    <3>1. TwoReadersAgree <=>
            (finding # NoFinding => ReadersAgreeIn(finding, files.transits, inquiry.day))
      BY DEF TwoReadersAgree, ReadersAgreeIn, Agrees, RaisedOn, FigureIsOf
    <3>2. TwoReadersAgree' <=>
            (finding' # NoFinding => ReadersAgreeIn(finding', files'.transits, inquiry'.day))
      BY DEF TwoReadersAgree, ReadersAgreeIn, Agrees, RaisedOn, FigureIsOf
    <3>3. ReadersAgreeIn(finding', files'.transits, inquiry'.day)
            = ReadersAgreeIn(finding, files.transits, inquiry.day)
      BY <2>1
    <3> QED
      BY <2>1, <3>1, <3>2, <3>3 DEF RouteIsReadWhole
  <2> QED
    BY <2>1, <2>3, <2>4 DEF RouteIsReadWhole
<1> QED
  BY <1>1, <1>2, <1>3, <1>4, <1>5, <1>6 DEF RouteNext

(* The answer on a route is whole: whatever lines the router returns and   *)
(* whatever files the harvesters leave, no passage or area the line drawn  *)
(* meets under way is missing, and the alert of a passage rests on the     *)
(* figure its fracture rests on, which is that of the days up to the day   *)
(* asked about (chokepoints.py, war_risk.py, fracture.py, risk.py).        *)
THEOREM RoutesAreReadWhole == RouteSpec => []RouteIsReadWhole
<1>1. RouteInit => RouteInv
  BY WholeWithoutFinding DEF RouteInit, RouteInv
<1>2. RouteInv => RouteIsReadWhole
  BY DEF RouteInv
<1> QED
  BY <1>1, <1>2, RouteInvStep, PTL DEF RouteSpec

(***************************************************************************)
(* Quotes (QuoteDesk): each says what its lot, its market and its decision   *)
(* say.                                                                      *)
(***************************************************************************)

(* A fan in order.                                                         *)
ReadFan == [days : {7, 30, 90}, p10 : Int, p50 : Int, p90 : Int]
InQuantileOrder(fan) == fan \in ReadFan /\ fan.p10 <= fan.p50 /\ fan.p50 <= fan.p90
Ordered == {fan \in ReadFan : InQuantileOrder(fan)}

LEMMA RepairedIs ==
  ASSUME NEW fan \in ForecastFan
  PROVE  Repaired(fan) \in Ordered /\ Repaired(fan).p10 >= 100
<1> DEFINE a == fan.p10
           b == fan.p50
           c == fan.p90
           least == Min({a, b, c})
           most == Max({a, b, c})
<1>1. a \in Int /\ b \in Int /\ c \in Int /\ a >= 100 /\ b >= 100 /\ c >= 100 /\ fan.days \in {7, 30, 90}
  BY DEF ForecastFan, DollarsPerDay
<1>2. \E m \in {a, b, c} : \A x \in {a, b, c} : m <= x
  <2> HIDE DEF a, b, c
  <2> QED
    BY <1>1
<1>3. \E m \in {a, b, c} : \A x \in {a, b, c} : m >= x
  <2> HIDE DEF a, b, c
  <2> QED
    BY <1>1
<1>4. least \in {a, b, c} /\ least <= a /\ least <= b /\ least <= c
  <2> HIDE DEF a, b, c
  <2> QED
    BY <1>2 DEF Min
<1>5. most \in {a, b, c} /\ most >= a /\ most >= b /\ most >= c
  <2> HIDE DEF a, b, c
  <2> QED
    BY <1>3 DEF Max
<1>6. Repaired(fan) = [days |-> fan.days, p10 |-> least, p50 |-> a + b + c - least - most, p90 |-> most]
  BY DEF Repaired
<1> HIDE DEF a, b, c, least, most
<1>7. /\ least \in Int /\ most \in Int /\ least >= 100 /\ a + b + c - least - most \in Int
      /\ least <= a + b + c - least - most /\ a + b + c - least - most <= most
  BY <1>1, <1>4, <1>5
<1>8. Repaired(fan) \in ReadFan
  BY <1>1, <1>6, <1>7 DEF ReadFan
<1> QED
  BY <1>6, <1>7, <1>8 DEF Ordered, InQuantileOrder

LEMMA AdjustIs ==
  ASSUME NEW fan \in Ordered, fan.p10 >= 100,
         NEW premium, premium.mean \in Int, premium.mean > -100, premium.spread \in Nat
  PROVE  Adjust(fan, premium) \in Ordered /\ Adjust(fan, premium).days = fan.days
<1>1. PICK a \in Int, b \in Int, c \in Int, m \in Nat, w \in Nat :
        /\ a = fan.p10 /\ b = fan.p50 /\ c = fan.p90 /\ m = 100 + premium.mean /\ w = premium.spread
        /\ m >= 1
  <2>1. 100 + premium.mean \in Nat /\ 100 + premium.mean >= 1
    OBVIOUS
  <2> QED
    BY <2>1 DEF Ordered, ReadFan
<1>2. a <= b /\ b <= c /\ a >= 100 /\ fan.days \in {7, 30, 90}
  BY <1>1 DEF Ordered, InQuantileOrder, ReadFan
<1>3. PICK am \in Int, bm \in Int, cm \in Int, bw \in Nat :
        am = a * m /\ bm = b * m /\ cm = c * m /\ bw = b * w
  BY <1>2
<1>4. am <= bm /\ bm <= cm /\ bm >= 100
  <2>1. PICK d \in Nat, e \in Nat, n \in Nat, k \in Nat : b = a + d /\ c = b + e /\ m = 1 + n /\ b = 100 + k
    <3>1. b - a \in Nat /\ c - b \in Nat /\ m - 1 \in Nat /\ b - 100 \in Nat
      BY <1>1, <1>2
    <3>2. b = a + (b - a) /\ c = b + (c - b) /\ m = 1 + (m - 1) /\ b = 100 + (b - 100)
      OBVIOUS
    <3> QED
      BY <3>1, <3>2
  <2>2. PICK dm \in Nat, em \in Nat, bn \in Nat : dm = d * m /\ em = e * m /\ bn = b * n
    BY <1>2
  <2>3. b * m = am + dm /\ c * m = bm + em /\ b * m = b + bn
    BY <1>3, <2>1, <2>2
  <2> QED
    BY <1>2, <1>3, <2>2, <2>3
<1>5. PICK p \in Int, q \in Int, r \in Int, u \in Nat :
        p = am \div 100 /\ q = bm \div 100 /\ r = cm \div 100 /\ u = bw \div 100
  OBVIOUS
<1>6. p <= q /\ q <= r /\ q >= 1
  BY <1>4, <1>5
<1>7. Max({p - u, 1}) \in Int /\ Max({p - u, 1}) <= q
  <2>1. p - u \in Int /\ 1 \in Int /\ p - u <= q
    BY <1>6
  <2>2. Max({p - u, 1}) = IF p - u >= 1 THEN p - u ELSE 1
    BY <2>1, OfTwo
  <2> QED
    BY <1>6, <2>1, <2>2
<1>8. Adjust(fan, premium) = [days |-> fan.days, p50 |-> q, p10 |-> Max({p - u, 1}), p90 |-> r + u]
  BY <1>1, <1>3, <1>5 DEF Adjust
<1>9. q <= r + u /\ r + u \in Int
  BY <1>6
<1>10. Adjust(fan, premium) \in ReadFan
  BY <1>2, <1>7, <1>8, <1>9 DEF ReadFan
<1> QED
  BY <1>7, <1>8, <1>9, <1>10 DEF Ordered, InQuantileOrder

(* Some fans of a class, each in order.                                    *)
Shelf(fans) == IsFiniteSet(fans) /\ fans \subseteq Ordered

LEMMA FansAre ==
  ASSUME NEW data \in Markets, NEW c \in Range(VesselClasses)
  PROVE  /\ Shelf(FansOf(data, c)) /\ \A fan \in FansOf(data, c) : fan.p10 >= 100
         /\ RateOf(data, c) \in Nat
<1>1. data[c].tc \in Nat /\ IsFiniteSet(data[c].fans) /\ data[c].fans \subseteq ForecastFan
  BY QuoteDeskAssumption
<1>2. RateOf(data, c) \in Nat
  BY <1>1 DEF RateOf
<1> DEFINE repaired == [fan \in data[c].fans |-> Repaired(fan)]
<1>3. IsFiniteSet(Range(repaired))
  <2>1. DOMAIN repaired = data[c].fans
    OBVIOUS
  <2> HIDE DEF repaired
  <2> QED
    BY <1>1, <2>1, ImageIsFinite
<1>4. Range(repaired) = {Repaired(fan) : fan \in data[c].fans}
  BY DEF Range
<1>5. \A fan \in {Repaired(f) : f \in data[c].fans} : fan \in Ordered /\ fan.p10 >= 100
  BY <1>1, RepairedIs
<1>6. IsFiniteSet({})
  BY FS_EmptySet
<1> HIDE DEF repaired
<1>7. FansOf(data, c) = {} \/ FansOf(data, c) = {Repaired(f) : f \in data[c].fans}
  BY DEF FansOf
<1>8. Shelf(FansOf(data, c))
  BY <1>3, <1>4, <1>5, <1>6, <1>7 DEF Shelf
<1>9. \A fan \in FansOf(data, c) : fan.p10 >= 100
  BY <1>5, <1>7
<1> QED
  BY <1>2, <1>8, <1>9

LEMMA AdjustedAre ==
  ASSUME NEW fans, Shelf(fans), \A fan \in fans : fan.p10 >= 100, NEW route \in DOMAIN RouteBasis,
         NEW r \in LotRequests
  PROVE  /\ Shelf(RouteAdjusted(fans, route))
         /\ Weighing(fans, r) # {} => Weighing(RouteAdjusted(fans, route), r) # {}
<1>1. CASE RouteBasis[route] = NoBasis
  BY <1>1 DEF RouteAdjusted
<1>2. CASE RouteBasis[route] # NoBasis
  <2> DEFINE premium == RouteBasis[route]
             adjusted == [fan \in fans |-> Adjust(fan, premium)]
  <2>1. premium.mean \in Int /\ premium.mean > -100 /\ premium.spread \in Nat
    BY <1>2, QuoteDeskAssumption
  <2>2. RouteAdjusted(fans, route) = {Adjust(fan, premium) : fan \in fans}
    BY <1>2 DEF RouteAdjusted
  <2> HIDE DEF premium
  <2>3. \A fan \in fans : Adjust(fan, premium) \in Ordered /\ Adjust(fan, premium).days = fan.days
    <3> SUFFICES ASSUME NEW fan \in fans
                 PROVE  Adjust(fan, premium) \in Ordered /\ Adjust(fan, premium).days = fan.days
      OBVIOUS
    <3>1. fan \in Ordered /\ fan.p10 >= 100
      BY DEF Shelf
    <3> QED
      BY <2>1, <3>1, AdjustIs
  <2>4. IsFiniteSet(Range(adjusted))
    <3>1. DOMAIN adjusted = fans
      OBVIOUS
    <3> HIDE DEF adjusted
    <3> QED
      BY <3>1, ImageIsFinite DEF Shelf
  <2>5. Range(adjusted) = {Adjust(fan, premium) : fan \in fans}
    BY DEF Range
  <2> HIDE DEF adjusted
  <2>6. Shelf(RouteAdjusted(fans, route))
    BY <2>2, <2>3, <2>4, <2>5 DEF Shelf
  <2>7. ASSUME NEW fan \in Weighing(fans, r)
        PROVE  Adjust(fan, premium) \in Weighing(RouteAdjusted(fans, route), r)
    <3>1. fan \in fans /\ Covered(fan, r) > 0
      BY DEF Weighing
    <3>2. Covered(Adjust(fan, premium), r) = Covered(fan, r)
      BY <2>3, <3>1 DEF Covered
    <3> QED
      BY <2>2, <3>1, <3>2 DEF Weighing
  <2> QED
    BY <2>6, <2>7
<1> QED
  BY <1>1, <1>2

(* The blends a threshold is made of, and their weights.                   *)
Shown(fans, r) == {Blend(fan, r) : fan \in Weighing(fans, r)}

LEMMA CoveredIs ==
  ASSUME NEW fan \in Ordered, NEW r \in LotRequests
  PROVE  Covered(fan, r) \in Nat
<1>1. r.term \in Nat /\ fan.days \in {7, 30, 90}
  BY QuoteDeskAssumption DEF Ordered, ReadFan
<1>2. PICK a \in Nat, b \in Nat, t \in Nat :
        a = From(fan.days) /\ b = Till(fan.days) /\ t = r.term /\ a <= b
  BY <1>1 DEF From, Till
<1>3. Min({b, t}) = IF b <= t THEN b ELSE t
  BY <1>2, OfTwo
<1>4. Min({a, t}) = IF a <= t THEN a ELSE t
  BY <1>2, OfTwo
<1> QED
  BY <1>2, <1>3, <1>4 DEF Covered

LEMMA BlendIs ==
  ASSUME NEW fan \in Ordered, NEW r \in LotRequests
  PROVE  Blend(fan, r) \in Int
<1>1. r.risk \in Int /\ fan.p50 \in Int /\ fan.p90 \in Int
  <2>1. r.risk \in 0 .. 100
    BY QuoteDeskAssumption
  <2>2. fan \in ReadFan
    BY DEF Ordered
  <2> QED
    BY <2>1, <2>2 DEF ReadFan
<1>2. PICK x \in Int, y \in Int : x = (100 - r.risk) * fan.p50 /\ y = r.risk * fan.p90
  BY <1>1
<1> QED
  BY <1>2 DEF Blend

LEMMA ShownAre ==
  ASSUME NEW fans, Shelf(fans), NEW r \in LotRequests, Weighing(fans, r) # {}
  PROVE  /\ Shown(fans, r) \subseteq Int /\ IsFiniteSet(Shown(fans, r)) /\ Shown(fans, r) # {}
<1> DEFINE some == Weighing(fans, r)
           blends == [fan \in some |-> Blend(fan, r)]
<1>1. some \subseteq fans /\ IsFiniteSet(some) /\ some \subseteq Ordered
  <2>1. some \subseteq fans
    BY DEF Weighing
  <2> HIDE DEF some
  <2> QED
    BY <2>1, FS_Subset DEF Shelf
<1>2. Shown(fans, r) = {Blend(fan, r) : fan \in some}
  BY DEF Shown
<1> HIDE DEF some
<1>3. Range(blends) = {Blend(fan, r) : fan \in some}
  BY DEF Range
<1>4. IsFiniteSet(Range(blends))
  <2>1. DOMAIN blends = some
    OBVIOUS
  <2> HIDE DEF blends
  <2> QED
    BY <1>1, <2>1, ImageIsFinite
<1>5. \A fan \in some : Blend(fan, r) \in Int
  BY <1>1, BlendIs
<1>6. some # {}
  BY DEF some
<1> QED
  BY <1>2, <1>3, <1>4, <1>5, <1>6

(* A threshold lies among the blends it is the mean of.                    *)
LEMMA CeilingIsMean ==
  ASSUME NEW fans, Shelf(fans), NEW r \in LotRequests, Weighing(fans, r) # {},
         NEW s, s = Ceiling(fans, r)
  PROVE  /\ s.num \in Int /\ s.den \in Nat \ {0}
         /\ Min(Shown(fans, r)) * s.den <= s.num
         /\ s.num <= Max(Shown(fans, r)) * s.den
<1> DEFINE w == [fan \in fans |-> Covered(fan, r)]
           v == [fan \in fans |-> Covered(fan, r) * Blend(fan, r)]
<1>1. PICK lo \in Int, hi \in Int :
        lo = Min(Shown(fans, r)) /\ hi = Max(Shown(fans, r))
        /\ \A x \in Shown(fans, r) : lo <= x /\ x <= hi /\ x \in Int
  <2>1. /\ Shown(fans, r) \subseteq Int /\ IsFiniteSet(Shown(fans, r)) /\ Shown(fans, r) # {}
    BY ShownAre
  <2>2. /\ Min(Shown(fans, r)) \in Shown(fans, r) /\ \A x \in Shown(fans, r) : Min(Shown(fans, r)) <= x
        /\ Max(Shown(fans, r)) \in Shown(fans, r) /\ \A x \in Shown(fans, r) : Max(Shown(fans, r)) >= x
    BY <2>1, FiniteExtremes
  <2>3. Min(Shown(fans, r)) \in Int /\ Max(Shown(fans, r)) \in Int
    BY <2>1, <2>2
  <2>4. \A x \in Shown(fans, r) : x \in Int /\ Min(Shown(fans, r)) <= x /\ x <= Max(Shown(fans, r))
    BY <2>1, <2>2, <2>3
  <2> QED
    BY <2>3, <2>4
<1>2. ASSUME NEW fan \in fans
      PROVE  w[fan] \in Nat /\ v[fan] \in Int /\ lo * w[fan] <= v[fan] /\ hi * w[fan] >= v[fan]
  <2>1. fan \in Ordered
    BY DEF Shelf
  <2>2. PICK c \in Nat, b \in Int : c = Covered(fan, r) /\ b = Blend(fan, r)
    BY <2>1, CoveredIs, BlendIs
  <2>3. w[fan] = c /\ v[fan] = c * b
    BY <2>2
  <2>4. CASE c = 0
    <3>1. c * b = 0 /\ lo * c = 0 /\ hi * c = 0
      BY <2>4
    <3> QED
      BY <2>3, <3>1
  <2>5. CASE c > 0
    <3>1. b \in Shown(fans, r)
      BY <2>2, <2>5 DEF Shown, Weighing
    <3>2. lo <= b /\ b <= hi
      BY <1>1, <3>1
    <3>3. PICK d \in Nat, e \in Nat : b = lo + d /\ hi = b + e
      <4>1. b - lo \in Nat /\ hi - b \in Nat /\ b = lo + (b - lo) /\ hi = b + (hi - b)
        BY <3>2
      <4> QED
        BY <4>1
    <3>4. PICK cd \in Nat, ce \in Nat, cb \in Int, lc \in Int :
            cd = c * d /\ ce = c * e /\ cb = c * b /\ lc = lo * c
      OBVIOUS
    <3>5. cb = lc + cd /\ hi * c = cb + ce
      BY <3>3, <3>4
    <3> QED
      BY <2>3, <3>4, <3>5
  <2> QED
    BY <2>4, <2>5
<1>3. DOMAIN w = fans /\ DOMAIN v = fans
  OBVIOUS
<1>4. s = [num |-> SumOver(v, fans), den |-> SumOver(w, fans)]
  BY DEF Ceiling, Total, SumOver
<1>5. PICK fan \in fans : w[fan] > 0
  BY DEF Weighing
<1> HIDE DEF w, v
<1>6. /\ SumOver(w, fans) \in Int /\ SumOver(v, fans) \in Int
      /\ lo * SumOver(w, fans) <= SumOver(v, fans)
  <2>1. IsFiniteSet(fans) /\ \A x \in fans : w[x] \in Int /\ v[x] \in Int
    BY <1>2 DEF Shelf
  <2> QED
    BY <1>2, <2>1, SumsCompare
<1>7. hi * SumOver(w, fans) >= SumOver(v, fans)
  <2>1. IsFiniteSet(fans) /\ \A x \in fans : w[x] \in Int /\ v[x] \in Int
    BY <1>2 DEF Shelf
  <2> QED
    BY <1>2, <2>1, SumsCompare
<1>8. SumOver(w, fans) \in Nat /\ w[fan] <= SumOver(w, fans)
  <2>1. IsFiniteSet(fans) /\ \A x \in fans : w[x] \in Nat
    BY <1>2 DEF Shelf
  <2> QED
    BY <2>1, TermsAreWithin
<1>9. SumOver(w, fans) \in Nat \ {0}
  BY <1>2, <1>5, <1>8
<1> QED
  BY <1>1, <1>4, <1>6, <1>7, <1>9

(* The plain decision and the fused one, in figures.                       *)
Threshold(s) == s = [num |-> s.num, den |-> s.den] /\ s.num \in Int /\ s.den \in Nat \ {0}

Figures(d, rate) ==
  /\ d.action = Action(rate, d.level)
  /\ d.simulated /\ AtMost(rate, d.boundary) => d.action = "LOCK"
  /\ Below(d.level, d.strike) => d.simulated /\ Below(d.boundary, d.strike)
  /\ Below(d.boundary, d.level) => d.simulated /\ d.delay > 0

LEMMA PlainFigures ==
  ASSUME NEW strike, Threshold(strike), NEW rate \in Nat
  PROVE  Figures(Plainly(strike, rate), rate)
<1>1. ~Below(strike, strike)
  <2>1. PICK x \in Int : x = strike.num * strike.den
    BY DEF Threshold
  <2> QED
    BY <2>1 DEF Below
<1> QED
  BY <1>1 DEF Figures, Plainly

LEMMA FusedFigures ==
  ASSUME NEW strike, Threshold(strike), NEW rate \in Nat, NEW boundary, Threshold(boundary),
         NEW delay \in Nat, NEW term \in Nat \ {0}
  PROVE  Figures(Fuse(Plainly(strike, rate), rate, boundary, delay, term), rate)
<1> DEFINE d == Fuse(Plainly(strike, rate), rate, boundary, delay, term)
           level == Raised(boundary, rate, delay, term)
<1>1. /\ d.strike = strike /\ d.level = level /\ d.action = Action(rate, level)
      /\ d.boundary = boundary /\ d.delay = delay /\ d.simulated = TRUE
  BY DEF Fuse, Plainly
<1>2. PICK n \in Int, m \in Nat \ {0}, sn \in Int, sm \in Nat \ {0} :
        n = boundary.num /\ m = boundary.den /\ sn = strike.num /\ sm = strike.den
  BY DEF Threshold
<1>3. PICK extra \in Nat, toll \in Nat : toll = delay * rate /\ extra = toll * m /\ (delay = 0 => extra = 0)
  <2>1. PICK toll \in Nat : toll = delay * rate /\ (delay = 0 => toll = 0)
    OBVIOUS
  <2>2. toll * m \in Nat /\ (toll = 0 => toll * m = 0)
    OBVIOUS
  <2> QED
    BY <2>1, <2>2
<1>4. level.num = n * term + extra /\ level.den = m * term
  BY <1>2, <1>3 DEF Raised
<1>5. PICK nt \in Int, mt \in Nat \ {0} : nt = n * term /\ mt = m * term
  BY <1>2
<1> HIDE DEF d, level
<1>6. ASSUME AtMost(rate, boundary) PROVE d.action = "LOCK"
  <2>1. PICK rm \in Nat, k \in Nat : rm = rate * m /\ n = rm + k
    <3>1. rate * m \in Nat /\ rate * m <= n /\ n - rate * m \in Nat
      BY <1>2, <1>6 DEF AtMost
    <3>2. n = rate * m + (n - rate * m)
      BY <3>1
    <3> QED
      BY <3>1, <3>2
  <2>2. PICK rmt \in Nat, kt \in Nat : rmt = rm * term /\ kt = k * term
    OBVIOUS
  <2>3. n * term = rmt + kt
    BY <2>1, <2>2
  <2>4. rate * (m * term) = rmt
    BY <2>1, <2>2
  <2>5. rate * level.den <= level.num
    BY <1>4, <1>5, <2>2, <2>3, <2>4
  <2> QED
    BY <1>1, <2>5 DEF Action, AtMost
<1>7. ASSUME Below(level, strike) PROVE Below(boundary, strike)
  <2>1. level.num * sm < sn * level.den
    BY <1>2, <1>7 DEF Below
  <2>2. (nt + extra) * sm < sn * mt
    BY <1>4, <1>5, <2>1
  <2>3. PICK a \in Int, b \in Nat, c \in Int : a = nt * sm /\ b = extra * sm /\ c = sn * mt
    OBVIOUS
  <2>4. a + b < c
    BY <2>2, <2>3
  <2>5. PICK x \in Int, y \in Int : x = n * sm /\ y = sn * m
    OBVIOUS
  <2>6. a = x * term /\ c = y * term
    BY <1>5, <2>3, <2>5
  <2>7. ASSUME y <= x PROVE FALSE
    <3>1. PICK e \in Nat : x = y + e
      <4>1. x - y \in Nat /\ x = y + (x - y)
        BY <2>7
      <4> QED
        BY <4>1
    <3>2. PICK yt \in Int, et \in Nat : yt = y * term /\ et = e * term
      OBVIOUS
    <3>3. x * term = yt + et
      BY <3>1, <3>2
    <3> QED
      BY <2>3, <2>4, <2>6, <3>2, <3>3
  <2>8. x < y
    BY <2>7
  <2> QED
    BY <1>2, <2>5, <2>8 DEF Below
<1>8. ASSUME Below(boundary, level) PROVE delay > 0
  <2>1. n * mt < (nt + extra) * m
    BY <1>2, <1>4, <1>5, <1>8 DEF Below
  <2>2. n * mt = nt * m
    BY <1>5
  <2>3. ASSUME extra = 0 PROVE FALSE
    <3>1. nt + extra = nt
      BY <2>3
    <3> QED
      BY <2>1, <2>2, <3>1
  <2> QED
    BY <1>3, <2>3
<1>9. d.simulated
  BY <1>1
<1> QED
  BY <1>1, <1>6, <1>7, <1>8, <1>9 DEF Figures, d

LEMMA Interpolated ==
  ASSUME NEW x \in Int, NEW y \in Int, x <= y, NEW u \in Int, NEW v \in Int, u <= v,
         NEW e \in Nat, NEW f \in Nat, NEW n \in Nat \ {0}
  PROVE  /\ (x * e + u * f) \div n \in Int /\ (y * e + v * f) \div n \in Int
         /\ (x * e + u * f) \div n <= (y * e + v * f) \div n
<1>1. PICK d \in Nat, g \in Nat : y = x + d /\ v = u + g
  <2>1. y - x \in Nat /\ v - u \in Nat /\ y = x + (y - x) /\ v = u + (v - u)
    OBVIOUS
  <2> QED
    BY <2>1
<1>2. PICK xe \in Int, de \in Nat, uf \in Int, gf \in Nat :
        xe = x * e /\ de = d * e /\ uf = u * f /\ gf = g * f
  OBVIOUS
<1>3. y * e = xe + de /\ v * f = uf + gf
  BY <1>1, <1>2
<1>4. xe + uf \in Int /\ xe + de + (uf + gf) \in Int /\ xe + uf <= xe + de + (uf + gf)
  OBVIOUS
<1>5. /\ (xe + uf) \div n \in Int /\ (xe + de + (uf + gf)) \div n \in Int
      /\ (xe + uf) \div n <= (xe + de + (uf + gf)) \div n
  BY <1>4, DivisionKeepsOrder
<1> QED
  BY <1>2, <1>3, <1>5

(* Among some fans there is one of the fewest days and one of the most.    *)
LEMMA DaysHaveEnds ==
  ASSUME NEW fans, Shelf(fans), fans # {}
  PROVE  /\ \E fan \in fans : \A other \in fans : other.days <= fan.days
         /\ \E fan \in fans : \A other \in fans : fan.days <= other.days
<1> DEFINE days == [fan \in fans |-> fan.days]
<1>1. \A fan \in fans : days[fan] = fan.days /\ fan.days \in Int
  BY DEF Shelf, Ordered, ReadFan
<1>2. DOMAIN days = fans
  OBVIOUS
<1> HIDE DEF days
<1>3. Range(days) \subseteq Int /\ Range(days) # {}
  BY <1>1, <1>2 DEF Range
<1>4. IsFiniteSet(Range(days))
  BY <1>2, ImageIsFinite DEF Shelf
<1>5. PICK lo \in Range(days), hi \in Range(days) :
        \A x \in Range(days) : lo <= x /\ hi >= x
  BY <1>3, <1>4, FiniteExtremes
<1>6. PICK first \in fans, last \in fans : days[first] = lo /\ days[last] = hi
  BY <1>2, <1>5 DEF Range
<1>7. \A other \in fans : days[other] \in Range(days)
  BY <1>2 DEF Range
<1>8. \A other \in fans : first.days <= other.days /\ other.days <= last.days
  BY <1>1, <1>5, <1>6, <1>7
<1> QED
  BY <1>8

LEMMA DailyIs ==
  ASSUME NEW fans, Shelf(fans), fans # {}, NEW day \in Int
  PROVE  /\ Daily(fans, day, "p10") \in Int
         /\ Daily(fans, day, "p50") \in Int
         /\ Daily(fans, day, "p90") \in Int
         /\ Daily(fans, day, "p10") <= Daily(fans, day, "p50")
         /\ Daily(fans, day, "p50") <= Daily(fans, day, "p90")
<1> DEFINE before == {fan \in fans : fan.days <= day}
           after  == {fan \in fans : fan.days > day}
           a == CHOOSE fan \in before : \A other \in before : other.days <= fan.days
           b == CHOOSE fan \in after : \A other \in after : fan.days <= other.days
           Between(q) == (a[q] * (b.days - day) + b[q] * (day - a.days)) \div (b.days - a.days)
<1>1. \A q : Daily(fans, day, q) = IF before = {} THEN b[q] ELSE IF after = {} THEN a[q] ELSE Between(q)
  BY DEF Daily
<1>2. Shelf(before) /\ Shelf(after)
  <2>1. before \subseteq fans /\ after \subseteq fans
    OBVIOUS
  <2> HIDE DEF before, after
  <2> QED
    BY <2>1, FS_Subset DEF Shelf
<1>3. before # {} \/ after # {}
  <2>1. \A fan \in fans : fan.days \in Int
    BY DEF Shelf, Ordered, ReadFan
  <2>2. PICK fan \in fans : TRUE
    OBVIOUS
  <2>3. fan.days <= day \/ fan.days > day
    BY <2>1
  <2> QED
    BY <2>3
<1>4. ASSUME before # {} PROVE a \in before
  <2>1. \E fan \in before : \A other \in before : other.days <= fan.days
    <3> HIDE DEF before
    <3> QED
      BY <1>2, <1>4, DaysHaveEnds
  <2> HIDE DEF before
  <2> QED
    BY <2>1
<1>5. ASSUME after # {} PROVE b \in after
  <2>1. \E fan \in after : \A other \in after : fan.days <= other.days
    <3> HIDE DEF after
    <3> QED
      BY <1>2, <1>5, DaysHaveEnds
  <2> HIDE DEF after
  <2> QED
    BY <2>1
<1>6. \A fan \in fans :
        /\ fan.days \in Int /\ fan["p10"] \in Int /\ fan["p50"] \in Int /\ fan["p90"] \in Int
        /\ fan["p10"] <= fan["p50"] /\ fan["p50"] <= fan["p90"]
  BY DEF Shelf, Ordered, ReadFan, InQuantileOrder
<1>7. (before # {} => a \in fans /\ a.days <= day) /\ (after # {} => b \in fans /\ b.days > day)
  BY <1>4, <1>5
<1> HIDE DEF before, after, a, b
<1>8. CASE before = {}
  <2>1. \A q : Daily(fans, day, q) = b[q]
    BY <1>1, <1>8
  <2> QED
    BY <1>3, <1>6, <1>7, <1>8, <2>1
<1>9. CASE before # {} /\ after = {}
  <2>1. \A q : Daily(fans, day, q) = a[q]
    BY <1>1, <1>9
  <2> QED
    BY <1>6, <1>7, <1>9, <2>1
<1>10. CASE before # {} /\ after # {}
  <2>1. \A q : Daily(fans, day, q) = Between(q)
    BY <1>1, <1>10
  <2>2. b.days - day \in Nat /\ day - a.days \in Nat /\ b.days - a.days \in Nat \ {0}
    BY <1>6, <1>7, <1>10
  <2>3. Between("p10") \in Int /\ Between("p50") \in Int /\ Between("p10") <= Between("p50")
    <3>1. /\ a["p10"] \in Int /\ a["p50"] \in Int /\ b["p10"] \in Int /\ b["p50"] \in Int
          /\ a["p10"] <= a["p50"] /\ b["p10"] <= b["p50"]
      BY <1>6, <1>7, <1>10
    <3> QED
      BY <2>2, <3>1, Interpolated
  <2>4. Between("p50") \in Int /\ Between("p90") \in Int /\ Between("p50") <= Between("p90")
    <3>1. /\ a["p90"] \in Int /\ a["p50"] \in Int /\ b["p90"] \in Int /\ b["p50"] \in Int
          /\ a["p50"] <= a["p90"] /\ b["p50"] <= b["p90"]
      BY <1>6, <1>7, <1>10
    <3> QED
      BY <2>2, <3>1, Interpolated
  <2> HIDE DEF Between
  <2> QED
    BY <2>1, <2>3, <2>4
<1> QED
  BY <1>8, <1>9, <1>10

LEMMA SavingsAre ==
  ASSUME NEW fans, Shelf(fans), fans # {}, NEW r \in LotRequests, NEW rate \in Nat
  PROVE  /\ Savings("p10", fans, rate, r) <= Savings("p50", fans, rate, r)
         /\ Savings("p50", fans, rate, r) <= Savings("p90", fans, rate, r)
<1> DEFINE Term == 1 .. r.term
           Paid(q) == [day \in Term |-> Max({RateFloor, Daily(fans, day, q)})]
<1>1. r.term \in Nat /\ RateFloor \in Int
  BY QuoteDeskAssumption
<1>2. IsFiniteSet(Term)
  BY <1>1, FS_Interval
<1>3. PICK cost \in Int : cost = r.term * rate
  BY <1>1
<1>4. \A q : Savings(q, fans, rate, r) = SumOver(Paid(q), Term) - cost
  BY <1>3 DEF Savings, Total, SumOver
<1>5. ASSUME NEW day \in Term
      PROVE  /\ Paid("p10")[day] \in Int /\ Paid("p50")[day] \in Int /\ Paid("p90")[day] \in Int
             /\ Paid("p10")[day] <= Paid("p50")[day] /\ Paid("p50")[day] <= Paid("p90")[day]
  <2>1. PICK x \in Int, y \in Int, z \in Int :
          /\ x = Daily(fans, day, "p10") /\ y = Daily(fans, day, "p50") /\ z = Daily(fans, day, "p90")
          /\ x <= y /\ y <= z
    <3>1. day \in Int
      BY <1>1
    <3> QED
      BY <3>1, DailyIs
  <2>2. Paid("p10")[day] = Max({RateFloor, x})
    BY <2>1
  <2>3. Paid("p50")[day] = Max({RateFloor, y})
    BY <2>1
  <2>4. Paid("p90")[day] = Max({RateFloor, z})
    BY <2>1
  <2> HIDE DEF Paid
  <2>5. Paid("p10")[day] = IF RateFloor >= x THEN RateFloor ELSE x
    BY <1>1, <2>2, OfTwo
  <2>6. Paid("p50")[day] = IF RateFloor >= y THEN RateFloor ELSE y
    BY <1>1, <2>3, OfTwo
  <2>7. Paid("p90")[day] = IF RateFloor >= z THEN RateFloor ELSE z
    BY <1>1, <2>4, OfTwo
  <2> QED
    BY <1>1, <2>1, <2>5, <2>6, <2>7
<1> HIDE DEF Paid, Term
<1>6. /\ SumOver(Paid("p10"), Term) \in Int /\ SumOver(Paid("p50"), Term) \in Int
      /\ 1 * SumOver(Paid("p10"), Term) <= SumOver(Paid("p50"), Term)
  <2>1. \A day \in Term : /\ Paid("p10")[day] \in Int /\ Paid("p50")[day] \in Int
                          /\ 1 * Paid("p10")[day] <= Paid("p50")[day]
    BY <1>5
  <2> QED
    BY <1>2, <2>1, SumsCompare
<1>7. /\ SumOver(Paid("p50"), Term) \in Int /\ SumOver(Paid("p90"), Term) \in Int
      /\ 1 * SumOver(Paid("p50"), Term) <= SumOver(Paid("p90"), Term)
  <2>1. \A day \in Term : /\ Paid("p50")[day] \in Int /\ Paid("p90")[day] \in Int
                          /\ 1 * Paid("p50")[day] <= Paid("p90")[day]
    BY <1>5
  <2> QED
    BY <1>2, <2>1, SumsCompare
<1> QED
  BY <1>3, <1>4, <1>6, <1>7

(* The days there are before the laycan, and the window among them.        *)
LEMMA HorizonIs ==
  ASSUME NEW r \in LotRequests
  PROVE  /\ r.lead \in Int /\ PlanningHorizon(r) \in Nat /\ SearchDays(r) \in Int
         /\ SearchDays(r) <= r.lead
         /\ \A day \in Int : day <= r.lead /\ day <= PlanningHorizon(r) => day <= SearchDays(r)
<1>1. r.lead \in Int /\ r.term \in Nat
  BY QuoteDeskAssumption
<1>2. PICK h \in Nat : h = PlanningHorizon(r)
  <2>1. PICK t \in Nat : t = r.term
    BY <1>1
  <2>2. 90 \in Int /\ t \in Int
    OBVIOUS
  <2>3. Max({90, t}) = IF 90 >= t THEN 90 ELSE t
    BY <2>2, OfTwo
  <2> QED
    BY <2>1, <2>3 DEF PlanningHorizon
<1>3. SearchDays(r) = IF h <= r.lead THEN h ELSE r.lead
  BY <1>1, <1>2, OfTwo DEF SearchDays
<1> QED
  BY <1>1, <1>2, <1>3

LEMMA TroughIs ==
  ASSUME NEW fans, Shelf(fans), fans # {}, NEW n \in Nat \ {0},
         NEW best, best = Min({day \in 1 .. n : IsTrough(day, fans, 1 .. n)})
  PROVE  best \in 1 .. n /\ IsTrough(best, fans, 1 .. n)
<1> DEFINE median == [day \in 1 .. n |-> Daily(fans, day, "p50")]
           troughs == {day \in 1 .. n : IsTrough(day, fans, 1 .. n)}
<1>1. \A day \in 1 .. n : median[day] = Daily(fans, day, "p50") /\ median[day] \in Int
  <2> SUFFICES ASSUME NEW day \in 1 .. n PROVE Daily(fans, day, "p50") \in Int
    OBVIOUS
  <2>1. day \in Int
    OBVIOUS
  <2> QED
    BY <2>1, DailyIs
<1>2. DOMAIN median = 1 .. n /\ 1 \in 1 .. n /\ IsFiniteSet(1 .. n)
  BY FS_Interval
<1> HIDE DEF median
<1>3. Range(median) \subseteq Int /\ Range(median) # {}
  BY <1>1, <1>2 DEF Range
<1>4. IsFiniteSet(Range(median))
  BY <1>2, ImageIsFinite
<1>5. PICK lo \in Range(median) : \A x \in Range(median) : lo <= x
  BY <1>3, <1>4, FiniteExtremes
<1>6. PICK day \in 1 .. n : median[day] = lo
  BY <1>2, <1>5 DEF Range
<1>7. IsTrough(day, fans, 1 .. n)
  <2>1. \A other \in 1 .. n : median[other] \in Range(median)
    BY <1>2 DEF Range
  <2>2. \A other \in 1 .. n : Daily(fans, day, "p50") <= Daily(fans, other, "p50")
    BY <1>1, <1>5, <1>6, <2>1
  <2> QED
    BY <2>2 DEF IsTrough
<1>8. troughs \subseteq Nat /\ troughs # {}
  BY <1>7
<1>9. best = Min(troughs)
  OBVIOUS
<1>10. PICK t \in troughs : \A u \in troughs : t <= u
  <2> HIDE DEF troughs
  <2> QED
    BY <1>8, LeastOfSome
<1>11. best \in troughs
  <2> HIDE DEF troughs
  <2> QED
    BY <1>9, <1>10 DEF Min
<1> QED
  BY <1>11

LEMMA WindowIs ==
  ASSUME NEW fans, Shelf(fans), fans # {}, NEW r \in LotRequests, NEW action,
         NEW window, window = EntryWindow(action, fans, r), window # NoWindow
  PROVE  /\ action = "WAIT"
         /\ 1 <= window.from /\ window.from <= window.to /\ window.to <= r.lead
         /\ \A day \in 1 .. r.lead :
              day <= PlanningHorizon(r) => window.trough <= Daily(fans, day, "p50")
<1>1. action = "WAIT" /\ ~(SearchDays(r) < 1)
  BY DEF EntryWindow
<1>2. PICK n \in Nat \ {0} : n = SearchDays(r) /\ n <= r.lead
  BY <1>1, HorizonIs
<1> DEFINE best == Min({day \in 1 .. n : IsTrough(day, fans, 1 .. n)})
<1>3. best \in 1 .. n /\ IsTrough(best, fans, 1 .. n)
  BY TroughIs
<1>4. window = [from |-> Max({1, best - 3}), to |-> Min({n, best + 3}),
                trough |-> Daily(fans, best, "p50")]
  BY <1>1, <1>2 DEF EntryWindow
<1> HIDE DEF best
<1>5. best \in Int /\ 1 <= best /\ best <= n
  BY <1>3
<1>6. Max({1, best - 3}) = IF 1 >= best - 3 THEN 1 ELSE best - 3
  <2>1. best - 3 \in Int /\ 1 \in Int
    BY <1>5
  <2> QED
    BY <2>1, OfTwo
<1>7. Min({n, best + 3}) = IF n <= best + 3 THEN n ELSE best + 3
  <2>1. best + 3 \in Int /\ n \in Int
    BY <1>5
  <2> QED
    BY <2>1, OfTwo
<1>8. r.lead \in Int
  BY HorizonIs
<1>9. 1 <= window.from /\ window.from <= window.to /\ window.to <= r.lead
  BY <1>2, <1>4, <1>5, <1>6, <1>7, <1>8
<1>10. ASSUME NEW day \in 1 .. r.lead, day <= PlanningHorizon(r)
       PROVE  window.trough <= Daily(fans, day, "p50")
  <2>1. day \in Int /\ day <= r.lead /\ 1 <= day
    BY <1>8
  <2>2. day <= n
    BY <1>2, <1>10, <2>1, HorizonIs
  <2>3. day \in 1 .. n
    BY <2>1, <2>2
  <2> QED
    BY <1>3, <1>4, <2>3 DEF IsTrough
<1> QED
  BY <1>1, <1>9, <1>10

(* Among the moves drawn of a vessel is the one it is advised.             *)
LEMMA MoveIs ==
  ASSUME NEW v \in DOMAIN MoveScore
  PROVE  /\ Move(v).vessel = v
         /\ \A route \in Drawn(Move(v)) :
              route.of = v /\ (route.chosen <=> route.to = Move(v).to) /\ route.to # Move(v).from
         /\ Move(v).to # Move(v).from =>
              \E route \in Drawn(Move(v)) : route.to = Move(v).to
<1> DEFINE ports == DOMAIN MoveScore[v]
           to == CHOOSE p \in ports : ScoredAbove(v, p, ports) = {}
           options == Foremost(v, ports, MovesKept)
           from == Berthed[v]
           drawn == Foremost(v, options \ {from}, MovesDrawn)
<1>1. ports # {} /\ IsFiniteSet(ports) /\ \A p \in ports : MoveScore[v][p] \in Int
  BY QuoteDeskAssumption
<1>2. to \in ports /\ ScoredAbove(v, to, ports) = {}
  <2>1. Range(MoveScore[v]) \subseteq Int /\ Range(MoveScore[v]) # {} /\ IsFiniteSet(Range(MoveScore[v]))
    BY <1>1, ImageIsFinite DEF Range
  <2>2. PICK hi \in Range(MoveScore[v]) : \A x \in Range(MoveScore[v]) : hi >= x
    BY <2>1, FiniteExtremes
  <2>3. PICK p \in ports : MoveScore[v][p] = hi
    BY <2>2 DEF Range
  <2>4. \A q \in ports : ~(MoveScore[v][q] > MoveScore[v][p])
    <3>1. \A q \in ports : MoveScore[v][q] \in Range(MoveScore[v])
      BY DEF Range
    <3> QED
      BY <1>1, <2>2, <2>3, <3>1
  <2>5. ScoredAbove(v, p, ports) = {}
    BY <2>4 DEF ScoredAbove
  <2> HIDE DEF ports
  <2> QED
    BY <2>5
<1>3. /\ Move(v).vessel = v /\ Move(v).from = from /\ Move(v).to = to
      /\ Move(v).options = options
  BY DEF Move
<1>4. Drawn(Move(v)) = {[of |-> v, to |-> p, chosen |-> p = to] : p \in drawn}
  BY <1>3 DEF Drawn
<1> HIDE DEF ports, to, options, from, drawn
<1>5. drawn \subseteq options \ {from}
  BY DEF drawn, Foremost
<1>6. Cardinality({}) = 0
  BY FS_EmptySet
<1>0. 0 < MovesKept /\ 0 < MovesDrawn
  BY QuoteDeskAssumption
<1>7. to \in options
  BY <1>0, <1>2, <1>6 DEF options, Foremost
<1>8. ASSUME to # from PROVE to \in drawn
  <2>1. options \subseteq ports
    BY DEF options, Foremost
  <2>2. ScoredAbove(v, to, options \ {from}) = {}
    BY <1>2, <2>1 DEF ScoredAbove
  <2>3. Cardinality(ScoredAbove(v, to, options \ {from})) < MovesDrawn
    BY <1>0, <1>6, <2>2
  <2> QED
    BY <1>7, <1>8, <2>3 DEF drawn, Foremost
<1>9. \A route \in Drawn(Move(v)) :
        route.of = v /\ (route.chosen <=> route.to = to) /\ route.to # from
  <2> SUFFICES ASSUME NEW p \in drawn, NEW route, route = [of |-> v, to |-> p, chosen |-> p = to]
               PROVE  route.of = v /\ (route.chosen <=> route.to = to) /\ route.to # from
    BY <1>4
  <2>1. p # from
    BY <1>5
  <2> QED
    BY <2>1
<1>10. ASSUME to # from PROVE \E route \in Drawn(Move(v)) : route.to = to
  <2>1. [of |-> v, to |-> to, chosen |-> to = to] \in Drawn(Move(v))
    BY <1>4, <1>8, <1>10
  <2> QED
    BY <2>1
<1> QED
  BY <1>3, <1>9, <1>10

LEMMA ClassForIs ==
  ASSUME NEW tonnes
  PROVE  ClassFor(tonnes) \in Range(VesselClasses)
<1> DEFINE fits == {i \in DOMAIN VesselClasses : tonnes <= Deadweight[VesselClasses[i]]}
           n == Len(VesselClasses)
<1>1. DOMAIN VesselClasses = 1 .. n /\ n \in Nat \ {0}
  <2> DEFINE T == Range(VesselClasses)
  <2>1. VesselClasses \in Seq(T) /\ VesselClasses # <<>>
    BY QuoteDeskAssumption
  <2> HIDE DEF T
  <2> QED
    BY <2>1
<1>2. ASSUME fits # {} PROVE Min(fits) \in DOMAIN VesselClasses
  <2>1. fits \subseteq Nat /\ fits \subseteq DOMAIN VesselClasses
    BY <1>1
  <2> HIDE DEF fits
  <2>2. PICK t \in fits : \A u \in fits : t <= u
    BY <1>2, <2>1, LeastOfSome
  <2>3. Min(fits) \in fits
    BY <2>2 DEF Min
  <2> QED
    BY <2>1, <2>3
<1>3. n \in DOMAIN VesselClasses
  BY <1>1
<1>4. ClassFor(tonnes) = VesselClasses[IF fits = {} THEN n ELSE Min(fits)]
  BY DEF ClassFor
<1> HIDE DEF fits, n
<1>5. PICK i \in DOMAIN VesselClasses : ClassFor(tonnes) = VesselClasses[i]
  BY <1>2, <1>3, <1>4
<1> QED
  BY <1>5 DEF Range

StrikeOf(data, c, r) == Ceiling(RouteAdjusted(FansOf(data, c), r.route), r)

DecidedFor(d, data, c, r) ==
  /\ Weighing(FansOf(data, c), r) # {}
  /\ d.strike = StrikeOf(data, c, r)
  /\ Figures(d, RateOf(data, c))

LotInv == lot # NoLot => lot \in LotRequests /\ market \in Markets
ClassInv == class # NoClass => lot # NoLot /\ class \in Range(VesselClasses)
DecisionInv == decision # NoDecision => class # NoClass /\ DecidedFor(decision, market, class, lot)
QuotedInv == quoted # NoQuote => lot # NoLot
AnswerInv ==
  Answered => /\ decision # NoDecision
              /\ \E some \in SUBSET lot.fleet, assessed \in BOOLEAN :
                   quoted = Answer({Move(v) : v \in some}, assessed)

QuoteInv == LotInv /\ ClassInv /\ DecisionInv /\ QuotedInv /\ AnswerInv

(* What an answer says, of a lot, its market, its class and its decision.  *)
LEMMA AnswersAgree == QuoteInv => QuoteAgreesWithItself
<1> SUFFICES ASSUME QuoteInv, Answered PROVE QuoteAgreesWithItself
  BY DEF QuoteAgreesWithItself, PricedAsShown, AdviceFollowsItsFigures, WindowBeforeLoading,
         QuantilesInOrder, RecommendedMoveIsDrawn, Answered
<1>1. /\ lot \in LotRequests /\ market \in Markets /\ class \in Range(VesselClasses)
      /\ DecidedFor(decision, market, class, lot)
  BY DEF QuoteInv, AnswerInv, DecisionInv, ClassInv, LotInv
<1>2. PICK some \in SUBSET lot.fleet, assessed \in BOOLEAN :
        quoted = Answer({Move(v) : v \in some}, assessed)
  BY DEF QuoteInv, AnswerInv
<1> DEFINE fans == FansOf(market, class)
           rate == RateOf(market, class)
           shown == RouteAdjusted(fans, lot.route)
           moves == {Move(v) : v \in some}
<1>3. /\ quoted.class = class /\ quoted.rate = rate /\ quoted.action = decision.action
      /\ quoted.level = decision.level /\ quoted.fan = shown
      /\ quoted.window = EntryWindow(decision.action, fans, lot)
      /\ quoted.savings = [q \in {"p10", "p50", "p90"} |-> Savings(q, fans, rate, lot)]
      /\ quoted.moves = moves /\ quoted.routes = UNION {Drawn(move) : move \in moves}
      /\ quoted.factors = Factors(decision, lot.route)
  BY <1>2 DEF Answer
<1>4. Shelf(fans) /\ (\A fan \in fans : fan.p10 >= 100) /\ rate \in Nat
  BY <1>1, FansAre
<1>5. Weighing(fans, lot) # {} /\ decision.strike = Ceiling(shown, lot) /\ Figures(decision, rate)
  BY <1>1 DEF DecidedFor, StrikeOf
<1>6. lot.route \in DOMAIN RouteBasis /\ lot.fleet \subseteq DOMAIN MoveScore
  BY <1>1, QuoteDeskAssumption
<1> HIDE DEF fans, rate
<1>7. Shelf(shown) /\ Weighing(shown, lot) # {}
  BY <1>1, <1>4, <1>5, <1>6, AdjustedAre
<1>8. fans # {}
  BY <1>5 DEF Weighing
<1> HIDE DEF shown
<1>9. PricedAsShown
  <2>1. /\ Min(Shown(shown, lot)) * decision.strike.den <= decision.strike.num
        /\ decision.strike.num <= Max(Shown(shown, lot)) * decision.strike.den
    BY <1>1, <1>5, <1>7, CeilingIsMean
  <2>2. Shown(shown, lot) = {Blend(fan, lot) : fan \in Weighing(quoted.fan, lot)}
    BY <1>3 DEF Shown
  <2>3. quoted.rate = RateOf(market, quoted.class)
    BY <1>3 DEF rate
  <2> HIDE DEF moves
  <2> QED
    BY <2>1, <2>2, <2>3 DEF PricedAsShown, AtMost
<1>10. AdviceFollowsItsFigures
  <2>1. Below(quoted.level, decision.strike) => "pulls down" \in quoted.factors
    BY <1>3, <1>5 DEF Figures, Factors
  <2>2. Below(decision.boundary, quoted.level) => "weather" \in quoted.factors
    BY <1>3, <1>5 DEF Figures, Factors
  <2> QED
    BY <1>3, <1>5, <2>1, <2>2 DEF Figures, AdviceFollowsItsFigures
<1>11. WindowBeforeLoading
  <2> SUFFICES ASSUME quoted.window # NoWindow
               PROVE  /\ quoted.action = "WAIT"
                      /\ 1 <= quoted.window.from /\ quoted.window.from <= quoted.window.to
                      /\ quoted.window.to <= lot.lead
                      /\ \A day \in 1 .. lot.lead : day <= PlanningHorizon(lot) =>
                           quoted.window.trough <= Daily(fans, day, "p50")
    BY DEF WindowBeforeLoading, fans
  <2> QED
    BY <1>1, <1>3, <1>4, <1>8, WindowIs
<1>12. QuantilesInOrder
  <2>1. \A fan \in quoted.fan : fan.p10 <= fan.p50 /\ fan.p50 <= fan.p90
    BY <1>3, <1>7 DEF Shelf, Ordered, InQuantileOrder
  <2>2. /\ quoted.savings["p10"] = Savings("p10", fans, rate, lot)
        /\ quoted.savings["p50"] = Savings("p50", fans, rate, lot)
        /\ quoted.savings["p90"] = Savings("p90", fans, rate, lot)
    BY <1>3
  <2>3. /\ Savings("p10", fans, rate, lot) <= Savings("p50", fans, rate, lot)
        /\ Savings("p50", fans, rate, lot) <= Savings("p90", fans, rate, lot)
    BY <1>1, <1>4, <1>8, SavingsAre
  <2> QED
    BY <2>1, <2>2, <2>3 DEF QuantilesInOrder
<1>13. RecommendedMoveIsDrawn
  <2> SUFFICES ASSUME NEW move \in quoted.moves
               PROVE  {route.to : route \in {r \in quoted.routes : r.of = move.vessel /\ r.chosen}}
                        = {move.to} \ {move.from}
    BY DEF RecommendedMoveIsDrawn
  <2>1. PICK v \in some : move = Move(v)
    BY <1>3
  <2>2. \A u \in some : u \in DOMAIN MoveScore
    BY <1>6
  <2>3. ASSUME NEW r \in quoted.routes, r.of = move.vessel, r.chosen
        PROVE  r.to = move.to /\ r.to # move.from
    <3>1. PICK u \in some : r \in Drawn(Move(u))
      BY <1>3
    <3>2. r.of = u
      BY <2>2, <3>1, MoveIs
    <3>3. u = v
      BY <2>1, <2>2, <2>3, <3>2, MoveIs
    <3> QED
      BY <2>1, <2>2, <2>3, <3>1, <3>3, MoveIs
  <2>4. ASSUME move.to # move.from
        PROVE  \E r \in quoted.routes : r.of = move.vessel /\ r.chosen /\ r.to = move.to
    <3>1. PICK r \in Drawn(Move(v)) : r.to = Move(v).to
      BY <2>1, <2>2, <2>4, MoveIs
    <3>2. r.of = v /\ r.chosen /\ Move(v).vessel = v
      BY <2>2, <3>1, MoveIs
    <3>3. r \in quoted.routes
      BY <1>3, <3>1
    <3> QED
      BY <2>1, <3>1, <3>2, <3>3
  <2> DEFINE chosen == {r \in quoted.routes : r.of = move.vessel /\ r.chosen}
  <2>5. \A r \in chosen : r.to = move.to /\ r.to # move.from
    BY <2>3
  <2>6. move.to # move.from => \E r \in chosen : r.to = move.to
    BY <2>4
  <2> HIDE DEF chosen
  <2>7. {route.to : route \in chosen} = {move.to} \ {move.from}
    BY <2>5, <2>6
  <2> QED
    BY <2>7 DEF chosen
<1> QED
  BY <1>9, <1>10, <1>11, <1>12, <1>13 DEF QuoteAgreesWithItself

LEMMA QuoteInvInit == QuoteInit => QuoteInv
  BY DEF QuoteInit, QuoteInv, LotInv, ClassInv, DecisionInv, QuotedInv, AnswerInv, Answered

LEMMA QuoteInvAsk ==
  ASSUME QuoteInv, NEW r \in LotRequests, NEW data \in Markets, AskQuote(r, data)
  PROVE  QuoteInv'
<1>1. class = NoClass /\ decision = NoDecision /\ quoted = NoQuote
  BY DEF AskQuote, QuoteInv, ClassInv, DecisionInv, QuotedInv
<1>2. /\ lot' = r /\ market' = data
      /\ class' = NoClass /\ decision' = NoDecision /\ quoted' = NoQuote
  BY <1>1 DEF AskQuote
<1> QED
  BY <1>2 DEF QuoteInv, LotInv, ClassInv, DecisionInv, QuotedInv, AnswerInv, Answered

LEMMA QuoteInvRefuse ==
  ASSUME QuoteInv, NothingToPrice \/ CannotDecide
  PROVE  QuoteInv'
<1>1. /\ lot' = lot /\ market' = market /\ class' = class /\ decision' = decision
      /\ quoted' = [status |-> 503] \/ quoted' = [status |-> 422]
      /\ lot # NoLot
  BY DEF NothingToPrice, CannotDecide, QuoteInv, ClassInv
<1>2. quoted'.status # 200
  BY <1>1
<1>3. LotInv' /\ ClassInv'
  BY <1>1 DEF QuoteInv, LotInv, ClassInv
<1>4. DecisionInv'
  BY <1>1 DEF QuoteInv, DecisionInv
<1>5. QuotedInv' /\ AnswerInv'
  BY <1>1, <1>2 DEF QuotedInv, AnswerInv, Answered
<1> QED
  BY <1>3, <1>4, <1>5 DEF QuoteInv

LEMMA QuoteInvChoose ==
  ASSUME QuoteInv, ChooseClass
  PROVE  QuoteInv'
<1>1. /\ lot' = lot /\ market' = market /\ decision' = NoDecision /\ quoted' = NoQuote
      /\ lot # NoLot
  BY DEF ChooseClass, QuoteInv, DecisionInv
<1>2. class' \in Range(VesselClasses)
  <2>1. class' \in lot.feasible \/ class' = ClassFor(lot.tonnes)
    BY DEF ChooseClass
  <2>2. lot \in LotRequests
    BY <1>1 DEF QuoteInv, LotInv
  <2> QED
    BY <2>1, <2>2, ClassForIs, QuoteDeskAssumption
<1>3. LotInv' /\ ClassInv' /\ DecisionInv' /\ QuotedInv' /\ AnswerInv'
  BY <1>1, <1>2 DEF QuoteInv, LotInv, ClassInv, DecisionInv, QuotedInv, AnswerInv, Answered
<1> QED
  BY <1>3 DEF QuoteInv

LEMMA QuoteInvDecide ==
  ASSUME QuoteInv, Decide
  PROVE  QuoteInv'
<1>1. /\ lot' = lot /\ market' = market /\ class' = class /\ quoted' = NoQuote
      /\ class # NoClass /\ Weighing(FansOf(market, class), lot) # {}
  BY DEF Decide, PricedAs
<1>2. lot \in LotRequests /\ market \in Markets /\ class \in Range(VesselClasses) /\ lot # NoLot
  BY <1>1 DEF QuoteInv, ClassInv, LotInv
<1>3. PICK strike, rate :
        /\ strike = StrikeOf(market, class, lot) /\ rate = RateOf(market, class)
        /\ \/ decision' = Plainly(strike, rate)
           \/ \E boundary \in Boundaries(strike), delay \in Delays :
                decision' = Fuse(Plainly(strike, rate), rate, boundary, delay, lot.term)
  <2>1. \E strike \in {StrikeOf(market, class, lot)}, rate \in {RateOf(market, class)} :
           \/ decision' = Plainly(strike, rate)
           \/ \E boundary \in Boundaries(strike), delay \in Delays :
                decision' = Fuse(Plainly(strike, rate), rate, boundary, delay, lot.term)
    BY DEF Decide, Strike, StrikeOf, PricedAs
  <2> QED
    BY <2>1
<1>4. Threshold(strike) /\ rate \in Nat
  <2>1. Shelf(FansOf(market, class)) /\ \A fan \in FansOf(market, class) : fan.p10 >= 100
    BY <1>2, FansAre
  <2>2. lot.route \in DOMAIN RouteBasis
    BY <1>2, QuoteDeskAssumption
  <2> DEFINE shown == RouteAdjusted(FansOf(market, class), lot.route)
  <2>3. Shelf(shown) /\ Weighing(shown, lot) # {}
    BY <1>1, <1>2, <2>1, <2>2, AdjustedAre
  <2>4. strike = Ceiling(shown, lot)
    BY <1>3 DEF StrikeOf
  <2> HIDE DEF shown
  <2>5. strike.num \in Int /\ strike.den \in Nat \ {0}
    BY <1>2, <2>3, <2>4, CeilingIsMean
  <2>6. strike = [num |-> strike.num, den |-> strike.den]
    BY <2>4 DEF Ceiling
  <2>7. rate \in Nat
    BY <1>2, <1>3, FansAre
  <2> QED
    BY <2>5, <2>6, <2>7 DEF Threshold
<1>5. decision'.strike = strike /\ Figures(decision', rate)
  <2>1. CASE decision' = Plainly(strike, rate)
    <3>1. Plainly(strike, rate).strike = strike
      BY DEF Plainly
    <3> QED
      BY <1>4, <2>1, <3>1, PlainFigures
  <2>2. ASSUME NEW boundary \in Boundaries(strike), NEW delay \in Delays,
               decision' = Fuse(Plainly(strike, rate), rate, boundary, delay, lot.term)
        PROVE  decision'.strike = strike /\ Figures(decision', rate)
    <3>1. Threshold(boundary)
      BY <1>4, QuoteDeskAssumption DEF Boundaries, Threshold
    <3>2. delay \in Nat /\ lot.term \in Nat \ {0}
      BY <1>2, QuoteDeskAssumption
    <3>3. Fuse(Plainly(strike, rate), rate, boundary, delay, lot.term).strike = strike
      BY DEF Fuse, Plainly
    <3> QED
      BY <1>4, <2>2, <3>1, <3>2, <3>3, FusedFigures
  <2> QED
    BY <1>3, <2>1, <2>2
<1>6. DecidedFor(decision', market, class, lot)
  BY <1>1, <1>3, <1>5 DEF DecidedFor
<1>7. DecisionInv'
  BY <1>1, <1>6 DEF DecisionInv
<1>8. LotInv' /\ ClassInv' /\ QuotedInv' /\ AnswerInv'
  BY <1>1, <1>2 DEF LotInv, ClassInv, QuotedInv, AnswerInv, Answered
<1> QED
  BY <1>7, <1>8 DEF QuoteInv

LEMMA QuoteInvDeliver ==
  ASSUME QuoteInv, Deliver
  PROVE  QuoteInv'
<1>1. /\ lot' = lot /\ market' = market /\ class' = class /\ decision' = decision
      /\ decision # NoDecision
  BY DEF Deliver
<1>2. class # NoClass /\ lot # NoLot
  BY <1>1 DEF QuoteInv, DecisionInv, ClassInv
<1>3. PICK some \in SUBSET lot.fleet, assessed \in BOOLEAN :
        quoted' = Answer({Move(v) : v \in some}, assessed)
  <2>1. PICK taken \in {{}} \cup {{v} : v \in lot.fleet}, assessed \in BOOLEAN :
          quoted' = Answer({Move(v) : v \in lot.fleet \ taken}, assessed)
    BY DEF Deliver
  <2>2. lot.fleet \ taken \in SUBSET lot.fleet
    OBVIOUS
  <2> QED
    BY <2>1, <2>2
<1>4. Answer({Move(v) : v \in some}, assessed)' = Answer({Move(v) : v \in some}, assessed)
  BY <1>1 DEF Answer
<1>5. AnswerInv'
  BY <1>1, <1>3, <1>4 DEF AnswerInv
<1>6. LotInv' /\ ClassInv' /\ QuotedInv'
  BY <1>1, <1>2 DEF QuoteInv, LotInv, ClassInv, QuotedInv
<1>7. DecisionInv'
  BY <1>1 DEF QuoteInv, DecisionInv
<1> QED
  BY <1>5, <1>6, <1>7 DEF QuoteInv

LEMMA QuoteInvClose ==
  ASSUME QuoteInv, CloseQuote \/ UNCHANGED quoteVars
  PROVE  QuoteInv'
<1>1. CASE CloseQuote
  BY <1>1 DEF CloseQuote, QuoteInv, LotInv, ClassInv, DecisionInv, QuotedInv, AnswerInv, Answered
<1>2. CASE UNCHANGED quoteVars
  <2>1. /\ lot' = lot /\ market' = market /\ class' = class /\ decision' = decision
        /\ quoted' = quoted
    BY <1>2 DEF quoteVars
  <2>2. LotInv' /\ ClassInv' /\ QuotedInv'
    BY <2>1 DEF QuoteInv, LotInv, ClassInv, QuotedInv
  <2>3. DecisionInv'
    BY <2>1 DEF QuoteInv, DecisionInv
  <2>4. AnswerInv'
    <3> SUFFICES ASSUME Answered
                 PROVE  /\ decision # NoDecision
                        /\ \E some \in SUBSET lot'.fleet, assessed \in BOOLEAN :
                             quoted' = Answer({Move(v) : v \in some}, assessed)'
      BY <2>1 DEF AnswerInv, Answered
    <3>1. PICK some \in SUBSET lot.fleet, assessed \in BOOLEAN :
            decision # NoDecision /\ quoted = Answer({Move(v) : v \in some}, assessed)
      BY DEF QuoteInv, AnswerInv
    <3>2. Answer({Move(v) : v \in some}, assessed)' = Answer({Move(v) : v \in some}, assessed)
      BY <2>1 DEF Answer
    <3> QED
      BY <2>1, <3>1, <3>2
  <2> QED
    BY <2>2, <2>3, <2>4 DEF QuoteInv
<1> QED
  BY <1>1, <1>2

(* Every quote agrees with itself: the threshold lies among the blended    *)
(* rates of the fan it shows, its advice follows from its figures, its     *)
(* window is before the laycan, its quantiles are in order, and its map    *)
(* shows the moves it recommends (opt/quote.py, opt/api.py).               *)
THEOREM QuotesAgree == QuoteSpec => []QuoteAgreesWithItself
<1>1. QuoteInit => QuoteInv
  BY QuoteInvInit
<1>2. QuoteInv /\ [QuoteNext]_quoteVars => QuoteInv'
  <2> SUFFICES ASSUME QuoteInv, [QuoteNext]_quoteVars PROVE QuoteInv'
    OBVIOUS
  <2>1. ASSUME NEW r \in LotRequests, NEW data \in Markets, AskQuote(r, data) PROVE QuoteInv'
    BY <2>1, QuoteInvAsk
  <2>2. CASE NothingToPrice \/ CannotDecide
    BY <2>2, QuoteInvRefuse
  <2>3. CASE ChooseClass
    BY <2>3, QuoteInvChoose
  <2>4. CASE Decide
    BY <2>4, QuoteInvDecide
  <2>5. CASE Deliver
    BY <2>5, QuoteInvDeliver
  <2>6. CASE CloseQuote \/ UNCHANGED quoteVars
    BY <2>6, QuoteInvClose
  <2> QED
    BY <2>1, <2>2, <2>3, <2>4, <2>5, <2>6 DEF QuoteNext
<1>3. QuoteInv => QuoteAgreesWithItself
  BY AnswersAgree
<1> QED
  BY <1>1, <1>2, <1>3, PTL DEF QuoteSpec
==============================================================================
