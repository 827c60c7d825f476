---------------------------- MODULE QuoteVintage ----------------------------
(***************************************************************************)
(* Quotes beside the refresh of the market data: src/src/opt/quote.py reads*)
(* master_long.parquet several times for one answer (src/src/ml/           *)
(* live_forecast.py), takes the route-basis table from a cache of the      *)
(* process, may solve again with loosened constraints, and the route in    *)
(* backend/main.py then records the recommendation with the version of the *)
(* data (src/src/opt/ledger.py, current_data_version).  MarketRefresh      *)
(* replaces the master at any moment in between.                           *)
(***************************************************************************)
EXTENDS MarketRefresh

CONSTANTS
  Quoters,     \* threads of the server's pool that handle quotes
  Lookback     \* _MAX_BACKWARD_LOOKBACK_DAYS

ASSUME QuoteAssumption == Lookback \in Nat

VARIABLES
  basis,       \* _ROUTE_BASIS_TABLE: the version it was built from, or NoTable
  quoting,     \* quoting[q]: where quoter q stands
  entry        \* the last ledger entry

quotes   == <<basis, quoting, entry>>
deskVars == <<vars, quotes>>

NoTable == 0
NoEntry == [stamp |-> 0, newest |-> 0, real |-> FALSE, priced |-> {}]
NoAsOf  == 0      \* a caller who omits as_of
Solves  == 3      \* as asked, laycan widened, part cargo with transshipment

DeskInit ==
  /\ Init
  /\ basis = NoTable
  /\ quoting = [q \in Quoters |-> Idle]
  /\ entry = NoEntry

-----------------------------------------------------------------------------
(* resolve_as_of: the latest day with data on or before the day requested, *)
(* within a bounded lookback, or the day requested.                        *)
ResolveAsOf(requested) ==
  LET dates == {d \in classDays : d <= requested /\ d >= requested - Lookback}
  IN IF dates = {} THEN requested ELSE Latest(dates)

(* What the next read of the master makes the newest data behind an answer.*)
Newest(q) == Max({quoting[q].newest, version})

(* quote_envelope resolves the day.  newest and priced collect the newest  *)
(* data behind the answer and the days it was priced on; real says whether *)
(* the day resolved had data.                                              *)
Ask(q, requested) ==
  /\ quoting[q] = Idle
  /\ LET day == IF requested = NoAsOf THEN Latest(classDays) ELSE ResolveAsOf(requested)
     IN quoting' = [quoting EXCEPT ![q] =
          [phase |-> "resolve", day |-> day, real |-> day \in classDays, solve |-> 1,
           asOf |-> day, newest |-> version, priced |-> {}]]
  /\ UNCHANGED <<vars, basis, entry>>

Refuse(q) == quoting' = [quoting EXCEPT ![q] = Idle]

(* A structural problem answers without a solve, and nothing is recorded.  *)
Impossible(q) ==
  /\ quoting[q].phase = "resolve" /\ quoting[q].solve = 1
  /\ Refuse(q)
  /\ UNCHANGED <<vars, basis, entry>>

(* Each solve is a call of quote, which resolves the resolved day again,   *)
BadResolve(q) ==                  \* mutant: a solve prices the latest data
  /\ quoting[q].phase = "resolve"
  /\ quoting' = [quoting EXCEPT ![q].phase = "forecast", ![q].newest = Newest(q),
                                ![q].asOf = Latest(classDays)]
  /\ UNCHANGED <<vars, basis, entry>>

Resolve(q) ==
  /\ quoting[q].phase = "resolve"
  /\ quoting' = [quoting EXCEPT ![q].phase = "forecast", ![q].newest = Newest(q),
                                ![q].asOf = ResolveAsOf(quoting[q].day)]
  /\ UNCHANGED <<vars, basis, entry>>

(* reads the master again for the forecast of that day,                    *)
BadSolve(q, n) ==                 \* mutant: one attempt too many
  IF n > Solves + 1 THEN Refuse(q)
  ELSE quoting' = [quoting EXCEPT ![q].phase = "resolve", ![q].solve = n]

Solve(q, n) ==
  IF n > Solves THEN Refuse(q)
  ELSE quoting' = [quoting EXCEPT ![q].phase = "resolve", ![q].solve = n]

Forecast(q) ==
  /\ quoting[q].phase = "forecast"
  /\ IF quoting[q].asOf \in classDays
       THEN quoting' = [quoting EXCEPT ![q].phase = "basis", ![q].newest = Newest(q),
                                       ![q].priced = @ \cup {quoting[q].asOf}]
     ELSE IF quoting[q].solve = 1 THEN Refuse(q)       \* InsufficientMarketDataError, a 503
     ELSE Solve(q, quoting[q].solve + 1)
  /\ UNCHANGED <<vars, basis, entry>>

(* and takes the basis table, which the first one in the process builds.   *)
CachedBasis(q) ==
  /\ quoting[q].phase = "basis" /\ basis # NoTable
  /\ quoting' = [quoting EXCEPT ![q].phase = "judge", ![q].newest = Max({@, basis})]
  /\ UNCHANGED <<vars, basis, entry>>

BuildBasis(q) ==
  /\ quoting[q].phase = "basis" /\ basis = NoTable
  /\ quoting' = [quoting EXCEPT ![q].phase = "install", ![q].newest = Newest(q)]
  /\ UNCHANGED <<vars, basis, entry>>

InstallBasis(q) ==
  /\ quoting[q].phase = "install"
  /\ basis' = quoting[q].newest
  /\ quoting' = [quoting EXCEPT ![q].phase = "judge"]
  /\ UNCHANGED <<vars, entry>>

(* The solve may be blocked: then the next one is tried, if there is one.  *)
Judge(q) ==
  /\ quoting[q].phase = "judge"
  /\ \/ Solve(q, quoting[q].solve + 1)
     \/ quoting' = [quoting EXCEPT ![q].phase = "record"]
  /\ UNCHANGED <<vars, basis, entry>>

(* The entry is stamped with the version of the master at this moment.     *)
BadRecord(q) ==                   \* mutant: stamped with the basis table's
  /\ quoting[q].phase = "record"
  /\ entry' = [stamp |-> basis, newest |-> quoting[q].newest,
               real |-> quoting[q].real, priced |-> quoting[q].priced]
  /\ Refuse(q)
  /\ UNCHANGED <<vars, basis>>

Record(q) ==
  /\ quoting[q].phase = "record"
  /\ entry' = [stamp |-> version, newest |-> quoting[q].newest,
               real |-> quoting[q].real, priced |-> quoting[q].priced]
  /\ Refuse(q)
  /\ UNCHANGED <<vars, basis>>

(* A kill takes the requests and the cache with it.                        *)
Restart ==
  /\ Kill
  /\ basis' = NoTable
  /\ quoting' = [q \in Quoters |-> Idle]
  /\ UNCHANGED entry

Quote(q) ==
  \/ \E requested \in {NoAsOf} \cup Days : Ask(q, requested)
  \/ Impossible(q)
  \/ Resolve(q)
  \/ Forecast(q)
  \/ CachedBasis(q)
  \/ BuildBasis(q)
  \/ InstallBasis(q)
  \/ Judge(q)
  \/ Record(q)

DeskNext ==
  \/ Market /\ UNCHANGED quotes
  \/ Restart
  \/ \E q \in Quoters : Quote(q)

DeskSpec == DeskInit /\ [][DeskNext]_deskVars

-----------------------------------------------------------------------------
(* Properties.                                                             *)

Quoting ==
  {Idle} \cup
  [phase: {"resolve", "forecast", "basis", "install", "judge", "record"},
   day: Days, real: BOOLEAN, solve: 1 .. Solves, asOf: Days,
   newest: Nat \ {0}, priced: SUBSET Days]

(* Stores hold days that were published, quotes what their next step needs.*)
TypeOK ==
  /\ today \in Days
  /\ published \in [FiledPorts -> 1 .. today]
  /\ classDays \cup laneFile \cup laneDays \subseteq 1 .. today
  /\ portFile \in [FiledPorts -> SUBSET (1 .. today)]
  /\ portDays \in [FiledPorts -> SUBSET (1 .. today)]
  /\ version \in Nat \ {0} /\ basis \in 0 .. version
  /\ quoting \in [Quoters -> Quoting]

(* What the refresh leaves in the files is whole, and a quote in progress  *)
(* carries what its next step needs.                                       *)
StoresAreSound == TypeOK /\ LandsWhole /\ PortFilesHaveNoHoles /\ LanesRebuildable

(* One answer, one day: if the day resolved had data, every solve behind   *)
(* the answer and the entry is priced on one day, whatever the refresh adds*)
(* in between.                                                             *)
OneDayPerAnswer == entry.real => Cardinality(entry.priced) = 1

(* An entry rests on no data newer than its stamp, so that "a later review *)
(* of an old entry" is never shown data the price could not have known.    *)
NothingNewerThanStamp == entry.newest <= entry.stamp

=============================================================================
