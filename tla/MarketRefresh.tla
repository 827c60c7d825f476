---------------------------- MODULE MarketRefresh ---------------------------
(***************************************************************************)
(* One pass of the rate-refresh loop (backend/main.py, _refresh_rates_once)*)
(* over its three sources: class averages, lane rates (src/src/            *)
(* data_builders/harvest_route_rates.py) and port calls (harvest_portwatch.*)
(* py), each stored in files of its own and folded into master_long.       *)
(* parquet.  One worker thread runs the passes one after the other.        *)
(*                                                                         *)
(* Only days matter here, the figures are RateHarvest's subject, and so is *)
(* which of the published days a harvest of class averages brings: any of  *)
(* them, here.  Folds move a finished file into place, so each is one step.*)
(***************************************************************************)
EXTENDS Integers, Sequences, FiniteSets, FiniteSetsExt

CONSTANTS
  PortFiles,     \* the *_daily_portcalls.csv files, in the order of their names
  KnownPorts,    \* those whose PW_ series master_long carries
  FirstDay,      \* the day the model begins: rates are current, ports at day 1
  LastDay,       \* bound: the day it ends
  MaxFailures,   \* bound: requests to a source that fail
  MaxCrashes     \* bound: times the process is killed and restarted

FiledPorts == {PortFiles[i] : i \in DOMAIN PortFiles}
Days  == 1 .. LastDay

ASSUME MarketAssumption ==
  /\ PortFiles \in Seq(FiledPorts)
  /\ KnownPorts \subseteq FiledPorts
  /\ LastDay \in Nat /\ FirstDay \in 1 .. LastDay /\ MaxFailures \in Nat /\ MaxCrashes \in Nat

VARIABLES
  today,       \* every day the sources publish class averages and lanes
  published,   \* published[p]: the last day the port service has rows for
  classDays,   \* master: days of the class averages
  laneFile,    \* days in the lanes' CSV
  laneDays,    \* master: days of the HB_ series
  portFile,    \* portFile[p]: days in the file of port p
  portDays,    \* master: portDays[p], days of its PW_ series
  version,     \* modification time of the master: times it was replaced
  pass,        \* where the pass stands
  landed,      \* history: a fold of the ports, and nothing appended since
  failures, crashes   \* what the bounds count

sources == <<today, published>>
stores  == <<classDays, laneFile, laneDays, portFile, portDays, version>>
vars    == <<sources, stores, pass, landed, failures, crashes>>

Idle == [phase |-> "idle"]
Latest(days) == Max(days)

Init ==
  /\ today = FirstDay
  /\ published = [p \in FiledPorts |-> 1]
  /\ classDays = 1 .. FirstDay /\ laneFile = classDays /\ laneDays = classDays
  /\ portFile = [p \in FiledPorts |-> {1}]
  /\ portDays = [p \in FiledPorts |-> IF p \in KnownPorts THEN {1} ELSE {}]
  /\ version = 1
  /\ pass = Idle
  /\ landed = TRUE
  /\ failures = 0 /\ crashes = 0

-----------------------------------------------------------------------------
(* The sources.  Port rows come late, and in the order of their days.      *)

DayPasses ==
  /\ today < LastDay
  /\ today' = today + 1
  /\ UNCHANGED <<published, stores, pass, landed, failures, crashes>>

PortReports(p) ==
  /\ published[p] < today
  /\ published' = [published EXCEPT ![p] = @ + 1]
  /\ UNCHANGED <<today, stores, pass, landed, failures, crashes>>

-----------------------------------------------------------------------------
(* The pass.                                                               *)

BeginPass ==
  /\ pass = Idle
  /\ pass' = [phase |-> "classes"]
  /\ UNCHANGED <<sources, stores, landed, failures, crashes>>

(* A fetch of the class averages that fails ends the pass: return 0.       *)
ClassesFail ==
  /\ pass.phase = "classes"
  /\ failures < MaxFailures
  /\ failures' = failures + 1
  /\ pass' = Idle
  /\ UNCHANGED <<sources, stores, landed, crashes>>

RefreshClasses ==
  /\ pass.phase = "classes"
  /\ \E days \in SUBSET (1 .. today) :
       /\ classDays' = classDays \cup days
       /\ version' = IF days \subseteq classDays THEN version ELSE version + 1
  /\ pass' = [phase |-> "lanes"]
  /\ UNCHANGED <<sources, laneFile, laneDays, portFile, portDays,
                 landed, failures, crashes>>

(* The page carries the lanes of one day.  Unreachable or unreadable: the  *)
(* next source.                                                            *)
AskPorts == [phase |-> "ports", todo |-> PortFiles, fresh |-> [p \in FiledPorts |-> {}]]

LanesFail ==
  /\ pass.phase = "lanes"
  /\ failures < MaxFailures
  /\ failures' = failures + 1
  /\ pass' = AskPorts
  /\ UNCHANGED <<sources, stores, landed, crashes>>

BadAppendLanes ==                 \* mutant: the CSV is left for later
  /\ pass.phase = "lanes"
  /\ pass' = [phase |-> "foldLanes", day |-> today]
  /\ UNCHANGED <<sources, stores, landed, failures, crashes>>

AppendLanes ==
  /\ pass.phase = "lanes"
  /\ laneFile' = laneFile \cup {today}
  /\ pass' = [phase |-> "foldLanes", day |-> today]
  /\ UNCHANGED <<sources, classDays, laneDays, portFile, portDays, version,
                 landed, failures, crashes>>

FoldLanes ==
  /\ pass.phase = "foldLanes"
  /\ laneDays' = laneDays \cup {pass.day}
  /\ version' = IF pass.day \in laneDays THEN version ELSE version + 1
  /\ pass' = AskPorts
  /\ UNCHANGED <<sources, classDays, laneFile, portFile, portDays,
                 landed, failures, crashes>>

(* refresh_ports, one file after the other: a port is asked for the rows   *)
(* that are newer than the newest of its own file.                         *)
BadNewerPage(p) ==                \* mutant: the newest row the service has
  {published[p]} \ portFile[p]

Newer(p) == {d \in Days : d <= published[p] /\ d > Latest(portFile[p])}

PullPort ==
  /\ pass.phase = "ports" /\ pass.todo # <<>>
  /\ LET p == Head(pass.todo) IN
       /\ portFile' = [portFile EXCEPT ![p] = @ \cup Newer(p)]
       /\ landed' = (landed /\ Newer(p) = {})
       /\ pass' = [phase |-> "ports", todo |-> Tail(pass.todo),
                   fresh |-> [pass.fresh EXCEPT ![p] = Newer(p)]]
  /\ UNCHANGED <<sources, classDays, laneFile, laneDays, portDays, version,
                 failures, crashes>>

(* A port that cannot be reached is passed over; an answer that is no JSON *)
(* is not caught here, and ends the pass without a fold.                   *)
PortFails ==
  /\ pass.phase = "ports" /\ pass.todo # <<>>
  /\ failures < MaxFailures
  /\ failures' = failures + 1
  /\ pass' \in {Idle, [pass EXCEPT !.todo = Tail(@)]}
  /\ UNCHANGED <<sources, stores, landed, crashes>>

(* update_master_ports: if any row was added, every row of every file goes *)
(* into the series the master already carries.                             *)
BadFoldPorts ==                   \* mutant: only the rows of this pass
  /\ pass.phase = "ports" /\ pass.todo = <<>>
  /\ portDays' = [p \in FiledPorts |->
       IF p \in KnownPorts THEN portDays[p] \cup pass.fresh[p] ELSE portDays[p]]
  /\ version' = IF portDays' = portDays THEN version ELSE version + 1
  /\ landed' = (landed \/ \E p \in FiledPorts : pass.fresh[p] # {})
  /\ pass' = Idle
  /\ UNCHANGED <<sources, classDays, laneFile, laneDays, portFile,
                 failures, crashes>>

FoldPorts ==
  /\ pass.phase = "ports" /\ pass.todo = <<>>
  /\ LET added == \E p \in FiledPorts : pass.fresh[p] # {} IN
       /\ portDays' = [p \in FiledPorts |->
            IF added /\ p \in KnownPorts THEN portDays[p] \cup portFile[p] ELSE portDays[p]]
       /\ version' = IF portDays' = portDays THEN version ELSE version + 1
       /\ landed' = (landed \/ added)
  /\ pass' = Idle
  /\ UNCHANGED <<sources, classDays, laneFile, laneDays, portFile,
                 failures, crashes>>

Step ==
  \/ BeginPass
  \/ RefreshClasses
  \/ AppendLanes
  \/ FoldLanes
  \/ PullPort
  \/ FoldPorts

Kill ==
  /\ crashes < MaxCrashes
  /\ crashes' = crashes + 1
  /\ pass' = Idle
  /\ UNCHANGED <<sources, stores, landed, failures>>

Market ==
  \/ DayPasses
  \/ \E p \in FiledPorts : PortReports(p)
  \/ Step
  \/ ClassesFail
  \/ LanesFail
  \/ PortFails

Spec == Init /\ [][Market \/ Kill]_vars

-----------------------------------------------------------------------------
(* Properties.                                                             *)

(* "Without this the refresh only half-lands": once a pass that added rows *)
(* has folded them, the master has every row of the files, those that a    *)
(* killed or broken-off pass left behind included.                         *)
LandsWhole == landed => \A p \in KnownPorts : portDays[p] = portFile[p]

(* A port's file has no hole: whatever pass failed, was broken off or was  *)
(* killed, the days it missed are asked for by a later one.                *)
PortFilesHaveNoHoles == \A p \in FiledPorts : portFile[p] = 1 .. Latest(portFile[p])

(* A rebuild of the master, which reads the CSVs, brings back every lane.  *)
LanesRebuildable == laneDays \subseteq laneFile

(* "A class-average fetch that works must not be held hostage to a lane    *)
(* page that does not, and vice versa": a pass that is not killed has asked*)
(* for the lanes, and comes to its end with the ports.                     *)
LanesNotHostage ==
  [][pass # Idle /\ pass' = Idle /\ crashes' = crashes => pass.phase = "ports"]_vars

=============================================================================
