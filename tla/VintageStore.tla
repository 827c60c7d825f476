---------------------------- MODULE VintageStore ----------------------------
(***************************************************************************)
(* Two series the desk's builders keep by hand-run scripts:                *)
(*   src/src/data_builders/pit_archive.py, the point-in-time archive: a    *)
(*     parquet file for each content of a source, and a manifest of what   *)
(*     was seen when;                                                      *)
(*   src/src/data_builders/harvest_gdelt.py, the weekly conflict series: a *)
(*     week's rows are appended once its days have been fetched.           *)
(* Runs follow one another, and a kill may fall between any two steps.     *)
(* A content is a version of its source; of a week, the days counted.      *)
(***************************************************************************)
EXTENDS Integers, Sequences, FiniteSetsExt

CONSTANTS
  Versions,    \* contents the source takes, one after another and back again
  WeekLength,  \* days of an ISO week
  LastDay,     \* bound: days the model lasts
  MaxManifest, \* bound: archive attempts
  NoSnapshot,  \* None
  Unreadable   \* read_parquet raises

ASSUME VintageAssumption ==
  WeekLength \in Nat \ {0} /\ LastDay \in Nat /\ MaxManifest \in Nat

VARIABLES
  today,
  source,      \* the content of master_long.parquet
  snapshot,    \* snapshot[v]: "none", "half" or "whole", the file of content v
  cutShort,    \* history: the contents whose file a kill left half written
  manifest,    \* manifest.jsonl: [day, version]
  archiver,    \* the archive run in progress
  weeks,       \* chokepoint_conflict_weekly.csv: week -> days its rows count
  harvest      \* the harvest in progress

pitVars == <<source, snapshot, cutShort, manifest, archiver>>
gdeltVars == <<weeks, harvest>>
vintageVars == <<today, pitVars, gdeltVars>>

NoRun == [op |-> "idle"]
WeekOf(d) == d \div WeekLength
DaysOf(w) == {d \in 0..LastDay : WeekOf(d) = w}

VintageInit ==
  /\ today = 0
  /\ source \in Versions
  /\ snapshot = [v \in Versions |-> "none"] /\ cutShort = {}
  /\ manifest = <<>>
  /\ archiver = NoRun
  /\ weeks = <<>>
  /\ harvest = NoRun

NextDay ==
  /\ today < LastDay
  /\ today' = today + 1
  /\ UNCHANGED <<pitVars, gdeltVars>>

Revise ==      \* the source publishes, or revises, its history
  /\ source' \in Versions \ {source}
  /\ UNCHANGED <<today, snapshot, cutShort, manifest, archiver, gdeltVars>>

-----------------------------------------------------------------------------
(* archive_all_sources takes the time once; archive_snapshot then reads the *)
(* source, writes the file of its content if it is not there, and appends  *)
(* to the manifest whether it was or not.                                  *)

BeginArchive ==
  /\ archiver = NoRun /\ Len(manifest) < MaxManifest
  /\ archiver' = [op |-> "read", version |-> NoSnapshot, day |-> today]
  /\ UNCHANGED <<today, source, snapshot, cutShort, manifest, gdeltVars>>

ReadSource ==
  /\ archiver.op = "read"
  /\ archiver' = [archiver EXCEPT !.op = "write", !.version = source]
  /\ UNCHANGED <<today, source, snapshot, cutShort, manifest, gdeltVars>>

WriteSnapshot ==      \* in two steps, straight to its place
  /\ archiver.op \in {"write", "fill"}
  /\ LET v == archiver.version IN
       CASE archiver.op = "fill" ->
              /\ snapshot' = [snapshot EXCEPT ![v] = "whole"]
              /\ archiver' = [archiver EXCEPT !.op = "record"]
         [] archiver.op = "write" /\ snapshot[v] # "none" ->     \* path.exists()
              /\ archiver' = [archiver EXCEPT !.op = "record"]
              /\ UNCHANGED snapshot
         [] OTHER ->
              /\ snapshot' = [snapshot EXCEPT ![v] = "half"]
              /\ archiver' = [archiver EXCEPT !.op = "fill"]
  /\ UNCHANGED <<today, source, cutShort, manifest, gdeltVars>>

BadRecorded(log, version) == \A i \in DOMAIN log : log[i].version # version   \* mutant: only new content
Recorded(log, version) == TRUE

AppendManifest ==
  /\ archiver.op = "record"
  /\ manifest' = IF Recorded(manifest, archiver.version)
                   THEN Append(manifest, [day |-> archiver.day, version |-> archiver.version])
                   ELSE manifest
  /\ archiver' = [archiver EXCEPT !.op = "done"]
  /\ UNCHANGED <<today, source, snapshot, cutShort, gdeltVars>>

EndArchive ==      \* what main() logs, or a kill
  /\ archiver # NoRun
  /\ archiver' = NoRun
  /\ cutShort' = cutShort \cup (IF archiver.op = "fill" THEN {archiver.version} ELSE {})
  /\ UNCHANGED <<today, source, snapshot, manifest, gdeltVars>>

BadSeenBy(d) == DOMAIN manifest                \* mutant: the latest of all
SeenBy(d) == {i \in DOMAIN manifest : manifest[i].day <= d}

(* The content the archive answers with for day d, read from its file;     *)
(* max() keeps the first of equals, but times of archiving differ.         *)
LastSeen(d) == manifest[Max(SeenBy(d))].version

load_snapshot_as_of(d) ==
  IF SeenBy(d) = {} \/ snapshot[LastSeen(d)] = "none" THEN NoSnapshot
  ELSE IF snapshot[LastSeen(d)] = "half" THEN Unreadable
  ELSE LastSeen(d)

-----------------------------------------------------------------------------
(* harvest: the weeks the file does not have, in order; of each, the days  *)
(* up to today, one request a day; a week of which no day came is left out.*)

Harvest ==      \* main(): from some day back to yesterday
  /\ harvest = NoRun /\ today > 0
  /\ \E start \in 0..today - 1 :
       harvest' = [op |-> "fetch", week |-> WeekOf(start), last |-> WeekOf(today - 1),
                   skip |-> DOMAIN weeks, day |-> Min(DaysOf(WeekOf(start))), got |-> {}]
  /\ UNCHANGED <<today, pitVars, weeks>>

BadWorthwhile(got) == TRUE               \* mutant: a week nothing came of is a quiet week
Worthwhile(got) == got # {}

Onward(h) ==    \* to the next week, or the end
  IF h.week = h.last THEN NoRun
  ELSE [h EXCEPT !.week = @ + 1, !.day = Min(DaysOf(h.week + 1)), !.got = {}]

FetchDay ==
  /\ harvest.op = "fetch"
  /\ LET h == harvest IN
       IF h.week \in h.skip THEN harvest' = Onward(h) /\ UNCHANGED weeks
       ELSE IF h.day \in DaysOf(h.week) /\ h.day <= today
       THEN /\ \/ harvest' = [h EXCEPT !.day = @ + 1, !.got = @ \cup {h.day}]
               \/ harvest' = [h EXCEPT !.day = @ + 1]       \* not there, or not now
            /\ UNCHANGED weeks
       ELSE /\ weeks' = IF Worthwhile(h.got)
                          THEN [w \in DOMAIN weeks \cup {h.week} |->
                                  IF w = h.week THEN h.got ELSE weeks[w]]
                          ELSE weeks
            /\ harvest' = Onward(h)
  /\ UNCHANGED <<today, pitVars>>

KillHarvest ==
  /\ harvest # NoRun
  /\ harvest' = NoRun
  /\ UNCHANGED <<today, pitVars, weeks>>

(* Bound: the two scripts are followed one at a time. *)
VintageNext ==
  \/ NextDay
  \/ /\ weeks = <<>> /\ harvest = NoRun
     /\ Revise \/ BeginArchive \/ ReadSource \/ WriteSnapshot \/ AppendManifest \/ EndArchive
  \/ /\ manifest = <<>> /\ archiver = NoRun /\ \A v \in Versions : snapshot[v] = "none"
     /\ Harvest \/ FetchDay \/ KillHarvest
  \/ today = LastDay /\ UNCHANGED vintageVars

-----------------------------------------------------------------------------
(* Properties.                                                             *)

(* "A repeat of identical content is a re-observation": the archive's      *)
(* answer for the day of a run is what the run read, also when the source  *)
(* has come back to a content of old.  Where an earlier run was killed in  *)
(* writing that content's file, which no later run writes again, there is  *)
(* no answer, and never a wrong one.                                       *)
ReobservationsCount ==
  archiver.op = "done" =>
    load_snapshot_as_of(archiver.day) =
      IF archiver.version \in cutShort THEN Unreadable ELSE archiver.version

(* "The frame as it was archived at the LATEST retrieval on or before      *)
(* as_of" (load_snapshot_as_of): a run that is done can be asked for what  *)
(* it archived.                                                            *)
ArchivedCanBeRead ==
  archiver.op = "done" => load_snapshot_as_of(archiver.day) = archiver.version

(* "What did source X look like as of date Y": once a day is over, and no  *)
(* run stamped by then is still going, the answer for it never changes,    *)
(* whatever is written to the files since.                                 *)
(* "Not writing a false zero": a week that has rows was fetched on some    *)
(* day of its own, and rows once written are never replaced.               *)
AnswersStand ==
  \A d \in 0..LastDay :
    d < today /\ (archiver = NoRun \/ archiver.day > d) =>
      load_snapshot_as_of(d)' = load_snapshot_as_of(d)

WeeksStand ==
  /\ \A w \in DOMAIN weeks' : weeks'[w] # {} /\ weeks'[w] \subseteq DaysOf(w)
  /\ \A w \in DOMAIN weeks : w \in DOMAIN weeks' /\ weeks'[w] = weeks[w]

(* The archive and the weekly series never take anything back.            *)
VintagesStand == [][ReobservationsCount' /\ AnswersStand /\ WeeksStand]_vintageVars

(* "Every week's 28 rows are appended together, once, after all of that    *)
(* week's real days have been fetched": no day was still to come.          *)
WeeksAreOver == \A w \in DOMAIN weeks : \A d \in DaysOf(w) : d <= today

=============================================================================
