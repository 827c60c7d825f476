----------------------------- MODULE PortArchive -----------------------------
(***************************************************************************)
(* The archiver of the ports' schedule pages (src/berth_truth/archiver.py,  *)
(* store.py, providers/html_table.py): a pass fetches each port's page,     *)
(* stores the bytes under their hash, parses them, stores the snapshot      *)
(* under port and hash, and writes one line to the log of observations.     *)
(*                                                                         *)
(* A page is named by its content, so a hash is the content itself.  A file *)
(* is written in two steps, opened and filled, and a pass may be killed     *)
(* between any two steps; a file found on disk is never written again.      *)
(***************************************************************************)
EXTENDS Integers, FiniteSets, SequencesExt

CONSTANTS SitePorts, Contents, NoPage, MaxLog

ASSUME ArchiveAssumption ==
  /\ IsFiniteSet(SitePorts) /\ SitePorts # {}
  /\ NoPage \notin Contents /\ MaxLog \in Nat

VARIABLES raw,     \* raw_html/<hash>.html: "none", "half" or "whole"
          snaps,   \* snapshots/<port>/<hash>.json, and what it was parsed from
          log,     \* observations.jsonl
          pass     \* the run of the archiver

archiveVars == <<raw, snaps, log, pass>>

NoPass == [step |-> "idle", todo |-> <<>>, content |-> NoPage, new |-> FALSE]

ArchiveInit ==
  /\ raw = [c \in Contents |-> "none"]
  /\ snaps = [key \in SitePorts \X Contents |-> "none"]
  /\ log = <<>>
  /\ pass = NoPass

Port == Head(pass.todo)
Key == <<Port, pass.content>>

\* One port, or archive_all in the order of SOURCE_URLS.
StartPass ==
  /\ pass.step \in {"idle", "killed"} /\ Len(log) < MaxLog
  /\ \E todo \in {<<port>> : port \in SitePorts} \cup {SetToSeq(SitePorts)} :
       pass' = [NoPass EXCEPT !.step = "fetch", !.todo = todo]
  /\ UNCHANGED <<raw, snaps, log>>

\* A port whose fetch failed is reported so, and the pass goes on to the next.
AfterFailure(todo) == Tail(todo)

NextPort(rest) ==
  [NoPass EXCEPT !.step = IF rest = <<>> THEN "idle" ELSE "fetch", !.todo = rest]

FetchFails ==
  /\ pass.step = "fetch"
  /\ pass' = NextPort(AfterFailure(pass.todo))
  /\ UNCHANGED <<raw, snaps, log>>

(***************************************************************************)
(* The site serves any page.  write_raw_html leaves a hash already on disk  *)
(* as it is.                                                                *)
(***************************************************************************)
Fetch ==
  /\ pass.step = "fetch"
  /\ \E c \in Contents :
       IF raw[c] = "none"
       THEN /\ raw' = [raw EXCEPT ![c] = "half"]
            /\ pass' = [pass EXCEPT !.step = "fill", !.content = c]
       ELSE /\ pass' = [pass EXCEPT !.step = "parse", !.content = c]
            /\ UNCHANGED raw
  /\ UNCHANGED <<snaps, log>>

FillPage ==
  /\ pass.step = "fill"
  /\ raw' = [raw EXCEPT ![pass.content] = "whole"]
  /\ pass' = [pass EXCEPT !.step = "parse"]
  /\ UNCHANGED <<snaps, log>>

BadIsNew(key) == TRUE

\* write_snapshot's answer: is there no file for this port and hash yet?
IsNew(key) == snaps[key] = "none"

(***************************************************************************)
(* parse reads the bytes back from the file under the hash, so a page half  *)
(* on disk gives the rows of that half.                                     *)
(***************************************************************************)
ParsePage ==
  /\ pass.step = "parse"
  /\ LET new == IsNew(Key)
     IN  /\ snaps' = IF new THEN [snaps EXCEPT ![Key] = "torn"] ELSE snaps
         /\ pass' = [pass EXCEPT !.step = IF new THEN "save" ELSE "log", !.new = new]
  /\ UNCHANGED <<raw, log>>

SaveSnapshot ==
  /\ pass.step = "save"
  /\ snaps' = [snaps EXCEPT ![Key] = raw[pass.content]]
  /\ pass' = [pass EXCEPT !.step = "log"]
  /\ UNCHANGED <<raw, log>>

Observe ==
  /\ pass.step = "log"
  /\ log' = Append(log, [port |-> Port, content |-> pass.content, new |-> pass.new])
  /\ pass' = NextPort(Tail(pass.todo))
  /\ UNCHANGED <<raw, snaps>>

KillPass ==
  /\ pass.step \notin {"idle", "killed"}
  /\ pass' = [NoPass EXCEPT !.step = "killed"]
  /\ UNCHANGED <<raw, snaps, log>>

\* The log is at its bound.
LogFull ==
  /\ pass.step \in {"idle", "killed"} /\ Len(log) >= MaxLog
  /\ UNCHANGED archiveVars

ArchiveNext ==
  \/ StartPass \/ FetchFails \/ Fetch \/ FillPage \/ ParsePage
  \/ SaveSnapshot \/ Observe \/ KillPass \/ LogFull

ArchiveSpec == ArchiveInit /\ [][ArchiveNext]_archiveVars

-----------------------------------------------------------------------------

(***************************************************************************)
(* store.append_observation, after kills at any step and repeated passes:   *)
(* a line of the log names a page and a snapshot that are on disk, and a     *)
(* line that calls its snapshot new is the first on it and the snapshot is  *)
(* written to its end.                                                      *)
(***************************************************************************)
LogMatchesDisk ==
  \A i \in DOMAIN log :
    LET key == <<log[i].port, log[i].content>>
    IN  /\ raw[log[i].content] # "none" /\ snaps[key] # "none"
        /\ log[i].new =>
             /\ snaps[key] # "torn"
             /\ \A j \in 1 .. (i - 1) : key # <<log[j].port, log[j].content>>

(***************************************************************************)
(* store.py:72-76: what is stored at a hash is byte for byte what the hash  *)
(* names; so no snapshot is the parse of half a page.                       *)
(***************************************************************************)
SnapshotsAreOfTheirPage == \A key \in DOMAIN snaps : snaps[key] # "half"
=============================================================================
