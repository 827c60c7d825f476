--------------------------- MODULE DecisionLedger ---------------------------
(***************************************************************************)
(* The live decision ledger, src/src/opt/ledger.py: two append-only JSONL  *)
(* files, one of recommendations and one of realised outcomes, written and *)
(* read by the request threads of backend/main.py with no lock.            *)
(*                                                                         *)
(* A file is a record: whether its name exists in the directory, which     *)
(* incarnation of the file the name points at (unlink ends an incarnation; *)
(* a handle opened before it keeps writing to the dead one, as on the      *)
(* POSIX hosts the service is deployed to), and the lines.  A call runs in *)
(* a worker thread, and every access it makes to a file is a step of its   *)
(* own.  The uuid4 of a record and its timestamp are drawn by the same     *)
(* statement: one stamp of an increasing clock stands for both.            *)
(***************************************************************************)
EXTENDS Integers, Sequences, FiniteSets, SequencesExt

CONSTANTS
  Workers,     \* threads of the server's pool that handle ledger requests
  Quotes,      \* today's quote of a recommendation, $/day
  Rates,       \* realised rates a caller may report, $/day
  Windows,     \* decision-date filters: sets of stamps
  MaxStamps,   \* bound: no record is begun once this many stamps are drawn
  MayCrash     \* TRUE if the process may be killed and restarted

ASSUME LedgerAssumption ==
  /\ Quotes \subseteq Int
  /\ Rates \subseteq Int
  /\ MaxStamps \in Nat
  /\ MayCrash \in BOOLEAN

VARIABLES
  entries,     \* ledger_entries.jsonl
  outcomes,    \* ledger_outcomes.jsonl
  clock,       \* the next stamp
  call,        \* call[w]: what worker w is in the middle of
  acked,       \* history: for either file, the lines whose append has returned
               \* and the incarnation they were written to
  written,     \* history: stamps of every entry that ever reached the file
  overlapped,  \* history: calls have overlapped, or a kill has cut one short
  summary,     \* the last PerformanceSummary returned
  resetReply   \* the last reply of reset_ledger, and what it really removed

vars == <<entries, outcomes, clock, call, acked, written, overlapped, summary, resetReply>>

-----------------------------------------------------------------------------

Stamp   == Nat
Actions == {"LOCK", "WAIT"}
Entry   == [at: Stamp, action: Actions, quote: Quotes]
Outcome == [at: Stamp, entry: Stamp, rate: {r \in Rates : r > 0}]
File(L) == [exists: BOOLEAN, gen: Nat, lines: Seq(L)]
NoFile  == [exists |-> FALSE, gen |-> 0, lines |-> <<>>]
None    == [kind |-> "none"]

Idle == [op |-> "idle"]
Call ==
  {Idle}
  \cup [op: {"writeEntry"}, entry: Entry, handle: Nat]
  \cup [op: {"openOutcome"}, about: Stamp, rate: {r \in Rates : r > 0}]
  \cup [op: {"writeOutcome"}, outcome: Outcome, handle: Nat]
  \cup [op: {"unlinkEntries", "countOutcomes", "unlinkOutcomes"},
        counted: Nat, removed: Nat]
  \cup [op: {"linkEntries"}, window: Windows, outcomes: SUBSET Outcome,
        owed: SUBSET Outcome, gens: Nat \X Nat]
  \cup [op: {"countTotal"}, window: Windows, pairs: SUBSET (Entry \X Outcome),
        owed: SUBSET Outcome, gens: Nat \X Nat]

Ids(f)   == {l.at : l \in ToSet(f.lines)}
Gens     == <<entries.gen, outcomes.gen>>

(* open(path, "a"): creates the file if the name is free. *)
Open(f)  == [f EXCEPT !.exists = TRUE]

(* The buffered line reaches the file when the handle is closed.  A handle *)
(* on an unlinked incarnation writes where nobody will read.               *)
BadWrite(f, handle, line) ==      \* mutant: open(path, "w")
  IF f.gen = handle THEN [f EXCEPT !.lines = <<line>>] ELSE f

Write(f, handle, line) ==
  IF f.gen = handle THEN [f EXCEPT !.lines = Append(@, line)] ELSE f

BadUnlink(f) ==                   \* mutant: the reset keeps the newest line
  IF f.lines = <<>> THEN f ELSE [f EXCEPT !.lines = <<Last(@)>>]

Unlink(f) == [exists |-> FALSE, gen |-> f.gen + 1, lines |-> <<>>]

Init ==
  /\ entries = NoFile
  /\ outcomes = NoFile
  /\ clock = 0
  /\ call = [w \in Workers |-> Idle]
  /\ acked = [entries |-> {}, outcomes |-> {}]
  /\ written = {}
  /\ overlapped = FALSE
  /\ summary = None
  /\ resetReply = None

-----------------------------------------------------------------------------
(* A call in progress while another begins, or the process is killed.      *)
NoteOverlap == overlapped' = (overlapped \/ \E v \in Workers : call[v] # Idle)

(* record_recommendation: the entry is stamped, then appended.             *)

RecordRecommendation(w, action, quote) ==
  /\ call[w] = Idle
  /\ clock < MaxStamps
  /\ call' = [call EXCEPT ![w] =
       [op |-> "writeEntry",
        entry |-> [at |-> clock, action |-> action, quote |-> quote],
        handle |-> entries.gen]]
  /\ clock' = clock + 1
  /\ entries' = Open(entries)
  /\ NoteOverlap
  /\ UNCHANGED <<outcomes, acked, written, summary, resetReply>>

WriteEntry(w) ==
  /\ call[w].op = "writeEntry"
  /\ entries' = Write(entries, call[w].handle, call[w].entry)
  /\ written' = IF entries.gen = call[w].handle
                  THEN written \cup {call[w].entry.at} ELSE written
  /\ acked' = [acked EXCEPT !.entries = @ \cup {<<call[w].entry, call[w].handle>>}]
  /\ call' = [call EXCEPT ![w] = Idle]
  /\ UNCHANGED <<outcomes, clock, summary, resetReply, overlapped>>

(* record_outcome: a rate that is not positive is a ValueError and an id   *)
(* that is not in the entries file a KeyError, neither of which writes.    *)
(* The check reads the entries file, the append opens the other one later. *)

BadRecordOutcome(w, entry, rate) ==     \* mutant: the id is not looked up
  /\ call[w] = Idle
  /\ clock < MaxStamps
  /\ rate > 0
  /\ call' = [call EXCEPT ![w] =
                [op |-> "openOutcome", about |-> entry, rate |-> rate]]
  /\ NoteOverlap
  /\ UNCHANGED <<entries, outcomes, clock, acked, written, summary, resetReply>>

BadRecordOutcomeRate(w, entry, rate) == \* mutant: the rate is not validated
  /\ call[w] = Idle
  /\ clock < MaxStamps
  /\ entry \in Ids(entries)
  /\ call' = [call EXCEPT ![w] =
                [op |-> "openOutcome", about |-> entry, rate |-> rate]]
  /\ NoteOverlap
  /\ UNCHANGED <<entries, outcomes, clock, acked, written, summary, resetReply>>

RecordOutcome(w, entry, rate) ==
  /\ call[w] = Idle
  /\ clock < MaxStamps
  /\ rate > 0
  /\ entry \in Ids(entries)
  /\ call' = [call EXCEPT ![w] =
                [op |-> "openOutcome", about |-> entry, rate |-> rate]]
  /\ NoteOverlap
  /\ UNCHANGED <<entries, outcomes, clock, acked, written, summary, resetReply>>

OpenOutcome(w) ==
  /\ call[w].op = "openOutcome"
  /\ call' = [call EXCEPT ![w] =
       [op |-> "writeOutcome",
        outcome |-> [at |-> clock, entry |-> call[w].about, rate |-> call[w].rate],
        handle |-> outcomes.gen]]
  /\ clock' = clock + 1
  /\ outcomes' = Open(outcomes)
  /\ UNCHANGED <<entries, acked, written, summary, resetReply, overlapped>>

WriteOutcome(w) ==
  /\ call[w].op = "writeOutcome"
  /\ outcomes' = Write(outcomes, call[w].handle, call[w].outcome)
  /\ acked' = [acked EXCEPT !.outcomes = @ \cup {<<call[w].outcome, call[w].handle>>}]
  /\ call' = [call EXCEPT ![w] = Idle]
  /\ UNCHANGED <<entries, clock, written, summary, resetReply, overlapped>>

-----------------------------------------------------------------------------
(* reset_ledger: for each file in turn, if it exists count its lines, then *)
(* unlink it.  unlink of a name another reset has removed meanwhile raises *)
(* FileNotFoundError and ends the call where it stands.                    *)

CountEntries(w) ==
  /\ call[w] = Idle
  /\ call' = [call EXCEPT ![w] =
       IF entries.exists
         THEN [op |-> "unlinkEntries", counted |-> Len(entries.lines), removed |-> 0]
         ELSE [op |-> "countOutcomes", counted |-> 0, removed |-> 0]]
  /\ NoteOverlap
  /\ UNCHANGED <<entries, outcomes, clock, acked, written, summary, resetReply>>

UnlinkEntries(w) ==
  /\ call[w].op = "unlinkEntries"
  /\ IF entries.exists
       THEN /\ entries' = Unlink(entries)
            /\ call' = [call EXCEPT ![w] =
                 [op |-> "countOutcomes", counted |-> @.counted,
                  removed |-> @.removed + Len(entries.lines)]]
       ELSE /\ call' = [call EXCEPT ![w] = Idle]
            /\ UNCHANGED entries
  /\ UNCHANGED <<outcomes, clock, acked, written, summary, resetReply, overlapped>>

BadCountOutcomes(w) ==            \* mutant: the reset stops after the entries
  /\ call[w].op = "countOutcomes"
  /\ call' = [call EXCEPT ![w] = Idle]
  /\ resetReply' = [kind |-> "reset", counted |-> call[w].counted,
                    removed |-> call[w].removed]
  /\ UNCHANGED <<entries, outcomes, clock, acked, written, summary, overlapped>>

CountOutcomes(w) ==
  /\ call[w].op = "countOutcomes"
  /\ IF outcomes.exists
       THEN /\ call' = [call EXCEPT ![w] =
                 [op |-> "unlinkOutcomes", removed |-> @.removed,
                  counted |-> @.counted + Len(outcomes.lines)]]
            /\ UNCHANGED resetReply
       ELSE /\ call' = [call EXCEPT ![w] = Idle]
            /\ resetReply' = [kind |-> "reset", counted |-> call[w].counted,
                              removed |-> call[w].removed]
  /\ UNCHANGED <<entries, outcomes, clock, acked, written, summary, overlapped>>

UnlinkOutcomes(w) ==
  /\ call[w].op = "unlinkOutcomes"
  /\ call' = [call EXCEPT ![w] = Idle]
  /\ IF outcomes.exists
       THEN /\ outcomes' = Unlink(outcomes)
            /\ resetReply' = [kind |-> "reset", counted |-> call[w].counted,
                              removed |-> call[w].removed + Len(outcomes.lines)]
       ELSE UNCHANGED <<outcomes, resetReply>>
  /\ UNCHANGED <<entries, clock, acked, written, summary, overlapped>>

-----------------------------------------------------------------------------
(* compute_performance.  entries_with_outcomes reads the outcomes and then *)
(* the entries; the total is a third read.  owed and gens are history: the *)
(* outcomes acknowledged when the call began, and the incarnations read.   *)

InWindow(f, window) == {e \in ToSet(f.lines) : e.at \in window}

(* The entries that have an outcome, each with the one recorded last. *)
BadLinked(es, os) ==              \* mutant: each with the one recorded first
  {p \in es \X os : /\ p[2].entry = p[1].at
                    /\ \A o \in os : o.entry = p[1].at => p[2].at <= o.at}

Linked(es, os) ==
  {p \in es \X os : /\ p[2].entry = p[1].at
                    /\ \A o \in os : o.entry = p[1].at => o.at <= p[2].at}

(* The savings a decision earned against paying spot, and a perfect one's. *)
Savings(action, quote, rate) == IF action = "LOCK" THEN rate - quote ELSE 0
BadOracleSavings(quote, rate) == \* mutant: the comparison is reversed
  IF quote >= rate THEN rate - quote ELSE 0
OracleSavings(quote, rate) == IF quote <= rate THEN rate - quote ELSE 0

Regret(e, o) == OracleSavings(e.quote, o.rate) - Savings(e.action, e.quote, o.rate)

Summary(pairs, total, call0) ==
  LET locks == {p \in pairs : p[1].action = "LOCK"} IN
  [kind |-> "summary", scored |-> Cardinality(pairs),
   pending |-> total - Cardinality(pairs),
   regret |-> MapThenSumSet(LAMBDA p : Regret(p[1], p[2]), pairs),
   locks |-> Cardinality(locks),
   right |-> Cardinality({p \in locks : p[1].quote <= p[2].rate}),
   pairs |-> pairs, owed |-> call0.owed, undisturbed |-> call0.gens = Gens]

ReadOutcomes(w, window) ==
  /\ call[w] = Idle
  /\ call' = [call EXCEPT ![w] =
       [op |-> "linkEntries", window |-> window, outcomes |-> ToSet(outcomes.lines),
        owed |-> {a[1] : a \in {x \in acked.outcomes : x[2] = outcomes.gen}},
        gens |-> Gens]]
  /\ NoteOverlap
  /\ UNCHANGED <<entries, outcomes, clock, acked, written, summary, resetReply>>

BadLinkEntries(w) ==              \* mutant: the date filter is forgotten here
  /\ call[w].op = "linkEntries"
  /\ call' = [call EXCEPT ![w] =
       [op |-> "countTotal", window |-> call[w].window,
        pairs |-> Linked(ToSet(entries.lines), call[w].outcomes),
        owed |-> call[w].owed, gens |-> call[w].gens]]
  /\ UNCHANGED <<entries, outcomes, clock, acked, written, summary, resetReply, overlapped>>

LinkEntries(w) ==
  /\ call[w].op = "linkEntries"
  /\ call' = [call EXCEPT ![w] =
       [op |-> "countTotal", window |-> call[w].window,
        pairs |-> Linked(InWindow(entries, call[w].window), call[w].outcomes),
        owed |-> call[w].owed, gens |-> call[w].gens]]
  /\ UNCHANGED <<entries, outcomes, clock, acked, written, summary, resetReply, overlapped>>

CountTotal(w) ==
  /\ call[w].op = "countTotal"
  /\ summary' = Summary(call[w].pairs,
                        Cardinality(InWindow(entries, call[w].window)), call[w])
  /\ call' = [call EXCEPT ![w] = Idle]
  /\ UNCHANGED <<entries, outcomes, clock, acked, written, resetReply, overlapped>>

-----------------------------------------------------------------------------

(* The process is killed: the calls are gone, the files stay. *)
Crash ==
  /\ MayCrash
  /\ call' = [w \in Workers |-> Idle]
  /\ NoteOverlap
  /\ UNCHANGED <<entries, outcomes, clock, acked, written, summary, resetReply>>

Next ==
  \/ \E w \in Workers :
       \/ \E action \in Actions, quote \in Quotes : RecordRecommendation(w, action, quote)
       \/ WriteEntry(w)
       \/ \E entry \in 0 .. clock - 1, rate \in Rates : RecordOutcome(w, entry, rate)
       \/ OpenOutcome(w)
       \/ WriteOutcome(w)
       \/ CountEntries(w)
       \/ UnlinkEntries(w)
       \/ CountOutcomes(w)
       \/ UnlinkOutcomes(w)
       \/ \E window \in Windows : ReadOutcomes(w, window)
       \/ LinkEntries(w)
       \/ CountTotal(w)
  \/ Crash

Spec == Init /\ [][Next]_vars

-----------------------------------------------------------------------------
(* Properties.                                                             *)

(* The files hold well-formed lines, outcomes with a positive rate only,   *)
(* and every call in progress carries the data its next step needs.        *)
TypeOK ==
  /\ entries \in File(Entry)
  /\ outcomes \in File(Outcome)
  /\ clock \in Stamp
  /\ call \in [Workers -> Call]
  /\ acked \in [entries: SUBSET (Entry \X Nat), outcomes: SUBSET (Outcome \X Nat)]
  /\ written \subseteq Stamp

(* Whatever interleaves and whenever the process dies, an outcome line     *)
(* names an entry that really reached the entries file at some time: the   *)
(* "real, already-recorded entry" of record_outcome.                       *)
OutcomesNameWrittenEntries == \A o \in ToSet(outcomes.lines) : o.entry \in written

(* What the files hold can be read back: well-formed lines, and outcomes of*)
(* entries the ledger recorded.                                            *)
LinesAreSound == TypeOK /\ OutcomesNameWrittenEntries

(* A recommendation whose call returned is in the ledger for as long as no *)
(* reset unlinked the file its line went to: nothing else loses a line,    *)
(* however many threads append and whenever the process dies.              *)
KeptIn(f, acks) == \A a \in acks : a[2] = f.gen => a[1] \in ToSet(f.lines)
AcknowledgedIsKept == KeptIn(entries, acked.entries) /\ KeptIn(outcomes, acked.outcomes)

(* Why they hold: an append in progress carries only what was checked      *)
(* against the entries file, and no handle is newer than its file.         *)
LinksKnown ==
  /\ Ids(entries) \subseteq written
  /\ \A w \in Workers :
       /\ call[w].op = "openOutcome" => call[w].about \in written
       /\ call[w].op = "writeOutcome" => call[w].outcome.entry \in written

NoHandleFromTheFuture ==
  /\ \A a \in acked.entries : a[2] <= entries.gen
  /\ \A a \in acked.outcomes : a[2] <= outcomes.gen
  /\ \A w \in Workers :
       /\ call[w].op = "writeEntry" => call[w].handle <= entries.gen
       /\ call[w].op = "writeOutcome" => call[w].handle <= outcomes.gen

(* No step drops or rewrites some lines and keeps others: a file only      *)
(* grows at its end or is emptied, which is what makes the ledger useless  *)
(* for keeping the recommendations that turned out well.                   *)
AppendOrClear(f, g) == g.lines = <<>> \/ IsPrefix(f.lines, g.lines)
NoSelectiveDeletion ==
  [][AppendOrClear(entries, entries') /\ AppendOrClear(outcomes, outcomes')]_vars

(* A summary is made of three separate reads.  When no reset ran between   *)
(* them, however many appends did, the pending count is not negative.      *)
PendingNeverNegative ==
  summary.kind = "summary" /\ summary.undisturbed => summary.pending >= 0

(* A scored entry is scored with an outcome recorded no earlier than any   *)
(* outcome of that entry acknowledged before the summary was asked for,    *)
(* in whatever order concurrent reports reached the file.                  *)
ScoredWithLatestReport ==
  summary.kind = "summary" =>
    \A p \in summary.pairs, o \in summary.owed :
      o.entry = p[1].at => o.at <= p[2].at

(* The arithmetic of the score: no decision beats the oracle, and a summary*)
(* with a LOCK that was not cheaper than spot shows regret.                *)
RegretExplained ==
  summary.kind = "summary" =>
    /\ summary.regret >= 0
    /\ summary.right < summary.locks => summary.regret > 0

(* A summary adds up, whatever was appended while it was made.             *)
SummaryAddsUp == PendingNeverNegative /\ ScoredWithLatestReport

(* read_entries returns "every real entry ever recorded, oldest first":    *)
(* the file is in the order of the decision timestamps.                    *)
OldestFirst ==
  \A i, j \in 1 .. Len(entries.lines) :
    i < j => entries.lines[i].at < entries.lines[j].at

(* Between calls every outcome is linked to an entry the ledger holds: "an *)
(* outcome cannot be linked to nothing", and a reset is "all-or-nothing".  *)
OutcomesLinked ==
  (\A w \in Workers : call[w] = Idle) =>
    \A o \in ToSet(outcomes.lines) : o.entry \in Ids(entries)

(* reset_ledger returns "the total number of entry + outcome records       *)
(* actually removed".                                                      *)
ResetCountExact ==
  resetReply.kind = "reset" => resetReply.counted = resetReply.removed

(* As long as calls came one at a time and none was cut short, the ledger  *)
(* keeps the three promises above, which overlapping calls can break.      *)
SerialPromises == ~overlapped => OldestFirst /\ OutcomesLinked /\ ResetCountExact

=============================================================================
