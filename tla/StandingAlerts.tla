--------------------------- MODULE StandingAlerts ---------------------------
(***************************************************************************)
(* Standing alerts, src/src/alerts/: watches and firings in SQLite, and    *)
(* passes over the active watches that compare the data on disk with the   *)
(* state a watch was left in.  backend/main.py runs such a pass from three *)
(* places (the alert loop, the rate-refresh loop and POST /alerts/         *)
(* evaluate), each in a thread of its own and with nothing between them.   *)
(*                                                                         *)
(* Every store call is one transaction, hence one step.  The ledger's two  *)
(* files are read one after the other, and POST /ledger/reset removes them *)
(* one after the other.  What a watch asks for never changes, so it is a   *)
(* function of its id; the order of a pass (created_at) is left open.      *)
(***************************************************************************)
EXTENDS Integers, Sequences, FiniteSets, SequencesExt

CONSTANTS
  WatchIds,    \* every watch_id that is ever drawn (uuid4: never reused)
  Asks,        \* Asks[w]: the parameters w is created with
  Evaluators,  \* threads that run passes
  Loop,        \* the one of them that _alert_loop drives
  Requests,    \* threads that handle the other alert requests
  Values,      \* figures the rate series may publish, $/day
  LastDay,     \* bound: the days the model lasts
  MaxEntries,  \* bound: recommendations ever recorded
  MaxResets,   \* bound: times the ledger is reset
  MayFail,     \* TRUE if data may be unreadable or an evaluation may raise
  MaxCrashes   \* bound: times the process is killed and restarted

VARIABLES
  today,       \* days since the model began
  series,      \* the published observations, oldest first: one series
  entries,     \* ledger entries: entries[i] is the day of the i-th decision
  gone,        \* so many of them, the oldest, a reset has removed
  settled,     \* the entries with an outcome on file
  resets,      \* resets begun
  wiping,      \* resets between the unlinking of the two files
  drawn,       \* ids drawn so far
  live,        \* ids of the rows of table watches
  active,      \* active[w], last[w]: the columns is_active and last_state
  last,
  unread,      \* unread[w], read[w]: rows of table firings by is_read
  read,
  pass,        \* pass[e]: where the pass of evaluator e stands
  call,        \* call[r]: where request r stands
  episodes,    \* history: times the condition of w began to hold since w exists
  overlapped,  \* history: passes have overlapped, or a kill has cut one short
  torn,        \* history: outcomes went while a pass had only the entries read
  crashes      \* history: how often the process was killed

data  == <<today, series, entries, gone, settled>>
reset == <<resets, wiping, torn>>
store == <<drawn, live, active, last, unread, read>>
vars  == <<data, reset, store, pass, call, episodes, overlapped, crashes>>

-----------------------------------------------------------------------------
(* A watch's parameters.  create_watch refuses, before any row is written, *)
(* what could never fire.                                                  *)

Ask == [kind: {"crosses"}, threshold: Int, above: BOOLEAN]
         \cup [kind: {"moves"}, pct: Int, window: Int]
         \cup [kind: {"overdue"}, days: Int]

Valid(ask) ==
  \/ ask.kind = "crosses" /\ ask.threshold > 0
  \/ ask.kind = "moves" /\ ask.pct > 0 /\ ask.window >= 1
  \/ ask.kind = "overdue" /\ ask.days >= 1

Counting == {w \in WatchIds : Asks[w].kind = "overdue"}

ASSUME AlertAssumption ==
  /\ Asks \in [WatchIds -> Ask]
  /\ Loop \in Evaluators
  /\ Values \subseteq Nat
  /\ LastDay \in Nat /\ MaxEntries \in Nat /\ MaxResets \in Nat
  /\ MayFail \in BOOLEAN /\ MaxCrashes \in Nat

(* last_state as a number: "out" and "in" are 0 and 1, the decimal string  *)
(* of a count is the count, None is Never.  NoSignal is evaluate's None.   *)
Never    == -1
NoSignal == -1

RateCrosses(ask) ==
  IF series = <<>> THEN NoSignal
  ELSE LET value == Last(series).value
           inside == IF ask.above THEN value > ask.threshold ELSE value < ask.threshold
       IN IF inside THEN 1 ELSE 0

(* The window starts at the last observation on or before the cutoff.      *)
RateMoves(ask) ==
  LET earlier == {i \in DOMAIN series : series[i].day <= Last(series).day - ask.window}
      start   == series[Max(earlier)].value
      end     == Last(series).value
      change  == IF end > start THEN end - start ELSE start - end
  IN IF Len(series) < 2 \/ earlier = {} \/ start = 0 THEN NoSignal
     ELSE IF change * 100 >= ask.pct * start THEN 1 ELSE 0

(* The entries on file that are old enough to be late today.               *)
Old(ask) == {i \in DOMAIN entries : i > gone /\ entries[i] < today - ask.days}

OutcomeOverdue(ask) == Cardinality(Old(ask) \ settled)

Level(w) ==
  CASE Asks[w].kind = "crosses" -> RateCrosses(Asks[w])
    [] Asks[w].kind = "moves"   -> RateMoves(Asks[w])
    [] Asks[w].kind = "overdue" -> OutcomeOverdue(Asks[w])

(* Whether an evaluation that sees level carries a message.                *)
BadFires(w, before, level) ==     \* mutant: level-triggered
  IF w \in Counting THEN level > 0 ELSE level = 1

BadFiresChange(w, before, level) == \* mutant: fires on any change of a count
  IF w \in Counting THEN level # before ELSE level = 1 /\ before = 0

BadFiresFirst(w, before, level) == \* mutant: fires on the first look
  IF w \in Counting THEN level > 0 /\ level > before ELSE level = 1 /\ before # 1

Fires(w, before, level) ==
  IF w \in Counting THEN level > 0 /\ level > before ELSE level = 1 /\ before = 0

-----------------------------------------------------------------------------
Idle == [phase |-> "idle"]

Init ==
  /\ today = 0 /\ series = <<>> /\ entries = <<>> /\ gone = 0 /\ settled = {}
  /\ resets = 0 /\ wiping = 0 /\ torn = FALSE
  /\ drawn = {} /\ live = {}
  /\ active = [w \in WatchIds |-> FALSE]
  /\ last = [w \in WatchIds |-> Never]
  /\ unread = [w \in WatchIds |-> 0]
  /\ read = [w \in WatchIds |-> 0]
  /\ pass = [e \in Evaluators |-> Idle]
  /\ call = [r \in Requests |-> Idle]
  /\ episodes = [w \in WatchIds |-> 0]
  /\ overlapped = FALSE /\ crashes = 0

(* The condition of w begins to hold, or its count rises, in this step. *)
Begins(w) == Level(w)' > Level(w) /\ Level(w)' > 0
NoteEpisodes ==
  episodes' = [w \in WatchIds |->
                 IF w \in live /\ Begins(w) THEN episodes[w] + 1 ELSE episodes[w]]

(* The world: the harvest publishes at most one observation a day, entries *)
(* are recorded, settled and reset, and entries age.                       *)
DayPasses ==
  /\ today < LastDay
  /\ today' = today + 1
  /\ UNCHANGED <<series, entries, gone, settled, resets, wiping>>

Publish ==
  /\ series # <<>> => Last(series).day < today
  /\ \E value \in Values : series' = Append(series, [day |-> today, value |-> value])
  /\ UNCHANGED <<today, entries, gone, settled, resets, wiping>>

Recommend ==
  /\ Len(entries) < MaxEntries
  /\ entries' = Append(entries, today)
  /\ UNCHANGED <<today, series, gone, settled, resets, wiping>>

(* An outcome is refused of an entry that is not on file. *)
Settle ==
  /\ \E i \in DOMAIN entries : i > gone /\ settled' = settled \cup {i}
  /\ UNCHANGED <<today, series, entries, gone, resets, wiping>>

(* reset_ledger: the entries are unlinked, then the outcomes. *)
ClearEntries ==
  /\ resets < MaxResets
  /\ resets' = resets + 1
  /\ wiping' = wiping + 1
  /\ gone' = Len(entries)
  /\ UNCHANGED <<today, series, entries, settled>>

ClearOutcomes ==
  /\ wiping > 0
  /\ wiping' = wiping - 1
  /\ settled' = {}
  /\ UNCHANGED <<today, series, entries, gone, resets>>

(* Outcomes are gone that a pass has yet to read beside entries it has read.*)
NoteTorn ==
  torn' = (torn \/ (~(settled \subseteq settled') /\ \E e \in Evaluators : pass[e].phase = "read"))

World ==
  /\ DayPasses \/ Publish \/ Recommend \/ Settle \/ ClearEntries \/ ClearOutcomes
  /\ NoteEpisodes
  /\ NoteTorn
  /\ UNCHANGED <<store, pass, call, overlapped, crashes>>

-----------------------------------------------------------------------------
(* Requests.                                                               *)

CreateWatch(r, w) ==
  /\ call[r] = Idle
  /\ w \notin drawn
  /\ Valid(Asks[w])
  /\ drawn' = drawn \cup {w}
  /\ live' = live \cup {w}
  /\ active' = [active EXCEPT ![w] = TRUE]
  /\ episodes' = [episodes EXCEPT ![w] =
                    IF w \in Counting /\ Level(w) > 0 THEN 1 ELSE 0]
  /\ UNCHANGED <<data, reset, last, unread, read, pass, call, overlapped, crashes>>

(* set_watch_active: get, then UPDATE; the second get only makes the reply. *)
FindToSet(r, w, flag) ==
  /\ call[r] = Idle
  /\ w \in live                                       \* else 404
  /\ call' = [call EXCEPT ![r] = [phase |-> "set", watch |-> w, flag |-> flag]]
  /\ UNCHANGED <<data, reset, store, pass, episodes, overlapped, crashes>>

UpdateActive(r) ==
  /\ call[r].phase = "set"
  /\ active' = IF call[r].watch \in live
                 THEN [active EXCEPT ![call[r].watch] = call[r].flag] ELSE active
  /\ call' = [call EXCEPT ![r] = Idle]
  /\ UNCHANGED <<data, reset, drawn, live, last, unread, read, pass, episodes, overlapped, crashes>>

(* delete_watch: get, DELETE; the firings go by cascade. *)
FindToDelete(r, w) ==
  /\ call[r] = Idle
  /\ w \in live                                       \* else 404
  /\ call' = [call EXCEPT ![r] = [phase |-> "delete", watch |-> w]]
  /\ UNCHANGED <<data, reset, store, pass, episodes, overlapped, crashes>>

DeleteRow(r) ==
  /\ call[r].phase = "delete"
  /\ LET w == call[r].watch IN
       /\ live' = live \ {w}
       /\ unread' = [unread EXCEPT ![w] = 0]
       /\ read' = [read EXCEPT ![w] = 0]
  /\ call' = [call EXCEPT ![r] = Idle]
  /\ UNCHANGED <<data, reset, drawn, active, last, pass, episodes, overlapped, crashes>>

MarkAllRead(r) ==
  /\ call[r] = Idle
  /\ read' = [w \in WatchIds |-> read[w] + unread[w]]
  /\ unread' = [w \in WatchIds |-> 0]
  /\ UNCHANGED <<data, reset, drawn, live, active, last, pass, call, episodes, overlapped, crashes>>

-----------------------------------------------------------------------------
(* run_due_watches.  todo holds the rows list_watches returned at the start*)
(* and the pass has not come to: a watch is evaluated against the last     *)
(* state it had then, and written to the row it has now.                   *)

(* A pass in progress while another begins, or the process is killed.      *)
NoteOverlap == overlapped' = (overlapped \/ \E e \in Evaluators : pass[e] # Idle)

Resume(todo) == IF todo = {} THEN Idle ELSE [phase |-> "next", todo |-> todo]

BeginPass(e) ==
  /\ pass[e] = Idle
  /\ pass' = [pass EXCEPT ![e] =
       Resume({[watch |-> w, last |-> last[w]] : w \in {x \in live : active[x]}})]
  /\ NoteOverlap
  /\ UNCHANGED <<data, reset, store, call, episodes, crashes>>

(* No signal, or an exception: the state is left alone, the pass goes on.  *)
(* Reading either file may raise, so a watch may be passed over half read. *)
BadPassOverReset(e, row) ==       \* mutant: no signal is recorded as "out"
  /\ pass[e].phase = "next"
  /\ row \in pass[e].todo
  /\ Level(row.watch) = NoSignal \/ MayFail
  /\ pass' = [pass EXCEPT ![e] =
       [phase |-> "record", todo |-> pass[e].todo \ {row},
        watch |-> row.watch, level |-> 0]]
  /\ UNCHANGED <<data, reset, store, call, episodes, overlapped, crashes>>

PassOver(e, row) ==
  /\ pass[e].phase = "next"
  /\ row \in pass[e].todo
  /\ Level(row.watch) = NoSignal \/ MayFail
  /\ pass' = [pass EXCEPT ![e] = Resume(pass[e].todo \ {row})]
  /\ UNCHANGED <<data, reset, store, call, episodes, overlapped, crashes>>

PassOverHalfRead(e) ==
  /\ pass[e].phase = "read"
  /\ MayFail
  /\ pass' = [pass EXCEPT ![e] = Resume(pass[e].todo)]
  /\ UNCHANGED <<data, reset, store, call, episodes, overlapped, crashes>>

(* The answer to a watch whose last state was before.                      *)
Answer(e, todo, w, before, level) ==
  /\ pass' = [pass EXCEPT ![e] =
       [phase |-> IF Fires(w, before, level) THEN "fire" ELSE "record",
        todo |-> todo, watch |-> w, level |-> level]]
  /\ UNCHANGED <<data, reset, store, call, episodes, overlapped, crashes>>

(* A rate watch reads one file and answers.                                *)
BadEvaluate(e, row) ==            \* mutant: None is not looked for
  /\ pass[e].phase = "next"
  /\ row \in pass[e].todo
  /\ row.watch \notin Counting
  /\ Answer(e, pass[e].todo \ {row}, row.watch, row.last, Level(row.watch))

BadEvaluateQuiet(e, row) ==       \* mutant: the state is recorded on a firing only
  /\ pass[e].phase = "next"
  /\ row \in pass[e].todo
  /\ row.watch \notin Counting
  /\ Level(row.watch) # NoSignal
  /\ IF Fires(row.watch, row.last, Level(row.watch))
       THEN Answer(e, pass[e].todo \ {row}, row.watch, row.last, Level(row.watch))
       ELSE /\ pass' = [pass EXCEPT ![e] = Resume(pass[e].todo \ {row})]
            /\ UNCHANGED <<data, reset, store, call, episodes, overlapped, crashes>>

Evaluate(e, row) ==
  /\ pass[e].phase = "next"
  /\ row \in pass[e].todo
  /\ row.watch \notin Counting
  /\ Level(row.watch) # NoSignal
  /\ Answer(e, pass[e].todo \ {row}, row.watch, row.last, Level(row.watch))

(* An overdue-outcome watch takes the time and reads the entries, then the *)
(* outcomes there are by then, and counts.                                 *)
ReadEntries(e, row) ==
  /\ pass[e].phase = "next"
  /\ row \in pass[e].todo
  /\ row.watch \in Counting
  /\ pass' = [pass EXCEPT ![e] =
       [phase |-> "read", todo |-> pass[e].todo \ {row}, watch |-> row.watch,
        last |-> row.last, old |-> Old(Asks[row.watch])]]
  /\ UNCHANGED <<data, reset, store, call, episodes, overlapped, crashes>>

ReadOutcomes(e) ==
  /\ pass[e].phase = "read"
  /\ Answer(e, pass[e].todo, pass[e].watch, pass[e].last,
            Cardinality(pass[e].old \ settled))

(* record_firing: the foreign key refuses a firing of a watch deleted in   *)
(* the meantime, and that exception is outside the try: the pass ends.     *)
BadRecordFiring(e) ==             \* mutant: without PRAGMA foreign_keys
  /\ pass[e].phase = "fire"
  /\ unread' = [unread EXCEPT ![pass[e].watch] = @ + 1]
  /\ pass' = [pass EXCEPT ![e] = [phase |-> "record", todo |-> pass[e].todo,
                  watch |-> pass[e].watch, level |-> pass[e].level]]
  /\ UNCHANGED <<data, reset, drawn, live, active, last, read, call, episodes, overlapped, crashes>>

RecordFiring(e) ==
  /\ pass[e].phase = "fire"
  /\ IF pass[e].watch \in live
       THEN /\ unread' = [unread EXCEPT ![pass[e].watch] = @ + 1]
            /\ pass' = [pass EXCEPT ![e] = [phase |-> "record", todo |-> pass[e].todo,
                            watch |-> pass[e].watch, level |-> pass[e].level]]
       ELSE /\ pass' = [pass EXCEPT ![e] = Idle]
            /\ UNCHANGED unread
  /\ UNCHANGED <<data, reset, drawn, live, active, last, read, call, episodes, overlapped, crashes>>

(* record_state: an UPDATE, which finds no row if the watch is gone. *)
RecordState(e) ==
  /\ pass[e].phase = "record"
  /\ last' = IF pass[e].watch \in live
               THEN [last EXCEPT ![pass[e].watch] = pass[e].level] ELSE last
  /\ pass' = [pass EXCEPT ![e] = Resume(pass[e].todo)]
  /\ UNCHANGED <<data, reset, drawn, live, active, unread, read, call, episodes, overlapped, crashes>>

Step(e) ==
  \/ /\ pass[e].phase = "next"
     /\ \E row \in pass[e].todo : PassOver(e, row) \/ Evaluate(e, row) \/ ReadEntries(e, row)
  \/ PassOverHalfRead(e)
  \/ ReadOutcomes(e)
  \/ RecordFiring(e)
  \/ RecordState(e)

(* The process is killed: the database stays as the last commit left it. *)
Crash ==
  /\ crashes < MaxCrashes
  /\ crashes' = crashes + 1
  /\ pass' = [e \in Evaluators |-> Idle]
  /\ call' = [r \in Requests |-> Idle]
  /\ wiping' = 0
  /\ NoteOverlap
  /\ UNCHANGED <<data, resets, torn, store, episodes>>

Next ==
  \/ World
  \/ \E r \in Requests :
       \/ \E w \in WatchIds :
            \/ CreateWatch(r, w)
            \/ \E flag \in BOOLEAN : FindToSet(r, w, flag)
            \/ FindToDelete(r, w)
       \/ UpdateActive(r)
       \/ DeleteRow(r)
       \/ MarkAllRead(r)
  \/ \E e \in Evaluators : BeginPass(e) \/ Step(e)
  \/ Crash

Spec == Init /\ [][Next]_vars

(* _alert_loop begins a pass again after every sleep, whatever the last one*)
(* ended with, and a pass in its worker thread runs on.                    *)
LoopSpec == Spec /\ WF_vars(BeginPass(Loop)) /\ WF_vars(Step(Loop))

-----------------------------------------------------------------------------
(* Properties.                                                             *)

Snapshot == [watch: WatchIds, last: Nat \cup {Never}]
Pass ==
  {Idle}
  \cup [phase: {"next"}, todo: SUBSET Snapshot]
  \cup [phase: {"read"}, todo: SUBSET Snapshot, watch: Counting, last: Nat \cup {Never},
        old: SUBSET Nat]
  \cup [phase: {"fire", "record"}, todo: SUBSET Snapshot, watch: WatchIds, level: Nat]

(* Rows, passes and data carry what their readers expect. *)
TypeOK ==
  /\ today \in Nat
  /\ series \in Seq([day: Nat, value: Values])
  /\ entries \in Seq(Nat)
  /\ gone \in Nat /\ settled \subseteq Nat
  /\ resets \in Nat /\ wiping \in Nat
  /\ live \subseteq drawn /\ drawn \subseteq WatchIds
  /\ active \in [WatchIds -> BOOLEAN]
  /\ last \in [WatchIds -> Nat \cup {Never}]
  /\ unread \in [WatchIds -> Nat]
  /\ read \in [WatchIds -> Nat]
  /\ pass \in [Evaluators -> Pass]

(* The bell holds no firing of a watch that no longer exists, however a    *)
(* deletion falls into a pass that is about to fire it.                    *)
FiringsHaveTheirWatch == \A w \in WatchIds \ live : unread[w] + read[w] = 0

(* "A firing is a durable record that a condition was true at a moment"    *)
(* (models.py): a watch fires only if its condition has begun to hold since*)
(* the watch was created.                                                  *)
NoFalseAlarm == \A w \in WatchIds : unread[w] + read[w] > 0 => episodes[w] > 0

(* Whatever passes overlap, whatever fails or crashes, no watch rings of   *)
(* what was not true, unless the ledger was reset between a pass's reading *)
(* of the entries and of the outcomes, which makes settled entries late.   *)
NoFalseAlarmUntorn == ~torn => NoFalseAlarm

(* "A rate that sits below a threshold for a fortnight is one piece of     *)
(* news, not fourteen" (models.py): since a watch was created its          *)
(* condition has begun to hold, or its count risen, at least as often as   *)
(* it fired.                                                               *)
OneFiringPerEpisode == \A w \in WatchIds : unread[w] + read[w] <= episodes[w]

(* The same where passes never overlapped, none was cut short and none read*)
(* a ledger half reset, through data that are missing or unreadable for a  *)
(* while.                                                                  *)
OneFiringWhenAlone == ~overlapped /\ ~torn => OneFiringPerEpisode

(* The bell is honest: rows and passes are well formed, a firing is of a   *)
(* watch there is, of something that became true, and of each such rise    *)
(* once as long as passes keep apart.                                      *)
BellIsHonest == TypeOK /\ FiringsHaveTheirWatch /\ NoFalseAlarmUntorn /\ OneFiringWhenAlone

(* The promise.  An evaluation counts as the promise's Look when its firing*)
(* is committed, or at once if it does not fire.                           *)
LastLook(w) ==
  IF w \notin live THEN Never
  ELSE IF \E e \in Evaluators : pass[e].phase = "record" /\ pass[e].watch = w
    THEN pass[CHOOSE e \in Evaluators :
                pass[e].phase = "record" /\ pass[e].watch = w].level
    ELSE last[w]

Promise == INSTANCE AlertPromise WITH last <- [w \in WatchIds |-> LastLook(w)]

(* With a single evaluator, the two transactions of an evaluation, and the *)
(* deletions, updates and changes of data that fall between them, are an   *)
(* edge-triggered alert: no edge the passes saw is lost, none is told twice*)
KeepsThePromise == Promise!Spec

(* What an active watch last saw catches up with the data again and again, *)
(* so that by the promise its edges ring the bell: one watch without a     *)
(* signal does not hold up another, and every answer is recorded.          *)
StateCatchesUp ==
  \A w \in WatchIds :
    []<>(w \in live /\ active[w] /\ Level(w) # NoSignal => last[w] = Level(w))

=============================================================================
