----------------------- MODULE StandingAlerts_proofs -----------------------
(* What StandingAlerts promises, for any watches, evaluators, data, numbers*)
(* of passes, failures and crashes.                                        *)
EXTENDS StandingAlerts, FiniteSetTheorems, TLAPS

(* The rows a pass has not come to, and the watch it is in the middle of.  *)
Todo(p)       == IF p.phase = "idle" THEN {} ELSE p.todo
Handles(p, w) == p.phase \in {"read", "fire", "record"} /\ p.watch = w
Answered(p, w) == p.phase \in {"fire", "record"} /\ p.watch = w

(* What a pass in the middle of an overdue-outcome watch will count.       *)
Late(p) == p.old \ settled

Calls ==
  {Idle}
  \cup [phase: {"set"}, watch: WatchIds, flag: BOOLEAN]
  \cup [phase: {"delete"}, watch: WatchIds]

WellTyped ==
  /\ TypeOK
  /\ call \in [Requests -> Calls]
  /\ episodes \in [WatchIds -> Nat]
  /\ overlapped \in BOOLEAN /\ torn \in BOOLEAN

(* Nothing is known of a watch that has not been drawn.                    *)
UndrawnIsUnknown ==
  \A w \in WatchIds \ drawn :
    /\ last[w] = Never
    /\ \A e \in Evaluators :
         ~Handles(pass[e], w) /\ \A row \in Todo(pass[e]) : row.watch # w

(* A pass, or the row, has seen the condition of w not hold.               *)
SeenOut(w) ==
  \/ last[w] = 0
  \/ \E e \in Evaluators :
       \/ Answered(pass[e], w) /\ pass[e].level = 0
       \/ \E row \in Todo(pass[e]) : row.watch = w /\ row.last = 0

(* What a pass has read of the entries was on file, and old enough.        *)
ReadsAreOld ==
  \A e \in Evaluators :
    pass[e].phase = "read" =>
      pass[e].old \subseteq
        {i \in DOMAIN entries : entries[i] < today - Asks[pass[e].watch].days}

(* Where a firing could come from, an episode has been noted: the condition*)
(* holds although it was seen not to (for a count: although the watch began*)
(* at none), a firing is about to be recorded, or has been.                *)
RisesAreNoted ==
  \A w \in live : Level(w) > 0 /\ (w \in Counting \/ SeenOut(w)) => episodes[w] > 0
FiringsAreNoted ==
  ~torn =>
    /\ \A e \in Evaluators :
         pass[e].phase = "fire" /\ pass[e].watch \in live => episodes[pass[e].watch] > 0
    /\ \A e \in Evaluators :
         pass[e].phase = "read" /\ pass[e].watch \in live /\ Late(pass[e]) # {} =>
           episodes[pass[e].watch] > 0
    /\ NoFalseAlarm

(* As long as passes keep apart, a pass compares with the state that is    *)
(* still the watch's, and comes to a watch once.                           *)
PassIsCurrent(e) ==
  /\ \A row \in Todo(pass[e]) :
       row.last = last[row.watch] /\ ~Handles(pass[e], row.watch)
  /\ pass[e].phase = "read" => pass[e].last = last[pass[e].watch]
  /\ pass[e].phase = "fire" => Fires(pass[e].watch, last[pass[e].watch], pass[e].level)

Rung(w)               == unread[w] + read[w]
Rings(w, seen, level) == IF Fires(w, seen, level) THEN 1 ELSE 0
Due(w, seen)          == Rings(w, seen, Level(w))

(* The firings there are, the one about to be recorded and the one the next*)
(* look would bring are each of an episode of their own.                   *)
Accounted(w) ==
  /\ (\A e \in Evaluators : ~Handles(pass[e], w)) => Rung(w) + Due(w, last[w]) <= episodes[w]
  /\ \A e \in Evaluators :
       pass[e].phase = "fire" /\ pass[e].watch = w =>
         Rung(w) + 1 + Due(w, pass[e].level) <= episodes[w]
  /\ \A e \in Evaluators :
       pass[e].phase = "record" /\ pass[e].watch = w =>
         Rung(w) + Due(w, pass[e].level) <= episodes[w]
  /\ \A e \in Evaluators :
       pass[e].phase = "read" /\ pass[e].watch = w =>
         LET level == Cardinality(Late(pass[e]))
         IN Rung(w) + Rings(w, pass[e].last, level) + Due(w, level) <= episodes[w]

OnePass == \A e, f \in Evaluators : pass[e] # Idle /\ pass[f] # Idle => e = f

KeptApart ==
  ~overlapped =>
    /\ OnePass
    /\ \A e \in Evaluators : PassIsCurrent(e)
    /\ ~torn => \A w \in live : Accounted(w)

AlertInv ==
  /\ WellTyped
  /\ FiringsHaveTheirWatch
  /\ UndrawnIsUnknown
  /\ RisesAreNoted
  /\ ReadsAreOld
  /\ FiringsAreNoted
  /\ KeptApart

-----------------------------------------------------------------------------
(* What a watch asks for, and the levels an evaluation can see.            *)

LEMMA AskKinds ==
  ASSUME NEW w \in WatchIds
  PROVE  /\ Asks[w].kind \in {"crosses", "moves", "overdue"}
         /\ w \in Counting <=> Asks[w].kind = "overdue"
<1>1. Asks[w] \in Ask  BY AlertAssumption
<1>2. Asks[w].kind \in {"crosses", "moves", "overdue"}  BY <1>1 DEF Ask
<1> QED  BY <1>2 DEF Counting

LevelsInRange ==
  \A w \in WatchIds :
    /\ Level(w) \in Nat \cup {NoSignal}
    /\ w \notin Counting => Level(w) \in {NoSignal, 0, 1}

DaysTyped == entries \in Seq(Nat)

LEMMA LevelRange == DaysTyped => LevelsInRange
<1> SUFFICES ASSUME entries \in Seq(Nat), NEW w \in WatchIds
             PROVE  /\ Level(w) \in Nat \cup {NoSignal}
                    /\ w \notin Counting => Level(w) \in {NoSignal, 0, 1}
  BY DEF LevelsInRange, DaysTyped
<1>1. CASE Asks[w].kind = "crosses"
  <2>1. Level(w) = RateCrosses(Asks[w])  BY <1>1 DEF Level
  <2>2. RateCrosses(Asks[w]) \in {NoSignal, 0, 1}  BY DEF RateCrosses
  <2> QED  BY <2>1, <2>2
<1>2. CASE Asks[w].kind = "moves"
  <2>1. Level(w) = RateMoves(Asks[w])  BY <1>2 DEF Level
  <2>2. RateMoves(Asks[w]) \in {NoSignal, 0, 1}  BY DEF RateMoves
  <2> QED  BY <2>1, <2>2
<1>3. CASE Asks[w].kind = "overdue"
  <2> DEFINE late == Old(Asks[w]) \ settled
  <2>1. IsFiniteSet(1 .. Len(entries))  BY FS_Interval
  <2>2. late \subseteq 1 .. Len(entries)  BY DEF Old
  <2>3. IsFiniteSet(late)  BY <2>1, <2>2, FS_Subset
  <2>4. Cardinality(late) \in Nat  BY <2>3, FS_CardinalityType
  <2>5. Level(w) = Cardinality(late)  BY <1>3 DEF Level, OutcomeOverdue
  <2> QED  BY <2>4, <2>5, <1>3, AskKinds
<1> QED  BY <1>1, <1>2, <1>3, AskKinds

LEMMA LevelRangeNext == DaysTyped' => LevelsInRange'
  BY LevelRange, PTL

LEMMA LevelKept ==
  ASSUME UNCHANGED data, NEW w \in WatchIds
  PROVE  Level(w)' = Level(w)
<1>1. /\ today' = today /\ series' = series /\ entries' = entries
      /\ gone' = gone /\ settled' = settled
  BY DEF data
<1>2. RateCrosses(Asks[w])' = RateCrosses(Asks[w])  BY <1>1 DEF RateCrosses
<1>3. RateMoves(Asks[w])' = RateMoves(Asks[w])  BY <1>1 DEF RateMoves
<1>4. OutcomeOverdue(Asks[w])' = OutcomeOverdue(Asks[w])  BY <1>1 DEF OutcomeOverdue, Old
<1> QED  BY <1>2, <1>3, <1>4 DEF Level

-----------------------------------------------------------------------------
(* The shapes of a pass.                                                   *)

LEMMA PassShape ==
  ASSUME NEW p \in Pass
  PROVE  /\ p.phase \in {"idle", "next", "read", "fire", "record"}
         /\ p = Idle <=> p.phase = "idle"
         /\ p # Idle => p.todo \subseteq Snapshot
         /\ p.phase \in {"fire", "record"} => p.watch \in WatchIds /\ p.level \in Nat
         /\ p.phase = "read" => p.watch \in Counting /\ p.last \in Nat \cup {Never}
         /\ Todo(p) \subseteq Snapshot
  BY DEF Pass, Idle, Todo

LEMMA ResumeShape ==
  ASSUME NEW todo \in SUBSET Snapshot
  PROVE  /\ Resume(todo) \in Pass
         /\ Resume(todo).phase \in {"idle", "next"}
         /\ Todo(Resume(todo)) = todo
         /\ \A w : ~Handles(Resume(todo), w)
  BY DEF Pass, Idle, Todo, Resume, Handles

LEMMA WorkShape ==
  ASSUME NEW todo \in SUBSET Snapshot, NEW w \in WatchIds, NEW level \in Nat,
         NEW phase \in {"fire", "record"}, NEW p,
         p = [phase |-> phase, todo |-> todo, watch |-> w, level |-> level]
  PROVE  /\ p \in Pass
         /\ p.phase = phase /\ p.todo = todo /\ p.watch = w /\ p.level = level
         /\ p # Idle
         /\ Todo(p) = todo
         /\ \A x : (Handles(p, x) <=> x = w) /\ (Answered(p, x) <=> x = w)
<1>1. p.phase = phase /\ p.todo = todo /\ p.watch = w /\ p.level = level  OBVIOUS
<1>2. p \in Pass  BY DEF Pass
<1>3. p # Idle  BY <1>1 DEF Idle
<1> QED  BY <1>1, <1>2, <1>3 DEF Todo, Handles, Answered

LEMMA ReadShape ==
  ASSUME NEW todo \in SUBSET Snapshot, NEW w \in Counting, NEW before \in Nat \cup {Never},
         NEW old \in SUBSET Nat, NEW p,
         p = [phase |-> "read", todo |-> todo, watch |-> w, last |-> before, old |-> old]
  PROVE  /\ p \in Pass
         /\ p.phase = "read" /\ p.todo = todo /\ p.watch = w /\ p.last = before /\ p.old = old
         /\ p # Idle
         /\ Todo(p) = todo
         /\ \A x : (Handles(p, x) <=> x = w) /\ ~Answered(p, x)
<1>1. p.phase = "read" /\ p.todo = todo /\ p.watch = w /\ p.last = before /\ p.old = old  OBVIOUS
<1>2. p \in Pass  BY DEF Pass
<1>3. p # Idle  BY <1>1 DEF Idle
<1> QED  BY <1>1, <1>2, <1>3 DEF Todo, Handles, Answered

LEMMA PassTypes ==
  ASSUME WellTyped, NEW e \in Evaluators
  PROVE  /\ pass[e] \in Pass
         /\ pass[e].phase \in {"idle", "next", "read", "fire", "record"}
         /\ pass[e] = Idle <=> pass[e].phase = "idle"
         /\ pass[e] # Idle => pass[e].todo \subseteq Snapshot
         /\ pass[e].phase \in {"fire", "record"} =>
              pass[e].watch \in WatchIds /\ pass[e].level \in Nat
         /\ pass[e].phase = "read" =>
              pass[e].watch \in Counting /\ pass[e].last \in Nat \cup {Never}
         /\ Todo(pass[e]) \subseteq Snapshot
<1>1. pass[e] \in Pass  BY DEF WellTyped, TypeOK
<1> QED  BY <1>1, PassShape

-----------------------------------------------------------------------------
(* The steps.                                                              *)

(* A step that reads nothing of the ledger keeps what has been read old.   *)
LEMMA ReadsKept ==
  ASSUME AlertInv, UNCHANGED data,
         \A e \in Evaluators : pass'[e].phase = "read" => pass'[e] = pass[e]
  PROVE  ReadsAreOld'
<1>1. UNCHANGED <<today, entries>>  BY DEF data
<1> QED  BY <1>1 DEF AlertInv, ReadsAreOld

(* Nothing the invariant speaks of changes but the types.                  *)
LEMMA QuietStep ==
  ASSUME AlertInv, WellTyped',
         UNCHANGED <<data, drawn, live, last, unread, read, pass, episodes, overlapped, torn>>
  PROVE  AlertInv'
<1>0. UNCHANGED data /\ settled' = settled  BY DEF data
<1>1. \A w \in WatchIds : Level(w)' = Level(w)  BY <1>0, LevelKept
<1>2. live \subseteq WatchIds  BY DEF AlertInv, WellTyped, TypeOK
<1>3. FiringsHaveTheirWatch'  BY DEF AlertInv, FiringsHaveTheirWatch
<1>4. UndrawnIsUnknown'  BY DEF AlertInv, UndrawnIsUnknown
<1>5. RisesAreNoted'  BY <1>1, <1>2 DEF AlertInv, RisesAreNoted, SeenOut
<1>6. ReadsAreOld'  BY <1>0, ReadsKept
<1>7. FiringsAreNoted'  BY <1>0 DEF AlertInv, FiringsAreNoted, NoFalseAlarm, Late
<1>8. KeptApart'
  BY <1>0, <1>1, <1>2
  DEF AlertInv, KeptApart, OnePass, PassIsCurrent, Accounted, Rung, Due, Rings, Late
<1> QED  BY <1>3, <1>4, <1>5, <1>6, <1>7, <1>8 DEF AlertInv

LEMMA InitStep == Init => AlertInv
<1> SUFFICES ASSUME Init PROVE AlertInv  OBVIOUS
<1>1. Idle \in Pass /\ Idle \in Calls /\ Idle.phase = "idle"  BY DEF Pass, Calls, Idle
<1>2. WellTyped
  <2>1. <<>> \in Seq(Nat) /\ <<>> \in Seq([day: Nat, value: Values])  OBVIOUS
  <2>2. pass \in [Evaluators -> Pass] /\ call \in [Requests -> Calls]  BY <1>1 DEF Init
  <2> QED  BY <2>1, <2>2 DEF Init, WellTyped, TypeOK, Never
<1>3. \A e \in Evaluators : pass[e] = Idle /\ Todo(pass[e]) = {} /\ \A w : ~Handles(pass[e], w)
  BY <1>1 DEF Init, Todo, Handles
<1>4. FiringsHaveTheirWatch /\ NoFalseAlarm  BY DEF Init, FiringsHaveTheirWatch, NoFalseAlarm
<1>5. UndrawnIsUnknown  BY <1>3 DEF Init, UndrawnIsUnknown
<1>6. RisesAreNoted  BY DEF Init, RisesAreNoted
<1>7. FiringsAreNoted  BY <1>1, <1>3, <1>4 DEF FiringsAreNoted
<1>8. KeptApart  BY <1>1, <1>3 DEF Init, KeptApart, OnePass, PassIsCurrent
<1>9. ReadsAreOld  BY <1>1, <1>3 DEF ReadsAreOld
<1> QED  BY <1>2, <1>4, <1>5, <1>6, <1>7, <1>8, <1>9 DEF AlertInv

LEMMA LateFinite ==
  ASSUME ReadsAreOld, entries \in Seq(Nat), NEW e \in Evaluators, pass[e].phase = "read"
  PROVE  IsFiniteSet(Late(pass[e])) /\ Cardinality(Late(pass[e])) \in Nat
<1>1. PICK n \in Nat : n = Len(entries)  OBVIOUS
<1>2. IsFiniteSet(1 .. n)  BY FS_Interval
<1>3. Late(pass[e]) \subseteq 1 .. n  BY <1>1 DEF ReadsAreOld, Late
<1> QED  BY <1>2, <1>3, FS_Subset, FS_CardinalityType

(* What a pass in the middle of a watch will count changes only with what  *)
(* there is to count, as long as no reset falls in between.                *)
LEMMA WorldUnderRead ==
  ASSUME AlertInv, World, ~torn', NEW e \in Evaluators, pass[e].phase = "read",
         NEW w, w = pass[e].watch, NEW late, late = Late(pass[e])
  PROVE  /\ w \in Counting
         /\ Cardinality(late) \in Nat
         /\ pass'[e].old \ settled' \subseteq late
         /\ \/ pass'[e].old \ settled' = late
            \/ /\ Cardinality(pass'[e].old \ settled') = Cardinality(late) - 1
               /\ Level(w)' = Level(w) - 1
<1> DEFINE old == pass[e].old
           mine == Old(Asks[w])
<1>1. /\ old \subseteq {i \in DOMAIN entries : entries[i] < today - Asks[w].days}
      /\ w \in Counting /\ entries \in Seq(Nat) /\ pass' = pass
  <2>1. WellTyped  BY DEF AlertInv
  <2> QED  BY <2>1, PassTypes DEF AlertInv, ReadsAreOld, WellTyped, TypeOK, World
<1>2. IsFiniteSet(late) /\ IsFiniteSet(mine \ settled)
  <2>1. PICK n \in Nat : n = Len(entries)  BY <1>1
  <2>2. IsFiniteSet(1 .. n)  BY FS_Interval
  <2>3. late \subseteq 1 .. n /\ mine \ settled \subseteq 1 .. n
    BY <2>1, <1>1 DEF Late, Old
  <2> QED  BY <2>2, <2>3, FS_Subset
<1>3. Cardinality(late) \in Nat  BY <1>2, FS_CardinalityType
<1>4. late = old \ settled /\ pass'[e].old = old  BY <1>1 DEF Late
<1>5. CASE settled' = settled  BY <1>1, <1>3, <1>4, <1>5
<1>6. CASE ClearOutcomes
  <2>1. settled' = {}  BY <1>6 DEF ClearOutcomes
  <2>2. settled \subseteq settled'  BY DEF World, NoteTorn
  <2> QED  BY <2>1, <2>2, <1>5
<1>7. CASE Settle
  <2>1. PICK i \in DOMAIN entries : i > gone /\ settled' = settled \cup {i}  BY <1>7 DEF Settle
  <2>2. CASE i \notin old \ settled
    <3>1. old \ settled' = old \ settled  BY <2>1, <2>2
    <3> QED  BY <3>1, <1>1, <1>3, <1>4
  <2>3. CASE i \in old \ settled
    <3>1. i \in mine \ settled  BY <2>1, <2>3, <1>1 DEF Old
    <3>2. old \ settled' = late \ {i}  BY <2>1, <1>4
    <3>3. Cardinality(late \ {i}) = Cardinality(late) - 1  BY <2>3, <1>2, <1>4, FS_RemoveElement
    <3>4. Cardinality((mine \ settled) \ {i}) = Cardinality(mine \ settled) - 1
      BY <3>1, <1>2, FS_RemoveElement
    <3>5. (Old(Asks[w]))' = mine  BY <1>7 DEF Settle, Old
    <3>6. (Old(Asks[w]))' \ settled' = (mine \ settled) \ {i}  BY <3>5, <2>1
    <3>7. Level(w) = Cardinality(mine \ settled) /\ Level(w)' = Cardinality((Old(Asks[w]))' \ settled')
      BY <1>1 DEF Counting, Level, OutcomeOverdue
    <3>8. Level(w)' = Level(w) - 1  BY <3>4, <3>6, <3>7
    <3> QED  BY <3>2, <3>3, <3>8, <1>1, <1>3, <1>4
  <2> QED  BY <2>2, <2>3
<1> QED
  BY <1>5, <1>6, <1>7 DEF World, DayPasses, Publish, Recommend, ClearEntries

LEMMA WorldStep == ASSUME AlertInv, World PROVE AlertInv'
<1>1. WellTyped  BY DEF AlertInv
<1>2. UNCHANGED <<drawn, live, active, last, unread, read, pass, call, overlapped>>
  BY DEF World, store
<1> DEFINE PrintOf == [day: Nat, value: Values]
<1>3. entries' \in Seq(Nat) /\ gone' \in Nat /\ settled' \subseteq Nat /\ today' \in Nat
      /\ resets' \in Nat /\ wiping' \in Nat /\ torn' \in BOOLEAN
  <2>1. /\ today \in Nat /\ entries \in Seq(Nat) /\ settled \subseteq Nat /\ gone \in Nat
        /\ resets \in Nat /\ wiping \in Nat
    BY <1>1 DEF WellTyped, TypeOK
  <2>0. torn' \in BOOLEAN  BY <1>1 DEF WellTyped, World, NoteTorn
  <2>2. CASE DayPasses  BY <2>0, <2>1, <2>2 DEF DayPasses
  <2>3. CASE Publish  BY <2>0, <2>1, <2>3 DEF Publish
  <2>4. CASE Recommend  BY <2>0, <2>1, <2>4 DEF Recommend
  <2>5. CASE Settle
    <3>1. PICK i \in DOMAIN entries : settled' = settled \cup {i}  BY <2>5 DEF Settle
    <3>2. i \in Nat  BY <2>1
    <3> QED  BY <2>0, <2>1, <2>5, <3>1, <3>2 DEF Settle
  <2>6. CASE ClearEntries  BY <2>0, <2>1, <2>6 DEF ClearEntries
  <2>7. CASE ClearOutcomes  BY <2>0, <2>1, <2>7 DEF ClearOutcomes
  <2> QED  BY <2>2, <2>3, <2>4, <2>5, <2>6, <2>7 DEF World
<1>4. series' \in Seq(PrintOf)
  <2>1. today \in Nat /\ series \in Seq(PrintOf)  BY <1>1 DEF WellTyped, TypeOK
  <2>2. CASE Publish
    <3>1. PICK value \in Values : series' = Append(series, [day |-> today, value |-> value])
      BY <2>2 DEF Publish
    <3>2. [day |-> today, value |-> value] \in PrintOf  BY <2>1
    <3> HIDE DEF PrintOf
    <3> QED  BY <2>1, <3>1, <3>2
  <2>3. CASE series' = series  BY <2>1, <2>3
  <2> QED  BY <2>2, <2>3 DEF World, DayPasses, Recommend, Settle, ClearEntries, ClearOutcomes
<1>5. entries \in Seq(Nat) /\ live \subseteq WatchIds /\ episodes \in [WatchIds -> Nat]
  BY <1>1 DEF WellTyped, TypeOK
<1>6. episodes' = [w \in WatchIds |->
        IF w \in live /\ Begins(w) THEN episodes[w] + 1 ELSE episodes[w]]
  BY DEF World, NoteEpisodes
<1>7. WellTyped'  BY <1>1, <1>2, <1>3, <1>4, <1>5, <1>6 DEF WellTyped, TypeOK
<1>8. LevelsInRange /\ LevelsInRange'  BY <1>3, <1>5, LevelRange, LevelRangeNext DEF DaysTyped
<1>9. \A w \in WatchIds :
         episodes[w] \in Nat /\ episodes'[w] \in Nat /\ episodes'[w] >= episodes[w]
  BY <1>5, <1>6
<1>10. \A w \in live : Level(w)' > 0 => episodes'[w] > 0 \/ Level(w) > 0
  <2> TAKE w \in live
  <2>1. Level(w) \in Int /\ Level(w)' \in Int
    BY <1>5, <1>8 DEF LevelsInRange, NoSignal
  <2>2. ~(Level(w) > 0) /\ Level(w)' > 0 => Begins(w)  BY <2>1 DEF Begins
  <2> QED  BY <2>2, <1>5, <1>6
<1>11. \A w \in live, seen \in Nat \cup {Never} :
         Rings(w, seen, Level(w)') - Due(w, seen) <= episodes'[w] - episodes[w]
  <2> TAKE w \in live, seen \in Nat \cup {Never}
  <2>1. /\ Level(w) \in Nat \cup {NoSignal} /\ Level(w)' \in Nat \cup {NoSignal}
        /\ w \notin Counting => Level(w) \in {NoSignal, 0, 1} /\ Level(w)' \in {NoSignal, 0, 1}
    BY <1>5, <1>8 DEF LevelsInRange
  <2>2. CASE Begins(w)
    <3>1. episodes'[w] = episodes[w] + 1  BY <2>2, <1>5, <1>6
    <3> QED  BY <3>1, <1>5 DEF Due, Rings
  <2>3. CASE ~Begins(w)
    <3>1. Fires(w, seen, Level(w)') => Fires(w, seen, Level(w))
      BY <2>1, <2>3 DEF Begins, Fires, NoSignal, Never
    <3> QED  BY <3>1, <1>5, <1>6, <1>9 DEF Due, Rings
  <2> QED  BY <2>2, <2>3
<1>12. FiringsHaveTheirWatch'  BY <1>2 DEF AlertInv, FiringsHaveTheirWatch
<1>13. UndrawnIsUnknown'  BY <1>2 DEF AlertInv, UndrawnIsUnknown
<1>14. RisesAreNoted'
  <2> SUFFICES ASSUME NEW w \in live, Level(w)' > 0, w \in Counting \/ SeenOut(w)
               PROVE  episodes'[w] > 0
    BY <1>2 DEF RisesAreNoted, SeenOut
  <2>1. Level(w) > 0 => episodes[w] > 0  BY DEF AlertInv, RisesAreNoted
  <2> QED  BY <2>1, <1>5, <1>9, <1>10
<1>15. ReadsAreOld'
  <2> SUFFICES ASSUME NEW e \in Evaluators, pass[e].phase = "read", NEW i \in pass[e].old
               PROVE  i \in DOMAIN entries' /\ entries'[i] < today' - Asks[pass[e].watch].days
    BY <1>2 DEF ReadsAreOld
  <2> DEFINE days == Asks[pass[e].watch].days
  <2>1. i \in DOMAIN entries /\ entries[i] < today - days  BY DEF AlertInv, ReadsAreOld
  <2>2. days \in Int
    <3>1. pass[e].watch \in Counting  BY <1>1, PassTypes
    <3> QED  BY <3>1, AlertAssumption DEF Counting, Ask
  <2> HIDE DEF days
  <2>3. today \in Nat /\ (today' = today \/ today' = today + 1)
    BY <1>1 DEF WellTyped, TypeOK, World, DayPasses, Publish, Recommend, Settle, ClearEntries,
                ClearOutcomes
  <2>4. i \in DOMAIN entries' /\ entries'[i] = entries[i] /\ entries[i] \in Nat
    <3>1. CASE entries' = entries  BY <3>1, <2>1, <1>5
    <3>2. CASE Recommend
      <4>1. entries' = Append(entries, today)  BY <3>2 DEF Recommend
      <4>2. i \in 1 .. Len(entries) /\ entries[i] \in Nat  BY <2>1, <1>5
      <4> QED  BY <4>1, <4>2, <2>3, <1>5
    <3> QED  BY <3>1, <3>2 DEF World, DayPasses, Publish, Settle, ClearEntries, ClearOutcomes
  <2>5. entries'[i] < today' - days  BY <2>1, <2>2, <2>3, <2>4
  <2> QED  BY <2>4, <2>5 DEF days
<1>16. torn => torn'  BY DEF World, NoteTorn
<1>17. FiringsAreNoted'
  <2> SUFFICES ASSUME ~torn', ~torn
               PROVE  /\ \A e \in Evaluators :
                           pass[e].phase = "fire" /\ pass[e].watch \in live =>
                             episodes'[pass[e].watch] > 0
                      /\ \A e \in Evaluators :
                           pass[e].phase = "read" /\ pass[e].watch \in live
                             /\ pass'[e].old \ settled' # {} => episodes'[pass[e].watch] > 0
                      /\ NoFalseAlarm'
    BY <1>2, <1>16 DEF FiringsAreNoted, Late
  <2>1. ASSUME NEW e \in Evaluators, pass[e].phase = "fire", pass[e].watch \in live
        PROVE  episodes'[pass[e].watch] > 0
    <3>1. episodes[pass[e].watch] > 0  BY <2>1 DEF AlertInv, FiringsAreNoted
    <3> QED  BY <3>1, <2>1, <1>5, <1>9
  <2>2. ASSUME NEW e \in Evaluators, pass[e].phase = "read", pass[e].watch \in live,
               pass'[e].old \ settled' # {}
        PROVE  episodes'[pass[e].watch] > 0
    <3>1. PICK late : late = Late(pass[e])  OBVIOUS
    <3>2. PICK w : w = pass[e].watch  OBVIOUS
    <3>3. pass'[e].old \ settled' \subseteq late  BY <2>2, <3>1, <3>2, WorldUnderRead
    <3>4. episodes[w] > 0  BY <2>2, <3>1, <3>2, <3>3 DEF AlertInv, FiringsAreNoted
    <3> QED  BY <3>2, <3>4, <2>2, <1>5, <1>9
  <2>3. NoFalseAlarm'
    BY <1>1, <1>2, <1>5, <1>9 DEF AlertInv, FiringsAreNoted, NoFalseAlarm
  <2> QED  BY <2>1, <2>2, <2>3
<1>18. KeptApart'
  <2> SUFFICES ASSUME ~overlapped, ~torn', ~torn PROVE \A w \in live : Accounted(w)'
    BY <1>2, <1>16 DEF AlertInv, KeptApart, OnePass, PassIsCurrent
  <2> TAKE w \in live
  <2>1. Accounted(w)  BY DEF AlertInv, KeptApart
  <2>2. last[w] \in Nat \cup {Never} /\ unread[w] \in Nat /\ read[w] \in Nat
    BY <1>1, <1>5 DEF WellTyped, TypeOK
  <2>3. \A e \in Evaluators : pass[e].phase \in {"fire", "record"} => pass[e].level \in Nat
    BY <1>1, PassTypes
  <2>4. \A seen : Due(w, seen) \in {0, 1}  BY DEF Due, Rings
  <2>5. \A seen \in Nat \cup {Never} : \A n \in Nat :
          n + Due(w, seen) <= episodes[w] =>
            n + Rings(w, seen, Level(w)') <= episodes'[w]
    <3> TAKE seen \in Nat \cup {Never}, n \in Nat
    <3> DEFINE before == Due(w, seen)
               after == Rings(w, seen, Level(w)')
    <3>1. before \in Nat /\ after \in Nat  BY <2>4 DEF Rings
    <3>2. after - before <= episodes'[w] - episodes[w]  BY <1>11
    <3>3. episodes[w] \in Nat /\ episodes'[w] \in Nat  BY <1>5, <1>9
    <3> HIDE DEF before, after
    <3>4. n + before <= episodes[w] => n + after <= episodes'[w]  BY <3>1, <3>2, <3>3
    <3> QED  BY <3>4 DEF before, after
  <2>6. Rung(w) \in Nat /\ Rung(w) + 1 \in Nat /\ Rung(w)' = Rung(w)  BY <2>2, <1>2 DEF Rung
  <2>8. (\A e \in Evaluators : ~Handles(pass[e], w)) =>
          Rung(w) + Rings(w, last[w], Level(w)') <= episodes'[w]
    BY <2>1, <2>2, <2>5, <2>6 DEF Accounted
  <2>9. \A e \in Evaluators :
          pass[e].phase = "fire" /\ pass[e].watch = w =>
            Rung(w) + 1 + Rings(w, pass[e].level, Level(w)') <= episodes'[w]
    BY <2>1, <2>3, <2>5, <2>6 DEF Accounted
  <2>10. \A e \in Evaluators :
          pass[e].phase = "record" /\ pass[e].watch = w =>
            Rung(w) + Rings(w, pass[e].level, Level(w)') <= episodes'[w]
    BY <2>1, <2>3, <2>5, <2>6 DEF Accounted
  <2>11. ASSUME NEW e \in Evaluators, pass[e].phase = "read", pass[e].watch = w
         PROVE  LET level == Cardinality(pass'[e].old \ settled')
                IN Rung(w) + Rings(w, pass[e].last, level) + Rings(w, level, Level(w)') <= episodes'[w]
    <3>1. PICK late : late = Late(pass[e])  OBVIOUS
    <3>2. PICK n : n = Cardinality(late)  OBVIOUS
    <3>3. PICK m : m = Cardinality(pass'[e].old \ settled')  OBVIOUS
    <3>4. PICK before : before = pass[e].last  OBVIOUS
    <3>5. /\ w \in Counting /\ n \in Nat /\ pass'[e].old \ settled' \subseteq late
          /\ \/ pass'[e].old \ settled' = late
             \/ m = n - 1 /\ Level(w)' = Level(w) - 1
      BY <2>11, <3>1, <3>2, <3>3, WorldUnderRead
    <3>6. Rung(w) + Rings(w, before, n) + Due(w, n) <= episodes[w]
      BY <2>1, <2>11, <3>1, <3>2, <3>4 DEF Accounted
    <3>7. Rings(w, before, n) \in {0, 1} /\ Rings(w, before, m) \in {0, 1}  BY DEF Rings
    <3>8. CASE m = n
      <4>1. Rung(w) + Rings(w, before, n) \in Nat  BY <2>6, <3>7
      <4>2. Rung(w) + Rings(w, before, n) + Rings(w, n, Level(w)') <= episodes'[w]
        BY <4>1, <3>5, <3>6, <2>5
      <4> QED  BY <4>2, <3>3, <3>4, <3>8
    <3>9. CASE m = n - 1 /\ Level(w)' = Level(w) - 1
      <4>1. Level(w) \in Int /\ before \in Int /\ m \in Int
        BY <2>11, <3>4, <3>5, <3>9, <1>1, <1>5, <1>8, PassTypes DEF LevelsInRange, NoSignal, Never
      <4>0. m \in Nat
        <5>1. IsFiniteSet(late)
          BY <2>11, <3>1, <1>1, <1>5, LateFinite DEF AlertInv
        <5> QED  BY <5>1, <3>3, <3>5, FS_Subset, FS_CardinalityType
      <4>2. Fires(w, before, m) => Fires(w, before, n)  BY <4>1, <3>5, <3>9 DEF Fires
      <4>3. Fires(w, m, Level(w)') => Fires(w, n, Level(w))  BY <4>0, <4>1, <3>5, <3>9 DEF Fires
      <4>4. Rings(w, before, m) <= Rings(w, before, n)  BY <4>2 DEF Rings
      <4>5. Rings(w, m, Level(w)') <= Due(w, n)  BY <4>3 DEF Rings, Due
      <4>6. Rings(w, m, Level(w)') \in {0, 1} /\ Due(w, n) \in {0, 1}  BY DEF Rings, Due
      <4>7. PICK r1, r2, d1, d2 \in {0, 1} :
              /\ r1 = Rings(w, before, m) /\ r2 = Rings(w, before, n)
              /\ d1 = Rings(w, m, Level(w)') /\ d2 = Due(w, n)
        BY <3>7, <4>6
      <4>8. PICK rung \in Nat, now \in Nat, then \in Nat :
              rung = Rung(w) /\ now = episodes[w] /\ then = episodes'[w]
        BY <2>6, <1>5, <1>9
      <4>9. rung + r2 + d2 <= now /\ now <= then /\ r1 <= r2 /\ d1 <= d2
        BY <4>4, <4>5, <4>7, <4>8, <3>6, <1>5, <1>9
      <4>10. rung + r1 + d1 <= then  BY <4>9
      <4> QED  BY <4>7, <4>8, <4>10, <3>3, <3>4
    <3> QED  BY <3>2, <3>3, <3>5, <3>8, <3>9
  <2> QED  BY <2>6, <2>8, <2>9, <2>10, <2>11, <1>2 DEF Accounted, Due, Late
<1> QED  BY <1>7, <1>12, <1>13, <1>14, <1>15, <1>17, <1>18 DEF AlertInv

(* A watch just created has no state, no firing and no pass upon it.       *)
LEMMA CreateStep ==
  ASSUME AlertInv, NEW r \in Requests, NEW w \in WatchIds, CreateWatch(r, w)
  PROVE  AlertInv'
<1>1. WellTyped  BY DEF AlertInv
<1>2. /\ live \subseteq drawn /\ drawn \subseteq WatchIds
      /\ active \in [WatchIds -> BOOLEAN] /\ episodes \in [WatchIds -> Nat]
      /\ w \notin drawn
  BY <1>1 DEF WellTyped, TypeOK, CreateWatch
<1>3. /\ UNCHANGED <<data, reset, last, unread, read, pass, call, overlapped>>
      /\ drawn' = drawn \cup {w} /\ live' = live \cup {w}
      /\ active' = [active EXCEPT ![w] = TRUE]
      /\ episodes' = [episodes EXCEPT ![w] = IF w \in Counting /\ Level(w) > 0 THEN 1 ELSE 0]
  BY DEF CreateWatch
<1>4. UNCHANGED data /\ UNCHANGED <<resets, wiping, torn>> /\ settled' = settled  BY <1>3 DEF data, reset
<1>5. \A x \in WatchIds : Level(x)' = Level(x)  BY <1>4, LevelKept
<1>6. WellTyped'  BY <1>1, <1>2, <1>3, <1>4 DEF WellTyped, TypeOK, data
<1>7. /\ last[w] = Never /\ unread[w] + read[w] = 0
      /\ \A e \in Evaluators : ~Handles(pass[e], w) /\ \A row \in Todo(pass[e]) : row.watch # w
  BY <1>2 DEF AlertInv, UndrawnIsUnknown, FiringsHaveTheirWatch
<1>8. /\ episodes'[w] = IF w \in Counting /\ Level(w) > 0 THEN 1 ELSE 0
      /\ \A x \in WatchIds : x # w => episodes'[x] = episodes[x]
  BY <1>2, <1>3
<1>9. FiringsHaveTheirWatch'  BY <1>2, <1>3 DEF AlertInv, FiringsHaveTheirWatch
<1>10. UndrawnIsUnknown'  BY <1>2, <1>3 DEF AlertInv, UndrawnIsUnknown
<1>11. ~SeenOut(w)  BY <1>7 DEF SeenOut, Never, Handles, Answered
<1>12. RisesAreNoted'
  <2> SUFFICES ASSUME NEW x \in live \cup {w}, Level(x) > 0, x \in Counting \/ SeenOut(x)
               PROVE  episodes'[x] > 0
    BY <1>2, <1>3, <1>5 DEF RisesAreNoted, SeenOut
  <2>1. CASE x = w  BY <2>1, <1>8, <1>11
  <2>2. CASE x # w  BY <2>2, <1>2, <1>8 DEF AlertInv, RisesAreNoted
  <2> QED  BY <2>1, <2>2
<1>13. FiringsAreNoted'
  <2> SUFFICES ASSUME ~torn
               PROVE  /\ \A e \in Evaluators :
                           pass[e].phase = "fire" /\ pass[e].watch \in live \cup {w} =>
                             episodes'[pass[e].watch] > 0
                      /\ \A e \in Evaluators :
                           pass[e].phase = "read" /\ pass[e].watch \in live \cup {w}
                             /\ Late(pass[e]) # {} => episodes'[pass[e].watch] > 0
                      /\ NoFalseAlarm'
    BY <1>3, <1>4 DEF FiringsAreNoted, Late
  <2>1. NoFalseAlarm'  BY <1>3, <1>7, <1>8 DEF AlertInv, FiringsAreNoted, NoFalseAlarm
  <2>2. \A e \in Evaluators : pass[e].phase \in {"read", "fire"} => pass[e].watch # w
    BY <1>7 DEF Handles
  <2> QED  BY <2>1, <2>2, <1>2, <1>3, <1>8 DEF AlertInv, FiringsAreNoted
<1>14. KeptApart'
  <2> SUFFICES ASSUME ~overlapped, ~torn, NEW x \in live \cup {w} PROVE Accounted(x)'
    BY <1>3, <1>4 DEF AlertInv, KeptApart, OnePass, PassIsCurrent
  <2>1. CASE x = w
    <3>1. \A e \in Evaluators : pass[e].phase \in {"read", "fire", "record"} => pass[e].watch # w
      BY <1>7 DEF Handles
    <3>2. IF Fires(w, last[w], Level(w)) THEN episodes'[w] = 1 ELSE episodes'[w] \in {0, 1}
      BY <1>7, <1>8 DEF Fires, Never
    <3> QED  BY <2>1, <3>1, <3>2, <1>3, <1>5, <1>7 DEF Accounted, Rung, Due, Rings
  <2>2. CASE x # w
    <3>1. Accounted(x)  BY <2>2 DEF AlertInv, KeptApart
    <3>2. x \in WatchIds  BY <1>2
    <3> QED  BY <3>1, <3>2, <2>2, <1>3, <1>4, <1>5, <1>8
             DEF Accounted, Rung, Due, Rings, Late
  <2> QED  BY <2>1, <2>2
<1>15. ReadsAreOld'  BY <1>3, <1>4, ReadsKept
<1> QED  BY <1>6, <1>9, <1>10, <1>12, <1>13, <1>14, <1>15 DEF AlertInv

(* The other requests, up to their last statement.                         *)
LEMMA RequestStep ==
  ASSUME AlertInv, NEW r \in Requests,
         \/ \E w \in WatchIds : \/ \E flag \in BOOLEAN : FindToSet(r, w, flag)
                                \/ FindToDelete(r, w)
         \/ UpdateActive(r)
  PROVE  AlertInv'
<1>1. /\ WellTyped /\ call[r] \in Calls /\ call \in [Requests -> Calls]
      /\ active \in [WatchIds -> BOOLEAN]
  BY DEF AlertInv, WellTyped, TypeOK
<1>2. UNCHANGED <<data, reset, drawn, live, last, unread, read, pass, episodes, overlapped>>
  BY DEF FindToSet, FindToDelete, UpdateActive, store
<1>3. /\ call' \in [Requests -> Calls]
      /\ active' \in [WatchIds -> BOOLEAN]
  <2>1. CASE \E w \in WatchIds, flag \in BOOLEAN : FindToSet(r, w, flag)
    <3>1. PICK w \in WatchIds, flag \in BOOLEAN :
            /\ call' = [call EXCEPT ![r] = [phase |-> "set", watch |-> w, flag |-> flag]]
            /\ active' = active
      BY <2>1 DEF FindToSet, store
    <3>2. [phase |-> "set", watch |-> w, flag |-> flag] \in Calls  BY DEF Calls
    <3> QED  BY <3>1, <3>2, <1>1
  <2>2. CASE \E w \in WatchIds : FindToDelete(r, w)
    <3>1. PICK w \in WatchIds :
            call' = [call EXCEPT ![r] = [phase |-> "delete", watch |-> w]] /\ active' = active
      BY <2>2 DEF FindToDelete, store
    <3>2. [phase |-> "delete", watch |-> w] \in Calls  BY DEF Calls
    <3> QED  BY <3>1, <3>2, <1>1
  <2>3. CASE UpdateActive(r)
    <3>1. call[r].phase = "set"  BY <2>3 DEF UpdateActive
    <3>2. call[r].watch \in WatchIds /\ call[r].flag \in BOOLEAN  BY <3>1, <1>1 DEF Calls, Idle
    <3> DEFINE w == call[r].watch
               flag == call[r].flag
    <3>3. Idle \in Calls  BY DEF Calls
    <3>4. /\ active' = active \/ active' = [active EXCEPT ![w] = flag]
          /\ call' = [call EXCEPT ![r] = Idle]
      BY <2>3 DEF UpdateActive
    <3> HIDE DEF w, flag
    <3>5. w \in WatchIds /\ flag \in BOOLEAN  BY <3>2 DEF w, flag
    <3>6. active' \in [WatchIds -> BOOLEAN]  BY <3>4, <3>5, <1>1
    <3> QED  BY <3>3, <3>4, <3>6, <1>1
  <2> QED  BY <2>1, <2>2, <2>3
<1>4. WellTyped'  BY <1>1, <1>2, <1>3 DEF WellTyped, TypeOK, data, reset
<1>5. UNCHANGED <<data, drawn, live, last, unread, read, pass, episodes, overlapped, torn>>
  BY <1>2 DEF reset
<1> QED  BY <1>4, <1>5, QuietStep

LEMMA DeleteStep == ASSUME AlertInv, NEW r \in Requests, DeleteRow(r) PROVE AlertInv'
<1> DEFINE w == call[r].watch
<1>1. WellTyped  BY DEF AlertInv
<1>2. /\ live \subseteq drawn /\ drawn \subseteq WatchIds
      /\ unread \in [WatchIds -> Nat] /\ read \in [WatchIds -> Nat]
      /\ call \in [Requests -> Calls]
  BY <1>1 DEF WellTyped, TypeOK
<1>3. /\ UNCHANGED <<data, reset, drawn, active, last, pass, episodes, overlapped>>
      /\ live' = live \ {w}
      /\ unread' = [unread EXCEPT ![w] = 0]
      /\ read' = [read EXCEPT ![w] = 0]
      /\ call' = [call EXCEPT ![r] = Idle]
  BY DEF DeleteRow
<1>4. w \in WatchIds
  <2>1. call[r] \in Calls /\ call[r].phase = "delete"  BY <1>2 DEF DeleteRow
  <2> QED  BY <2>1 DEF Calls, Idle
<1> HIDE DEF w
<1>5. UNCHANGED data /\ UNCHANGED <<resets, wiping, torn>> /\ settled' = settled  BY <1>3 DEF data, reset
<1>6. \A x \in WatchIds : Level(x)' = Level(x)  BY <1>5, LevelKept
<1>7. /\ unread' \in [WatchIds -> Nat] /\ read' \in [WatchIds -> Nat]
      /\ unread'[w] + read'[w] = 0
      /\ \A x \in WatchIds : x # w => unread'[x] = unread[x] /\ read'[x] = read[x]
  BY <1>2, <1>3, <1>4
<1>8. call' \in [Requests -> Calls]
  <2>1. Idle \in Calls  BY DEF Calls
  <2> QED  BY <2>1, <1>2, <1>3
<1>9. WellTyped'
  <2>1. live' \subseteq drawn  BY <1>2, <1>3
  <2> QED  BY <2>1, <1>1, <1>3, <1>7, <1>8 DEF WellTyped, TypeOK, data, reset
<1>10. FiringsHaveTheirWatch'  BY <1>3, <1>4, <1>7 DEF AlertInv, FiringsHaveTheirWatch
<1>11. UndrawnIsUnknown'  BY <1>3 DEF AlertInv, UndrawnIsUnknown
<1>12. RisesAreNoted'
  <2> SUFFICES ASSUME NEW x \in live, Level(x) > 0, x \in Counting \/ SeenOut(x)
               PROVE  episodes[x] > 0
    BY <1>2, <1>3, <1>6 DEF RisesAreNoted, SeenOut
  <2> QED  BY DEF AlertInv, RisesAreNoted
<1>13. FiringsAreNoted'  BY <1>3, <1>5, <1>7 DEF AlertInv, FiringsAreNoted, NoFalseAlarm, Late
<1>14. KeptApart'
  <2> SUFFICES ASSUME ~overlapped, ~torn, NEW x \in live, x # w PROVE Accounted(x)'
    BY <1>3, <1>5 DEF AlertInv, KeptApart, OnePass, PassIsCurrent
  <2>1. Accounted(x) /\ x \in WatchIds  BY <1>2 DEF AlertInv, KeptApart
  <2> QED  BY <2>1, <1>3, <1>5, <1>6, <1>7 DEF Accounted, Rung, Due, Rings, Late
<1>15. ReadsAreOld'  BY <1>3, <1>5, ReadsKept
<1> QED  BY <1>9, <1>10, <1>11, <1>12, <1>13, <1>14, <1>15 DEF AlertInv

LEMMA MarkStep == ASSUME AlertInv, NEW r \in Requests, MarkAllRead(r) PROVE AlertInv'
<1>1. WellTyped  BY DEF AlertInv
<1>2. /\ live \subseteq WatchIds /\ unread \in [WatchIds -> Nat] /\ read \in [WatchIds -> Nat]
  BY <1>1 DEF WellTyped, TypeOK
<1>3. /\ UNCHANGED <<data, reset, drawn, live, active, last, pass, call, episodes, overlapped>>
      /\ read' = [w \in WatchIds |-> read[w] + unread[w]]
      /\ unread' = [w \in WatchIds |-> 0]
  BY DEF MarkAllRead
<1>4. UNCHANGED data /\ UNCHANGED <<resets, wiping, torn>> /\ settled' = settled  BY <1>3 DEF data, reset
<1>5. \A x \in WatchIds : Level(x)' = Level(x)  BY <1>4, LevelKept
<1>6. /\ unread' \in [WatchIds -> Nat] /\ read' \in [WatchIds -> Nat]
      /\ \A x \in WatchIds : unread'[x] + read'[x] = unread[x] + read[x]
  BY <1>2, <1>3
<1>7. WellTyped'  BY <1>1, <1>3, <1>4, <1>6 DEF WellTyped, TypeOK, data
<1>8. FiringsHaveTheirWatch'  BY <1>3, <1>6 DEF AlertInv, FiringsHaveTheirWatch
<1>9. UndrawnIsUnknown'  BY <1>3 DEF AlertInv, UndrawnIsUnknown
<1>10. RisesAreNoted'  BY <1>2, <1>3, <1>5 DEF AlertInv, RisesAreNoted, SeenOut
<1>11. FiringsAreNoted'  BY <1>3, <1>4, <1>6 DEF AlertInv, FiringsAreNoted, NoFalseAlarm, Late
<1>12. KeptApart'
  <2> SUFFICES ASSUME ~overlapped, ~torn, NEW x \in live PROVE Accounted(x)'
    BY <1>3, <1>4 DEF AlertInv, KeptApart, OnePass, PassIsCurrent
  <2>1. Accounted(x) /\ x \in WatchIds  BY <1>2 DEF AlertInv, KeptApart
  <2> QED  BY <2>1, <1>3, <1>4, <1>5, <1>6 DEF Accounted, Rung, Due, Rings, Late
<1>13. ReadsAreOld'  BY <1>3, <1>4, ReadsKept
<1> QED  BY <1>7, <1>8, <1>9, <1>10, <1>11, <1>12, <1>13 DEF AlertInv

-----------------------------------------------------------------------------
(* The steps of a pass.                                                    *)

LEMMA PassUpdate ==
  ASSUME WellTyped, NEW e \in Evaluators, NEW q \in Pass, pass' = [pass EXCEPT ![e] = q]
  PROVE  /\ pass' \in [Evaluators -> Pass]
         /\ pass'[e] = q
         /\ \A f \in Evaluators : f # e => pass'[f] = pass[f]
<1>1. pass \in [Evaluators -> Pass]  BY DEF WellTyped, TypeOK
<1> QED  BY <1>1

(* A count that is dropped leaves what it would have brought to the next.   *)
LEMMA DroppedRead ==
  ASSUME AlertInv, NEW e \in Evaluators, NEW w \in live, Accounted(w),
         pass[e].phase = "read", pass[e].watch = w, pass[e].last = last[w]
  PROVE  Rung(w) + Due(w, last[w]) <= episodes[w]
<1>1. /\ WellTyped /\ ReadsAreOld /\ entries \in Seq(Nat) /\ live \subseteq WatchIds
      /\ last \in [WatchIds -> Nat \cup {Never}] /\ episodes \in [WatchIds -> Nat]
      /\ unread \in [WatchIds -> Nat] /\ read \in [WatchIds -> Nat]
  BY DEF AlertInv, WellTyped, TypeOK
<1>2. PICK n \in Nat : n = Cardinality(Late(pass[e]))  BY <1>1, LateFinite
<1>3. w \in Counting /\ w \in WatchIds  BY <1>1, PassTypes
<1>4. PICK level \in Int : level = Level(w)
  BY <1>1, <1>3, LevelRange DEF DaysTyped, LevelsInRange, NoSignal
<1>5. PICK seen \in Int : seen = last[w]  BY <1>1, <1>3 DEF Never
<1>6. PICK rung \in Int, known \in Int : rung = Rung(w) /\ known = episodes[w]
  BY <1>1, <1>3 DEF Rung
<1>7. rung + Rings(w, seen, n) + Rings(w, n, level) <= known
  BY <1>2, <1>4, <1>5, <1>6 DEF Accounted, Due
<1>8. Fires(w, seen, level) => Fires(w, seen, n) \/ Fires(w, n, level)
  BY <1>3 DEF Fires
<1>9. rung + Rings(w, seen, level) <= known  BY <1>7, <1>8 DEF Rings
<1> QED  BY <1>4, <1>5, <1>6, <1>9 DEF Due

(* A pass turns to the rows left to it, or ends, with no answer to a watch *)
(* there is.                                                               *)
LEMMA TurnStep ==
  ASSUME AlertInv, NEW e \in Evaluators, NEW q \in Pass,
         pass' = [pass EXCEPT ![e] = q],
         UNCHANGED <<data, reset, store, call, episodes, overlapped>>,
         Todo(q) \subseteq Todo(pass[e]), \A w : ~Handles(q, w),
         q.phase \in {"idle", "next"},
         pass[e] # Idle,
         \A w \in live : ~Answered(pass[e], w)
  PROVE  AlertInv'
<1>1. WellTyped  BY DEF AlertInv
<1>2. /\ pass' \in [Evaluators -> Pass] /\ pass'[e] = q
      /\ \A f \in Evaluators : f # e => pass'[f] = pass[f]
  BY <1>1, PassUpdate
<1>3. /\ UNCHANGED data /\ UNCHANGED <<drawn, live, active, last, unread, read>>
      /\ UNCHANGED <<resets, wiping, torn>> /\ settled' = settled
  BY DEF store, reset, data
<1>4. live \subseteq WatchIds  BY <1>1 DEF WellTyped, TypeOK
<1>5. \A x \in WatchIds : Level(x)' = Level(x)  BY <1>3, LevelKept
<1>6. WellTyped'  BY <1>1, <1>2, <1>3 DEF WellTyped, TypeOK, data
<1>7. FiringsHaveTheirWatch'  BY <1>3 DEF AlertInv, FiringsHaveTheirWatch
<1>8. UndrawnIsUnknown'
  <2>1. \A f \in Evaluators, w \in WatchIds \ drawn :
          ~Handles(pass'[f], w) /\ \A row \in Todo(pass'[f]) : row.watch # w
    <3> TAKE f \in Evaluators, w \in WatchIds \ drawn
    <3>1. ~Handles(pass[f], w) /\ \A row \in Todo(pass[f]) : row.watch # w
      BY DEF AlertInv, UndrawnIsUnknown
    <3>2. CASE f = e  BY <3>1, <3>2, <1>2
    <3>3. CASE f # e  BY <3>1, <3>3, <1>2
    <3> QED  BY <3>2, <3>3
  <2> QED  BY <2>1, <1>3 DEF AlertInv, UndrawnIsUnknown
<1>9. RisesAreNoted'
  <2>1. \A w \in live : SeenOut(w)' => SeenOut(w)
    <3> TAKE w \in live
    <3> SUFFICES ASSUME NEW f \in Evaluators,
                        \/ Answered(pass'[f], w) /\ pass'[f].level = 0
                        \/ \E row \in Todo(pass'[f]) : row.watch = w /\ row.last = 0
                 PROVE  SeenOut(w)
      BY <1>3 DEF SeenOut
    <3>1. CASE f = e  BY <3>1, <1>2 DEF SeenOut, Answered
    <3>2. CASE f # e  BY <3>2, <1>2 DEF SeenOut
    <3> QED  BY <3>1, <3>2
  <2> QED  BY <2>1, <1>3, <1>4, <1>5 DEF AlertInv, RisesAreNoted
<1>10. \A f \in Evaluators : pass'[f].phase \in {"read", "fire", "record"} => pass'[f] = pass[f]
  BY <1>2
<1>11. FiringsAreNoted'
  BY <1>3, <1>10 DEF AlertInv, FiringsAreNoted, NoFalseAlarm, Late
<1>12. ReadsAreOld'  BY <1>3, <1>10, ReadsKept
<1>13. KeptApart'
  <2> SUFFICES ASSUME ~overlapped
               PROVE  /\ OnePass'
                      /\ \A f \in Evaluators : PassIsCurrent(f)'
                      /\ ~torn => \A w \in live : Accounted(w)'
    BY <1>3 DEF KeptApart
  <2>1. OnePass /\ (\A f \in Evaluators : PassIsCurrent(f))
    BY DEF AlertInv, KeptApart
  <2>2. OnePass'  BY <2>1, <1>2 DEF OnePass
  <2>3. ASSUME NEW f \in Evaluators PROVE PassIsCurrent(f)'
    <3>1. PassIsCurrent(f)  BY <2>1
    <3>2. CASE f = e  BY <3>1, <3>2, <1>2, <1>3 DEF PassIsCurrent
    <3>3. CASE f # e  BY <3>1, <3>3, <1>2, <1>3 DEF PassIsCurrent
    <3> QED  BY <3>2, <3>3
  <2>4. ASSUME ~torn, NEW w \in live PROVE Accounted(w)'
    <3>1. Accounted(w) /\ w \in WatchIds  BY <2>4, <1>4 DEF AlertInv, KeptApart
    <3>2. \A f \in Evaluators : Handles(pass'[f], w) => pass'[f] = pass[f]
      BY <1>10 DEF Handles
    <3>3. (\A f \in Evaluators : ~Handles(pass'[f], w)) => Rung(w) + Due(w, last[w]) <= episodes[w]
      <4>1. CASE Handles(pass[e], w)
        <5>1. pass[e].phase = "read" /\ pass[e].watch = w  BY <4>1 DEF Handles, Answered
        <5>2. PassIsCurrent(e)  BY <2>1
        <5> QED  BY <5>1, <5>2, <3>1, <2>4, DroppedRead DEF PassIsCurrent
      <4>2. CASE ~Handles(pass[e], w)
        <5>1. \A f \in Evaluators : f # e => pass'[f] = pass[f]  BY <1>2
        <5> QED  BY <4>2, <5>1, <3>1 DEF Accounted
      <4> QED  BY <4>1, <4>2
    <3> QED  BY <3>1, <3>2, <3>3, <1>3, <1>5 DEF Accounted, Rung, Due, Rings, Handles, Late
  <2> QED  BY <2>2, <2>3, <2>4
<1> QED  BY <1>6, <1>7, <1>8, <1>9, <1>11, <1>12, <1>13 DEF AlertInv

LEMMA PassOverStep ==
  ASSUME AlertInv, NEW e \in Evaluators, NEW row \in pass[e].todo, PassOver(e, row)
  PROVE  AlertInv'
<1> DEFINE rest == pass[e].todo \ {row}
<1>1. /\ pass[e].phase = "next" /\ pass' = [pass EXCEPT ![e] = Resume(rest)]
      /\ UNCHANGED <<data, reset, store, call, episodes, overlapped>>
  BY DEF PassOver
<1>2. /\ pass[e] # Idle /\ rest \in SUBSET Snapshot /\ Todo(pass[e]) = pass[e].todo
      /\ \A w \in live : ~Answered(pass[e], w)
  BY <1>1, PassTypes DEF AlertInv, Todo, Answered
<1>3. /\ Resume(rest) \in Pass /\ Todo(Resume(rest)) = rest
      /\ Resume(rest).phase \in {"idle", "next"}
      /\ \A w : ~Handles(Resume(rest), w)
  BY <1>2, ResumeShape
<1>4. rest \subseteq Todo(pass[e])  BY <1>2
<1> HIDE DEF rest
<1> QED  BY <1>1, <1>2, <1>3, <1>4, TurnStep

LEMMA PassOverHalfReadStep ==
  ASSUME AlertInv, NEW e \in Evaluators, PassOverHalfRead(e)
  PROVE  AlertInv'
<1> DEFINE rest == pass[e].todo
<1>1. /\ pass[e].phase = "read" /\ pass' = [pass EXCEPT ![e] = Resume(rest)]
      /\ UNCHANGED <<data, reset, store, call, episodes, overlapped>>
  BY DEF PassOverHalfRead
<1>2. /\ pass[e] # Idle /\ rest \in SUBSET Snapshot /\ Todo(pass[e]) = rest
      /\ \A w \in live : ~Answered(pass[e], w)
  BY <1>1, PassTypes DEF AlertInv, Todo, Answered
<1>3. /\ Resume(rest) \in Pass /\ Todo(Resume(rest)) = rest
      /\ Resume(rest).phase \in {"idle", "next"}
      /\ \A w : ~Handles(Resume(rest), w)
  BY <1>2, ResumeShape
<1>4. rest \subseteq Todo(pass[e])  BY <1>2
<1> HIDE DEF rest
<1> QED  BY <1>1, <1>2, <1>3, <1>4, TurnStep

LEMMA BeginStep ==
  ASSUME AlertInv, NEW e \in Evaluators, BeginPass(e)
  PROVE  AlertInv'
<1> DEFINE rows == {[watch |-> w, last |-> last[w]] : w \in {x \in live : active[x]}}
           q == Resume(rows)
<1>1. WellTyped  BY DEF AlertInv
<1>2. live \subseteq drawn /\ drawn \subseteq WatchIds /\ last \in [WatchIds -> Nat \cup {Never}]
  BY <1>1 DEF WellTyped, TypeOK
<1>3. /\ pass[e] = Idle /\ pass' = [pass EXCEPT ![e] = q]
      /\ overlapped' = (overlapped \/ \E f \in Evaluators : pass[f] # Idle)
      /\ UNCHANGED data /\ UNCHANGED <<drawn, live, active, last, unread, read, call, episodes>>
      /\ UNCHANGED <<resets, wiping, torn>> /\ settled' = settled
  BY DEF BeginPass, NoteOverlap, store, reset, data
<1>4. \A row \in rows : row \in Snapshot /\ row.watch \in live /\ row.last = last[row.watch]
  BY <1>2 DEF Snapshot
<1>5. rows \in SUBSET Snapshot  BY <1>4
<1> HIDE DEF rows
<1>6. q \in Pass /\ q.phase \in {"idle", "next"} /\ Todo(q) = rows /\ \A w : ~Handles(q, w)
  BY <1>5, ResumeShape
<1> HIDE DEF q
<1>7. /\ pass' \in [Evaluators -> Pass] /\ pass'[e] = q
      /\ \A f \in Evaluators : f # e => pass'[f] = pass[f]
  BY <1>1, <1>3, <1>6, PassUpdate
<1>8. \A x \in WatchIds : Level(x)' = Level(x)  BY <1>3, LevelKept
<1>9. WellTyped'  BY <1>1, <1>3, <1>7 DEF WellTyped, TypeOK, data
<1>10. FiringsHaveTheirWatch'  BY <1>3 DEF AlertInv, FiringsHaveTheirWatch
<1>11. UndrawnIsUnknown'
  <2>1. \A f \in Evaluators, w \in WatchIds \ drawn :
          ~Handles(pass'[f], w) /\ \A row \in Todo(pass'[f]) : row.watch # w
    <3> TAKE f \in Evaluators, w \in WatchIds \ drawn
    <3>1. CASE f = e  BY <3>1, <1>2, <1>4, <1>6, <1>7
    <3>2. CASE f # e  BY <3>2, <1>7 DEF AlertInv, UndrawnIsUnknown
    <3> QED  BY <3>1, <3>2
  <2> QED  BY <2>1, <1>3 DEF AlertInv, UndrawnIsUnknown
<1>12. RisesAreNoted'
  <2>1. \A w \in live : SeenOut(w)' => SeenOut(w)
    <3> TAKE w \in live
    <3> SUFFICES ASSUME NEW f \in Evaluators,
                        \/ Answered(pass'[f], w) /\ pass'[f].level = 0
                        \/ \E row \in Todo(pass'[f]) : row.watch = w /\ row.last = 0
                 PROVE  SeenOut(w)
      BY <1>3 DEF SeenOut
    <3>1. CASE f = e  BY <3>1, <1>4, <1>6, <1>7 DEF SeenOut, Answered
    <3>2. CASE f # e  BY <3>2, <1>7 DEF SeenOut
    <3> QED  BY <3>1, <3>2
  <2> QED  BY <2>1, <1>2, <1>3, <1>8 DEF AlertInv, RisesAreNoted
<1>13. FiringsAreNoted'
  <2>1. \A f \in Evaluators : pass'[f].phase \in {"read", "fire"} => pass'[f] = pass[f]
    BY <1>6, <1>7
  <2> QED  BY <2>1, <1>3 DEF AlertInv, FiringsAreNoted, NoFalseAlarm, Late
<1>15. ReadsAreOld'
  <2>1. \A f \in Evaluators : pass'[f].phase = "read" => pass'[f] = pass[f]  BY <1>6, <1>7
  <2> QED  BY <2>1, <1>3, ReadsKept
<1>14. KeptApart'
  <2> SUFFICES ASSUME ~overlapped, \A f \in Evaluators : pass[f] = Idle
               PROVE  /\ OnePass'
                      /\ \A f \in Evaluators : PassIsCurrent(f)'
                      /\ ~torn => \A w \in live : Accounted(w)'
    BY <1>3 DEF KeptApart
  <2>1. Todo(Idle) = {} /\ Idle.phase = "idle" /\ \A w : ~Handles(Idle, w)
    BY DEF Todo, Handles, Idle
  <2>2. \A f \in Evaluators : f # e => pass'[f] = Idle  BY <1>7
  <2>3. OnePass'  BY <2>2 DEF OnePass
  <2>4. ASSUME NEW f \in Evaluators PROVE PassIsCurrent(f)'
    <3>1. CASE f = e  BY <3>1, <1>3, <1>4, <1>6, <1>7 DEF PassIsCurrent
    <3>2. CASE f # e  BY <3>2, <2>1, <2>2 DEF PassIsCurrent
    <3> QED  BY <3>1, <3>2
  <2>5. ASSUME ~torn, NEW w \in live PROVE Accounted(w)'
    <3>1. Accounted(w) /\ w \in WatchIds  BY <2>5, <1>2 DEF AlertInv, KeptApart
    <3>2. Rung(w) + Due(w, last[w]) <= episodes[w]  BY <3>1, <2>1 DEF Accounted
    <3>3. \A f \in Evaluators : pass'[f].phase \in {"idle", "next"}  BY <2>1, <2>2, <1>6, <1>7
    <3> QED  BY <3>2, <3>3, <3>1, <1>3, <1>8 DEF Accounted, Rung, Due, Rings
  <2> QED  BY <2>3, <2>4, <2>5
<1> QED  BY <1>9, <1>10, <1>11, <1>12, <1>13, <1>14, <1>15 DEF AlertInv

(* A pass answers to w, the watch in its hand or the row it takes.  What it*)
(* compared with and counted is spelled out by the two lemmas that follow. *)
LEMMA AnswerStep ==
  ASSUME AlertInv, NEW e \in Evaluators, NEW w \in drawn, NEW before \in Nat \cup {Never},
         NEW level \in Nat, NEW todo \in SUBSET Snapshot,
         Answer(e, todo, w, before, level),
         pass[e] # Idle, todo \subseteq Todo(pass[e]),
         \A x : Handles(pass[e], x) => x = w /\ ~Answered(pass[e], x),
         w \notin Counting /\ level = 0 => Level(w) = 0,
         ~torn /\ w \in live /\ Fires(w, before, level) => episodes[w] > 0,
         ~overlapped => before = last[w] /\ \A row \in todo : row.watch # w,
         ~overlapped /\ ~torn /\ w \in live =>
           Rung(w) + Rings(w, before, level) + Due(w, level) <= episodes[w]
  PROVE  AlertInv'
<1> DEFINE phase == IF Fires(w, before, level) THEN "fire" ELSE "record"
           q == [phase |-> phase, todo |-> todo, watch |-> w, level |-> level]
<1>1. WellTyped  BY DEF AlertInv
<1>2. /\ live \subseteq WatchIds /\ w \in WatchIds
      /\ unread \in [WatchIds -> Nat] /\ read \in [WatchIds -> Nat]
      /\ episodes \in [WatchIds -> Nat]
  BY <1>1 DEF WellTyped, TypeOK
<1>3. /\ pass' = [pass EXCEPT ![e] = q]
      /\ UNCHANGED data
      /\ UNCHANGED <<drawn, live, active, last, unread, read, call, episodes, overlapped>>
      /\ UNCHANGED <<resets, wiping, torn>> /\ settled' = settled
  BY DEF Answer, store, reset, data
<1>7. phase \in {"fire", "record"}  OBVIOUS
<1>8. /\ q \in Pass /\ q.phase = phase /\ q.watch = w /\ q.level = level
      /\ q # Idle /\ Todo(q) = todo
      /\ \A x : (Handles(q, x) <=> x = w) /\ (Answered(q, x) <=> x = w)
  <2> HIDE DEF phase
  <2> QED  BY <1>2, <1>7, WorkShape
<1>10. phase = "fire" <=> Fires(w, before, level)  OBVIOUS
<1> HIDE DEF q, phase
<1>11. /\ pass' \in [Evaluators -> Pass] /\ pass'[e] = q
       /\ \A f \in Evaluators : f # e => pass'[f] = pass[f]
  BY <1>1, <1>3, <1>8, PassUpdate
<1>12. \A x \in WatchIds : Level(x)' = Level(x)  BY <1>3, LevelKept
<1>13. WellTyped'  BY <1>1, <1>3, <1>11 DEF WellTyped, TypeOK, data
<1>14. FiringsHaveTheirWatch'  BY <1>3 DEF AlertInv, FiringsHaveTheirWatch
<1>15. UndrawnIsUnknown'
  <2>1. \A f \in Evaluators, x \in WatchIds \ drawn :
          ~Handles(pass'[f], x) /\ \A other \in Todo(pass'[f]) : other.watch # x
    <3> TAKE f \in Evaluators, x \in WatchIds \ drawn
    <3>1. CASE f = e
      <4>1. \A other \in Todo(pass[e]) : other.watch # x  BY DEF AlertInv, UndrawnIsUnknown
      <4> QED  BY <3>1, <4>1, <1>8, <1>11
    <3>2. CASE f # e  BY <3>2, <1>11 DEF AlertInv, UndrawnIsUnknown
    <3> QED  BY <3>1, <3>2
  <2> QED  BY <2>1, <1>3 DEF AlertInv, UndrawnIsUnknown
<1>16. RisesAreNoted'
  <2>1. \A x \in live : SeenOut(x)' => SeenOut(x) \/ x \in Counting \/ Level(x) = 0
    <3> TAKE x \in live
    <3> SUFFICES ASSUME x \notin Counting, NEW f \in Evaluators,
                        \/ Answered(pass'[f], x) /\ pass'[f].level = 0
                        \/ \E other \in Todo(pass'[f]) : other.watch = x /\ other.last = 0
                 PROVE  SeenOut(x) \/ Level(x) = 0
      BY <1>3 DEF SeenOut
    <3>1. CASE f = e  BY <3>1, <1>8, <1>11 DEF SeenOut
    <3>2. CASE f # e  BY <3>2, <1>11 DEF SeenOut
    <3> QED  BY <3>1, <3>2
  <2> QED  BY <2>1, <1>2, <1>3, <1>12 DEF AlertInv, RisesAreNoted
<1>17. FiringsAreNoted'
  <2>1. \A f \in Evaluators : ~torn /\ pass'[f].phase = "fire" /\ pass'[f].watch \in live =>
          episodes[pass'[f].watch] > 0
    BY <1>8, <1>10, <1>11 DEF AlertInv, FiringsAreNoted
  <2>2. \A f \in Evaluators : pass'[f].phase = "read" => pass'[f] = pass[f]
    BY <1>7, <1>8, <1>11
  <2> QED  BY <2>1, <2>2, <1>3 DEF AlertInv, FiringsAreNoted, NoFalseAlarm, Late
<1>18. ReadsAreOld'
  <2>1. \A f \in Evaluators : pass'[f].phase = "read" => pass'[f] = pass[f]
    BY <1>7, <1>8, <1>11
  <2> QED  BY <2>1, <1>3, ReadsKept
<1>19. KeptApart'
  <2> SUFFICES ASSUME ~overlapped
               PROVE  /\ OnePass'
                      /\ \A f \in Evaluators : PassIsCurrent(f)'
                      /\ ~torn => \A x \in live : Accounted(x)'
    BY <1>3 DEF KeptApart
  <2>1. OnePass /\ (\A f \in Evaluators : PassIsCurrent(f))
    BY DEF AlertInv, KeptApart
  <2>2. \A f \in Evaluators : f # e => pass[f] = Idle  BY <2>1 DEF OnePass
  <2>3. \A f \in Evaluators : f # e => \A x : ~Handles(pass[f], x)
    BY <2>2 DEF Handles, Idle
  <2>5. OnePass'  BY <2>1, <1>11 DEF OnePass
  <2>6. ASSUME NEW f \in Evaluators PROVE PassIsCurrent(f)'
    <3>1. CASE f # e  BY <3>1, <2>1, <1>3, <1>11 DEF PassIsCurrent
    <3>2. CASE f = e
      <4>1. \A other \in todo : other.last = last[other.watch]  BY <2>1 DEF PassIsCurrent
      <4> QED  BY <3>2, <4>1, <1>3, <1>7, <1>8, <1>10, <1>11 DEF PassIsCurrent
    <3> QED  BY <3>1, <3>2
  <2>7. ASSUME ~torn, NEW x \in live PROVE Accounted(x)'
    <3>1. Accounted(x) /\ x \in WatchIds  BY <2>7, <1>2 DEF AlertInv, KeptApart
    <3>4. \A f \in Evaluators : f # e => ~Handles(pass'[f], x)  BY <2>3, <1>11
    <3>5. CASE x # w
      <4>1. \A f \in Evaluators : ~Handles(pass'[f], x)  BY <3>4, <3>5, <1>8, <1>11
      <4>2. \A f \in Evaluators : ~Handles(pass[f], x)  BY <2>3, <3>5
      <4>3. \A f \in Evaluators :
              pass'[f].phase \in {"read", "fire", "record"} => pass'[f].watch # x
        BY <4>1 DEF Handles
      <4>4. Rung(x) + Due(x, last[x]) <= episodes[x]  BY <4>2, <3>1 DEF Accounted
      <4> QED  BY <4>3, <4>4, <3>1, <1>3, <1>12 DEF Accounted, Rung, Due, Rings
    <3>6. CASE x = w
      <4>1. Handles(pass'[e], w)  BY <1>8, <1>11
      <4>2. \A f \in Evaluators : Handles(pass'[f], w) => f = e  BY <3>4, <3>6
      <4>3. Rung(w) + Rings(w, before, level) + Due(w, level) <= episodes[w]
        BY <2>7, <3>6
      <4>4. Rings(w, before, level) = IF phase = "fire" THEN 1 ELSE 0  BY <1>10 DEF Rings
      <4>5. Rung(w) \in Nat /\ episodes[w] \in Nat /\ Due(w, level) \in {0, 1}
        BY <1>2 DEF Rung, Due, Rings
      <4>6. IF phase = "fire" THEN Rung(w) + 1 + Due(w, level) <= episodes[w]
                              ELSE Rung(w) + Due(w, level) <= episodes[w]
        BY <4>3, <4>4, <4>5
      <4>7. (Rung(w))' = Rung(w) /\ (Due(w, level))' = Due(w, level) /\ episodes' = episodes
            /\ Level(w)' = Level(w)
        BY <1>2, <1>3, <1>12 DEF Rung, Due
      <4>8. \A f \in Evaluators :
              pass'[f].phase \in {"read", "fire", "record"} /\ pass'[f].watch = w =>
                f = e /\ pass'[f].phase = phase /\ pass'[f].level = level
        BY <4>2, <1>8, <1>11 DEF Handles
      <4>9. \A f \in Evaluators :
              pass'[f].phase = "fire" /\ pass'[f].watch = w =>
                Rung(w) + 1 + Rings(w, pass'[f].level, Level(w)) <= episodes[w]
        BY <4>6, <4>8 DEF Due
      <4>10. \A f \in Evaluators :
              pass'[f].phase = "record" /\ pass'[f].watch = w =>
                Rung(w) + Rings(w, pass'[f].level, Level(w)) <= episodes[w]
        BY <4>6, <4>8 DEF Due
      <4>11. \A f \in Evaluators : ~(pass'[f].phase = "read" /\ pass'[f].watch = w)
        BY <4>8, <1>7
      <4> QED  BY <3>6, <4>1, <4>7, <4>9, <4>10, <4>11 DEF Accounted, Due
    <3> QED  BY <3>5, <3>6
  <2> QED  BY <2>5, <2>6, <2>7
<1> QED  BY <1>13, <1>14, <1>15, <1>16, <1>17, <1>18, <1>19 DEF AlertInv

(* The row a pass takes is of a watch that was drawn, and while passes keep*)
(* apart it carries the state the watch still has, and is the only one.    *)
LEMMA RowIsCurrent ==
  ASSUME AlertInv, NEW e \in Evaluators, pass[e].phase = "next", NEW row \in pass[e].todo
  PROVE  /\ pass[e] # Idle /\ Todo(pass[e]) = pass[e].todo /\ pass[e].todo \subseteq Snapshot
         /\ \A x : ~Handles(pass[e], x)
         /\ row.watch \in drawn /\ row.watch \in WatchIds /\ row.last \in Nat \cup {Never}
         /\ ~overlapped =>
              /\ row.last = last[row.watch]
              /\ \A other \in pass[e].todo \ {row} : other.watch # row.watch
<1>1. WellTyped  BY DEF AlertInv
<1>2. /\ pass[e] # Idle /\ Todo(pass[e]) = pass[e].todo /\ pass[e].todo \subseteq Snapshot
      /\ \A x : ~Handles(pass[e], x)
  BY <1>1, PassTypes DEF Todo, Handles
<1>3. row \in Snapshot /\ row.watch \in WatchIds /\ row.last \in Nat \cup {Never}
  BY <1>2 DEF Snapshot
<1>4. row.watch \in drawn  BY <1>2, <1>3 DEF AlertInv, UndrawnIsUnknown
<1>5. ASSUME ~overlapped
      PROVE  /\ row.last = last[row.watch]
             /\ \A other \in pass[e].todo \ {row} : other.watch # row.watch
  <2>1. \A other \in pass[e].todo : other.last = last[other.watch] /\ other \in Snapshot
    BY <1>2, <1>5 DEF AlertInv, KeptApart, PassIsCurrent
  <2> QED  BY <2>1, <1>3 DEF Snapshot
<1> QED  BY <1>2, <1>3, <1>4, <1>5

LEMMA EvaluateStep ==
  ASSUME AlertInv, NEW e \in Evaluators, NEW row \in pass[e].todo, Evaluate(e, row)
  PROVE  AlertInv'
<1> DEFINE rest == pass[e].todo \ {row}
<1>1. pass[e].phase = "next"  BY DEF Evaluate
<1>2. PICK w, before : w = row.watch /\ before = row.last  OBVIOUS
<1>3. PICK level : level = Level(w)  OBVIOUS
<1>4. w \notin Counting /\ level # NoSignal /\ Answer(e, rest, w, before, level)
  BY <1>2, <1>3 DEF Evaluate
<1>5. /\ pass[e] # Idle /\ rest \subseteq Todo(pass[e]) /\ rest \in SUBSET Snapshot
      /\ \A x : ~Handles(pass[e], x)
      /\ w \in drawn /\ w \in WatchIds /\ before \in Nat \cup {Never}
      /\ ~overlapped => before = last[w] /\ \A other \in rest : other.watch # w
      /\ row \in Todo(pass[e])
  BY <1>1, <1>2, RowIsCurrent
<1>6. level \in Nat
  <2>1. DaysTyped  BY DEF AlertInv, WellTyped, TypeOK, DaysTyped
  <2> QED  BY <2>1, <1>3, <1>4, <1>5, LevelRange DEF LevelsInRange
<1>7. w \in live /\ Fires(w, before, level) => episodes[w] > 0
  <2> SUFFICES ASSUME w \in live, Fires(w, before, level) PROVE episodes[w] > 0  OBVIOUS
  <2>1. Level(w) > 0 /\ before = 0  BY <1>3, <1>4 DEF Fires
  <2>2. SeenOut(w)  BY <2>1, <1>2, <1>5 DEF SeenOut
  <2> QED  BY <2>1, <2>2 DEF AlertInv, RisesAreNoted
<1>8. ~overlapped /\ ~torn /\ w \in live =>
        Rung(w) + Rings(w, before, level) + Due(w, level) <= episodes[w]
  <2> SUFFICES ASSUME ~overlapped, ~torn, w \in live
               PROVE  Rung(w) + Rings(w, before, level) + Due(w, level) <= episodes[w]
    OBVIOUS
  <2>1. \A f \in Evaluators : f # e => pass[f] = Idle  BY <1>5 DEF AlertInv, KeptApart, OnePass
  <2>2. \A f \in Evaluators : ~Handles(pass[f], w)  BY <2>1, <1>5 DEF Handles, Idle
  <2>3. Rung(w) + Due(w, before) <= episodes[w]  BY <2>2, <1>5 DEF AlertInv, KeptApart, Accounted
  <2>4. Rung(w) \in Nat /\ episodes[w] \in Nat
    BY <1>5 DEF AlertInv, WellTyped, TypeOK, Rung
  <2>5. Due(w, level) = 0  BY <1>3, <1>4, <1>6 DEF Due, Rings, Fires
  <2>6. Rings(w, before, level) = Due(w, before) /\ Due(w, before) \in {0, 1}
    BY <1>3 DEF Due, Rings
  <2> QED  BY <2>3, <2>4, <2>5, <2>6
<1> HIDE DEF rest
<1> QED  BY <1>3, <1>4, <1>5, <1>6, <1>7, <1>8, AnswerStep

(* A pass takes a row and reads the entries: what it will count is what is *)
(* late now.                                                               *)
LEMMA ReadEntriesStep ==
  ASSUME AlertInv, NEW e \in Evaluators, NEW row \in pass[e].todo, ReadEntries(e, row)
  PROVE  AlertInv'
<1> DEFINE rest == pass[e].todo \ {row}
           mine == Old(Asks[row.watch])
           q == [phase |-> "read", todo |-> rest, watch |-> row.watch, last |-> row.last,
                 old |-> mine]
<1>1. WellTyped  BY DEF AlertInv
<1>2. /\ live \subseteq WatchIds /\ entries \in Seq(Nat)
      /\ unread \in [WatchIds -> Nat] /\ read \in [WatchIds -> Nat]
      /\ episodes \in [WatchIds -> Nat]
  BY <1>1 DEF WellTyped, TypeOK
<1>3. /\ pass[e].phase = "next" /\ row.watch \in Counting
      /\ pass' = [pass EXCEPT ![e] = q]
      /\ UNCHANGED data
      /\ UNCHANGED <<drawn, live, active, last, unread, read, call, episodes, overlapped>>
      /\ UNCHANGED <<resets, wiping, torn>>
      /\ settled' = settled /\ entries' = entries /\ today' = today
  BY DEF ReadEntries, store, reset, data
<1>4. PICK w, before : w = row.watch /\ before = row.last  OBVIOUS
<1>5. /\ pass[e] # Idle /\ rest \subseteq Todo(pass[e]) /\ rest \in SUBSET Snapshot
      /\ \A x : ~Handles(pass[e], x)
      /\ w \in drawn /\ w \in WatchIds /\ w \in Counting /\ before \in Nat \cup {Never}
      /\ ~overlapped => before = last[w] /\ \A other \in rest : other.watch # w
  BY <1>3, <1>4, RowIsCurrent
<1>6. mine \subseteq {i \in DOMAIN entries : entries[i] < today - Asks[w].days} /\ mine \in SUBSET Nat
  BY <1>2, <1>4 DEF Old
<1>7. Level(w) = Cardinality(mine \ settled)
  BY <1>4, <1>5 DEF Counting, Level, OutcomeOverdue
<1> HIDE DEF rest, mine
<1>8. /\ q \in Pass /\ q.phase = "read" /\ q.watch = w /\ q.last = before /\ q.old = mine
      /\ q # Idle /\ Todo(q) = rest /\ \A x : (Handles(q, x) <=> x = w) /\ ~Answered(q, x)
  BY <1>4, <1>5, <1>6, ReadShape
<1> HIDE DEF q
<1>11. /\ pass' \in [Evaluators -> Pass] /\ pass'[e] = q
       /\ \A f \in Evaluators : f # e => pass'[f] = pass[f]
  BY <1>1, <1>3, <1>8, PassUpdate
<1>12. \A x \in WatchIds : Level(x)' = Level(x)  BY <1>3, LevelKept
<1>13. WellTyped'  BY <1>1, <1>3, <1>11 DEF WellTyped, TypeOK, data
<1>14. FiringsHaveTheirWatch'  BY <1>3 DEF AlertInv, FiringsHaveTheirWatch
<1>15. UndrawnIsUnknown'
  <2>1. \A f \in Evaluators, x \in WatchIds \ drawn :
          ~Handles(pass'[f], x) /\ \A other \in Todo(pass'[f]) : other.watch # x
    <3> TAKE f \in Evaluators, x \in WatchIds \ drawn
    <3>1. CASE f = e
      <4>1. \A other \in Todo(pass[e]) : other.watch # x  BY DEF AlertInv, UndrawnIsUnknown
      <4> QED  BY <3>1, <4>1, <1>5, <1>8, <1>11
    <3>2. CASE f # e  BY <3>2, <1>11 DEF AlertInv, UndrawnIsUnknown
    <3> QED  BY <3>1, <3>2
  <2> QED  BY <2>1, <1>3 DEF AlertInv, UndrawnIsUnknown
<1>16. RisesAreNoted'
  <2>1. \A x \in live : SeenOut(x)' => SeenOut(x)
    <3> TAKE x \in live
    <3> SUFFICES ASSUME NEW f \in Evaluators,
                        \/ Answered(pass'[f], x) /\ pass'[f].level = 0
                        \/ \E other \in Todo(pass'[f]) : other.watch = x /\ other.last = 0
                 PROVE  SeenOut(x)
      BY <1>3 DEF SeenOut
    <3>1. CASE f = e  BY <3>1, <1>5, <1>8, <1>11 DEF SeenOut
    <3>2. CASE f # e  BY <3>2, <1>11 DEF SeenOut
    <3> QED  BY <3>1, <3>2
  <2> QED  BY <2>1, <1>2, <1>3, <1>12 DEF AlertInv, RisesAreNoted
<1>17. ReadsAreOld'
  <2> SUFFICES ASSUME NEW f \in Evaluators, pass'[f].phase = "read"
               PROVE  pass'[f].old \subseteq
                        {i \in DOMAIN entries : entries[i] < today - Asks[pass'[f].watch].days}
    BY <1>3 DEF ReadsAreOld
  <2>1. CASE f = e  BY <2>1, <1>6, <1>8, <1>11
  <2>2. CASE f # e  BY <2>2, <1>11 DEF AlertInv, ReadsAreOld
  <2> QED  BY <2>1, <2>2
<1>18. FiringsAreNoted'
  <2> SUFFICES ASSUME ~torn
               PROVE  /\ \A f \in Evaluators :
                           pass'[f].phase = "fire" /\ pass'[f].watch \in live =>
                             episodes[pass'[f].watch] > 0
                      /\ \A f \in Evaluators :
                           pass'[f].phase = "read" /\ pass'[f].watch \in live
                             /\ pass'[f].old \ settled # {} => episodes[pass'[f].watch] > 0
                      /\ NoFalseAlarm'
    BY <1>3 DEF FiringsAreNoted, Late
  <2>1. NoFalseAlarm'  BY <1>3 DEF AlertInv, FiringsAreNoted, NoFalseAlarm
  <2>2. ASSUME NEW f \in Evaluators, pass'[f].phase = "fire", pass'[f].watch \in live
        PROVE  episodes[pass'[f].watch] > 0
    <3>1. pass'[f] = pass[f]  BY <2>2, <1>8, <1>11
    <3> QED  BY <3>1, <2>2 DEF AlertInv, FiringsAreNoted
  <2>3. ASSUME NEW f \in Evaluators, pass'[f].phase = "read", pass'[f].watch \in live,
               pass'[f].old \ settled # {}
        PROVE  episodes[pass'[f].watch] > 0
    <3>1. CASE f # e
      <4>1. pass'[f] = pass[f]  BY <3>1, <1>11
      <4> QED  BY <4>1, <2>3 DEF AlertInv, FiringsAreNoted, Late
    <3>2. CASE f = e
      <4>1. w \in live /\ mine \ settled # {}  BY <2>3, <3>2, <1>8, <1>11
      <4>2. IsFiniteSet(mine \ settled)
        <5>1. PICK n \in Nat : n = Len(entries)  BY <1>2
        <5>2. IsFiniteSet(1 .. n)  BY FS_Interval
        <5>3. DOMAIN entries = 1 .. n  BY <5>1, <1>2
        <5>4. mine \subseteq DOMAIN entries  BY <1>6
        <5>5. mine \ settled \subseteq 1 .. n  BY <5>3, <5>4
        <5> QED  BY <5>2, <5>5, FS_Subset
      <4>3. Level(w) > 0  BY <4>1, <4>2, <1>7, FS_EmptySet, FS_CardinalityType
      <4> QED  BY <4>1, <4>3, <3>2, <1>5, <1>8, <1>11 DEF AlertInv, RisesAreNoted
    <3> QED  BY <3>1, <3>2
  <2> QED  BY <2>1, <2>2, <2>3
<1>19. KeptApart'
  <2> SUFFICES ASSUME ~overlapped
               PROVE  /\ OnePass'
                      /\ \A f \in Evaluators : PassIsCurrent(f)'
                      /\ ~torn => \A x \in live : Accounted(x)'
    BY <1>3 DEF KeptApart
  <2>1. OnePass /\ (\A f \in Evaluators : PassIsCurrent(f))
    BY DEF AlertInv, KeptApart
  <2>2. \A f \in Evaluators : f # e => pass[f] = Idle  BY <2>1, <1>5 DEF OnePass
  <2>3. \A f \in Evaluators : \A x : ~Handles(pass[f], x)
    BY <2>2, <1>5 DEF Handles, Idle
  <2>5. OnePass'  BY <2>1, <1>5, <1>11 DEF OnePass
  <2>6. ASSUME NEW f \in Evaluators PROVE PassIsCurrent(f)'
    <3>1. CASE f # e  BY <3>1, <2>1, <1>3, <1>11 DEF PassIsCurrent
    <3>2. CASE f = e
      <4>1. \A other \in rest : other.last = last[other.watch]  BY <2>1, <1>5 DEF PassIsCurrent
      <4> QED  BY <3>2, <4>1, <1>3, <1>5, <1>8, <1>11 DEF PassIsCurrent
    <3> QED  BY <3>1, <3>2
  <2>7. ASSUME ~torn, NEW x \in live PROVE Accounted(x)'
    <3>1. Rung(x) + Due(x, last[x]) <= episodes[x] /\ x \in WatchIds
      BY <2>3, <2>7, <1>2 DEF AlertInv, KeptApart, Accounted
    <3>2. \A f \in Evaluators : f # e => ~Handles(pass'[f], x)  BY <2>3, <1>11
    <3>3. CASE x # w
      <4>1. \A f \in Evaluators : ~Handles(pass'[f], x)  BY <3>2, <3>3, <1>8, <1>11
      <4>2. \A f \in Evaluators :
              pass'[f].phase \in {"read", "fire", "record"} => pass'[f].watch # x
        BY <4>1 DEF Handles
      <4> QED  BY <4>2, <3>1, <1>3, <1>12 DEF Accounted, Rung, Due, Rings
    <3>4. CASE x = w
      <4>1. Handles(pass'[e], w)  BY <1>8, <1>11
      <4>2. \A f \in Evaluators :
              pass'[f].phase \in {"read", "fire", "record"} /\ pass'[f].watch = w =>
                f = e /\ pass'[f].phase = "read" /\ pass'[f].last = before /\ pass'[f].old = mine
        BY <3>2, <3>4, <1>8, <1>11 DEF Handles
      <4>3. PICK level : level = Cardinality(mine \ settled)  OBVIOUS
      <4>4. Rings(w, before, level) = Due(w, last[w])
        BY <4>3, <1>5, <1>7 DEF Due
      <4>5. Rings(w, level, Level(w)) = 0
        <5>1. level \in Int
          <6>1. DaysTyped  BY <1>2 DEF DaysTyped
          <6> QED  BY <6>1, <4>3, <1>5, <1>7, LevelRange DEF LevelsInRange, NoSignal
        <5> QED  BY <5>1, <4>3, <1>5, <1>7 DEF Rings, Fires
      <4>6. Rung(w) \in Nat /\ Due(w, last[w]) \in {0, 1}  BY <1>2, <1>5 DEF Rung, Due, Rings
      <4>7. Rung(w) + Rings(w, before, level) + Rings(w, level, Level(w)) <= episodes[w]
        BY <4>4, <4>5, <4>6, <3>1, <3>4
      <4>8. (Rung(w))' = Rung(w) /\ Level(w)' = Level(w) /\ episodes' = episodes
        BY <1>3, <1>5, <1>12 DEF Rung
      <4>9. \A f \in Evaluators : pass'[f].phase \notin {"fire", "record"} \/ pass'[f].watch # w
        BY <4>2
      <4>10. \A f \in Evaluators : pass'[f].phase = "read" /\ pass'[f].watch = w =>
               LET n == Cardinality(pass'[f].old \ settled)
               IN Rung(w) + Rings(w, pass'[f].last, n) + Rings(w, n, Level(w)) <= episodes[w]
        BY <4>2, <4>3, <4>7
      <4> QED  BY <3>4, <4>1, <4>8, <4>9, <4>10, <1>3 DEF Accounted, Due, Late
    <3> QED  BY <3>3, <3>4
  <2> QED  BY <2>5, <2>6, <2>7
<1> QED  BY <1>13, <1>14, <1>15, <1>16, <1>17, <1>18, <1>19 DEF AlertInv

(* It reads the outcomes there are by now, and answers with its count.     *)
LEMMA ReadOutcomesStep ==
  ASSUME AlertInv, NEW e \in Evaluators, ReadOutcomes(e)
  PROVE  AlertInv'
<1>1. WellTyped /\ ReadsAreOld /\ entries \in Seq(Nat) /\ live \subseteq WatchIds
      /\ drawn \subseteq WatchIds
  BY DEF AlertInv, WellTyped, TypeOK
<1>2. pass[e].phase = "read"  BY DEF ReadOutcomes
<1>3. PICK w \in Counting, before \in Nat \cup {Never} : w = pass[e].watch /\ before = pass[e].last
  BY <1>1, <1>2, PassTypes
<1>4. PICK todo \in SUBSET Snapshot : todo = pass[e].todo /\ todo = Todo(pass[e])
  BY <1>1, <1>2, PassTypes DEF Todo
<1>5. PICK level \in Nat : level = Cardinality(Late(pass[e]))  BY <1>1, <1>2, LateFinite
<1>6. Answer(e, todo, w, before, level)  BY <1>3, <1>4, <1>5 DEF ReadOutcomes, Late
<1>7. /\ pass[e] # Idle
      /\ Handles(pass[e], w)
      /\ \A x : Handles(pass[e], x) => x = w /\ ~Answered(pass[e], x)
  BY <1>2, <1>3 DEF Handles, Answered, Idle
<1>8. w \in drawn  BY <1>7, <1>3 DEF AlertInv, UndrawnIsUnknown, Counting
<1>9. ~torn /\ w \in live /\ Fires(w, before, level) => episodes[w] > 0
  <2> SUFFICES ASSUME ~torn, w \in live, level > 0 PROVE episodes[w] > 0
    BY <1>3 DEF Fires
  <2>1. Late(pass[e]) # {}  BY <1>5, FS_EmptySet
  <2> QED  BY <2>1, <1>2, <1>3 DEF AlertInv, FiringsAreNoted
<1>10. ~overlapped => before = last[w] /\ \A row \in todo : row.watch # w
  BY <1>2, <1>3, <1>4, <1>7 DEF AlertInv, KeptApart, PassIsCurrent, Handles
<1>11. ~overlapped /\ ~torn /\ w \in live =>
         Rung(w) + Rings(w, before, level) + Due(w, level) <= episodes[w]
  BY <1>2, <1>3, <1>5 DEF AlertInv, KeptApart, Accounted
<1> QED  BY <1>3, <1>4, <1>6, <1>7, <1>8, <1>9, <1>10, <1>11, AnswerStep

LEMMA RecordFiringStep ==
  ASSUME AlertInv, NEW e \in Evaluators, RecordFiring(e)
  PROVE  AlertInv'
<1> DEFINE w == pass[e].watch
           q == [phase |-> "record", todo |-> pass[e].todo, watch |-> w, level |-> pass[e].level]
<1>1. WellTyped  BY DEF AlertInv
<1>2. /\ live \subseteq WatchIds /\ unread \in [WatchIds -> Nat] /\ read \in [WatchIds -> Nat]
      /\ episodes \in [WatchIds -> Nat]
  BY <1>1 DEF WellTyped, TypeOK
<1>3. pass[e].phase = "fire"  BY DEF RecordFiring
<1>4. /\ pass[e] # Idle /\ Todo(pass[e]) = pass[e].todo /\ pass[e].todo \in SUBSET Snapshot
      /\ w \in WatchIds /\ pass[e].level \in Nat
      /\ \A x : (Handles(pass[e], x) <=> x = w) /\ (Answered(pass[e], x) <=> x = w)
  BY <1>1, <1>3, PassTypes DEF Todo, Handles, Answered
<1>5. CASE w \notin live
  <2>1. /\ pass' = [pass EXCEPT ![e] = Idle]
        /\ UNCHANGED <<data, reset, store, call, episodes, overlapped>>
    BY <1>5 DEF RecordFiring, store
  <2>2. /\ Idle \in Pass /\ Idle.phase = "idle" /\ Todo(Idle) = {}
        /\ \A x : ~Handles(Idle, x)
    BY DEF Pass, Idle, Todo, Handles
  <2>3. \A x \in live : ~Answered(pass[e], x)  BY <1>4, <1>5 DEF Handles, Answered
  <2>4. Todo(Idle) \subseteq Todo(pass[e])  BY <2>2
  <2> QED  BY <2>1, <2>2, <2>3, <2>4, <1>4, TurnStep
<1>6. CASE w \in live
  <2>1. /\ pass' = [pass EXCEPT ![e] = q]
        /\ unread' = [unread EXCEPT ![w] = unread[w] + 1]
        /\ UNCHANGED data
        /\ UNCHANGED <<drawn, live, active, last, read, call, episodes, overlapped>>
        /\ UNCHANGED <<resets, wiping, torn>> /\ settled' = settled
    BY <1>6 DEF RecordFiring, reset, data
  <2>2. /\ q \in Pass /\ q.phase = "record" /\ q.watch = w /\ q.level = pass[e].level
        /\ q # Idle /\ Todo(q) = Todo(pass[e]) /\ \A x : (Handles(q, x) <=> x = w) /\ (Answered(q, x) <=> x = w)
    <3> DEFINE rest == pass[e].todo
               level == pass[e].level
    <3>1. rest \in SUBSET Snapshot /\ level \in Nat /\ Todo(pass[e]) = rest  BY <1>4
    <3> HIDE DEF w, rest, level
    <3> QED  BY <3>1, <1>4, WorkShape DEF rest, level
  <2> HIDE DEF q
  <2>3. /\ pass' \in [Evaluators -> Pass] /\ pass'[e] = q
        /\ \A f \in Evaluators : f # e => pass'[f] = pass[f]
    BY <2>1, <2>2, <1>1, PassUpdate
  <2>4. \A x \in WatchIds : Level(x)' = Level(x)  BY <2>1, LevelKept
  <2>5. /\ unread' \in [WatchIds -> Nat] /\ unread'[w] = unread[w] + 1
        /\ \A x \in WatchIds : x # w => unread'[x] = unread[x]
    BY <2>1, <1>2, <1>4
  <2>6. WellTyped'  BY <2>1, <2>3, <2>5, <1>1 DEF WellTyped, TypeOK, data
  <2>7. \A f \in Evaluators :
          /\ Todo(pass'[f]) = Todo(pass[f])
          /\ \A x : /\ Handles(pass'[f], x) <=> Handles(pass[f], x)
                    /\ Answered(pass'[f], x) <=> Answered(pass[f], x)
    <3> TAKE f \in Evaluators
    <3>1. CASE f = e  BY <3>1, <2>2, <2>3, <1>4
    <3>2. CASE f # e  BY <3>2, <2>3
    <3> QED  BY <3>1, <3>2
  <2>8. \A f \in Evaluators : \A x : Answered(pass[f], x) => pass'[f].level = pass[f].level
    <3> TAKE f \in Evaluators
    <3> TAKE x
    <3>1. CASE f = e  BY <3>1, <2>2, <2>3
    <3>2. CASE f # e  BY <3>2, <2>3
    <3> QED  BY <3>1, <3>2
  <2>9. FiringsHaveTheirWatch'  BY <2>1, <2>5, <1>6 DEF AlertInv, FiringsHaveTheirWatch
  <2>10. UndrawnIsUnknown'  BY <2>1, <2>7 DEF AlertInv, UndrawnIsUnknown
  <2>11. RisesAreNoted'
    <3>1. \A x \in live : SeenOut(x)' => SeenOut(x)
      <4> SUFFICES ASSUME NEW x \in live, NEW f \in Evaluators,
                          \/ Answered(pass'[f], x) /\ pass'[f].level = 0
                          \/ \E row \in Todo(pass'[f]) : row.watch = x /\ row.last = 0
                   PROVE  SeenOut(x)
        BY <2>1 DEF SeenOut
      <4> QED  BY <2>7, <2>8 DEF SeenOut
    <3> QED  BY <3>1, <2>1, <2>4, <1>2 DEF AlertInv, RisesAreNoted
  <2>12. FiringsAreNoted'
    <3>1. ~torn => episodes[w] > 0  BY <1>3, <1>6 DEF AlertInv, FiringsAreNoted
    <3>2. ~torn => NoFalseAlarm'
      BY <3>1, <2>1, <2>5 DEF AlertInv, FiringsAreNoted, NoFalseAlarm
    <3>3. \A f \in Evaluators : pass'[f].phase \in {"read", "fire"} => pass'[f] = pass[f]
      BY <2>2, <2>3
    <3> QED  BY <3>2, <3>3, <2>1 DEF AlertInv, FiringsAreNoted, Late
  <2>14. ReadsAreOld'
    <3>1. \A f \in Evaluators : pass'[f].phase = "read" => pass'[f] = pass[f]  BY <2>2, <2>3
    <3> QED  BY <3>1, <2>1, ReadsKept
  <2>13. KeptApart'
    <3> SUFFICES ASSUME ~overlapped
                 PROVE  /\ OnePass'
                        /\ \A f \in Evaluators : PassIsCurrent(f)'
                        /\ ~torn => \A x \in live : Accounted(x)'
      BY <2>1 DEF KeptApart
    <3>1. OnePass /\ (\A f \in Evaluators : PassIsCurrent(f))
      BY DEF AlertInv, KeptApart
    <3>2. OnePass'  BY <3>1, <2>3, <1>4 DEF OnePass
    <3>3. \A f \in Evaluators : f # e => \A x : ~Handles(pass[f], x)
      BY <3>1, <1>4 DEF OnePass, Handles, Idle
    <3>4. ASSUME NEW f \in Evaluators PROVE PassIsCurrent(f)'
      <4>1. PassIsCurrent(f)  BY <3>1
      <4>2. pass'[f].phase \in {"read", "fire"} => pass'[f] = pass[f]  BY <2>2, <2>3
      <4> QED  BY <4>1, <4>2, <2>1, <2>7 DEF PassIsCurrent
    <3>5. ASSUME ~torn, NEW x \in live PROVE Accounted(x)'
      <4>1. Accounted(x) /\ x \in WatchIds  BY <3>5, <1>2 DEF AlertInv, KeptApart
      <4>2. CASE x # w
        <5>1. \A f \in Evaluators : ~Handles(pass[f], x)  BY <4>2, <3>3, <1>4
        <5>2. \A f \in Evaluators : ~Handles(pass'[f], x)  BY <5>1, <2>7
        <5> QED  BY <5>1, <5>2, <4>1, <4>2, <2>1, <2>4, <2>5 DEF Accounted, Handles, Rung, Due, Rings
      <4>3. CASE x = w
        <5>1. Rung(x) + 1 + Due(x, pass[e].level) <= episodes[x]
          BY <4>1, <4>3, <1>3 DEF Accounted
        <5>2. (Rung(x))' = Rung(x) + 1  BY <4>3, <2>1, <2>5, <1>2, <1>4 DEF Rung
        <5>3. \A f \in Evaluators : Handles(pass'[f], x) => f = e  BY <4>3, <3>3, <2>7
        <5>4. Handles(pass'[e], x) /\ pass'[e].phase = "record" /\ pass'[e].level = pass[e].level
          BY <4>3, <2>2, <2>3
        <5>5. Level(x)' = Level(x) /\ episodes' = episodes  BY <4>1, <2>1, <2>4
        <5>6. \A f \in Evaluators : ~(pass'[f].phase \in {"fire", "read"} /\ pass'[f].watch = x)
          BY <5>3, <5>4 DEF Handles
        <5>7. \A f \in Evaluators :
                pass'[f].phase = "record" /\ pass'[f].watch = x =>
                  (Rung(x))' + Rings(x, pass'[f].level, Level(x)') <= episodes'[x]
          BY <5>1, <5>2, <5>3, <5>4, <5>5 DEF Handles, Due
        <5> QED  BY <5>4, <5>6, <5>7 DEF Accounted, Due
      <4> QED  BY <4>2, <4>3
    <3> QED  BY <3>2, <3>4, <3>5
  <2> QED  BY <2>6, <2>9, <2>10, <2>11, <2>12, <2>13, <2>14 DEF AlertInv
<1> QED  BY <1>5, <1>6

LEMMA RecordStateStep ==
  ASSUME AlertInv, NEW e \in Evaluators, RecordState(e)
  PROVE  AlertInv'
<1> DEFINE w == pass[e].watch
           level == pass[e].level
           q == Resume(pass[e].todo)
<1>1. WellTyped  BY DEF AlertInv
<1>2. /\ live \subseteq WatchIds /\ last \in [WatchIds -> Nat \cup {Never}]
      /\ live \subseteq drawn /\ drawn \subseteq WatchIds
  BY <1>1 DEF WellTyped, TypeOK
<1>3. /\ pass[e].phase = "record" /\ pass' = [pass EXCEPT ![e] = q]
      /\ UNCHANGED data
      /\ UNCHANGED <<drawn, live, active, unread, read, call, episodes, overlapped>>
      /\ UNCHANGED reset /\ UNCHANGED <<resets, wiping, torn>> /\ settled' = settled
      /\ last' = IF w \in live THEN [last EXCEPT ![w] = level] ELSE last
  BY DEF RecordState, reset, data
<1>4. /\ pass[e] # Idle /\ Todo(pass[e]) = pass[e].todo /\ pass[e].todo \in SUBSET Snapshot
      /\ w \in WatchIds /\ level \in Nat
      /\ \A x : (Handles(pass[e], x) <=> x = w) /\ (Answered(pass[e], x) <=> x = w)
  BY <1>1, <1>3, PassTypes DEF Todo, Handles, Answered
<1>5. /\ q \in Pass /\ q.phase \in {"idle", "next"} /\ Todo(q) = Todo(pass[e])
      /\ \A x : ~Handles(q, x)
  BY <1>4, ResumeShape
<1> HIDE DEF q
<1>6. CASE w \notin live
  <2>1. UNCHANGED <<data, reset, store, call, episodes, overlapped>>  BY <1>3, <1>6 DEF store
  <2>2. \A x \in live : ~Answered(pass[e], x)  BY <1>4, <1>6
  <2>3. Todo(q) \subseteq Todo(pass[e])  BY <1>5
  <2> QED  BY <2>1, <2>2, <2>3, <1>3, <1>4, <1>5, TurnStep
<1>7. CASE w \in live
  <2>1. /\ last' \in [WatchIds -> Nat \cup {Never}] /\ last'[w] = level
        /\ \A x \in WatchIds : x # w => last'[x] = last[x]
    BY <1>2, <1>3, <1>4, <1>7
  <2>2. /\ pass' \in [Evaluators -> Pass] /\ pass'[e] = q
        /\ \A f \in Evaluators : f # e => pass'[f] = pass[f]
    BY <1>1, <1>3, <1>5, PassUpdate
  <2>3. \A x \in WatchIds : Level(x)' = Level(x)  BY <1>3, LevelKept
  <2>4. WellTyped'  BY <2>1, <2>2, <1>1, <1>3 DEF WellTyped, TypeOK, data
  <2>5. FiringsHaveTheirWatch'  BY <1>3 DEF AlertInv, FiringsHaveTheirWatch
  <2>6. \A f \in Evaluators :
          /\ Todo(pass'[f]) = Todo(pass[f])
          /\ \A x : /\ Handles(pass'[f], x) => f # e /\ Handles(pass[f], x)
                    /\ Answered(pass'[f], x) => f # e /\ Answered(pass[f], x)
    <3> TAKE f \in Evaluators
    <3>1. CASE f = e  BY <3>1, <2>2, <1>5 DEF Handles, Answered
    <3>2. CASE f # e  BY <3>2, <2>2
    <3> QED  BY <3>1, <3>2
  <2>7. UndrawnIsUnknown'
    <3>1. \A x \in WatchIds \ drawn : last'[x] = Never
      BY <2>1, <1>2, <1>7 DEF AlertInv, UndrawnIsUnknown
    <3>2. \A x \in WatchIds \ drawn, f \in Evaluators :
            ~Handles(pass'[f], x) /\ \A row \in Todo(pass'[f]) : row.watch # x
      BY <2>6 DEF AlertInv, UndrawnIsUnknown
    <3> QED  BY <3>1, <3>2, <1>3 DEF UndrawnIsUnknown
  <2>8. RisesAreNoted'
    <3>1. \A x \in live : SeenOut(x)' => SeenOut(x)
      <4> TAKE x \in live
      <4>1. CASE last'[x] = 0
        <5>1. CASE x = w  BY <5>1, <4>1, <2>1, <1>4 DEF SeenOut
        <5>2. CASE x # w  BY <5>2, <4>1, <2>1, <1>2 DEF SeenOut
        <5> QED  BY <5>1, <5>2
      <4>2. CASE \E f \in Evaluators :
                   \/ Answered(pass'[f], x) /\ pass'[f].level = 0
                   \/ \E row \in Todo(pass'[f]) : row.watch = x /\ row.last = 0
        BY <4>2, <2>2, <2>6 DEF SeenOut
      <4> QED  BY <4>1, <4>2 DEF SeenOut
    <3> QED  BY <3>1, <2>3, <1>2, <1>3 DEF AlertInv, RisesAreNoted
  <2>9. FiringsAreNoted'
    <3>1. \A f \in Evaluators : pass'[f].phase \in {"read", "fire"} => pass'[f] = pass[f]
      BY <2>2, <1>5
    <3> QED  BY <3>1, <1>3 DEF AlertInv, FiringsAreNoted, NoFalseAlarm, Late
  <2>11. ReadsAreOld'
    <3>1. \A f \in Evaluators : pass'[f].phase = "read" => pass'[f] = pass[f]  BY <2>2, <1>5
    <3> QED  BY <3>1, <1>3, ReadsKept
  <2>10. KeptApart'
    <3> SUFFICES ASSUME ~overlapped
                 PROVE  /\ OnePass'
                        /\ \A f \in Evaluators : PassIsCurrent(f)'
                        /\ ~torn => \A x \in live : Accounted(x)'
      BY <1>3 DEF KeptApart
    <3>1. OnePass /\ (\A f \in Evaluators : PassIsCurrent(f))
      BY DEF AlertInv, KeptApart
    <3>2. \A f \in Evaluators : f # e => pass[f] = Idle  BY <3>1, <1>4 DEF OnePass
    <3>3. \A f \in Evaluators : pass'[f].phase \in {"idle", "next"}
      BY <3>2, <2>2, <1>5 DEF Idle
    <3>4. \A f \in Evaluators : \A x : ~Handles(pass'[f], x)  BY <3>3 DEF Handles
    <3>5. OnePass'  BY <3>2, <2>2 DEF OnePass
    <3>6. ASSUME NEW f \in Evaluators PROVE PassIsCurrent(f)'
      <4>1. ASSUME NEW row \in Todo(pass'[f]) PROVE row.last = last'[row.watch]
        <5>1. row \in Todo(pass[f])  BY <4>1, <2>6
        <5>2. f = e  BY <5>1, <3>2 DEF Todo, Idle
        <5>3. row.last = last[row.watch] /\ row.watch # w  BY <5>1, <5>2, <3>1, <1>4 DEF PassIsCurrent
        <5>4. row.watch \in WatchIds  BY <5>1, <5>2, <1>4 DEF Snapshot
        <5> QED  BY <5>3, <5>4, <2>1
      <4> QED  BY <4>1, <3>3, <3>4 DEF PassIsCurrent
    <3>7. ASSUME ~torn, NEW x \in live PROVE Accounted(x)'
      <4>1. Accounted(x) /\ x \in WatchIds  BY <3>7, <1>2 DEF AlertInv, KeptApart
      <4>2. Rung(x) + Due(x, last'[x]) <= episodes[x]
        <5>1. CASE x = w  BY <5>1, <4>1, <2>1, <1>3 DEF Accounted
        <5>2. CASE x # w
          <6>1. \A f \in Evaluators : ~Handles(pass[f], x)
            BY <5>2, <3>2, <1>4 DEF Handles, Idle
          <6> QED  BY <6>1, <5>2, <4>1, <2>1 DEF Accounted
        <5> QED  BY <5>1, <5>2
      <4> QED  BY <4>1, <4>2, <3>3, <2>3, <1>3 DEF Accounted, Rung, Due, Rings
    <3> QED  BY <3>5, <3>6, <3>7
  <2> QED  BY <2>4, <2>5, <2>7, <2>8, <2>9, <2>10, <2>11 DEF AlertInv
<1> QED  BY <1>6, <1>7

LEMMA CrashStep == ASSUME AlertInv, Crash PROVE AlertInv'
<1>1. WellTyped /\ live \subseteq WatchIds  BY DEF AlertInv, WellTyped, TypeOK
<1>2. /\ pass' = [e \in Evaluators |-> Idle] /\ call' = [r \in Requests |-> Idle]
      /\ overlapped' = (overlapped \/ \E e \in Evaluators : pass[e] # Idle)
      /\ UNCHANGED data /\ UNCHANGED <<drawn, live, active, last, unread, read, episodes>>
      /\ UNCHANGED <<resets, torn>> /\ wiping' = 0
  BY DEF Crash, NoteOverlap, store
<1>3. \A x \in WatchIds : Level(x)' = Level(x)  BY <1>2, LevelKept
<1>4. Idle \in Pass /\ Idle \in Calls /\ Idle.phase = "idle"  BY DEF Pass, Calls, Idle
<1>5. \A e \in Evaluators :
        pass'[e] = Idle /\ Todo(pass'[e]) = {} /\ \A w : ~Handles(pass'[e], w)
  BY <1>2, <1>4 DEF Todo, Handles
<1>6. WellTyped'
  <2>1. pass' \in [Evaluators -> Pass] /\ call' \in [Requests -> Calls]  BY <1>2, <1>4
  <2> QED  BY <2>1, <1>1, <1>2 DEF WellTyped, TypeOK, data
<1>7. FiringsHaveTheirWatch'  BY <1>2 DEF AlertInv, FiringsHaveTheirWatch
<1>8. UndrawnIsUnknown'  BY <1>2, <1>5 DEF AlertInv, UndrawnIsUnknown
<1>9. RisesAreNoted'
  <2>1. \A x \in live : SeenOut(x)' => SeenOut(x)  BY <1>2, <1>5 DEF SeenOut, Handles, Answered
  <2> QED  BY <2>1, <1>1, <1>2, <1>3 DEF AlertInv, RisesAreNoted
<1>10. FiringsAreNoted'  BY <1>2, <1>4, <1>5 DEF AlertInv, FiringsAreNoted, NoFalseAlarm
<1>11. KeptApart'
  <2> SUFFICES ASSUME ~overlapped, \A e \in Evaluators : pass[e] = Idle
               PROVE  OnePass' /\ (\A f \in Evaluators : PassIsCurrent(f)')
                      /\ (~torn => \A w \in live : Accounted(w)')
    BY <1>2 DEF KeptApart
  <2>1. OnePass' /\ \A f \in Evaluators : PassIsCurrent(f)'
    BY <1>4, <1>5 DEF OnePass, PassIsCurrent
  <2>2. ASSUME ~torn, NEW w \in live PROVE Accounted(w)'
    <3>1. Accounted(w) /\ w \in WatchIds  BY <2>2, <1>1 DEF AlertInv, KeptApart
    <3>2. \A e \in Evaluators : pass[e] = Idle /\ ~Handles(pass[e], w)  BY <1>4 DEF Handles
    <3> QED  BY <3>1, <3>2, <1>2, <1>3, <1>4, <1>5 DEF Accounted, Rung, Due, Rings
  <2> QED  BY <2>1, <2>2
<1>12. ReadsAreOld'
  <2>1. \A e \in Evaluators : pass'[e].phase # "read"  BY <1>4, <1>5
  <2> QED  BY <2>1 DEF ReadsAreOld
<1> QED  BY <1>6, <1>7, <1>8, <1>9, <1>10, <1>11, <1>12 DEF AlertInv

LEMMA NextStep == AlertInv /\ [Next]_vars => AlertInv'
<1> SUFFICES ASSUME AlertInv, [Next]_vars PROVE AlertInv'  OBVIOUS
<1>1. CASE World  BY <1>1, WorldStep
<1>2. CASE \E r \in Requests : \E w \in WatchIds : CreateWatch(r, w)  BY <1>2, CreateStep
<1>3. CASE \E r \in Requests :
             \/ \E w \in WatchIds : \/ \E flag \in BOOLEAN : FindToSet(r, w, flag)
                                    \/ FindToDelete(r, w)
             \/ UpdateActive(r)
  BY <1>3, RequestStep
<1>4. CASE \E r \in Requests : DeleteRow(r)  BY <1>4, DeleteStep
<1>5. CASE \E r \in Requests : MarkAllRead(r)  BY <1>5, MarkStep
<1>6. CASE \E e \in Evaluators : BeginPass(e)  BY <1>6, BeginStep
<1>7. CASE \E e \in Evaluators : Step(e)
  BY <1>7, PassOverStep, PassOverHalfReadStep, EvaluateStep, ReadEntriesStep, ReadOutcomesStep,
     RecordFiringStep, RecordStateStep DEF Step
<1>8. CASE Crash  BY <1>8, CrashStep
<1>9. CASE UNCHANGED vars
  <2>1. UNCHANGED <<data, drawn, live, active, last, unread, read, pass, call, episodes, overlapped,
                    resets, wiping, torn>>
    BY <1>9 DEF vars, store, reset
  <2>2. WellTyped'  BY <2>1 DEF AlertInv, WellTyped, TypeOK, data
  <2>3. UNCHANGED <<data, drawn, live, last, unread, read, pass, episodes, overlapped, torn>>
    BY <2>1
  <2> QED  BY <2>2, <2>3, QuietStep
<1> QED  BY <1>1, <1>2, <1>3, <1>4, <1>5, <1>6, <1>7, <1>8, <1>9 DEF Next

LEMMA AlertInvariant == Spec => []AlertInv
  BY InitStep, NextStep, PTL DEF Spec

(* For any watches, evaluators and data, whatever overlaps, fails or is    *)
(* killed: no firing is of a deleted watch; and as long as no reset of the *)
(* ledger falls between the two reads of a pass, none is of a condition    *)
(* that held when the watch was created, and while passes keep apart each  *)
(* is of a rise of its own (run_due_watches, evaluate_outcome_overdue,     *)
(* record_firing, delete_watch, reset_ledger).                             *)
THEOREM BellStaysHonest == Spec => []BellIsHonest
<1>1. AlertInv => BellIsHonest
  <2> SUFFICES ASSUME AlertInv PROVE BellIsHonest  OBVIOUS
  <2>1. TypeOK /\ FiringsHaveTheirWatch /\ NoFalseAlarmUntorn
    BY DEF AlertInv, WellTyped, FiringsAreNoted, NoFalseAlarmUntorn
  <2>2. OneFiringWhenAlone
    <3> SUFFICES ASSUME ~overlapped, ~torn, NEW w \in WatchIds PROVE Rung(w) <= episodes[w]
      BY DEF OneFiringWhenAlone, OneFiringPerEpisode, Rung
    <3>1. Rung(w) \in Nat /\ episodes[w] \in Nat
      BY DEF AlertInv, WellTyped, TypeOK, Rung
    <3>2. CASE w \notin live  BY <3>1, <3>2, <2>1 DEF FiringsHaveTheirWatch, Rung
    <3>3. CASE w \in live
      <4>1. Accounted(w)  BY <3>3 DEF AlertInv, KeptApart
      <4>2. \A a, b, c : Rings(a, b, c) \in {0, 1}  BY DEF Rings
      <4> QED  BY <4>1, <4>2, <3>1 DEF Accounted, Handles, Due
    <3> QED  BY <3>2, <3>3
  <2> QED  BY <2>1, <2>2 DEF BellIsHonest
<1> QED  BY <1>1, AlertInvariant, PTL

-----------------------------------------------------------------------------
(* Only the alert loop evaluates, and runs without a kill: _alert_loop     *)
(* awaits a pass before it sleeps and begins another.                      *)

OnlyTheLoop == Evaluators = {Loop} /\ MaxCrashes = 0

Alone == ~overlapped /\ crashes = 0

LEMMA AloneStep ==
  ASSUME OnlyTheLoop, Alone, [Next]_vars
  PROVE  Alone'
<1>1. CASE \E e \in Evaluators : BeginPass(e)
  <2>1. PICK e \in Evaluators : BeginPass(e)  BY <1>1
  <2>2. \A f \in Evaluators : f = e  BY DEF OnlyTheLoop
  <2> QED  BY <2>1, <2>2 DEF BeginPass, NoteOverlap, Alone
<1>2. CASE Crash  BY <1>2 DEF Crash, OnlyTheLoop, Alone
<1>3. CASE UNCHANGED <<overlapped, crashes>>  BY <1>3 DEF Alone
<1> QED
  BY <1>1, <1>2, <1>3
  DEF Next, World, CreateWatch, FindToSet, FindToDelete, UpdateActive, DeleteRow, MarkAllRead,
      Step, PassOver, PassOverHalfRead, Answer, Evaluate, ReadEntries, ReadOutcomes, RecordFiring,
      RecordState, vars

LEMMA StaysAlone == ASSUME OnlyTheLoop PROVE Spec => []Alone
<1>1. Init => Alone  BY DEF Init, Alone
<1>2. Alone /\ [Next]_vars => Alone'  BY AloneStep
<1> QED  BY <1>1, <1>2, PTL DEF Spec

(* One rise of a condition rings once (models.py, "one piece of news, not  *)
(* fourteen"), through data that are missing or unreadable for a while, and*)
(* resets of the ledger that fall between no two reads of a pass           *)
(* (evaluate_outcome_overdue, reset_ledger).                               *)
THEOREM OneRingPerRise == ASSUME OnlyTheLoop PROVE Spec => [](~torn => OneFiringPerEpisode)
<1>1. BellIsHonest /\ Alone => (~torn => OneFiringPerEpisode)
  BY DEF BellIsHonest, OneFiringWhenAlone, Alone
<1> QED  BY <1>1, BellStaysHonest, StaysAlone, PTL

-----------------------------------------------------------------------------
(* The refinement.                                                         *)

Seen(w) ==
  IF w \notin live THEN Never
  ELSE IF Handles(pass[Loop], w) /\ pass[Loop].phase = "record" THEN pass[Loop].level
  ELSE last[w]

LEMMA LooksAreSeen ==
  ASSUME OnlyTheLoop
  PROVE  /\ [w \in WatchIds |-> LastLook(w)] = [w \in WatchIds |-> Seen(w)]
         /\ [w \in WatchIds |-> LastLook(w)]' = [w \in WatchIds |-> Seen(w)']
<1>1. ASSUME NEW w \in WatchIds PROVE LastLook(w) = Seen(w)
  BY DEF OnlyTheLoop, LastLook, Seen, Handles
<1>2. ASSUME NEW w \in WatchIds PROVE LastLook(w)' = Seen(w)'
  BY DEF OnlyTheLoop, LastLook, Seen, Handles
<1> QED  BY <1>1, <1>2

LEMMA PromiseInit == ASSUME OnlyTheLoop PROVE Init => Promise!Init
<1> SUFFICES ASSUME Init PROVE Promise!Init  OBVIOUS
<1>1. \A w \in WatchIds : Seen(w) = -1  BY DEF Init, Seen, Never
<1> QED  BY <1>1, LooksAreSeen DEF Init, Promise!Init, Promise!Never

(* A step that neither commits an answer nor changes the rows of a watch   *)
(* leaves the promise where it is.                                         *)
LEMMA PromiseStutter ==
  ASSUME OnlyTheLoop, UNCHANGED <<live, unread, read>>,
         \A w \in WatchIds : Seen(w)' = Seen(w)
  PROVE  UNCHANGED Promise!vars
  BY LooksAreSeen DEF Promise!vars

LEMMA PromiseCreate ==
  ASSUME OnlyTheLoop, AlertInv, NEW r \in Requests, NEW w \in WatchIds, CreateWatch(r, w)
  PROVE  Promise!Create(w)
<1>1. /\ w \notin live /\ live' = live \cup {w} /\ UNCHANGED <<unread, read, last, pass>>
      /\ last[w] = Never /\ ~Handles(pass[Loop], w)
  <2>1. w \notin drawn /\ live \subseteq drawn /\ Loop \in Evaluators
    BY AlertAssumption DEF CreateWatch, AlertInv, WellTyped, TypeOK
  <2> QED  BY <2>1 DEF CreateWatch, AlertInv, UndrawnIsUnknown
<1>2. \A x \in WatchIds : Seen(x)' = Seen(x)  BY <1>1 DEF Seen
<1> QED  BY <1>1, <1>2, LooksAreSeen DEF Promise!Create

LEMMA PromiseDelete ==
  ASSUME OnlyTheLoop, AlertInv, NEW r \in Requests, DeleteRow(r)
  PROVE  (\E w \in WatchIds : Promise!Delete(w)) \/ UNCHANGED Promise!vars
<1> DEFINE w == call[r].watch
<1>1. /\ live' = live \ {w} /\ unread' = [unread EXCEPT ![w] = 0]
      /\ read' = [read EXCEPT ![w] = 0] /\ UNCHANGED <<last, pass>>
  BY DEF DeleteRow
<1>2. /\ unread \in [WatchIds -> Nat] /\ read \in [WatchIds -> Nat] /\ call[r] \in Calls
      /\ FiringsHaveTheirWatch
  BY DEF AlertInv, WellTyped, TypeOK
<1>3. w \in WatchIds  BY <1>2 DEF DeleteRow, Calls, Idle
<1> HIDE DEF w
<1>4. \A x \in WatchIds : Seen(x)' = IF x = w THEN -1 ELSE Seen(x)
  BY <1>1 DEF Seen, Never
<1>5. CASE w \in live
  <2>1. [x \in WatchIds |-> Seen(x)'] = [[x \in WatchIds |-> Seen(x)] EXCEPT ![w] = -1]
    BY <1>3, <1>4
  <2>2. Promise!Delete(w)
    BY <2>1, <1>1, <1>5, LooksAreSeen DEF Promise!Delete, Promise!Never
  <2> QED  BY <2>2, <1>3
<1>6. CASE w \notin live
  <2>1. unread[w] = 0 /\ read[w] = 0  BY <1>2, <1>3, <1>6 DEF FiringsHaveTheirWatch
  <2>2. UNCHANGED <<live, unread, read>>  BY <2>1, <1>1, <1>2, <1>3, <1>6
  <2>3. \A x \in WatchIds : Seen(x)' = Seen(x)  BY <1>4, <1>6 DEF Seen, Never
  <2> QED  BY <2>2, <2>3, PromiseStutter
<1> QED  BY <1>5, <1>6

LEMMA PromiseMark ==
  ASSUME OnlyTheLoop, NEW r \in Requests, MarkAllRead(r)
  PROVE  Promise!MarkAllRead
<1>1. UNCHANGED <<live, last, pass>>  BY DEF MarkAllRead
<1>2. \A x \in WatchIds : Seen(x)' = Seen(x)  BY <1>1 DEF Seen
<1> QED  BY <1>1, <1>2, LooksAreSeen DEF MarkAllRead, Promise!MarkAllRead

(* The promise looks when the answer is committed: with the firing, or     *)
(* where there is none, when the evaluation says so.                       *)
LEMMA PromiseLook ==
  ASSUME OnlyTheLoop, NEW w \in WatchIds, NEW level \in Nat,
         unread \in [WatchIds -> Nat],
         w \in live, UNCHANGED <<live, read>>,
         \A x \in WatchIds : Seen(x)' = IF x = w THEN level ELSE Seen(x),
         unread' = IF Fires(w, Seen(w), level) THEN [unread EXCEPT ![w] = unread[w] + 1] ELSE unread
  PROVE  Promise!Look(w)
<1> DEFINE before == [x \in WatchIds |-> Seen(x)]
           after  == [x \in WatchIds |-> Seen(x)']
<1>1. after = [before EXCEPT ![w] = level]  OBVIOUS
<1>2. before[w] = Seen(w) /\ after[w] = level  OBVIOUS
<1>3. Promise!IsNews(w, Seen(w), level) = Fires(w, Seen(w), level)
  BY DEF Promise!IsNews, Fires
<1>4. unread' = [unread EXCEPT ![w] = IF Promise!IsNews(w, before[w], after[w]) THEN @ + 1 ELSE @]
  <2> HIDE DEF before, after
  <2>1. CASE Fires(w, Seen(w), level)  BY <2>1, <1>2, <1>3
  <2>2. CASE ~Fires(w, Seen(w), level)  BY <2>2, <1>2, <1>3
  <2> QED  BY <2>1, <2>2
<1> QED  BY <1>1, <1>2, <1>4, LooksAreSeen DEF Promise!Look

LEMMA PromisePass ==
  ASSUME OnlyTheLoop, AlertInv, Alone, Step(Loop)
  PROVE  (\E w \in WatchIds : Promise!Look(w)) \/ UNCHANGED Promise!vars
<1> DEFINE p == pass[Loop]
<1>1. /\ WellTyped /\ Loop \in Evaluators /\ PassIsCurrent(Loop) /\ p \in Pass
      /\ unread \in [WatchIds -> Nat] /\ pass \in [Evaluators -> Pass]
      /\ last \in [WatchIds -> Nat \cup {Never}] /\ live \subseteq WatchIds
  BY AlertAssumption DEF AlertInv, KeptApart, Alone, WellTyped, TypeOK
<1>2. \A q : pass' = [pass EXCEPT ![Loop] = q] => pass'[Loop] = q  BY <1>1
<1>3. ASSUME NEW row \in p.todo, PassOver(Loop, row)
      PROVE  UNCHANGED Promise!vars
  <2>1. UNCHANGED <<live, unread, read, last>> /\ pass' = [pass EXCEPT ![Loop] = Resume(p.todo \ {row})]
    BY <1>3 DEF PassOver, store
  <2>2. p.todo \ {row} \in SUBSET Snapshot /\ p.phase = "next"
    BY <1>1, <1>3, PassTypes DEF PassOver, Idle
  <2>3. \A w : ~Handles(pass'[Loop], w) /\ ~Handles(p, w)
    BY <2>1, <2>2, <1>2, ResumeShape DEF Handles
  <2>4. \A w \in WatchIds : Seen(w)' = Seen(w)  BY <2>1, <2>3 DEF Seen
  <2> QED  BY <2>1, <2>4, PromiseStutter
<1>7. ASSUME PassOverHalfRead(Loop) PROVE UNCHANGED Promise!vars
  <2>1. /\ UNCHANGED <<live, unread, read, last>> /\ pass' = [pass EXCEPT ![Loop] = Resume(p.todo)]
        /\ p.phase = "read"
    BY <1>7 DEF PassOverHalfRead, store
  <2>2. p.todo \in SUBSET Snapshot  BY <2>1, <1>1, PassTypes DEF Idle
  <2>3. pass'[Loop].phase # "record"  BY <2>1, <2>2, <1>2, ResumeShape
  <2>4. \A w \in WatchIds : Seen(w)' = Seen(w)  BY <2>1, <2>3 DEF Seen
  <2> QED  BY <2>1, <2>4, PromiseStutter
<1>8. ASSUME NEW row \in p.todo, ReadEntries(Loop, row) PROVE UNCHANGED Promise!vars
  <2>1. UNCHANGED <<live, unread, read, last>> /\ pass'[Loop].phase = "read" /\ p.phase = "next"
    BY <1>8, <1>2 DEF ReadEntries, store
  <2>2. \A w \in WatchIds : Seen(w)' = Seen(w)  BY <2>1 DEF Seen
  <2> QED  BY <2>1, <2>2, PromiseStutter
<1>9. ASSUME NEW todo, NEW w \in WatchIds, NEW before, NEW level \in Nat,
             Answer(Loop, todo, w, before, level), p.phase \in {"next", "read"}, before = last[w]
      PROVE  (\E x \in WatchIds : Promise!Look(x)) \/ UNCHANGED Promise!vars
  <2> DEFINE phase == IF Fires(w, before, level) THEN "fire" ELSE "record"
             q == [phase |-> phase, todo |-> todo, watch |-> w, level |-> level]
  <2>1. UNCHANGED <<live, unread, read, last>> /\ pass' = [pass EXCEPT ![Loop] = q]
    BY <1>9 DEF Answer, store
  <2>4. pass'[Loop] = q  BY <2>1, <1>2
  <2>5. q.phase = phase /\ q.watch = w /\ q.level = level  OBVIOUS
  <2>7. phase = "record" <=> ~Fires(w, before, level)  OBVIOUS
  <2>8. phase \in {"fire", "record"}  OBVIOUS
  <2> HIDE DEF q, phase
  <2>9. \A x \in WatchIds : Seen(x) = IF x \in live THEN last[x] ELSE Never
    BY <1>9 DEF Seen, Handles
  <2>10. \A x \in WatchIds :
          Seen(x)' = IF x \notin live THEN Never
                     ELSE IF x = w /\ phase = "record" THEN level ELSE last[x]
    BY <2>1, <2>4, <2>5, <2>8 DEF Seen, Handles
  <2>11. CASE w \in live /\ phase = "record"
    <3>1. Seen(w) = before  BY <1>9, <2>9, <2>11
    <3>2. ~Fires(w, Seen(w), level)  BY <3>1, <2>7, <2>11
    <3>3. \A x \in WatchIds : Seen(x)' = IF x = w THEN level ELSE Seen(x)
      BY <2>9, <2>10, <2>11
    <3>4. Promise!Look(w)  BY <3>2, <3>3, <2>1, <1>9, <2>11, <1>1, PromiseLook
    <3> QED  BY <3>4
  <2>12. CASE w \notin live \/ phase = "fire"
    <3>1. \A x \in WatchIds : Seen(x)' = Seen(x)  BY <2>9, <2>10, <2>12
    <3> QED  BY <3>1, <2>1, PromiseStutter
  <2> QED  BY <2>8, <2>11, <2>12
<1>4. ASSUME NEW row \in p.todo, Evaluate(Loop, row)
      PROVE  (\E w \in WatchIds : Promise!Look(w)) \/ UNCHANGED Promise!vars
  <2>1. PICK w, before, level : w = row.watch /\ before = row.last /\ level = Level(w)  OBVIOUS
  <2>2. p.phase = "next" /\ level # NoSignal /\ Answer(Loop, p.todo \ {row}, w, before, level)
    BY <1>4, <2>1 DEF Evaluate
  <2>3. w \in WatchIds /\ before = last[w]  BY <1>1, <1>4, <2>1, <2>2, RowIsCurrent DEF Alone
  <2>4. level \in Nat
    <3>1. DaysTyped  BY <1>1 DEF WellTyped, TypeOK, DaysTyped
    <3> QED  BY <3>1, <2>1, <2>2, <2>3, LevelRange DEF LevelsInRange
  <2> QED  BY <2>2, <2>3, <2>4, <1>9
<1>10. ASSUME ReadOutcomes(Loop)
       PROVE  (\E w \in WatchIds : Promise!Look(w)) \/ UNCHANGED Promise!vars
  <2>1. p.phase = "read"  BY <1>10 DEF ReadOutcomes
  <2>2. PICK w \in Counting, before \in {p.last} : w = p.watch
    BY <2>1, <1>1, PassTypes
  <2>3. PICK level \in Nat : level = Cardinality(Late(p))
    BY <2>1, <1>1, LateFinite DEF AlertInv, WellTyped, TypeOK
  <2>4. Answer(Loop, p.todo, w, before, level)  BY <1>10, <2>2, <2>3 DEF ReadOutcomes, Late
  <2>5. before = last[w]  BY <2>1, <2>2, <1>1 DEF PassIsCurrent
  <2>6. w \in WatchIds  BY DEF Counting
  <2> QED  BY <2>1, <2>4, <2>5, <2>6, <1>9
<1>5. ASSUME RecordFiring(Loop)
      PROVE  (\E w \in WatchIds : Promise!Look(w)) \/ UNCHANGED Promise!vars
  <2>1. PICK w \in WatchIds, level \in Nat, todo \in {p.todo} : p.watch = w /\ p.level = level /\ p.todo = todo
    BY <1>1, <1>5, PassTypes DEF RecordFiring
  <2>2. p.phase = "fire"  BY <1>5 DEF RecordFiring
  <2>3. \A x \in WatchIds : Seen(x) = IF x \in live THEN last[x] ELSE Never
    BY <2>2 DEF Seen, Handles
  <2>4. CASE w \in live
    <3> DEFINE q == [phase |-> "record", todo |-> todo, watch |-> w, level |-> level]
    <3>1. /\ UNCHANGED <<live, read, last>> /\ pass' = [pass EXCEPT ![Loop] = q]
          /\ unread' = [unread EXCEPT ![w] = unread[w] + 1]
      BY <1>5, <2>1, <2>4 DEF RecordFiring
    <3>2. q.phase = "record" /\ q.watch = w /\ q.level = level  OBVIOUS
    <3>3. pass'[Loop] = q  BY <3>1, <1>2
    <3> HIDE DEF q
    <3>4. \A x \in WatchIds : Seen(x)' = IF x = w THEN level ELSE Seen(x)
      BY <2>3, <2>4, <3>1, <3>2, <3>3 DEF Seen, Handles
    <3>5. Fires(w, Seen(w), level)  BY <2>1, <2>2, <2>3, <2>4, <1>1 DEF PassIsCurrent
    <3>6. Promise!Look(w)  BY <2>4, <3>1, <3>4, <3>5, <1>1, PromiseLook
    <3> QED  BY <3>6
  <2>5. CASE w \notin live
    <3>1. UNCHANGED <<live, unread, read, last>> /\ pass' = [pass EXCEPT ![Loop] = Idle]
      BY <1>5, <2>1, <2>5 DEF RecordFiring
    <3>2. pass'[Loop] = Idle  BY <3>1, <1>2
    <3>3. \A x \in WatchIds : Seen(x)' = Seen(x)
      BY <3>1, <3>2, <2>3 DEF Seen, Handles, Idle
    <3> QED  BY <3>1, <3>3, PromiseStutter
  <2> QED  BY <2>4, <2>5
<1>6. ASSUME RecordState(Loop)
      PROVE  UNCHANGED Promise!vars
  <2>1. PICK w \in WatchIds, level \in Nat, todo \in SUBSET Snapshot :
          p.watch = w /\ p.level = level /\ p.todo = todo
    BY <1>1, <1>6, PassTypes DEF RecordState, Idle
  <2>2. /\ p.phase = "record" /\ UNCHANGED <<live, unread, read>>
        /\ last' = IF w \in live THEN [last EXCEPT ![w] = level] ELSE last
        /\ pass' = [pass EXCEPT ![Loop] = Resume(todo)]
    BY <1>6, <2>1 DEF RecordState
  <2>3. \A x : ~Handles(pass'[Loop], x)
    <3>1. pass'[Loop] = Resume(todo)  BY <2>2, <1>2
    <3>2. \A x : ~Handles(Resume(todo), x)  BY ResumeShape
    <3> QED  BY <3>1, <3>2
  <2>4. \A x \in WatchIds : Seen(x)' = IF x \in live THEN last'[x] ELSE Never
    BY <2>2, <2>3 DEF Seen
  <2>5. \A x \in WatchIds :
          Seen(x) = IF x \notin live THEN Never ELSE IF x = w THEN level ELSE last[x]
    BY <2>1, <2>2 DEF Seen, Handles
  <2>6. \A x \in live : last'[x] = IF x = w THEN level ELSE last[x]  BY <2>2, <1>1
  <2>7. \A x \in WatchIds : Seen(x)' = Seen(x)  BY <2>4, <2>5, <2>6
  <2> QED  BY <2>2, <2>7, PromiseStutter
<1> QED  BY <1>3, <1>4, <1>5, <1>6, <1>7, <1>8, <1>10 DEF Step

LEMMA PromiseStep ==
  ASSUME OnlyTheLoop, AlertInv, Alone, [Next]_vars
  PROVE  [Promise!Next]_(Promise!vars)
<1>1. CASE \E r \in Requests : \E w \in WatchIds : CreateWatch(r, w)
  BY <1>1, PromiseCreate DEF Promise!Next
<1>2. CASE \E r \in Requests : DeleteRow(r)
  BY <1>2, PromiseDelete DEF Promise!Next
<1>3. CASE \E r \in Requests : MarkAllRead(r)
  BY <1>3, PromiseMark DEF Promise!Next
<1>4. CASE \E e \in Evaluators : Step(e)
  BY <1>4, PromisePass DEF Promise!Next, OnlyTheLoop
<1>5. CASE \E e \in Evaluators : BeginPass(e)
  <2>1. BeginPass(Loop)  BY <1>5 DEF OnlyTheLoop
  <2> DEFINE rows == {[watch |-> w, last |-> last[w]] : w \in {x \in live : active[x]}}
  <2>2. /\ pass[Loop] = Idle /\ UNCHANGED <<live, unread, read, last>>
        /\ pass' = [pass EXCEPT ![Loop] = Resume(rows)]
    BY <2>1 DEF BeginPass, store
  <2> HIDE DEF rows
  <2>3. pass'[Loop] = Resume(rows)
    BY <2>2, AlertAssumption DEF AlertInv, WellTyped, TypeOK
  <2>4. pass[Loop].phase # "record" /\ pass'[Loop].phase # "record"
    BY <2>2, <2>3 DEF Resume, Idle
  <2>5. \A x \in WatchIds : Seen(x)' = Seen(x)  BY <2>2, <2>4 DEF Seen
  <2> QED  BY <2>2, <2>5, PromiseStutter
<1>6. CASE UNCHANGED <<live, unread, read, last, pass>>
  <2>1. \A x \in WatchIds : Seen(x)' = Seen(x)  BY <1>6 DEF Seen
  <2> QED  BY <2>1, <1>6, PromiseStutter
<1>7. CASE Crash  BY <1>7 DEF Crash, OnlyTheLoop, Alone
<1> QED
  BY <1>1, <1>2, <1>3, <1>4, <1>5, <1>6, <1>7
  DEF Next, World, FindToSet, FindToDelete, UpdateActive, vars, store

(* With the alert loop as the only evaluator, its transactions and whatever*)
(* falls between them implement the edge-triggered alert of AlertPromise:  *)
(* no edge a pass saw is lost and none is told twice (run_due_watches).    *)
THEOREM LoopKeepsThePromise == ASSUME OnlyTheLoop PROVE Spec => KeepsThePromise
<1>1. Init => Promise!Init  BY PromiseInit
<1>2. AlertInv /\ Alone /\ [Next]_vars => [Promise!Next]_(Promise!vars)  BY PromiseStep
<1> QED  BY <1>1, <1>2, AlertInvariant, StaysAlone, PTL DEF Spec, KeepsThePromise, Promise!Spec

=============================================================================
