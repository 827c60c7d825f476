----------------------- MODULE DecisionLedger_proofs -----------------------
(***************************************************************************)
(* Proofs about DecisionLedger, for every set of threads, quotes, rates    *)
(* and date filters, with and without crashes.                             *)
(***************************************************************************)
EXTENDS DecisionLedger, FiniteSetTheorems, SequenceTheorems, WellFoundedInduction, TLAPS

(* Appending a line keeps the lines there were and adds that one. *)
LEMMA AppendLines ==
  ASSUME NEW L, NEW s \in Seq(L), NEW x \in L
  PROVE  /\ Append(s, x) \in Seq(L)
         /\ ToSet(Append(s, x)) = ToSet(s) \cup {x}
         /\ IsPrefix(s, Append(s, x))
<1>1. /\ Append(s, x) \in Seq(L)
      /\ Len(Append(s, x)) = Len(s) + 1
      /\ \A i \in 1 .. Len(s) : Append(s, x)[i] = s[i]
      /\ Append(s, x)[Len(s) + 1] = x
  BY AppendProperties
<1>2. Len(s) \in Nat /\ DOMAIN s = 1 .. Len(s)
  BY LenProperties
<1>3. DOMAIN Append(s, x) = 1 .. Len(s) + 1
  BY <1>1, LenProperties
<1>4. ToSet(Append(s, x)) = ToSet(s) \cup {x}
  BY <1>1, <1>2, <1>3, 1 .. Len(s) + 1 = (1 .. Len(s)) \cup {Len(s) + 1} DEF ToSet
<1>5. IsPrefix(s, Append(s, x))
  BY <1>1, <1>2, <1>3 DEF IsPrefix
<1> QED BY <1>1, <1>4, <1>5

(* What one access does to a file: it stays a file, and its lines grow at  *)
(* the end or are gone.                                                    *)
LEMMA OpenUnlink ==
  ASSUME NEW L, NEW f \in File(L)
  PROVE  /\ Open(f) \in File(L) /\ Open(f).gen = f.gen /\ Open(f).lines = f.lines
         /\ Unlink(f) \in File(L) /\ Unlink(f).gen = f.gen + 1 /\ Unlink(f).lines = <<>>
<1>1. Open(f) \in File(L) /\ Open(f).gen = f.gen /\ Open(f).lines = f.lines
  BY DEF Open, File
<1>2. <<>> \in Seq(L) /\ f.gen \in Nat
  BY EmptySeq DEF File
<1>3. Unlink(f) \in File(L) /\ Unlink(f).gen = f.gen + 1 /\ Unlink(f).lines = <<>>
  BY <1>2 DEF Unlink, File
<1> QED BY <1>1, <1>3

LEMMA FileWrite ==
  ASSUME NEW L, NEW f \in File(L), NEW h \in Nat, NEW x \in L
  PROVE  /\ Write(f, h, x) \in File(L) /\ Write(f, h, x).gen = f.gen
         /\ f.gen # h => Write(f, h, x) = f
         /\ f.gen = h => /\ ToSet(Write(f, h, x).lines) = ToSet(f.lines) \cup {x}
                         /\ IsPrefix(f.lines, Write(f, h, x).lines)
<1>1. CASE f.gen # h
  BY <1>1 DEF Write
<1>2. CASE f.gen = h
  <2>1. f.lines \in Seq(L)
    BY DEF File
  <2>2. Write(f, h, x) = [f EXCEPT !.lines = Append(f.lines, x)]
    BY <1>2 DEF Write
  <2>3. Write(f, h, x) \in File(L) /\ Write(f, h, x).gen = f.gen
        /\ Write(f, h, x).lines = Append(f.lines, x)
    <3> DEFINE lines2 == Append(f.lines, x)
    <3>1. lines2 \in Seq(L)
      BY <2>1, AppendLines
    <3>2. Write(f, h, x) = [f EXCEPT !.lines = lines2]
      BY <2>2
    <3> HIDE DEF lines2
    <3>3. /\ Write(f, h, x) \in File(L) /\ Write(f, h, x).gen = f.gen
          /\ Write(f, h, x).lines = lines2
      BY <3>1, <3>2 DEF File
    <3> QED BY <3>3 DEF lines2
  <2> QED BY <1>2, <2>1, <2>3, AppendLines
<1> QED BY <1>1, <1>2

(* The same for the two files, with what a write does to the lines.        *)
LEMMA EntryWrite ==
  ASSUME NEW f \in File(Entry), NEW h \in Nat, NEW x \in Entry
  PROVE  /\ Write(f, h, x).gen = f.gen
         /\ \A y : y \in ToSet(Write(f, h, x).lines) <=>
                     y \in ToSet(f.lines) \/ (f.gen = h /\ y = x)
         /\ Write(f, h, x) = f \/ IsPrefix(f.lines, Write(f, h, x).lines)
<1>1. /\ Write(f, h, x) \in File(Entry) /\ Write(f, h, x).gen = f.gen
      /\ f.gen # h => Write(f, h, x) = f
      /\ f.gen = h => /\ ToSet(Write(f, h, x).lines) = ToSet(f.lines) \cup {x}
                      /\ IsPrefix(f.lines, Write(f, h, x).lines)
  BY FileWrite
<1>2. CASE f.gen = h
  BY <1>1, <1>2
<1>3. CASE f.gen # h
  BY <1>1, <1>3
<1> QED BY <1>2, <1>3

LEMMA OutcomeWrite ==
  ASSUME NEW f \in File(Outcome), NEW h \in Nat, NEW x \in Outcome
  PROVE  /\ Write(f, h, x).gen = f.gen
         /\ \A y : y \in ToSet(Write(f, h, x).lines) <=>
                     y \in ToSet(f.lines) \/ (f.gen = h /\ y = x)
         /\ Write(f, h, x) = f \/ IsPrefix(f.lines, Write(f, h, x).lines)
<1>1. /\ Write(f, h, x) \in File(Outcome) /\ Write(f, h, x).gen = f.gen
      /\ f.gen # h => Write(f, h, x) = f
      /\ f.gen = h => /\ ToSet(Write(f, h, x).lines) = ToSet(f.lines) \cup {x}
                      /\ IsPrefix(f.lines, Write(f, h, x).lines)
  BY FileWrite
<1>2. CASE f.gen = h
  BY <1>1, <1>2
<1>3. CASE f.gen # h
  BY <1>1, <1>3
<1> QED BY <1>2, <1>3

(* The step a call is at determines the data it carries. *)
LEMMA CallFields ==
  ASSUME NEW c \in Call
  PROVE  /\ c.op = "writeEntry" => c.entry \in Entry /\ c.handle \in Nat
         /\ c.op = "openOutcome" => c.about \in Stamp /\ c.rate \in {r \in Rates : r > 0}
         /\ c.op = "writeOutcome" => c.outcome \in Outcome /\ c.handle \in Nat
         /\ c.op \in {"unlinkEntries", "countOutcomes", "unlinkOutcomes"} =>
              c.counted \in Nat /\ c.removed \in Nat
         /\ c.op = "linkEntries" =>
              /\ c.window \in Windows /\ c.outcomes \subseteq Outcome
              /\ c.owed \subseteq Outcome /\ c.gens \in Nat \X Nat
BY DEF Call, Idle

-----------------------------------------------------------------------------
(* Type correctness.                                                       *)

(* The files only ever hold well-formed lines, outcomes with a positive    *)
(* rate among them, and every call in progress carries what its next step  *)
(* needs, whatever the interleaving and wherever the process is killed.    *)
THEOREM TypeCorrect == Spec => []TypeOK
<1>1. Init => TypeOK
  BY DEF Init, TypeOK, NoFile, File, Call, Stamp
<1>2. TypeOK /\ [Next]_vars => TypeOK'
  <2> SUFFICES ASSUME TypeOK, [Next]_vars PROVE TypeOK'
    OBVIOUS
  <2> USE DEF TypeOK
  <2>0. /\ entries.gen \in Nat /\ entries.lines \in Seq(Entry) /\ Len(entries.lines) \in Nat
        /\ outcomes.gen \in Nat /\ outcomes.lines \in Seq(Outcome) /\ Len(outcomes.lines) \in Nat
        /\ Gens \in Nat \X Nat
    BY DEF File, Gens
  <2>1. ASSUME NEW w \in Workers, NEW action \in Actions, NEW quote \in Quotes,
               RecordRecommendation(w, action, quote)
        PROVE  TypeOK'
    <3>1. [at |-> clock, action |-> action, quote |-> quote] \in Entry
      BY DEF Entry
    <3>2. entries' \in File(Entry)
      BY <2>1, OpenUnlink DEF RecordRecommendation
    <3>3. call' \in [Workers -> Call]
      BY <2>0, <2>1, <3>1 DEF RecordRecommendation, Call
    <3> QED BY <2>1, <3>2, <3>3 DEF RecordRecommendation, Stamp
  <2>2. ASSUME NEW w \in Workers, WriteEntry(w)
        PROVE  TypeOK'
    <3>1. call[w].entry \in Entry /\ call[w].handle \in Nat
      BY <2>2, CallFields DEF WriteEntry
    <3>2. entries' \in File(Entry)
      BY <2>2, <3>1, FileWrite DEF WriteEntry
    <3>3. call' \in [Workers -> Call]
      BY <2>2 DEF WriteEntry, Call
    <3>4. written' \subseteq Stamp
      BY <2>2, <3>1 DEF WriteEntry, Entry
    <3>5. acked' \in [entries: SUBSET (Entry \X Nat), outcomes: SUBSET (Outcome \X Nat)]
      BY <2>2, <3>1 DEF WriteEntry
    <3> QED BY <2>2, <3>2, <3>3, <3>4, <3>5 DEF WriteEntry
  <2>3. ASSUME NEW w \in Workers, NEW entry \in 0 .. clock - 1, NEW rate \in Rates,
               RecordOutcome(w, entry, rate)
        PROVE  TypeOK'
    <3>1. call' \in [Workers -> Call]
      BY <2>3 DEF RecordOutcome, Call, Stamp
    <3> QED BY <2>3, <3>1 DEF RecordOutcome
  <2>4. ASSUME NEW w \in Workers, OpenOutcome(w)
        PROVE  TypeOK'
    <3>1. call[w].about \in Stamp /\ call[w].rate \in {r \in Rates : r > 0}
      BY <2>4, CallFields DEF OpenOutcome
    <3>2. [at |-> clock, entry |-> call[w].about, rate |-> call[w].rate] \in Outcome
      BY <3>1 DEF Outcome
    <3>3. outcomes' \in File(Outcome)
      BY <2>4, OpenUnlink DEF OpenOutcome
    <3>4. call' \in [Workers -> Call]
      BY <2>0, <2>4, <3>2 DEF OpenOutcome, Call
    <3> QED BY <2>4, <3>3, <3>4 DEF OpenOutcome, Stamp
  <2>5. ASSUME NEW w \in Workers, WriteOutcome(w)
        PROVE  TypeOK'
    <3>1. call[w].outcome \in Outcome /\ call[w].handle \in Nat
      BY <2>5, CallFields DEF WriteOutcome
    <3>2. outcomes' \in File(Outcome)
      BY <2>5, <3>1, FileWrite DEF WriteOutcome
    <3>3. call' \in [Workers -> Call]
      BY <2>5 DEF WriteOutcome, Call
    <3>4. acked' \in [entries: SUBSET (Entry \X Nat), outcomes: SUBSET (Outcome \X Nat)]
      BY <2>5, <3>1 DEF WriteOutcome
    <3> QED BY <2>5, <3>2, <3>3, <3>4 DEF WriteOutcome
  <2>6. ASSUME NEW w \in Workers, CountEntries(w)
        PROVE  TypeOK'
    BY <2>0, <2>6 DEF CountEntries, Call
  <2>7. ASSUME NEW w \in Workers, UnlinkEntries(w)
        PROVE  TypeOK'
    <3>1. call[w].counted \in Nat /\ call[w].removed \in Nat
      BY <2>7, CallFields DEF UnlinkEntries
    <3>2. entries' \in File(Entry)
      BY <2>7, OpenUnlink DEF UnlinkEntries
    <3>3. call' \in [Workers -> Call]
      <4>1. Idle \in Call /\ [op |-> "countOutcomes", counted |-> call[w].counted,
                   removed |-> call[w].removed + Len(entries.lines)] \in Call
        BY <2>0, <3>1 DEF Call
      <4> QED BY <2>7, <4>1 DEF UnlinkEntries
    <3> QED BY <2>7, <3>2, <3>3 DEF UnlinkEntries
  <2>8. ASSUME NEW w \in Workers, CountOutcomes(w)
        PROVE  TypeOK'
    <3>1. call[w].counted \in Nat /\ call[w].removed \in Nat
      BY <2>8, CallFields DEF CountOutcomes
    <3>2. call' \in [Workers -> Call]
      <4>1. Idle \in Call /\ [op |-> "unlinkOutcomes", removed |-> call[w].removed,
                   counted |-> call[w].counted + Len(outcomes.lines)] \in Call
        BY <2>0, <3>1 DEF Call
      <4> QED BY <2>8, <4>1 DEF CountOutcomes
    <3> QED BY <2>8, <3>2 DEF CountOutcomes
  <2>9. ASSUME NEW w \in Workers, UnlinkOutcomes(w)
        PROVE  TypeOK'
    <3>1. outcomes' \in File(Outcome)
      BY <2>9, OpenUnlink DEF UnlinkOutcomes
    <3>2. call' \in [Workers -> Call]
      BY <2>9 DEF UnlinkOutcomes, Call
    <3> QED BY <2>9, <3>1, <3>2 DEF UnlinkOutcomes
  <2>10. ASSUME NEW w \in Workers, NEW window \in Windows, ReadOutcomes(w, window)
         PROVE  TypeOK'
    <3>1. ToSet(outcomes.lines) \subseteq Outcome
      BY <2>0, LenProperties, ElementOfSeq DEF ToSet
    <3>2. {a[1] : a \in {x \in acked.outcomes : x[2] = outcomes.gen}} \subseteq Outcome
      OBVIOUS
    <3>3. call' \in [Workers -> Call]
      BY <2>0, <2>10, <3>1, <3>2 DEF ReadOutcomes, Call
    <3> QED BY <2>10, <3>3 DEF ReadOutcomes
  <2>11. ASSUME NEW w \in Workers, LinkEntries(w)
         PROVE  TypeOK'
    <3>1. /\ call[w].window \in Windows /\ call[w].outcomes \subseteq Outcome
          /\ call[w].owed \subseteq Outcome /\ call[w].gens \in Nat \X Nat
      BY <2>11, CallFields DEF LinkEntries
    <3>2. InWindow(entries, call[w].window) \subseteq Entry
      BY <2>0, LenProperties, ElementOfSeq DEF ToSet, InWindow
    <3>3. Linked(InWindow(entries, call[w].window), call[w].outcomes) \subseteq Entry \X Outcome
      BY <3>1, <3>2 DEF Linked
    <3>4. call' \in [Workers -> Call]
      BY <2>11, <3>1, <3>3 DEF LinkEntries, Call
    <3> QED BY <2>11, <3>4 DEF LinkEntries
  <2>12. ASSUME NEW w \in Workers, CountTotal(w)
         PROVE  TypeOK'
    BY <2>12 DEF CountTotal, Call
  <2>13. CASE Crash
    BY <2>13 DEF Crash, Call
  <2>14. CASE UNCHANGED vars
    BY <2>14 DEF vars
  <2> QED
    BY <2>1, <2>2, <2>3, <2>4, <2>5, <2>6, <2>7, <2>8, <2>9, <2>10, <2>11, <2>12,
       <2>13, <2>14 DEF Next
<1> QED BY <1>1, <1>2, PTL DEF Spec

-----------------------------------------------------------------------------
(* Safety.                                                                 *)

(* An outcome line always names an entry that reached the entries file:    *)
(* resets, crashes and concurrent reports can leave it without its entry,  *)
(* but never with one the ledger did not record.                           *)
THEOREM OutcomesNameEntries == Spec => []OutcomesNameWrittenEntries
<1> DEFINE Inv == LinksKnown /\ OutcomesNameWrittenEntries
<1>1. Init => Inv
  BY DEF Init, LinksKnown, OutcomesNameWrittenEntries, NoFile, Idle, Ids, ToSet
<1>2. TypeOK /\ TypeOK' /\ Inv /\ [Next]_vars => Inv'
  <2> SUFFICES ASSUME TypeOK, TypeOK', Inv, [Next]_vars PROVE Inv'
    OBVIOUS
  <2> USE DEF LinksKnown, OutcomesNameWrittenEntries, Ids
  <2>0. entries \in File(Entry) /\ outcomes \in File(Outcome) /\ call \in [Workers -> Call]
        /\ entries.gen \in Nat /\ outcomes.gen \in Nat
    BY DEF TypeOK, File
  <2>1. ASSUME NEW w \in Workers, NEW action \in Actions, NEW quote \in Quotes,
               RecordRecommendation(w, action, quote)
        PROVE  Inv'
    BY <2>0, <2>1, OpenUnlink DEF RecordRecommendation
  <2>2. ASSUME NEW w \in Workers, WriteEntry(w)
        PROVE  Inv'
    <3>1. call[w].entry \in Entry /\ call[w].handle \in Nat
      BY <2>0, <2>2, CallFields DEF WriteEntry
    <3>2. \A l \in ToSet(entries'.lines) :
            l \in ToSet(entries.lines) \/ (entries.gen = call[w].handle /\ l = call[w].entry)
      BY <2>0, <2>2, <3>1, EntryWrite DEF WriteEntry
    <3>3. ASSUME NEW l \in ToSet(entries'.lines) PROVE l.at \in written'
      <4>1. CASE l \in ToSet(entries.lines)
        BY <2>2, <4>1 DEF WriteEntry
      <4>2. CASE l \notin ToSet(entries.lines)
        BY <2>2, <3>2, <4>2 DEF WriteEntry
      <4> QED BY <4>1, <4>2
    <3>4. written \subseteq written'
      BY <2>2 DEF WriteEntry
    <3>5. \A v \in Workers :
            call'[v].op \in {"openOutcome", "writeOutcome"} => call'[v] = call[v]
      BY <2>0, <2>2 DEF WriteEntry, Idle
    <3>6. outcomes' = outcomes
      BY <2>2 DEF WriteEntry
    <3> QED BY <3>3, <3>4, <3>5, <3>6
  <2>3. ASSUME NEW w \in Workers, NEW entry \in 0 .. clock - 1, NEW rate \in Rates,
               RecordOutcome(w, entry, rate)
        PROVE  Inv'
    BY <2>0, <2>3 DEF RecordOutcome
  <2>4. ASSUME NEW w \in Workers, OpenOutcome(w)
        PROVE  Inv'
    BY <2>0, <2>4, OpenUnlink DEF OpenOutcome
  <2>5. ASSUME NEW w \in Workers, WriteOutcome(w)
        PROVE  Inv'
    <3>1. call[w].outcome \in Outcome /\ call[w].handle \in Nat
      BY <2>0, <2>5, CallFields DEF WriteOutcome
    <3>2. ToSet(outcomes'.lines) \subseteq ToSet(outcomes.lines) \cup {call[w].outcome}
      BY <2>0, <2>5, <3>1, OutcomeWrite DEF WriteOutcome
    <3>3. ASSUME NEW o \in ToSet(outcomes'.lines) PROVE o.entry \in written'
      <4>1. written' = written /\ call[w].outcome.entry \in written
        BY <2>5 DEF WriteOutcome
      <4> QED BY <3>2, <4>1
    <3>4. \A v \in Workers :
            call'[v].op \in {"openOutcome", "writeOutcome"} => call'[v] = call[v]
      BY <2>0, <2>5 DEF WriteOutcome, Idle
    <3>5. entries' = entries /\ written' = written
      BY <2>5 DEF WriteOutcome
    <3> QED BY <3>3, <3>4, <3>5
  <2>6. ASSUME NEW w \in Workers, CountEntries(w)
        PROVE  Inv'
    BY <2>0, <2>6 DEF CountEntries
  <2>7. ASSUME NEW w \in Workers, UnlinkEntries(w)
        PROVE  Inv'
    <3>1. ToSet(entries'.lines) \subseteq ToSet(entries.lines)
      BY <2>0, <2>7, OpenUnlink DEF UnlinkEntries, ToSet
    <3> QED BY <2>0, <2>7, <3>1 DEF UnlinkEntries, Idle
  <2>8. ASSUME NEW w \in Workers, CountOutcomes(w)
        PROVE  Inv'
    BY <2>0, <2>8 DEF CountOutcomes, Idle
  <2>9. ASSUME NEW w \in Workers, UnlinkOutcomes(w)
        PROVE  Inv'
    <3>1. ToSet(outcomes'.lines) \subseteq ToSet(outcomes.lines)
      BY <2>0, <2>9, OpenUnlink DEF UnlinkOutcomes, ToSet
    <3> QED BY <2>0, <2>9, <3>1 DEF UnlinkOutcomes, Idle
  <2>10. ASSUME NEW w \in Workers, NEW window \in Windows, ReadOutcomes(w, window)
         PROVE  Inv'
    BY <2>0, <2>10 DEF ReadOutcomes
  <2>11. ASSUME NEW w \in Workers, LinkEntries(w)
         PROVE  Inv'
    BY <2>0, <2>11 DEF LinkEntries
  <2>12. ASSUME NEW w \in Workers, CountTotal(w)
         PROVE  Inv'
    BY <2>0, <2>12 DEF CountTotal, Idle
  <2>13. CASE Crash
    BY <2>13 DEF Crash, Idle
  <2>14. CASE UNCHANGED vars
    BY <2>14 DEF vars
  <2> QED
    BY <2>1, <2>2, <2>3, <2>4, <2>5, <2>6, <2>7, <2>8, <2>9, <2>10, <2>11, <2>12,
       <2>13, <2>14 DEF Next
<1> QED BY <1>1, <1>2, TypeCorrect, PTL DEF Spec

(* So whatever overlaps, resets or dies, the files hold well-formed lines  *)
(* and outcomes of entries the ledger recorded.                            *)
THEOREM LinesStaySound == Spec => []LinesAreSound
<1>1. TypeOK /\ OutcomesNameWrittenEntries => LinesAreSound
  BY DEF LinesAreSound
<1> QED BY <1>1, TypeCorrect, OutcomesNameEntries, PTL

(* Every append whose call returned is still in its file unless a reset    *)
(* unlinked the incarnation it was written to: concurrency and crashes     *)
(* alone never cost the ledger an acknowledged line.                       *)
THEOREM AcknowledgedStays == Spec => []AcknowledgedIsKept
<1> DEFINE Inv == NoHandleFromTheFuture /\ AcknowledgedIsKept
<1>1. Init => Inv
  BY DEF Init, NoHandleFromTheFuture, AcknowledgedIsKept, KeptIn, NoFile, Idle
<1>2. TypeOK /\ Inv /\ [Next]_vars => Inv'
  <2> SUFFICES ASSUME TypeOK, Inv, [Next]_vars PROVE Inv'
    OBVIOUS
  <2> USE DEF NoHandleFromTheFuture, AcknowledgedIsKept, KeptIn
  <2>0. entries \in File(Entry) /\ outcomes \in File(Outcome) /\ call \in [Workers -> Call]
        /\ entries.gen \in Nat /\ outcomes.gen \in Nat
        /\ acked \in [entries: SUBSET (Entry \X Nat), outcomes: SUBSET (Outcome \X Nat)]
    BY DEF TypeOK, File
  <2>1. ASSUME NEW w \in Workers, NEW action \in Actions, NEW quote \in Quotes,
               RecordRecommendation(w, action, quote)
        PROVE  Inv'
    BY <2>0, <2>1, OpenUnlink DEF RecordRecommendation
  <2>2. ASSUME NEW w \in Workers, WriteEntry(w)
        PROVE  Inv'
    <3>1. call[w].entry \in Entry /\ call[w].handle \in Nat /\ call[w].handle <= entries.gen
      BY <2>0, <2>2, CallFields DEF WriteEntry
    <3>2. /\ entries'.gen = entries.gen
          /\ ToSet(entries.lines) \subseteq ToSet(entries'.lines)
          /\ call[w].handle = entries.gen => call[w].entry \in ToSet(entries'.lines)
      <4>1. entries' = Write(entries, call[w].handle, call[w].entry)
        BY <2>2 DEF WriteEntry
      <4> QED BY <2>0, <3>1, <4>1, EntryWrite
    <3>3. acked'.entries = acked.entries \cup {<<call[w].entry, call[w].handle>>}
          /\ acked'.outcomes = acked.outcomes
      BY <2>0, <2>2 DEF WriteEntry
    <3>4. /\ outcomes' = outcomes
          /\ \A v \in Workers :
               call'[v].op \in {"writeEntry", "writeOutcome"} => call'[v] = call[v]
      BY <2>0, <2>2 DEF WriteEntry, Idle
    <3>5. ASSUME NEW a \in acked'.entries
          PROVE  /\ a[2] <= entries'.gen
                 /\ a[2] = entries'.gen => a[1] \in ToSet(entries'.lines)
      <4>1. CASE a \in acked.entries
        BY <3>2, <4>1
      <4>2. CASE a = <<call[w].entry, call[w].handle>>
        BY <3>1, <3>2, <4>2
      <4> QED BY <3>3, <4>1, <4>2
    <3> QED BY <3>2, <3>3, <3>4, <3>5
  <2>3. ASSUME NEW w \in Workers, NEW entry \in 0 .. clock - 1, NEW rate \in Rates,
               RecordOutcome(w, entry, rate)
        PROVE  Inv'
    BY <2>0, <2>3 DEF RecordOutcome
  <2>4. ASSUME NEW w \in Workers, OpenOutcome(w)
        PROVE  Inv'
    BY <2>0, <2>4, OpenUnlink DEF OpenOutcome
  <2>5. ASSUME NEW w \in Workers, WriteOutcome(w)
        PROVE  Inv'
    <3>1. call[w].outcome \in Outcome /\ call[w].handle \in Nat /\ call[w].handle <= outcomes.gen
      BY <2>0, <2>5, CallFields DEF WriteOutcome
    <3>2. /\ outcomes'.gen = outcomes.gen
          /\ ToSet(outcomes.lines) \subseteq ToSet(outcomes'.lines)
          /\ call[w].handle = outcomes.gen => call[w].outcome \in ToSet(outcomes'.lines)
      <4>1. outcomes' = Write(outcomes, call[w].handle, call[w].outcome)
        BY <2>5 DEF WriteOutcome
      <4> QED BY <2>0, <3>1, <4>1, OutcomeWrite
    <3>3. acked'.outcomes = acked.outcomes \cup {<<call[w].outcome, call[w].handle>>}
          /\ acked'.entries = acked.entries
      BY <2>0, <2>5 DEF WriteOutcome
    <3>4. /\ entries' = entries
          /\ \A v \in Workers :
               call'[v].op \in {"writeEntry", "writeOutcome"} => call'[v] = call[v]
      BY <2>0, <2>5 DEF WriteOutcome, Idle
    <3>5. ASSUME NEW a \in acked'.outcomes
          PROVE  /\ a[2] <= outcomes'.gen
                 /\ a[2] = outcomes'.gen => a[1] \in ToSet(outcomes'.lines)
      <4>1. CASE a \in acked.outcomes
        BY <3>2, <4>1
      <4>2. CASE a = <<call[w].outcome, call[w].handle>>
        BY <3>1, <3>2, <4>2
      <4> QED BY <3>3, <4>1, <4>2
    <3> QED BY <3>2, <3>3, <3>4, <3>5
  <2>6. ASSUME NEW w \in Workers, CountEntries(w)
        PROVE  Inv'
    BY <2>0, <2>6 DEF CountEntries
  <2>7. ASSUME NEW w \in Workers, UnlinkEntries(w)
        PROVE  Inv'
    <3>1. CASE entries.exists
      <4>1. /\ entries'.gen = entries.gen + 1
            /\ acked' = acked /\ outcomes' = outcomes
            /\ \A v \in Workers : call'[v].op \in {"writeEntry", "writeOutcome"} => call'[v] = call[v]
        BY <2>0, <2>7, <3>1, OpenUnlink DEF UnlinkEntries
      <4>2. \A a \in acked.entries : a[2] \in Nat
        BY <2>0
      <4>3. \A v \in Workers : call[v].op = "writeEntry" => call[v].handle \in Nat
        BY <2>0, CallFields
      <4> QED BY <2>0, <4>1, <4>2, <4>3
    <3>2. CASE ~entries.exists
      BY <2>0, <2>7, <3>2 DEF UnlinkEntries, Idle
    <3> QED BY <3>1, <3>2
  <2>8. ASSUME NEW w \in Workers, CountOutcomes(w)
        PROVE  Inv'
    BY <2>0, <2>8 DEF CountOutcomes, Idle
  <2>9. ASSUME NEW w \in Workers, UnlinkOutcomes(w)
        PROVE  Inv'
    <3>1. CASE outcomes.exists
      <4>1. /\ outcomes'.gen = outcomes.gen + 1
            /\ acked' = acked /\ entries' = entries
            /\ \A v \in Workers : call'[v].op \in {"writeEntry", "writeOutcome"} => call'[v] = call[v]
        BY <2>0, <2>9, <3>1, OpenUnlink DEF UnlinkOutcomes, Idle
      <4>2. \A a \in acked.outcomes : a[2] \in Nat
        BY <2>0
      <4>3. \A v \in Workers : call[v].op = "writeOutcome" => call[v].handle \in Nat
        BY <2>0, CallFields
      <4> QED BY <2>0, <4>1, <4>2, <4>3
    <3>2. CASE ~outcomes.exists
      BY <2>0, <2>9, <3>2 DEF UnlinkOutcomes, Idle
    <3> QED BY <3>1, <3>2
  <2>10. ASSUME NEW w \in Workers, NEW window \in Windows, ReadOutcomes(w, window)
         PROVE  Inv'
    BY <2>0, <2>10 DEF ReadOutcomes
  <2>11. ASSUME NEW w \in Workers, LinkEntries(w)
         PROVE  Inv'
    BY <2>0, <2>11 DEF LinkEntries
  <2>12. ASSUME NEW w \in Workers, CountTotal(w)
         PROVE  Inv'
    BY <2>0, <2>12 DEF CountTotal, Idle
  <2>13. CASE Crash
    BY <2>13 DEF Crash, Idle
  <2>14. CASE UNCHANGED vars
    BY <2>14 DEF vars
  <2> QED
    BY <2>1, <2>2, <2>3, <2>4, <2>5, <2>6, <2>7, <2>8, <2>9, <2>10, <2>11, <2>12,
       <2>13, <2>14 DEF Next
<1> QED BY <1>1, <1>2, TypeCorrect, PTL DEF Spec

(* No step rewrites, drops or reorders some lines and keeps others.        *)
THEOREM NoCherryPicking == Spec => NoSelectiveDeletion
<1>1. TypeOK /\ [Next]_vars =>
        [AppendOrClear(entries, entries') /\ AppendOrClear(outcomes, outcomes')]_vars
  <2> SUFFICES ASSUME TypeOK, Next
               PROVE  AppendOrClear(entries, entries') /\ AppendOrClear(outcomes, outcomes')
    BY DEF vars
  <2>0. entries \in File(Entry) /\ outcomes \in File(Outcome) /\ call \in [Workers -> Call]
    BY DEF TypeOK
  <2>1. \A L : \A f \in File(L) : AppendOrClear(f, f)
    <3> SUFFICES ASSUME NEW L, NEW f \in File(L) PROVE IsPrefix(f.lines, f.lines)
      BY DEF AppendOrClear
    <3>1. f.lines \in Seq(L) /\ Len(f.lines) \in Nat
      BY DEF File
    <3> QED BY <3>1 DEF IsPrefix
  <2>2. AppendOrClear(entries, entries) /\ AppendOrClear(outcomes, outcomes)
    BY <2>0, <2>1
  <2>3. ASSUME NEW w \in Workers, NEW action \in Actions, NEW quote \in Quotes,
               RecordRecommendation(w, action, quote)
        PROVE  AppendOrClear(entries, entries') /\ outcomes' = outcomes
    BY <2>0, <2>2, <2>3, OpenUnlink DEF RecordRecommendation, AppendOrClear
  <2>4. ASSUME NEW w \in Workers, WriteEntry(w)
        PROVE  AppendOrClear(entries, entries') /\ outcomes' = outcomes
    <3>1. call[w].entry \in Entry /\ call[w].handle \in Nat
      BY <2>0, <2>4, CallFields DEF WriteEntry
    <3> QED BY <2>0, <2>2, <2>4, <3>1, EntryWrite DEF WriteEntry, AppendOrClear
  <2>5. ASSUME NEW w \in Workers, OpenOutcome(w)
        PROVE  AppendOrClear(outcomes, outcomes') /\ entries' = entries
    BY <2>0, <2>2, <2>5, OpenUnlink DEF OpenOutcome, AppendOrClear
  <2>6. ASSUME NEW w \in Workers, WriteOutcome(w)
        PROVE  AppendOrClear(outcomes, outcomes') /\ entries' = entries
    <3>1. call[w].outcome \in Outcome /\ call[w].handle \in Nat
      BY <2>0, <2>6, CallFields DEF WriteOutcome
    <3> QED BY <2>0, <2>2, <2>6, <3>1, OutcomeWrite DEF WriteOutcome, AppendOrClear
  <2>7. ASSUME NEW w \in Workers, UnlinkEntries(w)
        PROVE  AppendOrClear(entries, entries') /\ outcomes' = outcomes
    BY <2>0, <2>2, <2>7, OpenUnlink DEF UnlinkEntries, AppendOrClear
  <2>8. ASSUME NEW w \in Workers, UnlinkOutcomes(w)
        PROVE  AppendOrClear(outcomes, outcomes') /\ entries' = entries
    BY <2>0, <2>2, <2>8, OpenUnlink DEF UnlinkOutcomes, AppendOrClear
  <2>9. ASSUME NEW w \in Workers,
               \/ \E entry \in 0 .. clock - 1, rate \in Rates : RecordOutcome(w, entry, rate)
               \/ CountEntries(w) \/ CountOutcomes(w)
               \/ \E window \in Windows : ReadOutcomes(w, window)
               \/ LinkEntries(w) \/ CountTotal(w)
        PROVE  entries' = entries /\ outcomes' = outcomes
    BY <2>9 DEF RecordOutcome, CountEntries, CountOutcomes, ReadOutcomes, LinkEntries, CountTotal
  <2>10. ASSUME Crash PROVE entries' = entries /\ outcomes' = outcomes
    BY <2>10 DEF Crash
  <2> QED
    BY <2>2, <2>3, <2>4, <2>5, <2>6, <2>7, <2>8, <2>9, <2>10 DEF Next
<1> QED BY <1>1, TypeCorrect, PTL DEF Spec, NoSelectiveDeletion

-----------------------------------------------------------------------------
(* Calls that come one at a time.                                          *)

OneCall == \A v, w \in Workers : call[v] # Idle /\ call[w] # Idle => v = w

(* What a call has read is still so: the entry it writes is the newest, the*)
(* id it looked up is in the file, and what it counted is what it removes. *)
CallFits(w) ==
  /\ call[w].op = "writeEntry" =>
       /\ entries.exists
       /\ call[w].entry.at < clock
       /\ \A l \in ToSet(entries.lines) : l.at < call[w].entry.at
  /\ call[w].op = "openOutcome" => call[w].about \in Ids(entries)
  /\ call[w].op = "writeOutcome" => outcomes.exists /\ call[w].outcome.entry \in Ids(entries)
  /\ call[w].op = "unlinkEntries" =>
       entries.exists /\ call[w].counted = Len(entries.lines) /\ call[w].removed = 0
  /\ call[w].op = "countOutcomes" => call[w].counted = call[w].removed
  /\ call[w].op = "unlinkOutcomes" =>
       outcomes.exists /\ call[w].counted = call[w].removed + Len(outcomes.lines)

(* A file whose name is free holds no line.                                *)
NamesHoldLines ==
  /\ ~entries.exists => entries.lines = <<>>
  /\ ~outcomes.exists => outcomes.lines = <<>>

StampsGrow == OldestFirst /\ \A l \in ToSet(entries.lines) : l.at < clock

(* Links hold but in the middle of a reset, which ends without outcomes.   *)
Resetting(w) == call[w].op \in {"countOutcomes", "unlinkOutcomes"}
Links == \A o \in ToSet(outcomes.lines) : o.entry \in Ids(entries)
LinksHold == (\A w \in Workers : ~Resetting(w)) => Links

Serial ==
  /\ OneCall
  /\ \A w \in Workers : CallFits(w)
  /\ NamesHoldLines
  /\ StampsGrow
  /\ LinksHold
  /\ ResetCountExact

LEMMA FileNames ==
  ASSUME NEW L, NEW f \in File(L), NEW h \in Nat, NEW x \in L
  PROVE  /\ Open(f).exists /\ ~Unlink(f).exists
         /\ Write(f, h, x).exists = f.exists
         /\ Write(f, h, x).lines = IF f.gen = h THEN Append(f.lines, x) ELSE f.lines
  BY DEF File, Open, Unlink, Write

(* A stamp above all there are, appended, leaves the stamps in order.      *)
LEMMA AppendNewest ==
  ASSUME NEW s \in Seq(Entry), NEW e \in Entry,
         \A i, j \in 1 .. Len(s) : i < j => s[i].at < s[j].at,
         \A l \in ToSet(s) : l.at < e.at
  PROVE  \A i, j \in 1 .. Len(Append(s, e)) : i < j => Append(s, e)[i].at < Append(s, e)[j].at
<1>1. /\ Len(Append(s, e)) = Len(s) + 1 /\ Len(s) \in Nat
      /\ \A i \in 1 .. Len(s) : Append(s, e)[i] = s[i]
      /\ Append(s, e)[Len(s) + 1] = e
  BY AppendProperties, LenProperties
<1>2. \A i \in 1 .. Len(s) : s[i] \in ToSet(s)  BY LenProperties DEF ToSet
<1> SUFFICES ASSUME NEW i \in 1 .. Len(s) + 1, NEW j \in 1 .. Len(s) + 1, i < j
             PROVE  Append(s, e)[i].at < Append(s, e)[j].at
  BY <1>1
<1>3. i \in 1 .. Len(s)  BY <1>1
<1>4. CASE j = Len(s) + 1  BY <1>1, <1>2, <1>3, <1>4
<1>5. CASE j # Len(s) + 1
  <2>1. j \in 1 .. Len(s)  BY <1>1, <1>5
  <2> QED  BY <2>1, <1>1, <1>3
<1> QED  BY <1>4, <1>5

LEMMA BeginAlone ==
  ASSUME TypeOK, ~overlapped => Serial, NoteOverlap, ~overlapped',
         NEW w \in Workers, NEW c, call' = [call EXCEPT ![w] = c]
  PROVE  /\ NamesHoldLines /\ StampsGrow /\ Links /\ ResetCountExact
         /\ call'[w] = c
         /\ \A v \in Workers : v # w => call'[v] = Idle
         /\ OneCall'
<1>1. ~overlapped /\ \A v \in Workers : call[v] = Idle  BY DEF NoteOverlap
<1>2. call \in [Workers -> Call]  BY DEF TypeOK
<1>3. \A v \in Workers : ~Resetting(v)  BY <1>1 DEF Resetting, Idle
<1>4. call'[w] = c /\ \A v \in Workers : v # w => call'[v] = Idle  BY <1>1, <1>2
<1>5. OneCall'  BY <1>4 DEF OneCall
<1> QED  BY <1>1, <1>3, <1>4, <1>5 DEF Serial, LinksHold

LEMMA GoOnAlone ==
  ASSUME TypeOK, Serial, NEW w \in Workers, call[w] # Idle,
         NEW c, call' = [call EXCEPT ![w] = c]
  PROVE  /\ CallFits(w) /\ NamesHoldLines /\ StampsGrow /\ ResetCountExact
         /\ ~Resetting(w) => Links
         /\ call'[w] = c
         /\ \A v \in Workers : v # w => call'[v] = Idle
         /\ OneCall'
<1>1. \A v \in Workers : v # w => call[v] = Idle  BY DEF Serial, OneCall
<1>2. call \in [Workers -> Call]  BY DEF TypeOK
<1>3. call'[w] = c /\ \A v \in Workers : v # w => call'[v] = Idle  BY <1>1, <1>2
<1>4. \A v \in Workers : v # w => ~Resetting(v)  BY <1>1 DEF Resetting, Idle
<1>5. OneCall'  BY <1>3 DEF OneCall
<1> QED  BY <1>3, <1>4, <1>5 DEF Serial, LinksHold

LEMMA OnlyFits ==
  ASSUME NEW w \in Workers, CallFits(w)', \A v \in Workers : v # w => call'[v] = Idle,
         OneCall', NamesHoldLines', StampsGrow', ResetCountExact',
         ~Resetting(w)' => Links'
  PROVE  Serial'
<1>1. \A v \in Workers : v # w => CallFits(v)'  BY DEF CallFits, Idle
<1>2. LinksHold'  BY DEF LinksHold
<1> QED  BY <1>1, <1>2 DEF Serial

(* An append to the entries, alone.                                        *)
LEMMA SerialEntryCalls ==
  ASSUME TypeOK, ~overlapped => Serial, ~overlapped', NEW w \in Workers,
         \/ \E action \in Actions, quote \in Quotes : RecordRecommendation(w, action, quote)
         \/ WriteEntry(w)
  PROVE  Serial'
<1>0. entries \in File(Entry) /\ call \in [Workers -> Call] /\ clock \in Nat
  BY DEF TypeOK, Stamp
<1>1. ASSUME NEW action \in Actions, NEW quote \in Quotes, RecordRecommendation(w, action, quote)
      PROVE  Serial'
  <2> DEFINE e == [at |-> clock, action |-> action, quote |-> quote]
             c == [op |-> "writeEntry", entry |-> e, handle |-> entries.gen]
  <2>1. /\ NoteOverlap /\ call' = [call EXCEPT ![w] = c] /\ clock' = clock + 1
        /\ entries' = Open(entries) /\ UNCHANGED <<outcomes, resetReply>>
    BY <1>1 DEF RecordRecommendation
  <2>2. c.op = "writeEntry" /\ c.entry.at = clock  OBVIOUS
  <2> HIDE DEF c
  <2>3. /\ NamesHoldLines /\ StampsGrow /\ Links /\ ResetCountExact /\ call'[w] = c
        /\ \A v \in Workers : v # w => call'[v] = Idle
        /\ OneCall'
    BY <2>1, BeginAlone
  <2>4. entries'.exists /\ entries'.lines = entries.lines
    BY <1>0, <2>1, OpenUnlink DEF Open, File
  <2>5. /\ \A l \in ToSet(entries.lines) : l.at \in Nat /\ l.at < clock
        /\ \A l \in ToSet(entries.lines) : l.at < clock + 1
    <3>1. \A l \in ToSet(entries.lines) : l \in Entry
      BY <1>0, LenProperties, ElementOfSeq DEF ToSet, File
    <3> QED  BY <3>1, <2>3, <1>0 DEF StampsGrow, Entry, Stamp
  <2>6. CallFits(w)'  BY <2>1, <2>2, <2>3, <2>4, <2>5, <1>0 DEF CallFits
  <2>7. StampsGrow'  BY <2>1, <2>3, <2>4, <2>5 DEF StampsGrow, OldestFirst
  <2>8. NamesHoldLines' /\ ResetCountExact' /\ Links'
    BY <2>1, <2>3, <2>4 DEF NamesHoldLines, ResetCountExact, Links, Ids
  <2> QED  BY <2>3, <2>6, <2>7, <2>8, OnlyFits
<1>2. CASE WriteEntry(w)
  <2> DEFINE e == call[w].entry
             h == call[w].handle
  <2>1. /\ call[w].op = "writeEntry" /\ call' = [call EXCEPT ![w] = Idle]
        /\ entries' = Write(entries, h, e)
        /\ UNCHANGED <<outcomes, clock, resetReply, overlapped>>
    BY <1>2 DEF WriteEntry
  <2>2. e \in Entry /\ h \in Nat  BY <1>0, <2>1, CallFields
  <2>3. Serial /\ call[w] # Idle /\ ~Resetting(w)  BY <2>1 DEF Idle, Resetting
  <2>4. /\ CallFits(w) /\ NamesHoldLines /\ StampsGrow /\ ResetCountExact /\ Links
        /\ call'[w] = Idle
        /\ \A v \in Workers : v # w => call'[v] = Idle
        /\ OneCall'
    BY <2>1, <2>3, GoOnAlone
  <2>5. entries.exists /\ e.at < clock /\ \A l \in ToSet(entries.lines) : l.at < e.at
    BY <2>1, <2>4 DEF CallFits
  <2> HIDE DEF e, h
  <2>6. /\ entries'.exists
        /\ entries'.lines = IF entries.gen = h THEN Append(entries.lines, e) ELSE entries.lines
        /\ \A l : l \in ToSet(entries'.lines) <=>
                    l \in ToSet(entries.lines) \/ (entries.gen = h /\ l = e)
    BY <1>0, <2>1, <2>2, <2>5, FileNames, EntryWrite
  <2>7. StampsGrow'
    <3>1. \A l \in ToSet(entries'.lines) : l.at < clock'
      BY <2>1, <2>4, <2>5, <2>6 DEF StampsGrow
    <3>2. OldestFirst'
      <4>1. CASE entries.gen # h  BY <4>1, <2>4, <2>6 DEF StampsGrow, OldestFirst
      <4>2. CASE entries.gen = h
        <5>1. entries.lines \in Seq(Entry)  BY <1>0 DEF File
        <5> QED  BY <5>1, <4>2, <2>2, <2>4, <2>5, <2>6, AppendNewest DEF StampsGrow, OldestFirst
      <4> QED  BY <4>1, <4>2
    <3> QED  BY <3>1, <3>2 DEF StampsGrow
  <2>8. Ids(entries) \subseteq Ids(entries')  BY <2>6 DEF Ids
  <2>9. NamesHoldLines' /\ ResetCountExact' /\ Links'
    BY <2>1, <2>4, <2>6, <2>8 DEF NamesHoldLines, ResetCountExact, Links
  <2>10. CallFits(w)'  BY <2>4 DEF CallFits, Idle
  <2> QED  BY <2>4, <2>7, <2>9, <2>10, OnlyFits
<1> QED  BY <1>1, <1>2

(* An outcome reported, alone.                                             *)
LEMMA SerialOutcomeCalls ==
  ASSUME TypeOK, ~overlapped => Serial, ~overlapped', NEW w \in Workers,
         \/ \E entry \in 0 .. clock - 1, rate \in Rates : RecordOutcome(w, entry, rate)
         \/ OpenOutcome(w)
         \/ WriteOutcome(w)
  PROVE  Serial'
<1>0. entries \in File(Entry) /\ outcomes \in File(Outcome) /\ call \in [Workers -> Call] /\ clock \in Nat
  BY DEF TypeOK, Stamp
<1>1. ASSUME NEW entry \in 0 .. clock - 1, NEW rate \in Rates, RecordOutcome(w, entry, rate)
      PROVE  Serial'
  <2> DEFINE c == [op |-> "openOutcome", about |-> entry, rate |-> rate]
  <2>1. /\ NoteOverlap /\ call' = [call EXCEPT ![w] = c] /\ entry \in Ids(entries)
        /\ UNCHANGED <<entries, outcomes, clock, resetReply>>
    BY <1>1 DEF RecordOutcome
  <2>2. c.op = "openOutcome" /\ c.about = entry  OBVIOUS
  <2> HIDE DEF c
  <2>3. /\ NamesHoldLines /\ StampsGrow /\ Links /\ ResetCountExact /\ call'[w] = c
        /\ \A v \in Workers : v # w => call'[v] = Idle
        /\ OneCall'
    BY <2>1, BeginAlone
  <2>4. CallFits(w)'  BY <2>1, <2>2, <2>3 DEF CallFits
  <2>5. NamesHoldLines' /\ StampsGrow' /\ ResetCountExact' /\ Links'
    BY <2>1, <2>3 DEF NamesHoldLines, StampsGrow, OldestFirst, ResetCountExact, Links
  <2> QED  BY <2>3, <2>4, <2>5, OnlyFits
<1>2. CASE OpenOutcome(w)
  <2> DEFINE o == [at |-> clock, entry |-> call[w].about, rate |-> call[w].rate]
             c == [op |-> "writeOutcome", outcome |-> o, handle |-> outcomes.gen]
  <2>1. /\ call[w].op = "openOutcome" /\ call' = [call EXCEPT ![w] = c] /\ clock' = clock + 1
        /\ outcomes' = Open(outcomes) /\ UNCHANGED <<entries, resetReply, overlapped>>
    BY <1>2 DEF OpenOutcome
  <2>2. c.op = "writeOutcome" /\ c.outcome.entry = call[w].about  OBVIOUS
  <2> HIDE DEF c
  <2>3. Serial /\ call[w] # Idle /\ ~Resetting(w)  BY <2>1 DEF Idle, Resetting
  <2>4. /\ CallFits(w) /\ NamesHoldLines /\ StampsGrow /\ ResetCountExact /\ Links
        /\ call'[w] = c
        /\ \A v \in Workers : v # w => call'[v] = Idle
        /\ OneCall'
    BY <2>1, <2>3, GoOnAlone
  <2>5. outcomes'.exists /\ outcomes'.lines = outcomes.lines
    BY <1>0, <2>1, OpenUnlink DEF Open, File
  <2>6. CallFits(w)'  BY <2>1, <2>2, <2>4, <2>5 DEF CallFits
  <2>7. \A l \in ToSet(entries.lines) : l.at < clock + 1
    <3>1. \A l \in ToSet(entries.lines) : l \in Entry
      BY <1>0, LenProperties, ElementOfSeq DEF ToSet, File
    <3> QED  BY <3>1, <2>4, <1>0 DEF StampsGrow, Entry, Stamp
  <2>8. NamesHoldLines' /\ StampsGrow' /\ ResetCountExact' /\ Links'
    BY <2>1, <2>4, <2>5, <2>7 DEF NamesHoldLines, StampsGrow, OldestFirst, ResetCountExact, Links
  <2> QED  BY <2>4, <2>6, <2>8, OnlyFits
<1>3. CASE WriteOutcome(w)
  <2> DEFINE o == call[w].outcome
             h == call[w].handle
  <2>1. /\ call[w].op = "writeOutcome" /\ call' = [call EXCEPT ![w] = Idle]
        /\ outcomes' = Write(outcomes, h, o)
        /\ UNCHANGED <<entries, clock, resetReply, overlapped>>
    BY <1>3 DEF WriteOutcome
  <2>2. o \in Outcome /\ h \in Nat  BY <1>0, <2>1, CallFields
  <2>3. Serial /\ call[w] # Idle /\ ~Resetting(w)  BY <2>1 DEF Idle, Resetting
  <2>4. /\ CallFits(w) /\ NamesHoldLines /\ StampsGrow /\ ResetCountExact /\ Links
        /\ call'[w] = Idle
        /\ \A v \in Workers : v # w => call'[v] = Idle
        /\ OneCall'
    BY <2>1, <2>3, GoOnAlone
  <2>5. outcomes.exists /\ o.entry \in Ids(entries)  BY <2>1, <2>4 DEF CallFits
  <2> HIDE DEF o, h
  <2>6. /\ outcomes'.exists
        /\ \A l : l \in ToSet(outcomes'.lines) <=>
                    l \in ToSet(outcomes.lines) \/ (outcomes.gen = h /\ l = o)
    BY <1>0, <2>1, <2>2, <2>5, FileNames, OutcomeWrite
  <2>7. Links'  BY <2>1, <2>4, <2>5, <2>6 DEF Links
  <2>8. NamesHoldLines' /\ StampsGrow' /\ ResetCountExact'
    BY <2>1, <2>4, <2>6 DEF NamesHoldLines, StampsGrow, OldestFirst, ResetCountExact
  <2>9. CallFits(w)'  BY <2>4 DEF CallFits, Idle
  <2> QED  BY <2>4, <2>7, <2>8, <2>9, OnlyFits
<1> QED  BY <1>1, <1>2, <1>3

(* A reset, alone: it counts what it removes, and ends with no outcomes.   *)
LEMMA SerialReset ==
  ASSUME TypeOK, ~overlapped => Serial, ~overlapped', NEW w \in Workers,
         CountEntries(w) \/ UnlinkEntries(w) \/ CountOutcomes(w) \/ UnlinkOutcomes(w)
  PROVE  Serial'
<1>0. /\ entries \in File(Entry) /\ outcomes \in File(Outcome) /\ call \in [Workers -> Call]
      /\ Len(entries.lines) \in Nat /\ Len(outcomes.lines) \in Nat
      /\ call[w].op \in {"unlinkEntries", "countOutcomes", "unlinkOutcomes"} =>
           call[w].counted \in Nat /\ call[w].removed \in Nat
  BY CallFields DEF TypeOK, File
<1>1. CASE CountEntries(w)
  <2> DEFINE c == IF entries.exists
                    THEN [op |-> "unlinkEntries", counted |-> Len(entries.lines), removed |-> 0]
                    ELSE [op |-> "countOutcomes", counted |-> 0, removed |-> 0]
  <2>1. /\ NoteOverlap /\ call' = [call EXCEPT ![w] = c]
        /\ UNCHANGED <<entries, outcomes, clock, resetReply>>
    BY <1>1 DEF CountEntries
  <2>2. /\ entries.exists => c.op = "unlinkEntries" /\ c.counted = Len(entries.lines) /\ c.removed = 0
        /\ ~entries.exists => c.op = "countOutcomes" /\ c.counted = c.removed
    OBVIOUS
  <2> HIDE DEF c
  <2>3. /\ NamesHoldLines /\ StampsGrow /\ Links /\ ResetCountExact /\ call'[w] = c
        /\ \A v \in Workers : v # w => call'[v] = Idle
        /\ OneCall'
    BY <2>1, BeginAlone
  <2>4. CallFits(w)'  BY <2>1, <2>2, <2>3 DEF CallFits
  <2>5. NamesHoldLines' /\ StampsGrow' /\ ResetCountExact' /\ Links'
    BY <2>1, <2>3 DEF NamesHoldLines, StampsGrow, OldestFirst, ResetCountExact, Links
  <2> QED  BY <2>3, <2>4, <2>5, OnlyFits
<1>2. CASE UnlinkEntries(w)
  <2> DEFINE c == [op |-> "countOutcomes", counted |-> call[w].counted,
                   removed |-> call[w].removed + Len(entries.lines)]
  <2>1. call[w].op = "unlinkEntries" /\ UNCHANGED <<outcomes, clock, resetReply, overlapped>>
    BY <1>2 DEF UnlinkEntries
  <2>2. Serial /\ call[w] # Idle /\ ~Resetting(w)  BY <2>1 DEF Idle, Resetting
  <2>3. entries.exists /\ call[w].counted = Len(entries.lines) /\ call[w].removed = 0
    BY <2>1, <2>2 DEF Serial, CallFits
  <2>4. call' = [call EXCEPT ![w] = c] /\ entries' = Unlink(entries)
    BY <1>2, <2>3 DEF UnlinkEntries
  <2>5. c.op = "countOutcomes" /\ c.counted = c.removed  BY <2>3, <1>0
  <2> HIDE DEF c
  <2>6. /\ NamesHoldLines /\ ResetCountExact /\ call'[w] = c
        /\ \A v \in Workers : v # w => call'[v] = Idle
        /\ OneCall'
    BY <2>2, <2>4, GoOnAlone
  <2>7. entries'.lines = <<>>  BY <1>0, <2>4, OpenUnlink
  <2>8. StampsGrow'  BY <2>7 DEF StampsGrow, OldestFirst, ToSet
  <2>9. CallFits(w)' /\ Resetting(w)'  BY <2>5, <2>6 DEF CallFits, Resetting
  <2>10. NamesHoldLines' /\ ResetCountExact'
    BY <2>1, <2>6, <2>7 DEF NamesHoldLines, ResetCountExact
  <2> QED  BY <2>6, <2>8, <2>9, <2>10, OnlyFits
<1>3. CASE CountOutcomes(w)
  <2>1. call[w].op = "countOutcomes" /\ UNCHANGED <<entries, outcomes, clock, overlapped>>
    BY <1>3 DEF CountOutcomes
  <2>2. Serial /\ call[w] # Idle  BY <2>1 DEF Idle
  <2>3. call[w].counted = call[w].removed  BY <2>1, <2>2 DEF Serial, CallFits
  <2>4. CASE outcomes.exists
    <3> DEFINE c == [op |-> "unlinkOutcomes", removed |-> call[w].removed,
                     counted |-> call[w].counted + Len(outcomes.lines)]
    <3>1. call' = [call EXCEPT ![w] = c] /\ resetReply' = resetReply
      BY <1>3, <2>4 DEF CountOutcomes
    <3>2. c.op = "unlinkOutcomes" /\ c.counted = c.removed + Len(outcomes.lines)  BY <2>3
    <3> HIDE DEF c
    <3>3. /\ NamesHoldLines /\ StampsGrow /\ ResetCountExact /\ call'[w] = c
          /\ \A v \in Workers : v # w => call'[v] = Idle
          /\ OneCall'
      BY <2>2, <3>1, GoOnAlone
    <3>4. CallFits(w)' /\ Resetting(w)'
      BY <2>1, <2>4, <3>2, <3>3 DEF CallFits, Resetting
    <3>5. NamesHoldLines' /\ StampsGrow' /\ ResetCountExact'
      BY <2>1, <3>1, <3>3 DEF NamesHoldLines, StampsGrow, OldestFirst, ResetCountExact
    <3> QED  BY <3>3, <3>4, <3>5, OnlyFits
  <2>5. CASE ~outcomes.exists
    <3>1. /\ call' = [call EXCEPT ![w] = Idle]
          /\ resetReply' = [kind |-> "reset", counted |-> call[w].counted,
                            removed |-> call[w].removed]
      BY <1>3, <2>5 DEF CountOutcomes
    <3>2. /\ NamesHoldLines /\ StampsGrow /\ call'[w] = Idle
          /\ \A v \in Workers : v # w => call'[v] = Idle
          /\ OneCall'
      BY <2>2, <3>1, GoOnAlone
    <3>3. CallFits(w)'  BY <3>2 DEF CallFits, Idle
    <3>4. Links'  BY <2>1, <2>5, <3>2 DEF NamesHoldLines, Links, ToSet
    <3>5. NamesHoldLines' /\ StampsGrow' /\ ResetCountExact'
      BY <2>1, <2>3, <3>1, <3>2 DEF NamesHoldLines, StampsGrow, OldestFirst, ResetCountExact
    <3> QED  BY <3>2, <3>3, <3>4, <3>5, OnlyFits
  <2> QED  BY <2>4, <2>5
<1>4. CASE UnlinkOutcomes(w)
  <2>1. /\ call[w].op = "unlinkOutcomes" /\ call' = [call EXCEPT ![w] = Idle]
        /\ UNCHANGED <<entries, clock, overlapped>>
    BY <1>4 DEF UnlinkOutcomes
  <2>2. Serial /\ call[w] # Idle  BY <2>1 DEF Idle
  <2>3. outcomes.exists /\ call[w].counted = call[w].removed + Len(outcomes.lines)
    BY <2>1, <2>2 DEF Serial, CallFits
  <2>4. /\ outcomes' = Unlink(outcomes)
        /\ resetReply' = [kind |-> "reset", counted |-> call[w].counted,
                          removed |-> call[w].removed + Len(outcomes.lines)]
    BY <1>4, <2>3 DEF UnlinkOutcomes
  <2>5. /\ NamesHoldLines /\ StampsGrow /\ call'[w] = Idle
        /\ \A v \in Workers : v # w => call'[v] = Idle
        /\ OneCall'
    BY <2>1, <2>2, GoOnAlone
  <2>6. outcomes'.lines = <<>>  BY <1>0, <2>4, OpenUnlink
  <2>7. CallFits(w)'  BY <2>5 DEF CallFits, Idle
  <2>8. Links'  BY <2>6 DEF Links, ToSet
  <2>9. ResetCountExact'  BY <2>3, <2>4 DEF ResetCountExact
  <2>10. NamesHoldLines' /\ StampsGrow'
    BY <2>1, <2>5, <2>6 DEF NamesHoldLines, StampsGrow, OldestFirst
  <2> QED  BY <2>5, <2>7, <2>8, <2>9, <2>10, OnlyFits
<1> QED  BY <1>1, <1>2, <1>3, <1>4

(* A summary, alone, and a kill between calls: the files are left alone.   *)
LEMMA SerialReads ==
  ASSUME TypeOK, ~overlapped => Serial, ~overlapped',
         \/ \E w \in Workers :
              \/ \E window \in Windows : ReadOutcomes(w, window)
              \/ LinkEntries(w) \/ CountTotal(w)
         \/ Crash
         \/ UNCHANGED vars
  PROVE  Serial'
<1>1. UNCHANGED <<entries, outcomes, resetReply>> /\ UNCHANGED clock
  BY DEF ReadOutcomes, LinkEntries, CountTotal, Crash, vars
<1>2. ASSUME NamesHoldLines, StampsGrow, ResetCountExact
      PROVE  NamesHoldLines' /\ StampsGrow' /\ ResetCountExact' /\ (Links => Links')
  BY <1>1, <1>2 DEF NamesHoldLines, StampsGrow, OldestFirst, ResetCountExact, Links
<1>3. ASSUME NEW w \in Workers, NEW window \in Windows, ReadOutcomes(w, window)
      PROVE  Serial'
  <2>1. PICK c : call' = [call EXCEPT ![w] = c] /\ c.op = "linkEntries" /\ NoteOverlap
    BY <1>3 DEF ReadOutcomes
  <2>2. /\ NamesHoldLines /\ StampsGrow /\ Links /\ ResetCountExact /\ call'[w] = c
        /\ \A v \in Workers : v # w => call'[v] = Idle
        /\ OneCall'
    BY <2>1, BeginAlone
  <2>3. CallFits(w)'  BY <2>1, <2>2 DEF CallFits
  <2> QED  BY <2>2, <2>3, <1>2, OnlyFits
<1>4. ASSUME NEW w \in Workers, LinkEntries(w) \/ CountTotal(w)
      PROVE  Serial'
  <2>1. PICK c : call' = [call EXCEPT ![w] = c] /\ c.op \in {"countTotal", "idle"}
    <3>1. CASE LinkEntries(w)
      <4> DEFINE d == [op |-> "countTotal", window |-> call[w].window,
                       pairs |-> Linked(InWindow(entries, call[w].window), call[w].outcomes),
                       owed |-> call[w].owed, gens |-> call[w].gens]
      <4>1. call' = [call EXCEPT ![w] = d]  BY <3>1 DEF LinkEntries
      <4>2. d.op = "countTotal"  OBVIOUS
      <4> HIDE DEF d
      <4> QED  BY <4>1, <4>2
    <3>2. CASE CountTotal(w)
      <4>1. call' = [call EXCEPT ![w] = Idle]  BY <3>2 DEF CountTotal
      <4>2. Idle.op = "idle"  BY DEF Idle
      <4> QED  BY <4>1, <4>2
    <3> QED  BY <1>4, <3>1, <3>2
  <2>2. /\ call[w].op \in {"linkEntries", "countTotal"} /\ overlapped' = overlapped
    BY <1>4 DEF LinkEntries, CountTotal
  <2>3. Serial /\ call[w] # Idle /\ ~Resetting(w)  BY <2>2 DEF Idle, Resetting
  <2>4. /\ NamesHoldLines /\ StampsGrow /\ Links /\ ResetCountExact /\ call'[w] = c
        /\ \A v \in Workers : v # w => call'[v] = Idle
        /\ OneCall'
    BY <2>1, <2>3, GoOnAlone
  <2>5. CallFits(w)'  BY <2>1, <2>4 DEF CallFits
  <2> QED  BY <2>4, <2>5, <1>2, OnlyFits
<1>5. CASE Crash \/ UNCHANGED vars
  <2>1. ~overlapped /\ call' = call
    <3>1. CASE Crash
      <4>1. ~overlapped /\ \A v \in Workers : call[v] = Idle  BY <3>1 DEF Crash, NoteOverlap
      <4>2. call' = [v \in Workers |-> Idle] /\ call \in [Workers -> Call]
        BY <3>1 DEF Crash, TypeOK
      <4> QED  BY <4>1, <4>2
    <3>2. CASE UNCHANGED vars  BY <3>2 DEF vars
    <3> QED  BY <1>5, <3>1, <3>2
  <2>2. Serial  BY <2>1
  <2>3. OneCall' /\ (\A w \in Workers : CallFits(w)') /\ LinksHold'
    BY <2>1, <2>2, <1>1 DEF Serial, OneCall, CallFits, LinksHold, Links, Resetting
  <2> QED  BY <2>2, <2>3, <1>2 DEF Serial
<1> QED  BY <1>3, <1>4, <1>5

(* Requests answered one after the other, and kills between them, keep what*)
(* read_entries, record_outcome and reset_ledger say: oldest first, no     *)
(* outcome linked to nothing, the reply counting what was removed.         *)
THEOREM SerialCallsKeepPromises == Spec => []SerialPromises
<1> DEFINE Inv == ~overlapped => Serial
<1>1. Init => Inv
  <2> SUFFICES ASSUME Init PROVE Serial  OBVIOUS
  <2>1. \A w \in Workers : call[w] = Idle /\ Idle.op = "idle"  BY DEF Init, Idle
  <2>2. OneCall /\ \A w \in Workers : CallFits(w)  BY <2>1 DEF OneCall, CallFits
  <2>3. NamesHoldLines /\ StampsGrow /\ LinksHold /\ ResetCountExact
    BY DEF Init, NoFile, None, NamesHoldLines, StampsGrow, OldestFirst, LinksHold, Links,
           ResetCountExact, ToSet
  <2> QED  BY <2>2, <2>3 DEF Serial
<1>2. TypeOK /\ Inv /\ [Next]_vars => Inv'
  <2> SUFFICES ASSUME TypeOK, ~overlapped => Serial, [Next]_vars, ~overlapped' PROVE Serial'
    OBVIOUS
  <2> QED  BY SerialEntryCalls, SerialOutcomeCalls, SerialReset, SerialReads DEF Next
<1>3. Inv => SerialPromises
  <2> SUFFICES ASSUME Serial PROVE OldestFirst /\ OutcomesLinked /\ ResetCountExact
    BY DEF SerialPromises
  <2>1. OutcomesLinked
    BY DEF OutcomesLinked, Serial, LinksHold, Links, Resetting, Idle
  <2> QED  BY <2>1 DEF Serial, StampsGrow
<1> QED  BY <1>1, <1>2, <1>3, TypeCorrect, PTL DEF Spec

-----------------------------------------------------------------------------
(* Summaries.                                                              *)

(* The outcomes on file, about to be written or read for a summary: no two *)
(* of them share a stamp.                                                  *)
Reports ==
  ToSet(outcomes.lines)
  \cup {call[w].outcome : w \in {v \in Workers : call[v].op = "writeOutcome"}}
  \cup UNION {call[w].outcomes : w \in {v \in Workers : call[v].op = "linkEntries"}}

StampsTell ==
  /\ \A o \in Reports : o.at < clock
  /\ \A o, p \in Reports : o.at = p.at => o = p

(* What a summary has read so far: every outcome it owes an answer for, an *)
(* entry once and with its latest outcome, and as long as no reset ran, no *)
(* entry that is not in the file.                                          *)
LatestFor(pairs, owed) ==
  \A p \in pairs, o \in owed : o.entry = p[1].at => o.at <= p[2].at

ReadsFit(w) ==
  /\ call[w].op \in {"linkEntries", "countTotal"} => call[w].gens[1] <= entries.gen
  /\ call[w].op = "linkEntries" => call[w].owed \subseteq call[w].outcomes
  /\ call[w].op = "countTotal" =>
       /\ LatestFor(call[w].pairs, call[w].owed)
       /\ \A p, q \in call[w].pairs : p[1] = q[1] => p = q
       /\ call[w].gens[1] = entries.gen =>
            \A p \in call[w].pairs : p[1] \in InWindow(entries, call[w].window)

SummaryInv ==
  /\ StampsTell
  /\ \A w \in Workers : ReadsFit(w)
  /\ PendingNeverNegative
  /\ ScoredWithLatestReport

LEMMA ReadFields ==
  ASSUME NEW c \in Call
  PROVE  /\ c.op \in {"linkEntries", "countTotal"} => c.gens \in Nat \X Nat /\ c.owed \subseteq Outcome
         /\ c.op = "linkEntries" => c.outcomes \subseteq Outcome
         /\ c.op = "countTotal" => c.pairs \subseteq Entry \X Outcome
BY DEF Call, Idle

LEMMA CallUpdate ==
  ASSUME TypeOK, NEW w \in Workers, NEW c, call' = [call EXCEPT ![w] = c]
  PROVE  call'[w] = c /\ \A v \in Workers : v # w => call'[v] = call[v]
<1>1. call \in [Workers -> Call]  BY DEF TypeOK
<1> QED  BY <1>1

(* The lines of a file are finitely many.                                  *)
LEMMA LinesAreFinite ==
  ASSUME NEW L, NEW s \in Seq(L)
  PROVE  IsFiniteSet(ToSet(s)) /\ ToSet(s) \subseteq L
<1>1. Len(s) \in Nat /\ s \in [1 .. Len(s) -> L] /\ DOMAIN s = 1 .. Len(s)  BY LenProperties
<1>2. s \in Surjection(1 .. Len(s), ToSet(s))  BY <1>1 DEF Surjection, ToSet
<1>3. IsFiniteSet(1 .. Len(s))  BY <1>1, FS_Interval
<1> QED  BY <1>1, <1>2, <1>3, FS_Surjection DEF ToSet

(* Entries scored once each are no more than the entries there are.        *)
LEMMA NoMorePairsThanEntries ==
  ASSUME NEW es, IsFiniteSet(es), NEW pairs,
         \A p \in pairs : p[1] \in es,
         \A p, q \in pairs : p[1] = q[1] => p = q
  PROVE  Cardinality(es) - Cardinality(pairs) >= 0
<1> DEFINE f == [p \in pairs |-> p[1]]
<1>1. f \in Injection(pairs, es)
  <2>1. f \in [pairs -> es]  OBVIOUS
  <2>2. \A p, q \in pairs : f[p] = f[q] => p = q  OBVIOUS
  <2> HIDE DEF f
  <2> QED  BY <2>1, <2>2 DEF Injection, IsInjective
<1>2. IsFiniteSet(pairs) /\ Cardinality(pairs) <= Cardinality(es)  BY <1>1, FS_Injection
<1> QED  BY <1>2, FS_CardinalityType

LEMMA SummaryFields ==
  ASSUME NEW pairs, NEW total, NEW c
  PROVE  /\ Summary(pairs, total, c).kind = "summary"
         /\ Summary(pairs, total, c).pending = total - Cardinality(pairs)
         /\ Summary(pairs, total, c).pairs = pairs
         /\ Summary(pairs, total, c).owed = c.owed
         /\ Summary(pairs, total, c).undisturbed = (c.gens = Gens)
BY DEF Summary

(* An incarnation of the entries file only gains lines.                    *)
EntriesGrow ==
  \/ entries'.gen = entries.gen /\ ToSet(entries.lines) \subseteq ToSet(entries'.lines)
  \/ entries'.gen = entries.gen + 1

LEMMA GrowthStep == ASSUME TypeOK, [Next]_vars PROVE EntriesGrow
<1>0. entries \in File(Entry) /\ call \in [Workers -> Call]  BY DEF TypeOK
<1>1. CASE entries' = entries  BY <1>1 DEF EntriesGrow
<1>2. ASSUME NEW w \in Workers, NEW action \in Actions, NEW quote \in Quotes,
             RecordRecommendation(w, action, quote)
      PROVE  EntriesGrow
  BY <1>0, <1>2, OpenUnlink DEF RecordRecommendation, EntriesGrow
<1>3. ASSUME NEW w \in Workers, WriteEntry(w) PROVE EntriesGrow
  <2>1. call[w].entry \in Entry /\ call[w].handle \in Nat
    BY <1>0, <1>3, CallFields DEF WriteEntry
  <2>2. entries' = Write(entries, call[w].handle, call[w].entry)  BY <1>3 DEF WriteEntry
  <2> QED  BY <1>0, <2>1, <2>2, EntryWrite DEF EntriesGrow
<1>4. ASSUME NEW w \in Workers, UnlinkEntries(w) PROVE EntriesGrow
  BY <1>0, <1>1, <1>4, OpenUnlink DEF UnlinkEntries, EntriesGrow
<1> QED
  BY <1>1, <1>2, <1>3, <1>4
  DEF Next, RecordOutcome, OpenOutcome, WriteOutcome, CountEntries, CountOutcomes, UnlinkOutcomes,
      ReadOutcomes, LinkEntries, CountTotal, Crash, vars

(* What a call has read for a summary stays as good while others go on.    *)
LEMMA StillFits ==
  ASSUME TypeOK, EntriesGrow, NEW v \in Workers, ReadsFit(v), call'[v] = call[v]
  PROVE  ReadsFit(v)'
<1>1. /\ call[v] \in Call /\ entries.gen \in Nat  BY DEF TypeOK, File
<1>2. call[v].op \in {"linkEntries", "countTotal"} => call[v].gens[1] \in Nat  BY <1>1, ReadFields
<1>3. entries'.gen \in Nat /\ entries'.gen >= entries.gen  BY <1>1 DEF EntriesGrow
<1>4. call[v].op \in {"linkEntries", "countTotal"} /\ call[v].gens[1] = entries'.gen =>
        call[v].gens[1] = entries.gen /\ ToSet(entries.lines) \subseteq ToSet(entries'.lines)
  BY <1>1, <1>2, <1>3 DEF EntriesGrow, ReadsFit
<1>5. \A window : ToSet(entries.lines) \subseteq ToSet(entries'.lines) =>
        InWindow(entries, window) \subseteq InWindow(entries', window)
  BY DEF InWindow
<1> QED  BY <1>1, <1>2, <1>3, <1>4, <1>5 DEF ReadsFit

LEMMA ReportTypes == ASSUME TypeOK PROVE Reports \subseteq Outcome
<1>1. ToSet(outcomes.lines) \subseteq Outcome  BY LinesAreFinite DEF TypeOK, File
<1>2. \A w \in Workers : call[w] \in Call  BY DEF TypeOK
<1> QED  BY <1>1, <1>2, CallFields, ReadFields DEF Reports

(* A call that is no summary's, and records nothing new.                   *)
LEMMA PlainSummaryStep ==
  ASSUME TypeOK, SummaryInv, EntriesGrow, summary' = summary,
         clock' \in {clock, clock + 1},
         ToSet(outcomes'.lines) \subseteq Reports,
         \A v \in Workers :
           call'[v] = call[v] \/ call'[v].op \notin {"writeOutcome", "linkEntries", "countTotal"}
  PROVE  SummaryInv'
<1>1. Reports' \subseteq Reports
  <2>1. \A w \in Workers : call'[w].op \in {"writeOutcome", "linkEntries"} => call'[w] = call[w]
    OBVIOUS
  <2> QED  BY <2>1 DEF Reports
<1>2. StampsTell'
  <2>1. clock \in Nat /\ \A o \in Reports : o.at \in Nat
    BY ReportTypes DEF TypeOK, Stamp, Outcome
  <2> QED  BY <2>1, <1>1 DEF SummaryInv, StampsTell
<1>3. ASSUME NEW v \in Workers PROVE ReadsFit(v)'
  <2>1. CASE call'[v] = call[v]  BY <2>1, StillFits DEF SummaryInv
  <2>2. CASE call'[v].op \notin {"writeOutcome", "linkEntries", "countTotal"}  BY <2>2 DEF ReadsFit
  <2> QED  BY <2>1, <2>2
<1>4. PendingNeverNegative' /\ ScoredWithLatestReport'
  BY DEF SummaryInv, PendingNeverNegative, ScoredWithLatestReport
<1> QED  BY <1>2, <1>3, <1>4 DEF SummaryInv

LEMMA SummaryStep ==
  ASSUME TypeOK, AcknowledgedIsKept, SummaryInv, [Next]_vars
  PROVE  SummaryInv'
<1>0. /\ entries \in File(Entry) /\ outcomes \in File(Outcome) /\ call \in [Workers -> Call]
      /\ clock \in Nat /\ entries.gen \in Nat /\ EntriesGrow
  BY GrowthStep DEF TypeOK, File, Stamp
<1>1. ToSet(outcomes.lines) \subseteq Reports  BY DEF Reports
<1>2. ASSUME NEW w \in Workers,
             \/ \E action \in Actions, quote \in Quotes : RecordRecommendation(w, action, quote)
             \/ WriteEntry(w)
             \/ \E entry \in 0 .. clock - 1, rate \in Rates : RecordOutcome(w, entry, rate)
             \/ CountEntries(w) \/ UnlinkEntries(w) \/ CountOutcomes(w)
      PROVE  SummaryInv'
  <2>1. /\ summary' = summary /\ clock' \in {clock, clock + 1} /\ outcomes' = outcomes
    BY <1>2 DEF RecordRecommendation, WriteEntry, RecordOutcome, CountEntries, UnlinkEntries, CountOutcomes
  <2>2. /\ \A v \in Workers : v # w => call'[v] = call[v]
        /\ call'[w].op \notin {"writeOutcome", "linkEntries", "countTotal"}
    BY <1>0, <1>2
    DEF RecordRecommendation, WriteEntry, RecordOutcome, CountEntries, UnlinkEntries, CountOutcomes, Idle
  <2>3. ToSet(outcomes'.lines) \subseteq Reports  BY <1>1, <2>1
  <2> QED  BY <1>0, <2>1, <2>2, <2>3, PlainSummaryStep
<1>3. ASSUME NEW w \in Workers, WriteOutcome(w) \/ UnlinkOutcomes(w)
      PROVE  SummaryInv'
  <2>1. ToSet(outcomes'.lines) \subseteq Reports
    <3>1. CASE WriteOutcome(w)
      <4>1. /\ call[w].op = "writeOutcome" /\ call[w].outcome \in Outcome /\ call[w].handle \in Nat
            /\ outcomes' = Write(outcomes, call[w].handle, call[w].outcome)
        BY <1>0, <3>1, CallFields DEF WriteOutcome
      <4> DEFINE h == call[w].handle
                 x == call[w].outcome
      <4>2. \A o \in ToSet(outcomes'.lines) : o \in ToSet(outcomes.lines) \/ o = x
        <5> HIDE DEF h, x
        <5>1. x \in Outcome /\ h \in Nat /\ outcomes' = Write(outcomes, h, x)  BY <4>1 DEF h, x
        <5> QED  BY <5>1, <1>0, OutcomeWrite
      <4> QED  BY <4>1, <4>2 DEF Reports
    <3>2. CASE UnlinkOutcomes(w)
      <4>1. outcomes' = outcomes \/ outcomes'.lines = <<>>
        BY <3>2, <1>0, OpenUnlink DEF UnlinkOutcomes
      <4> QED  BY <4>1, <1>1 DEF ToSet
    <3> QED  BY <1>3, <3>1, <3>2
  <2>2. /\ summary' = summary /\ clock' = clock
        /\ call' = [call EXCEPT ![w] = Idle]
    BY <1>3 DEF WriteOutcome, UnlinkOutcomes
  <2>3. /\ \A v \in Workers : v # w => call'[v] = call[v]
        /\ call'[w].op \notin {"writeOutcome", "linkEntries", "countTotal"}
    <3>1. call'[w] = Idle /\ \A v \in Workers : v # w => call'[v] = call[v]  BY <2>2, CallUpdate
    <3> QED  BY <3>1 DEF Idle
  <2>4. clock' \in {clock, clock + 1}  BY <2>2
  <2> QED  BY <1>0, <2>1, <2>2, <2>3, <2>4, PlainSummaryStep
<1>4. ASSUME NEW w \in Workers, OpenOutcome(w) PROVE SummaryInv'
  <2> DEFINE o == [at |-> clock, entry |-> call[w].about, rate |-> call[w].rate]
             c == [op |-> "writeOutcome", outcome |-> o, handle |-> outcomes.gen]
  <2>1. /\ call' = [call EXCEPT ![w] = c] /\ clock' = clock + 1 /\ summary' = summary
        /\ outcomes' = Open(outcomes)
    BY <1>4 DEF OpenOutcome
  <2>2. c.op = "writeOutcome" /\ c.outcome = o /\ o.at = clock  OBVIOUS
  <2> HIDE DEF c, o
  <2>3. call'[w] = c /\ \A v \in Workers : v # w => call'[v] = call[v]  BY <2>1, CallUpdate
  <2>4. outcomes'.lines = outcomes.lines  BY <2>1, <1>0, OpenUnlink
  <2>5. Reports' \subseteq Reports \cup {o}
    <3> SUFFICES ASSUME NEW x \in Reports' PROVE x \in Reports \/ x = o  OBVIOUS
    <3>1. CASE x \in ToSet(outcomes'.lines)  BY <3>1, <2>4, <1>1
    <3>2. CASE \E v \in Workers : call'[v].op = "writeOutcome" /\ x = call'[v].outcome
      BY <3>2, <2>2, <2>3 DEF Reports
    <3>3. CASE \E v \in Workers : call'[v].op = "linkEntries" /\ x \in call'[v].outcomes
      BY <3>3, <2>2, <2>3 DEF Reports
    <3> QED  BY <3>1, <3>2, <3>3 DEF Reports
  <2>6. StampsTell'
    <3>1. \A x \in Reports : x.at \in Nat /\ x.at < clock
      BY ReportTypes DEF SummaryInv, StampsTell, Outcome, Stamp
    <3>2. \A x \in Reports \cup {o} : x.at < clock + 1  BY <3>1, <2>2, <1>0
    <3>3. \A x, y \in Reports \cup {o} : x.at = y.at => x = y
      BY <3>1, <2>2, <1>0 DEF SummaryInv, StampsTell
    <3> QED  BY <3>2, <3>3, <2>1, <2>5 DEF StampsTell
  <2>7. ASSUME NEW v \in Workers PROVE ReadsFit(v)'
    <3>1. CASE v = w  BY <3>1, <2>2, <2>3 DEF ReadsFit
    <3>2. CASE v # w  BY <3>2, <2>3, <1>0, StillFits DEF SummaryInv
    <3> QED  BY <3>1, <3>2
  <2> QED
    BY <2>1, <2>6, <2>7 DEF SummaryInv, PendingNeverNegative, ScoredWithLatestReport
<1>5. ASSUME NEW w \in Workers, NEW window \in Windows, ReadOutcomes(w, window) PROVE SummaryInv'
  <2> DEFINE lines == ToSet(outcomes.lines)
             owed == {a[1] : a \in {x \in acked.outcomes : x[2] = outcomes.gen}}
             c == [op |-> "linkEntries", window |-> window, outcomes |-> lines,
                   owed |-> owed, gens |-> Gens]
  <2>1. /\ call' = [call EXCEPT ![w] = c]
        /\ UNCHANGED <<entries, outcomes, clock, summary>>
    BY <1>5 DEF ReadOutcomes
  <2>2. c.op = "linkEntries" /\ c.outcomes = lines /\ c.owed = owed /\ c.gens = Gens  OBVIOUS
  <2>3. owed \subseteq lines  BY DEF AcknowledgedIsKept, KeptIn
  <2> HIDE DEF c, owed
  <2>4. call'[w] = c /\ \A v \in Workers : v # w => call'[v] = call[v]  BY <2>1, CallUpdate
  <2>5. Reports' \subseteq Reports
    <3> SUFFICES ASSUME NEW x \in Reports' PROVE x \in Reports  OBVIOUS
    <3>1. CASE x \in ToSet(outcomes'.lines)  BY <3>1, <2>1, <1>1
    <3>2. CASE \E v \in Workers : call'[v].op = "writeOutcome" /\ x = call'[v].outcome
      BY <3>2, <2>2, <2>4 DEF Reports
    <3>3. CASE \E v \in Workers : call'[v].op = "linkEntries" /\ x \in call'[v].outcomes
      BY <3>3, <2>2, <2>4, <1>1 DEF Reports
    <3> QED  BY <3>1, <3>2, <3>3 DEF Reports
  <2>6. StampsTell'  BY <2>1, <2>5 DEF SummaryInv, StampsTell
  <2>7. ASSUME NEW v \in Workers PROVE ReadsFit(v)'
    <3>1. CASE v = w  BY <3>1, <2>1, <2>2, <2>3, <2>4, <1>0 DEF ReadsFit, Gens
    <3>2. CASE v # w  BY <3>2, <2>4, <1>0, StillFits DEF SummaryInv
    <3> QED  BY <3>1, <3>2
  <2> QED
    BY <2>1, <2>6, <2>7 DEF SummaryInv, PendingNeverNegative, ScoredWithLatestReport
<1>6. ASSUME NEW w \in Workers, LinkEntries(w) PROVE SummaryInv'
  <2> DEFINE es == InWindow(entries, call[w].window)
             os == call[w].outcomes
             c == [op |-> "countTotal", window |-> call[w].window, pairs |-> Linked(es, os),
                   owed |-> call[w].owed, gens |-> call[w].gens]
  <2>1. /\ call[w].op = "linkEntries" /\ call' = [call EXCEPT ![w] = c]
        /\ UNCHANGED <<entries, outcomes, clock, summary>>
    BY <1>6 DEF LinkEntries
  <2>2. /\ c.op = "countTotal" /\ c.window = call[w].window /\ c.pairs = Linked(es, os)
        /\ c.owed = call[w].owed /\ c.gens = call[w].gens
    OBVIOUS
  <2> HIDE DEF c
  <2>3. call'[w] = c /\ \A v \in Workers : v # w => call'[v] = call[v]  BY <2>1, CallUpdate
  <2>4. /\ call[w].gens[1] <= entries.gen /\ call[w].owed \subseteq os /\ os \subseteq Reports
    BY <2>1 DEF SummaryInv, ReadsFit, Reports
  <2>5. Reports' \subseteq Reports
    <3>1. \A v \in Workers : call'[v].op \in {"writeOutcome", "linkEntries"} => call'[v] = call[v]
      BY <2>2, <2>3
    <3> QED  BY <3>1, <2>1 DEF Reports
  <2>6. StampsTell'  BY <2>1, <2>5 DEF SummaryInv, StampsTell
  <2>7. LatestFor(Linked(es, os), call[w].owed)
    BY <2>4 DEF LatestFor, Linked
  <2>8. \A p, q \in Linked(es, os) : p[1] = q[1] => p = q
    <3> SUFFICES ASSUME NEW p \in Linked(es, os), NEW q \in Linked(es, os), p[1] = q[1]
                 PROVE  p = q
      OBVIOUS
    <3>1. /\ p \in es \X os /\ q \in es \X os
          /\ p[2].entry = p[1].at /\ q[2].entry = q[1].at
          /\ q[2].at <= p[2].at /\ p[2].at <= q[2].at
      BY DEF Linked
    <3>2. p[2].at \in Nat /\ q[2].at \in Nat
      BY <3>1, <2>4, ReportTypes DEF Outcome, Stamp
    <3>3. p[2] = q[2]  BY <3>1, <3>2, <2>4 DEF SummaryInv, StampsTell
    <3> QED  BY <3>1, <3>3
  <2>9. \A p \in Linked(es, os) : p[1] \in es  BY DEF Linked
  <2>10. ASSUME NEW v \in Workers PROVE ReadsFit(v)'
    <3>1. CASE v = w  BY <3>1, <2>1, <2>2, <2>3, <2>4, <2>7, <2>8, <2>9 DEF ReadsFit
    <3>2. CASE v # w  BY <3>2, <2>3, <1>0, StillFits DEF SummaryInv
    <3> QED  BY <3>1, <3>2
  <2> QED
    BY <2>1, <2>6, <2>10 DEF SummaryInv, PendingNeverNegative, ScoredWithLatestReport
<1>7. ASSUME NEW w \in Workers, CountTotal(w) PROVE SummaryInv'
  <2> DEFINE es == InWindow(entries, call[w].window)
             pairs == call[w].pairs
  <2>1. /\ call[w].op = "countTotal" /\ call' = [call EXCEPT ![w] = Idle]
        /\ UNCHANGED <<entries, outcomes, clock>>
        /\ summary' = Summary(pairs, Cardinality(es), call[w])
    BY <1>7 DEF CountTotal
  <2>2. /\ \A v \in Workers : v # w => call'[v] = call[v]
        /\ call'[w] = Idle
    BY <2>1, CallUpdate
  <2>3. /\ summary'.kind = "summary" /\ summary'.pending = Cardinality(es) - Cardinality(pairs)
        /\ summary'.pairs = pairs /\ summary'.owed = call[w].owed
        /\ summary'.undisturbed = (call[w].gens = Gens)
    BY <2>1, SummaryFields
  <2>4. /\ LatestFor(pairs, call[w].owed)
        /\ \A p, q \in pairs : p[1] = q[1] => p = q
        /\ call[w].gens[1] = entries.gen => \A p \in pairs : p[1] \in es
    BY <2>1 DEF SummaryInv, ReadsFit
  <2>5. IsFiniteSet(es)
    <3>1. IsFiniteSet(ToSet(entries.lines))  BY <1>0, LinesAreFinite DEF File
    <3>2. es \subseteq ToSet(entries.lines)  BY DEF InWindow
    <3> QED  BY <3>1, <3>2, FS_Subset
  <2>6. call[w].gens = Gens => call[w].gens[1] = entries.gen  BY DEF Gens
  <2> HIDE DEF es, pairs
  <2>7. PendingNeverNegative'
    <3>1. summary'.undisturbed => call[w].gens = Gens  BY <2>3, Zenon
    <3>2. summary'.undisturbed => Cardinality(es) - Cardinality(pairs) >= 0
      BY <3>1, <2>4, <2>5, <2>6, NoMorePairsThanEntries
    <3> QED  BY <3>2, <2>3, Zenon DEF PendingNeverNegative
  <2>8. ScoredWithLatestReport'  BY <2>3, <2>4 DEF ScoredWithLatestReport, LatestFor
  <2>9. Reports' \subseteq Reports
    <3>1. \A v \in Workers : call'[v].op \in {"writeOutcome", "linkEntries"} => call'[v] = call[v]
      BY <2>2 DEF Idle
    <3> QED  BY <3>1, <2>1 DEF Reports
  <2>10. StampsTell'  BY <2>1, <2>9 DEF SummaryInv, StampsTell
  <2>11. ASSUME NEW v \in Workers PROVE ReadsFit(v)'
    <3>1. CASE v = w  BY <3>1, <2>2 DEF ReadsFit, Idle
    <3>2. CASE v # w  BY <3>2, <2>2, <1>0, StillFits DEF SummaryInv
    <3> QED  BY <3>1, <3>2
  <2> QED  BY <2>7, <2>8, <2>10, <2>11 DEF SummaryInv
<1>8. CASE Crash
  <2>1. /\ UNCHANGED <<entries, outcomes, clock, summary>>
        /\ \A w \in Workers : call'[w].op \notin {"writeOutcome", "linkEntries", "countTotal"}
    BY <1>8 DEF Crash, Idle
  <2>2. clock' \in {clock, clock + 1} /\ ToSet(outcomes'.lines) \subseteq Reports
    BY <2>1, <1>1
  <2> QED  BY <2>1, <2>2, <1>0, PlainSummaryStep
<1>9. CASE UNCHANGED vars
  <2>1. UNCHANGED <<entries, outcomes, clock, call, summary>>  BY <1>9 DEF vars
  <2> QED
    BY <2>1 DEF SummaryInv, StampsTell, Reports, ReadsFit, PendingNeverNegative, ScoredWithLatestReport
<1> QED  BY <1>2, <1>3, <1>4, <1>5, <1>6, <1>7, <1>8, <1>9 DEF Next

(* A summary is made of three reads of files others write: an entry is     *)
(* scored once and by the latest report acknowledged when the call began,  *)
(* and unless a reset ran between the reads, no more entries are scored    *)
(* than there are (compute_performance, entries_with_outcomes).            *)
THEOREM SummariesAddUp == Spec => []SummaryAddsUp
<1>1. Init => SummaryInv
  <2> SUFFICES ASSUME Init PROVE SummaryInv  OBVIOUS
  <2>1. \A w \in Workers : call[w].op = "idle"  BY DEF Init, Idle
  <2>2. outcomes.lines = <<>>  BY DEF Init, NoFile
  <2>3. Reports = {}  BY <2>1, <2>2 DEF Reports, ToSet
  <2>4. summary.kind = "none"  BY DEF Init, None
  <2> QED
    BY <2>1, <2>3, <2>4
    DEF SummaryInv, StampsTell, ReadsFit, PendingNeverNegative, ScoredWithLatestReport
<1>2. TypeOK /\ AcknowledgedIsKept /\ SummaryInv /\ [Next]_vars => SummaryInv'  BY SummaryStep
<1>3. SummaryInv => SummaryAddsUp  BY DEF SummaryInv, SummaryAddsUp
<1> QED  BY <1>1, <1>2, <1>3, TypeCorrect, AcknowledgedStays, PTL DEF Spec

-----------------------------------------------------------------------------
(* The score.                                                              *)

LEMMA LeastOfSome ==
  ASSUME NEW T, T \subseteq Nat, T # {}
  PROVE  \E t \in T : \A s \in T : t <= s
<1> DEFINE R == OpToRel(<, Nat)
<1>1. IsWellFoundedOn(R, Nat)  BY NatLessThanWellFounded, Zenon
<1>2. PICK t \in T : \A s \in T : ~(<<s, t>> \in R)
  <2> HIDE DEF R
  <2> QED  BY <1>1, WFMin
<1>3. R = {ss \in Nat \X Nat : ss[1] < ss[2]}  BY Zenon DEF OpToRel
<1> HIDE DEF R
<1>4. \A s \in T : s \in Nat /\ t \in Nat /\ ~(s < t)  BY <1>2, <1>3
<1> QED  BY <1>4

(* The sums over the subsets of a set of pairs, as MapThenSumSet takes     *)
(* them: one picked pair at a time.                                        *)
Picked(s) == CHOOSE p \in s : TRUE
Term(f, s) == IF s = {} THEN 0 ELSE Regret(Picked(s)[1], Picked(s)[2]) + f[s \ {Picked(s)}]
Table(S, f) == f = [s \in SUBSET S |-> Term(f, s)]
TheTable(S) == CHOOSE f : Table(S, f)
TotalRegret(S) == MapThenSumSet(LAMBDA p : Regret(p[1], p[2]), S)

LEMMA TotalIsTheTable ==
  ASSUME NEW S PROVE TotalRegret(S) = TheTable(S)[S]
BY DEF TotalRegret, MapThenSumSet, MapThenFoldSet, TheTable, Table, Term, Picked

(* A table that is right for the subsets of up to n pairs.                 *)
RightUpTo(S, f, n) ==
  /\ f = [s \in SUBSET S |-> f[s]]
  /\ \A s \in SUBSET S : Cardinality(s) <= n => f[s] = Term(f, s)

LEMMA PickedLeaves ==
  ASSUME NEW S, IsFiniteSet(S), NEW s \in SUBSET S, s # {}
  PROVE  /\ Picked(s) \in s /\ s \ {Picked(s)} \in SUBSET S
         /\ IsFiniteSet(s) /\ Cardinality(s) \in Nat
         /\ Cardinality(s \ {Picked(s)}) \in Nat
         /\ Cardinality(s \ {Picked(s)}) = Cardinality(s) - 1
<1>1. Picked(s) \in s  BY DEF Picked
<1>2. IsFiniteSet(s)  BY FS_Subset
<1>3. Cardinality(s) \in Nat  BY <1>2, FS_CardinalityType
<1>4. /\ IsFiniteSet(s \ {Picked(s)})
      /\ Cardinality(s \ {Picked(s)}) = Cardinality(s) - 1
  BY <1>1, <1>2, FS_RemoveElement
<1>5. Cardinality(s \ {Picked(s)}) \in Nat  BY <1>4, FS_CardinalityType
<1> QED  BY <1>1, <1>2, <1>3, <1>4, <1>5

LEMMA OneMore ==
  ASSUME NEW S, IsFiniteSet(S), NEW n \in Nat, NEW f, RightUpTo(S, f, n)
  PROVE  \E g : RightUpTo(S, g, n + 1)
<1> DEFINE g == [s \in SUBSET S |-> Term(f, s)]
<1>1. \A s \in SUBSET S : g[s] = Term(f, s)  OBVIOUS
<1>2. g = [s \in SUBSET S |-> g[s]]  OBVIOUS
<1> HIDE DEF g
<1>3. ASSUME NEW s \in SUBSET S, Cardinality(s) <= n + 1
      PROVE  g[s] = Term(g, s)
  <2>1. CASE s = {}  BY <2>1, <1>1 DEF Term
  <2>2. CASE s # {}
    <3> DEFINE t == s \ {Picked(s)}
    <3>1. t \in SUBSET S /\ Cardinality(t) <= n
      BY <1>3, <2>2, PickedLeaves
    <3>2. g[t] = f[t]  BY <3>1, <1>1 DEF RightUpTo
    <3>3. Term(g, s) = Term(f, s)  BY <2>2, <3>2 DEF Term
    <3> QED  BY <3>3, <1>1
  <2> QED  BY <2>1, <2>2
<1> QED  BY <1>2, <1>3 DEF RightUpTo

LEMMA SomeTable ==
  ASSUME NEW S, IsFiniteSet(S) PROVE \E f : Table(S, f)
<1> DEFINE Missing == {n \in Nat : ~ \E f : RightUpTo(S, f, n)}
<1>1. 0 \notin Missing
  <2> DEFINE z == [s \in SUBSET S |-> 0]
  <2>1. z = [s \in SUBSET S |-> z[s]] /\ \A s \in SUBSET S : z[s] = 0  OBVIOUS
  <2> HIDE DEF z
  <2>2. \A s \in SUBSET S : Cardinality(s) <= 0 => s = {}
    <3> SUFFICES ASSUME NEW s \in SUBSET S, Cardinality(s) <= 0, s # {} PROVE FALSE  OBVIOUS
    <3> DEFINE k == Cardinality(s)
    <3>1. k \in Nat /\ k - 1 \in Nat  BY PickedLeaves
    <3>2. k <= 0  OBVIOUS
    <3> HIDE DEF k
    <3> QED  BY <3>1, <3>2
  <2>3. RightUpTo(S, z, 0)  BY <2>1, <2>2 DEF RightUpTo, Term
  <2> QED  BY <2>3
<1>2. Missing = {}
  <2> SUFFICES ASSUME Missing # {} PROVE FALSE  OBVIOUS
  <2>1. PICK n \in Missing : \A m \in Missing : n <= m
    <3>1. Missing \subseteq Nat  OBVIOUS
    <3> HIDE DEF Missing
    <3> QED  BY <3>1, LeastOfSome
  <2>2. n - 1 \in Nat /\ ~(n <= n - 1)  BY <1>1, <2>1
  <2>3. n - 1 \notin Missing  BY <2>1, <2>2
  <2>4. PICK f : RightUpTo(S, f, n - 1)  BY <2>2, <2>3
  <2>5. n - 1 + 1 = n  BY <2>1
  <2>6. \E g : RightUpTo(S, g, n - 1 + 1)
    <3> HIDE DEF Missing
    <3> QED  BY <2>2, <2>4, OneMore
  <2> QED  BY <2>1, <2>5, <2>6
<1>3. Cardinality(S) \in Nat  BY FS_CardinalityType
<1>4. PICK f : RightUpTo(S, f, Cardinality(S))  BY <1>2, <1>3
<1>5. \A s \in SUBSET S : Cardinality(s) <= Cardinality(S)  BY FS_Subset
<1>6. \A s \in SUBSET S : f[s] = Term(f, s)  BY <1>4, <1>5 DEF RightUpTo
<1>7. f = [s \in SUBSET S |-> f[s]]  BY <1>4 DEF RightUpTo
<1>8. [s \in SUBSET S |-> f[s]] = [s \in SUBSET S |-> Term(f, s)]  BY <1>6
<1> QED  BY <1>7, <1>8 DEF Table

(* The regret of one decision: none beats the oracle, and a LOCK above the *)
(* rate that came does worse.                                              *)
LEMMA RegretOfOne ==
  ASSUME NEW e \in Entry, NEW o \in Outcome
  PROVE  /\ Regret(e, o) \in Int /\ Regret(e, o) >= 0
         /\ e.action = "LOCK" /\ ~(e.quote <= o.rate) => Regret(e, o) > 0
<1>1. e.quote \in Int /\ o.rate \in Int /\ e.action \in {"LOCK", "WAIT"}
  BY LedgerAssumption DEF Entry, Outcome, Actions
<1>2. CASE e.action = "LOCK"  BY <1>1, <1>2 DEF Regret, OracleSavings, Savings
<1>3. CASE e.action = "WAIT"  BY <1>1, <1>3 DEF Regret, OracleSavings, Savings
<1> QED  BY <1>1, <1>2, <1>3

TooDear(p) == p[1].action = "LOCK" /\ ~(p[1].quote <= p[2].rate)

(* What the sum over some pairs says of them.                              *)
Tells(f, s) ==
  /\ f[s] \in Int /\ f[s] >= 0
  /\ (\E p \in s : TooDear(p)) => f[s] > 0

LEMMA RegretOfAll ==
  ASSUME NEW S, IsFiniteSet(S), S \subseteq Entry \X Outcome
  PROVE  /\ TotalRegret(S) >= 0
         /\ (\E p \in S : TooDear(p)) => TotalRegret(S) > 0
<1> DEFINE f == TheTable(S)
<1>1. Table(S, f)  BY SomeTable DEF TheTable
<1> HIDE DEF f
<1>2. ASSUME NEW s \in SUBSET S PROVE f[s] = Term(f, s)
  <2> DEFINE R(t) == Term(f, t)
  <2>1. f = [t \in SUBSET S |-> R(t)]  BY <1>1 DEF Table
  <2> HIDE DEF R
  <2>2. f[s] = R(s)  BY <2>1
  <2> QED  BY <2>2 DEF R
<1> DEFINE Odd == {n \in Nat : \E s \in SUBSET S : ~Tells(f, s) /\ Cardinality(s) = n}
<1>3. Odd = {}
  <2> SUFFICES ASSUME Odd # {} PROVE FALSE  OBVIOUS
  <2>1. PICK n \in Odd : \A m \in Odd : n <= m
    <3>1. Odd \subseteq Nat  OBVIOUS
    <3> HIDE DEF Odd
    <3> QED  BY <3>1, LeastOfSome
  <2>2. PICK s \in SUBSET S : ~Tells(f, s) /\ Cardinality(s) = n  BY <2>1
  <2>3. s # {}
    <3> SUFFICES ASSUME s = {} PROVE Tells(f, s)  BY <2>2
    <3>1. f[s] = 0  BY <1>2 DEF Term
    <3> QED  BY <3>1 DEF Tells
  <2> DEFINE p == Picked(s)
             t == s \ {p}
  <2>4. /\ p \in s /\ t \in SUBSET S /\ Cardinality(t) \in Nat
        /\ Cardinality(t) = n - 1 /\ n \in Nat
    BY <2>2, <2>3, PickedLeaves
  <2>5. f[s] = Regret(p[1], p[2]) + f[t]  BY <1>2, <2>3 DEF Term
  <2>6. p[1] \in Entry /\ p[2] \in Outcome  BY <2>4
  <2>7. Tells(f, t)
    <3> HIDE DEF t
    <3> QED  BY <2>1, <2>4
  <2>8. /\ Regret(p[1], p[2]) \in Int /\ Regret(p[1], p[2]) >= 0
        /\ TooDear(p) => Regret(p[1], p[2]) > 0
    <3> HIDE DEF p
    <3> QED  BY <2>6, RegretOfOne DEF TooDear
  <2>9. (\E q \in s : TooDear(q)) => TooDear(p) \/ \E q \in t : TooDear(q)
    <3> HIDE DEF p
    <3> QED  OBVIOUS
  <2> HIDE DEF p, t
  <2>10. Tells(f, s)  BY <2>5, <2>7, <2>8, <2>9 DEF Tells
  <2> QED  BY <2>2, <2>10
<1>4. Tells(f, S)
  <2>1. Cardinality(S) \in Nat /\ S \in SUBSET S  BY FS_CardinalityType
  <2> QED  BY <1>3, <2>1
<1>5. TotalRegret(S) = f[S]  BY TotalIsTheTable DEF f
<1> QED  BY <1>4, <1>5 DEF Tells

(* Fewer LOCKs were right than there were: one was too dear.               *)
Locks(S) == {p \in S : p[1].action = "LOCK"}
Rights(S) == {p \in Locks(S) : p[1].quote <= p[2].rate}

LEMMA OneWasTooDear ==
  ASSUME NEW S, IsFiniteSet(S), Cardinality(Rights(S)) < Cardinality(Locks(S))
  PROVE  \E p \in S : TooDear(p)
<1> SUFFICES ASSUME \A p \in S : ~TooDear(p) PROVE FALSE  OBVIOUS
<1>1. Rights(S) = Locks(S)  BY DEF Rights, Locks, TooDear
<1>2. Locks(S) \subseteq S  BY DEF Locks
<1>3. Cardinality(Locks(S)) \in Nat  BY <1>2, FS_Subset, FS_CardinalityType
<1> QED  BY <1>1, <1>3

LEMMA ScoreFields ==
  ASSUME NEW pairs, NEW total, NEW c
  PROVE  /\ Summary(pairs, total, c).kind = "summary"
         /\ Summary(pairs, total, c).regret = TotalRegret(pairs)
         /\ Summary(pairs, total, c).locks = Cardinality(Locks(pairs))
         /\ Summary(pairs, total, c).right = Cardinality(Rights(pairs))
BY DEF Summary, TotalRegret, Locks, Rights

(* What a call has read so far is finite.                                  *)
FiniteReads ==
  \A w \in Workers :
    /\ call[w].op = "linkEntries" => IsFiniteSet(call[w].outcomes)
    /\ call[w].op = "countTotal" => IsFiniteSet(call[w].pairs)

ScoreInv == FiniteReads /\ RegretExplained

LEMMA PairsAreFinite ==
  ASSUME NEW es, NEW os, IsFiniteSet(es), IsFiniteSet(os)
  PROVE  IsFiniteSet(Linked(es, os))
<1>1. IsFiniteSet(es \X os)  BY FS_Product
<1>2. Linked(es, os) \subseteq es \X os  BY DEF Linked
<1> QED  BY <1>1, <1>2, FS_Subset

LEMMA ScoreStep ==
  ASSUME TypeOK, ScoreInv, [Next]_vars
  PROVE  ScoreInv'
<1>0. entries \in File(Entry) /\ outcomes \in File(Outcome) /\ call \in [Workers -> Call]
  BY DEF TypeOK
<1>1. ASSUME summary' = summary,
             \A v \in Workers :
               call'[v] = call[v] \/ call'[v].op \notin {"linkEntries", "countTotal"}
      PROVE  ScoreInv'
  <2>1. FiniteReads'  BY <1>1 DEF ScoreInv, FiniteReads
  <2>2. RegretExplained'  BY <1>1 DEF ScoreInv, RegretExplained
  <2> QED  BY <2>1, <2>2 DEF ScoreInv
<1>2. ASSUME NEW w \in Workers,
             \/ \E action \in Actions, quote \in Quotes : RecordRecommendation(w, action, quote)
             \/ WriteEntry(w)
             \/ \E entry \in 0 .. clock - 1, rate \in Rates : RecordOutcome(w, entry, rate)
             \/ OpenOutcome(w) \/ WriteOutcome(w) \/ CountEntries(w) \/ UnlinkEntries(w)
             \/ CountOutcomes(w) \/ UnlinkOutcomes(w)
      PROVE  ScoreInv'
  <2>1. summary' = summary
    BY <1>2 DEF RecordRecommendation, WriteEntry, RecordOutcome, OpenOutcome, WriteOutcome,
                CountEntries, UnlinkEntries, CountOutcomes, UnlinkOutcomes
  <2>2. \A v \in Workers :
          call'[v] = call[v] \/ call'[v].op \notin {"linkEntries", "countTotal"}
    BY <1>0, <1>2
    DEF RecordRecommendation, WriteEntry, RecordOutcome, OpenOutcome, WriteOutcome,
        CountEntries, UnlinkEntries, CountOutcomes, UnlinkOutcomes, Idle
  <2> QED  BY <2>1, <2>2, <1>1
<1>3. ASSUME NEW w \in Workers, NEW window \in Windows, ReadOutcomes(w, window) PROVE ScoreInv'
  <2>1. PICK c : /\ call' = [call EXCEPT ![w] = c]
                 /\ c.op = "linkEntries" /\ c.outcomes = ToSet(outcomes.lines)
                 /\ summary' = summary
    BY <1>3 DEF ReadOutcomes
  <2>2. call'[w] = c /\ \A v \in Workers : v # w => call'[v] = call[v]  BY <2>1, CallUpdate
  <2>3. IsFiniteSet(ToSet(outcomes.lines))  BY <1>0, LinesAreFinite DEF File
  <2>4. FiniteReads'  BY <2>1, <2>2, <2>3 DEF ScoreInv, FiniteReads
  <2> QED  BY <2>1, <2>4 DEF ScoreInv, RegretExplained
<1>4. ASSUME NEW w \in Workers, LinkEntries(w) PROVE ScoreInv'
  <2> DEFINE es == InWindow(entries, call[w].window)
             os == call[w].outcomes
  <2>1. PICK c : /\ call' = [call EXCEPT ![w] = c]
                 /\ c.op = "countTotal" /\ c.pairs = Linked(es, os)
                 /\ summary' = summary
    BY <1>4 DEF LinkEntries
  <2>2. call'[w] = c /\ \A v \in Workers : v # w => call'[v] = call[v]  BY <2>1, CallUpdate
  <2>3. IsFiniteSet(os)  BY <1>4 DEF LinkEntries, ScoreInv, FiniteReads
  <2>4. IsFiniteSet(es)
    <3>1. IsFiniteSet(ToSet(entries.lines))  BY <1>0, LinesAreFinite DEF File
    <3>2. es \subseteq ToSet(entries.lines)  BY DEF InWindow
    <3> QED  BY <3>1, <3>2, FS_Subset
  <2> HIDE DEF es, os
  <2>5. IsFiniteSet(Linked(es, os))  BY <2>3, <2>4, PairsAreFinite
  <2>6. FiniteReads'  BY <2>1, <2>2, <2>5 DEF ScoreInv, FiniteReads
  <2> QED  BY <2>1, <2>6 DEF ScoreInv, RegretExplained
<1>5. ASSUME NEW w \in Workers, CountTotal(w) PROVE ScoreInv'
  <2> DEFINE pairs == call[w].pairs
             total == Cardinality(InWindow(entries, call[w].window))
  <2>1. /\ call[w].op = "countTotal" /\ call' = [call EXCEPT ![w] = Idle]
        /\ summary' = Summary(pairs, total, call[w])
    BY <1>5 DEF CountTotal
  <2>2. call'[w] = Idle /\ \A v \in Workers : v # w => call'[v] = call[v]  BY <2>1, CallUpdate
  <2>3. IsFiniteSet(pairs)  BY <2>1 DEF ScoreInv, FiniteReads
  <2>4. pairs \subseteq Entry \X Outcome
    <3>1. call[w] \in Call  BY <1>0
    <3> QED  BY <3>1, <2>1, ReadFields
  <2> HIDE DEF pairs, total
  <2>5. /\ summary'.kind = "summary" /\ summary'.regret = TotalRegret(pairs)
        /\ summary'.locks = Cardinality(Locks(pairs))
        /\ summary'.right = Cardinality(Rights(pairs))
    BY <2>1, ScoreFields
  <2>6. summary'.regret >= 0  BY <2>3, <2>4, <2>5, RegretOfAll
  <2>7. summary'.right < summary'.locks => summary'.regret > 0
    BY <2>3, <2>4, <2>5, RegretOfAll, OneWasTooDear
  <2>8. RegretExplained'  BY <2>6, <2>7 DEF RegretExplained
  <2>9. FiniteReads'  BY <2>2 DEF ScoreInv, FiniteReads, Idle
  <2> QED  BY <2>8, <2>9 DEF ScoreInv
<1>6. CASE Crash
  <2>1. /\ summary' = summary
        /\ \A w \in Workers : call'[w].op \notin {"linkEntries", "countTotal"}
    BY <1>6 DEF Crash, Idle
  <2> QED  BY <2>1, <1>1
<1>7. CASE UNCHANGED vars
  <2>1. UNCHANGED <<call, summary>>  BY <1>7 DEF vars
  <2> QED  BY <2>1, <1>1
<1> QED  BY <1>2, <1>3, <1>4, <1>5, <1>6, <1>7 DEF Next

(* For any quotes, rates and date filters, however the reads of a summary  *)
(* interleave with appends and resets: no decision beats the oracle, and a *)
(* summary with a LOCK that was not cheaper than spot shows regret         *)
(* (compute_performance).                                                  *)
THEOREM RegretIsExplained == Spec => []RegretExplained
<1>1. Init => ScoreInv
  <2> SUFFICES ASSUME Init PROVE ScoreInv  OBVIOUS
  <2>1. \A w \in Workers : call[w].op = "idle"  BY DEF Init, Idle
  <2>2. summary.kind = "none"  BY DEF Init, None
  <2> QED  BY <2>1, <2>2 DEF ScoreInv, FiniteReads, RegretExplained
<1>2. TypeOK /\ ScoreInv /\ [Next]_vars => ScoreInv'  BY ScoreStep
<1>3. ScoreInv => RegretExplained  BY DEF ScoreInv
<1> QED  BY <1>1, <1>2, <1>3, TypeCorrect, PTL DEF Spec

=============================================================================
