---------------------------- MODULE AlertPromise ----------------------------
(***************************************************************************)
(* What the standing alerts promise (src/src/alerts/models.py, "Edge-      *)
(* triggered, not level-triggered"), with no passes, threads or database:  *)
(* a watch is looked at in one step, which rings the bell exactly when the *)
(* level it sees is news compared with the level it saw last.              *)
(*                                                                         *)
(* A level is what the code keeps as the string last_state: 0 and 1 for    *)
(* "out" and "in" of a rate watch, the count of an overdue-outcome watch,  *)
(* Never for a watch not evaluated yet.                                    *)
(***************************************************************************)
EXTENDS Integers

CONSTANTS
  WatchIds,    \* every watch_id that is ever drawn (uuid4: never reused)
  Counting     \* those of the overdue-outcome watches, whose level is a count

Never == -1

(* A rate watch is news on "out" to "in" and never on its first look, an   *)
(* overdue-outcome watch whenever a positive count has risen, a first look *)
(* counting as a rise from zero.                                           *)
IsNews(w, before, level) ==
  IF w \in Counting THEN level > 0 /\ level > before ELSE level = 1 /\ before = 0

VARIABLES
  live,        \* watches that exist
  last,        \* last[w]: the level w saw last
  unread,      \* unread[w], read[w]: its firings on record
  read

vars == <<live, last, unread, read>>

Init ==
  /\ live = {}
  /\ last = [w \in WatchIds |-> Never]
  /\ unread = [w \in WatchIds |-> 0]
  /\ read = [w \in WatchIds |-> 0]

Create(w) ==
  /\ w \notin live
  /\ live' = live \cup {w}
  /\ UNCHANGED <<last, unread, read>>

(* The firings go with the watch. *)
Delete(w) ==
  /\ w \in live
  /\ live' = live \ {w}
  /\ last' = [last EXCEPT ![w] = Never]
  /\ unread' = [unread EXCEPT ![w] = 0]
  /\ read' = [read EXCEPT ![w] = 0]

Look(w) ==
  /\ w \in live
  /\ last'[w] \in Nat
  /\ last' = [last EXCEPT ![w] = last'[w]]
  /\ unread' = [unread EXCEPT ![w] = IF IsNews(w, last[w], last'[w]) THEN @ + 1 ELSE @]
  /\ UNCHANGED <<live, read>>

MarkAllRead ==
  /\ read' = [w \in WatchIds |-> read[w] + unread[w]]
  /\ unread' = [w \in WatchIds |-> 0]
  /\ UNCHANGED <<live, last>>

Next ==
  \/ \E w \in WatchIds : Create(w) \/ Delete(w) \/ Look(w)
  \/ MarkAllRead

Spec == Init /\ [][Next]_vars

=============================================================================
