-------------------------- MODULE MCStandingAlerts --------------------------
(* Instances of StandingAlerts for TLC.                                    *)
EXTENDS StandingAlerts

CONSTANTS a, b, loop, other, r1

MCOne     == {a}
MCTwo     == {a, b}
MCLoop    == {loop}
MCBoth    == {loop, other}
MCCall    == {r1}
MCValues  == {1, 3}
MCQuiet   == {}        \* the source publishes nothing

Above  == [kind |-> "crosses", threshold |-> 2, above |-> TRUE]
Moves  == [kind |-> "moves", pct |-> 50, window |-> 1]
Late   == [kind |-> "overdue", days |-> 1]

MCAboveMoves == [w \in WatchIds |-> IF w = a THEN Above ELSE Moves]
MCAbove      == [w \in WatchIds |-> Above]
MCLate       == [w \in WatchIds |-> Late]

(* Spec, unlike LoopSpec, does not tell the evaluators apart. *)
MCEvaluatorsAlike == Permutations(Evaluators)

(* Bounds: passes that overlap or are killed, or a reset of the ledger, not*)
(* both; no entry that cannot become old; nothing once every watch is      *)
(* deleted and no pass or request is under way.                            *)
MCFewStates ==
  /\ resets > 0 => ~overlapped /\ crashes = 0
  /\ \A i \in DOMAIN entries : entries[i] + 1 < LastDay
  /\ \/ live # {} \/ drawn # WatchIds
     \/ \E e \in Evaluators : pass[e] # Idle
     \/ \E r \in Requests : call[r] # Idle
=============================================================================
