---------------------------- MODULE SnapshotCache ----------------------------
(***************************************************************************)
(* The figures that take minutes to compute and are kept for the life of a *)
(* process: the replay snapshot of src/src/opt/replay.py, which is also    *)
(* kept on disk under a key of its inputs, and the two snapshots of        *)
(* src/src/tonnage/field.py, which are not.  Threads of the desk ask for   *)
(* them, the warm-up of src/backend/main.py asks for them at start-up, and *)
(* build_replay_snapshot.py asks for the first in a process of its own.    *)
(*                                                                         *)
(* The inputs of a computation (model files, master table, frozen test) are *)
(* one version number that a refresh or a retraining raises.               *)
(***************************************************************************)
EXTENDS Integers, Sequences, FiniteSets, SequencesExt

CONSTANTS
  Threads,       \* threads of the desk that answer requests
  Warmer,        \* the thread of _warm_caches
  Builder,       \* the process of build_replay_snapshot
  WarmList,      \* the snapshots the warm-up asks for, the replay first
  Requests,      \* the snapshots a request asks for, in order
  Nobody, Absent,
  MaxMoves,      \* bound: how often the inputs move
  MaxTrouble     \* bound: how often they move or a process is killed

ASSUME CacheAssumption ==
  /\ Head(WarmList) = "replay"
  /\ Warmer \notin Threads /\ Builder \notin Threads \cup {Warmer}
  /\ MaxMoves \in Nat /\ MaxTrouble \in Nat

Kinds   == Range(WarmList)
Askers  == Threads \cup {Warmer, Builder}
Desk    == "desk"
Process == {Desk, Builder}
Versions == 0 .. MaxMoves
Of(t)   == IF t = Builder THEN Builder ELSE Desk

VARIABLES
  inputs,        \* the version of what the computations read
  disk, tmp,     \* by key, the stored file and the one being written:
                 \*   [reads, whole, open], open the threads writing it
  memory,        \* by process and kind: Absent or [reads, whole]
  lock,          \* by process and kind: who holds it
  gate,          \* by thread: may it read the frozen test set
  ask,           \* by thread: [phase, todo, reads, key]
  deaths

cacheVars == <<inputs, disk, tmp, memory, lock, gate, ask, deaths>>

Quiet == [phase |-> "idle", todo |-> <<>>, reads |-> {}, key |-> 0]
Fresh(t) == IF t = Warmer THEN [Quiet EXCEPT !.phase = "starting"] ELSE Quiet

CacheInit ==
  /\ inputs = 0 /\ deaths = 0
  /\ disk = [v \in Versions |-> Absent] /\ tmp = [v \in Versions |-> Absent]
  /\ memory = [p \in Process |-> [k \in Kinds |-> Absent]]
  /\ lock = [p \in Process |-> [k \in Kinds |-> Nobody]]
  /\ gate = [t \in Askers |-> FALSE]
  /\ ask = [t \in Askers |-> Fresh(t)]

Kind(t)   == Head(ask[t].todo)
Mine(t)   == memory[Of(t)][Kind(t)]
At(t, phase) == ask[t].phase = phase

-----------------------------------------------------------------------------
(* Asking.  The warm-up asks for the replay only when a file is there, and *)
(* the builder stops at once when one is.                                  *)
Begin(t, todo) ==
  ask' = [ask EXCEPT ![t] = [Quiet EXCEPT !.phase = "waiting", !.todo = todo]]

Ask(t) ==
  /\ t \in Threads /\ At(t, "idle")
  /\ \E todo \in Requests : Begin(t, todo)
  /\ UNCHANGED <<inputs, disk, tmp, memory, lock, gate, deaths>>

WarmUp ==
  /\ At(Warmer, "starting")
  /\ Begin(Warmer, IF disk[inputs] = Absent THEN Tail(WarmList) ELSE WarmList)
  /\ UNCHANGED <<inputs, disk, tmp, memory, lock, gate, deaths>>

Build ==
  /\ At(Builder, "idle") /\ disk[inputs] = Absent
  /\ Begin(Builder, <<"replay">>)
  /\ UNCHANGED <<inputs, disk, tmp, memory, lock, gate, deaths>>

-----------------------------------------------------------------------------
(* get_replay_snapshot, get_snapshot, get_ablation_snapshot: under a lock, *)
(* memory, then disk, then compute.                                        *)
Acquire(t) ==
  /\ At(t, "waiting") /\ lock[Of(t)][Kind(t)] = Nobody
  /\ lock' = [lock EXCEPT ![Of(t)][Kind(t)] = t]
  /\ ask' = [ask EXCEPT ![t].phase = "inside"]
  /\ UNCHANGED <<inputs, disk, tmp, memory, gate, deaths>>

(* The lock is let go and the asker has its snapshot.                      *)
Release(t) == lock' = [lock EXCEPT ![Of(t)][Kind(t)] = Nobody]
Have(t) ==
  /\ Release(t)
  /\ ask' = [ask EXCEPT ![t] = [Quiet EXCEPT !.phase = "told", !.todo = ask[t].todo]]

Hit(t) ==
  /\ At(t, "inside") /\ Mine(t) # Absent
  /\ Have(t)
  /\ UNCHANGED <<inputs, disk, tmp, memory, gate, deaths>>

BadReadable(file) == file # Absent      \* mutant: what is there is believed
Readable(file) == file # Absent /\ file.whole

Load(t) ==
  /\ At(t, "inside") /\ Mine(t) = Absent /\ Kind(t) = "replay"
  /\ Readable(disk[inputs])
  /\ memory' = [memory EXCEPT ![Of(t)]["replay"] =
                  [reads |-> disk[inputs].reads, whole |-> disk[inputs].whole]]
  /\ Have(t)
  /\ UNCHANGED <<inputs, disk, tmp, gate, deaths>>

(* _compute: the validation split is read first, the frozen test set at    *)
(* the end, inside allow_test_set_access.                                  *)
Compute(t) ==
  /\ At(t, "inside") /\ Mine(t) = Absent
  /\ Kind(t) = "replay" => ~Readable(disk[inputs])
  /\ ask' = [ask EXCEPT ![t].phase = "computing", ![t].reads = {inputs}]
  /\ UNCHANGED <<inputs, disk, tmp, memory, lock, gate, deaths>>

Report(t) ==
  /\ At(t, "computing") /\ Kind(t) = "replay"
  /\ gate' = [gate EXCEPT ![t] = TRUE]
  /\ ask' = [ask EXCEPT ![t].phase = "reporting", ![t].reads = @ \cup {inputs}]
  /\ UNCHANGED <<inputs, disk, tmp, memory, lock, deaths>>

(* The computation is over: kept, and for the replay also written.         *)
Computed(t) ==
  /\ At(t, "reporting") \/ (At(t, "computing") /\ Kind(t) # "replay")
  /\ gate' = [gate EXCEPT ![t] = FALSE]
  /\ memory' = [memory EXCEPT ![Of(t)][Kind(t)] = [reads |-> ask[t].reads, whole |-> TRUE]]
  /\ IF Kind(t) = "replay"
     THEN ask' = [ask EXCEPT ![t].phase = "writing"] /\ UNCHANGED lock
     ELSE Have(t)
  /\ UNCHANGED <<inputs, disk, tmp, deaths>>

(* On to the next snapshot of the list, or back to nothing.                *)
Onward(t) ==
  IF Len(ask[t].todo) = 1 THEN Quiet
  ELSE [Quiet EXCEPT !.phase = "waiting", !.todo = Tail(ask[t].todo)]

(* The exception leaves the gate and the lock behind: a request is refused, *)
(* the warm-up goes on with its list, the builder ends.                    *)
BadRefused(t) ==                        \* mutant: the warm-up tries again
  ask' = [ask EXCEPT ![t] = IF t = Warmer
                            THEN [Quiet EXCEPT !.phase = "waiting", !.todo = ask[t].todo]
                            ELSE Quiet]

Refused(t) ==
  ask' = [ask EXCEPT ![t] = IF t = Warmer THEN Onward(t) ELSE Quiet]

BadFail(t) ==                           \* mutant: the permission is left standing
  /\ ask[t].phase \in {"computing", "reporting"}
  /\ Refused(t) /\ Release(t)
  /\ UNCHANGED <<inputs, disk, tmp, memory, gate, deaths>>

Fail(t) ==
  /\ ask[t].phase \in {"computing", "reporting"}
  /\ gate' = [gate EXCEPT ![t] = FALSE]
  /\ Refused(t) /\ Release(t)
  /\ UNCHANGED <<inputs, disk, tmp, memory, deaths>>

-----------------------------------------------------------------------------
(* write_snapshot_to_disk: the key is computed when the file is opened, the *)
(* name of the temporary file is the same in every process, and a file     *)
(* moved while it is open goes on being written where it now lies.         *)
OpenTmp(t) ==
  /\ At(t, "writing")
  /\ tmp' = [tmp EXCEPT ![inputs] =
               [reads |-> ask[t].reads, whole |-> FALSE,
                open |-> {t} \cup IF tmp[inputs] = Absent THEN {} ELSE tmp[inputs].open]]
  /\ ask' = [ask EXCEPT ![t].phase = "filling", ![t].key = inputs]
  /\ UNCHANGED <<inputs, disk, memory, lock, gate, deaths>>

Written(file, t, whole) ==
  IF file = Absent \/ t \notin file.open THEN file
  ELSE [reads |-> ask[t].reads, open |-> file.open \ {t},
        whole |-> IF file.open = {t} THEN whole ELSE FALSE]

(* Of two that write one file at once, the last may leave a whole file.    *)
FillTmp(t) ==
  /\ At(t, "filling")
  /\ \E whole \in {TRUE} \cup {b \in BOOLEAN : \E o \in Askers \ {t} :
                                 ask[o].phase \in {"filling", "moving"} /\ ask[o].key = ask[t].key} :
       /\ tmp' = [tmp EXCEPT ![ask[t].key] = Written(@, t, whole)]
       /\ disk' = [disk EXCEPT ![ask[t].key] = Written(@, t, whole)]
  /\ ask' = [ask EXCEPT ![t].phase = "moving"]
  /\ UNCHANGED <<inputs, memory, lock, gate, deaths>>

(* The file is moved into place, or is gone: somebody else moved it.  An   *)
(* OSError is a warning inside get_replay_snapshot, the end of the builder *)
(* when it writes for the second time.                                     *)
MoveTmp(t) ==
  LET key == ask[t].key
  IN /\ At(t, "moving")
     /\ tmp' = [tmp EXCEPT ![key] = Absent]
     /\ disk' = IF tmp[key] = Absent THEN disk ELSE [disk EXCEPT ![key] = tmp[key]]
     /\ IF lock[Of(t)]["replay"] = t
        THEN Have(t)
        ELSE ask' = [ask EXCEPT ![t] = Quiet] /\ UNCHANGED lock
     /\ UNCHANGED <<inputs, memory, gate, deaths>>

(* The writing itself may fail; a temporary file is then left half written. *)
WriteFails(t) ==
  /\ At(t, "filling")
  /\ tmp' = [v \in Versions |-> IF tmp[v] = Absent THEN Absent
                                ELSE [tmp[v] EXCEPT !.open = @ \ {t}]]
  /\ IF lock[Of(t)]["replay"] = t
     THEN Have(t)
     ELSE ask' = [ask EXCEPT ![t] = Quiet] /\ UNCHANGED lock
  /\ UNCHANGED <<inputs, disk, memory, gate, deaths>>

(* The answer goes out; the next snapshot of the list is asked for, and the *)
(* builder writes what it was given once more.                             *)
Answer(t) ==
  /\ At(t, "told")
  /\ ask' = [ask EXCEPT ![t] =
       IF t = Builder THEN [ask[t] EXCEPT !.phase = "writing", !.reads = Mine(t).reads]
       ELSE Onward(t)]
  /\ UNCHANGED <<inputs, disk, tmp, memory, lock, gate, deaths>>

-----------------------------------------------------------------------------
(* Around them: the inputs move, and a process is killed.                  *)
Move ==
  /\ inputs < MaxMoves /\ deaths + inputs < MaxTrouble /\ inputs' = inputs + 1
  /\ UNCHANGED <<disk, tmp, memory, lock, gate, ask, deaths>>

Kill(p) ==
  LET dead == {t \in Askers : Of(t) = p}
      Closed(file) == IF file = Absent THEN Absent ELSE [file EXCEPT !.open = @ \ dead]
  IN /\ deaths + inputs < MaxTrouble /\ deaths' = deaths + 1
     /\ ask' = [t \in Askers |-> IF t \in dead THEN Fresh(t) ELSE ask[t]]
     /\ gate' = [t \in Askers |-> gate[t] /\ t \notin dead]
     /\ memory' = [memory EXCEPT ![p] = [k \in Kinds |-> Absent]]
     /\ lock' = [lock EXCEPT ![p] = [k \in Kinds |-> Nobody]]
     /\ tmp' = [v \in Versions |-> Closed(tmp[v])]
     /\ disk' = [v \in Versions |-> Closed(disk[v])]
     /\ UNCHANGED inputs

CacheStep(t) ==
  \/ Hit(t) \/ Load(t) \/ Compute(t) \/ Report(t) \/ Computed(t) \/ Fail(t)
  \/ OpenTmp(t) \/ FillTmp(t) \/ MoveTmp(t) \/ WriteFails(t) \/ Answer(t)

CacheNext ==
  \/ WarmUp \/ Build \/ Move
  \/ \E t \in Askers : Ask(t) \/ Acquire(t) \/ CacheStep(t)
  \/ \E p \in Process : Kill(p)

(* A thread that can go on goes on, and a lock that is let go again and    *)
(* again is got in the end.                                                *)
CacheFairness ==
  \A t \in Askers : WF_cacheVars(CacheStep(t)) /\ SF_cacheVars(Acquire(t))

-----------------------------------------------------------------------------
(* Properties.                                                             *)

(* What a process keeps and serves was whole when it was read, whatever    *)
(* was killed in mid-write and however two writers shared a temporary file. *)
HalfFilesAreNotBelieved ==
  \A p \in Process, k \in Kinds : memory[p][k] # Absent => memory[p][k].whole

(* The frozen test set is open to a thread exactly while that thread       *)
(* reports on it: "tune on valid; the test split is read once, at the very *)
(* end" (src/src/ml/frozen_test.py).                                       *)
PermissionEndsWithReport ==
  \A t \in Askers : gate[t] <=> At(t, "reporting")

(* What the caches hold and the gate lets through is what was meant to be. *)
SnapshotsAreSound == HalfFilesAreNotBelieved /\ PermissionEndsWithReport

(* Whoever waits for a snapshot is answered, refused or killed: no lock is *)
(* left behind by a computation that failed.                               *)
EveryAskIsAnswered ==
  \A t \in Askers : At(t, "waiting") ~> (ask[t].phase \in {"told", "idle", "starting"})

(* The docstring of get_replay_snapshot: "keyed so a snapshot whose inputs *)
(* have moved is never served".                                            *)
NeverServedOnceMoved ==
  [][\A t \in Askers :
       At(t, "inside") /\ Kind(t) = "replay" /\ ask'[t].phase = "told"
         => inputs \in Mine(t)'.reads]_cacheVars
=============================================================================
