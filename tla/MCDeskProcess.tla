---------------------------- MODULE MCDeskProcess ----------------------------
(* Model values and bounds for checking the snapshot caches and the streams *)
(* of one desk, its warm-up and the builder beside it.                     *)
EXTENDS StreamDesk

MCWarmList == <<"replay", "field">>
MCRequests == {<<"replay">>}

\* A stream is opened on a cold desk, with neither the warm-up nor the builder
\* at work, and they rest until it is forgotten: what a stream shares with
\* the caches is the pool, whose thread may be computing a snapshot.
NoStreams == \A s \in Streams : stream[s] = NoStream
Cold ==
  /\ At(Builder, "idle") /\ At(Warmer, "idle") /\ inputs + deaths = 0
  /\ memory[Desk]["replay"] = Absent
  /\ \A v \in Versions : disk[v] = Absent /\ tmp[v] = Absent

\* Bound: two askers of a snapshot at work at once.
Room == Cardinality({t \in Askers : ask[t].phase \notin {"idle", "starting"}}) < 2

DeskNext ==
  \/ /\ (Room /\ (WarmUp \/ Build)) \/ Move \/ \E p \in Process : Kill(p)
     /\ NoStreams /\ UNCHANGED stream
  \/ Room /\ (\E t \in Askers : AskInPool(t)) /\ UNCHANGED stream
  \/ (\E t \in Askers : Acquire(t) \/ CacheStep(t)) /\ UNCHANGED stream
  \/ (Cold \/ ~NoStreams) /\ StreamNext /\ UNCHANGED cacheVars

DeskSpec == DeskInit /\ [][DeskNext]_deskVars /\ CacheFairness /\ StreamFairness
=============================================================================
