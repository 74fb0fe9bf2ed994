----------------------------- MODULE TransCache -----------------------------
(***************************************************************************)
(* The cache of cache.h on its own, used the way a search uses it: look a  *)
(* map up, and when the answer is a miss go on to visit it; between two    *)
(* iterations of the search invalidate everything.                         *)
(***************************************************************************)
EXTENDS Cache

VARIABLE visited   \* history: what the current trial was told it would visit

vars == <<array, global_trial, visited>>

Init == cache_init /\ visited = {}

\* The caller skips a map that hits ...
SkipKnown(key, depth) ==
  /\ cache_check_hit(key, depth)
  /\ UNCHANGED visited

\* ... and visits one that misses.
VisitNew(key, depth) ==
  /\ cache_check_miss(key, depth)
  /\ visited' = visited \cup {<<key, depth>>}

NewTrial ==
  /\ invalidate_cache
  /\ visited' = {}

Next ==
  \/ \E key \in Keys, depth \in Depths : SkipKnown(key, depth)
  \/ \E key \in Keys, depth \in Depths : VisitNew(key, depth)
  \/ NewTrial

Spec == Init /\ [][Next]_vars

-----------------------------------------------------------------------------
(* Type invariant. *)
TypeOK ==
  /\ array \in [Slots -> Entries]
  /\ global_trial \in Trials
  /\ visited \subseteq Keys \X Depths

\* The map was visited in this trial at the given depth or nearer the root.
VisitedWithin(key, depth) ==
  \E earlier \in Depths : earlier <= depth /\ <<key, earlier>> \in visited

\* A search may skip a map only when the same iteration has already visited
\* it with at least as many layers left: a hit must never come from an
\* earlier trial, whatever was overwritten and however often the trial
\* counter wrapped.  Trial 0 is left out: cache_init starts in it, where the
\* blank entries of calloc answer for the key 0.
HitIsVisited ==
  global_trial # 0 =>
    \A key \in Keys, depth \in Depths :
       Hit(key, depth) => VisitedWithin(key, depth)

\* Entering a trial empties the cache: right after invalidate_cache nothing
\* hits, also when the counter has just wrapped and the trial it enters was
\* used before.
NewTrialIsEmpty ==
  [][global_trial' # global_trial =>
       \A key \in Keys, depth \in Depths : ~ Hit(key, depth)']_vars

-----------------------------------------------------------------------------
(* The inductive invariant: entries are never of a later trial, and those  *)
(* of the current one are of maps it visited.                              *)
EntriesArePast == \A s \in Slots : array[s].trial <= global_trial

EntriesAreVisited ==
  global_trial # 0 =>
    \A s \in Slots :
       array[s].trial = global_trial =>
          <<array[s].value, array[s].depth>> \in visited

IInv == TypeOK /\ EntriesArePast /\ EntriesAreVisited

=============================================================================
