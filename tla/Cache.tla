------------------------------- MODULE Cache -------------------------------
(***************************************************************************)
(* The transposition table of cache.h: a direct-mapped array whose entries *)
(* carry the trial they were written in.  invalidate_cache starts a new    *)
(* trial instead of clearing the array, except when the trial counter      *)
(* wraps.  TrialLimit is the number of values the counter has (2^32 in the *)
(* program) and Slot(key) the position the CRC of a key selects.           *)
(***************************************************************************)
EXTENDS Integers

CONSTANTS Keys,        \* what is looked up: packed maps
          zero_key,    \* the key whose packed form is 0, as calloc leaves it
          Depths,      \* the depths of the search
          Slots,       \* positions of the array
          Slot(_),     \* the position of a key
          TrialLimit   \* number of values of the trial counter

ASSUME CacheAssumption ==
  /\ zero_key \in Keys
  /\ Depths \subseteq Nat /\ 0 \in Depths
  /\ \A key \in Keys : Slot(key) \in Slots
  /\ TrialLimit \in Nat /\ TrialLimit > 1

VARIABLES array, global_trial

cacheVars == <<array, global_trial>>

Trials == 0 .. TrialLimit - 1
Entries == [value : Keys, depth : Depths, trial : Trials]

blank == [value |-> zero_key, depth |-> 0, trial |-> 0]

\* cache_init on a cache without an array.
cache_init ==
  /\ array = [s \in Slots |-> blank]
  /\ global_trial = 0

\* Mutated form: the remaining depth is not compared.
HitAtAnyDepth(key, depth) ==
  array[Slot(key)].value = key /\ array[Slot(key)].trial = global_trial

\* The test of cache_check: 1 when it holds.
Hit(key, depth) ==
  LET entry == array[Slot(key)]
  IN  /\ entry.value = key
      /\ entry.depth <= depth
      /\ entry.trial = global_trial

\* Otherwise cache_check overwrites the entry, whatever it held.
Store(key, depth) ==
  /\ array' = [array EXCEPT ![Slot(key)] =
                 [value |-> key, depth |-> depth, trial |-> global_trial]]
  /\ UNCHANGED global_trial

\* The two outcomes of cache_check.
cache_check_hit(key, depth) == Hit(key, depth) /\ UNCHANGED cacheVars
cache_check_miss(key, depth) == ~ Hit(key, depth) /\ Store(key, depth)

\* Mutated form: the array is not cleared when the counter wraps.
InvalidateWithoutClear ==
  /\ global_trial' = IF global_trial + 1 < TrialLimit THEN global_trial + 1 ELSE 1
  /\ UNCHANGED array

\* Advancing the counter is enough unless it wraps to 0, the trial of the
\* blank entries: then every entry is cleared and trial 0 is skipped.
invalidate_cache ==
  IF global_trial + 1 < TrialLimit
  THEN global_trial' = global_trial + 1 /\ UNCHANGED array
  ELSE global_trial' = 1 /\ array' = [s \in Slots |-> blank]

=============================================================================
