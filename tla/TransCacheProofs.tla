-------------------------- MODULE TransCacheProofs --------------------------
(***************************************************************************)
(* For every array size, hash, set of depths and width of the trial        *)
(* counter: the cache never answers for something its trial did not visit. *)
(***************************************************************************)
EXTENDS TransCache, TLAPS

\* The invariant that is inductive holds initially: every entry is of trial
\* 0, and in trial 0 nothing is claimed about the entries.
LEMMA InitIInv == Init => IInv
<1> SUFFICES ASSUME Init PROVE IInv
  OBVIOUS
<1> USE DEF Init, cache_init, blank
<1>1. TypeOK
  <2>1. blank \in Entries
    BY CacheAssumption DEF Entries, Trials
  <2> QED
    BY <2>1, CacheAssumption DEF TypeOK, Trials
<1>2. EntriesArePast
  BY DEF EntriesArePast
<1>3. EntriesAreVisited
  BY DEF EntriesAreVisited
<1> QED
  BY <1>1, <1>2, <1>3 DEF IInv

\* A miss overwrites one entry, with the map it is about to visit.
LEMMA StoreIInv ==
  ASSUME IInv, NEW key \in Keys, NEW depth \in Depths, VisitNew(key, depth)
  PROVE  IInv'
<1> DEFINE entry == [value |-> key, depth |-> depth, trial |-> global_trial]
<1>1. /\ array' = [array EXCEPT ![Slot(key)] = entry]
      /\ global_trial' = global_trial
      /\ visited' = visited \cup {<<key, depth>>}
  BY DEF VisitNew, cache_check_miss, Store
<1>2. Slot(key) \in Slots /\ Depths \subseteq Nat
  BY CacheAssumption
<1>3. array \in [Slots -> Entries] /\ global_trial \in Trials
  BY DEF IInv, TypeOK
<1>4. entry \in Entries
  BY <1>3 DEF Entries
<1>5. \A s \in Slots : array'[s] = IF s = Slot(key) THEN entry ELSE array[s]
  BY <1>1, <1>2, <1>3
<1>6. TypeOK'
  <2>1. array' \in [Slots -> Entries]
    BY <1>1, <1>3, <1>4
  <2>2. visited' \subseteq Keys \X Depths
    BY <1>1 DEF IInv, TypeOK
  <2> QED
    BY <1>1, <1>3, <2>1, <2>2 DEF TypeOK
<1>7. EntriesArePast'
  <2> SUFFICES ASSUME NEW s \in Slots PROVE array'[s].trial <= global_trial'
    BY DEF EntriesArePast
  <2>1. array[s].trial <= global_trial
    BY DEF IInv, EntriesArePast
  <2>2. global_trial <= global_trial
    BY <1>3 DEF Trials
  <2> QED
    BY <1>1, <1>5, <2>1, <2>2
<1>8. EntriesAreVisited'
  <2> SUFFICES ASSUME global_trial' # 0, NEW s \in Slots,
                      array'[s].trial = global_trial'
               PROVE  <<array'[s].value, array'[s].depth>> \in visited'
    BY DEF EntriesAreVisited
  <2>1. CASE s = Slot(key)
    BY <1>1, <1>5, <2>1
  <2>2. CASE s # Slot(key)
    BY <1>1, <1>5, <2>2 DEF IInv, EntriesAreVisited
  <2> QED
    BY <2>1, <2>2
<1> QED
  BY <1>6, <1>7, <1>8 DEF IInv

\* Advancing the counter leaves every entry in an earlier trial; a wrap
\* leaves them all in trial 0, which is never entered again.
LEMMA InvalidateEmpties ==
  ASSUME IInv, invalidate_cache
  PROVE  \A s \in Slots : array'[s].trial < global_trial'
<1> SUFFICES ASSUME NEW s \in Slots PROVE array'[s].trial < global_trial'
  OBVIOUS
<1>1. array[s] \in Entries /\ global_trial \in Trials
  BY DEF IInv, TypeOK
<1>2. CASE global_trial + 1 < TrialLimit
  <2>1. global_trial' = global_trial + 1 /\ array' = array
    BY <1>2 DEF invalidate_cache
  <2>2. array[s].trial <= global_trial
    BY DEF IInv, EntriesArePast
  <2>3. array[s].trial \in Nat /\ global_trial \in Nat
    BY <1>1, CacheAssumption DEF Entries, Trials
  <2> QED
    BY <2>1, <2>2, <2>3
<1>3. CASE ~ (global_trial + 1 < TrialLimit)
  BY <1>3 DEF invalidate_cache, blank
<1> QED
  BY <1>2, <1>3

LEMMA InvalidateIInv ==
  ASSUME IInv, NewTrial
  PROVE  IInv'
<1>1. invalidate_cache /\ visited' = {}
  BY DEF NewTrial
<1>2. \A s \in Slots : array'[s].trial < global_trial'
  BY <1>1, InvalidateEmpties
<1>3. array \in [Slots -> Entries] /\ global_trial \in Trials
  BY DEF IInv, TypeOK
<1>4. array' \in [Slots -> Entries] /\ global_trial' \in Trials
  <2>1. CASE global_trial + 1 < TrialLimit
    BY <1>1, <1>3, <2>1, CacheAssumption DEF invalidate_cache, Trials
  <2>2. CASE ~ (global_trial + 1 < TrialLimit)
    <3>1. blank \in Entries
      BY CacheAssumption DEF blank, Entries, Trials
    <3> QED
      BY <1>1, <2>2, <3>1, CacheAssumption DEF invalidate_cache, Trials
  <2> QED
    BY <2>1, <2>2
<1>5. \A s \in Slots : array'[s].trial \in Nat /\ global_trial' \in Nat
  BY <1>4, CacheAssumption DEF Entries, Trials
<1>6. TypeOK'
  BY <1>1, <1>4 DEF TypeOK
<1>7. EntriesArePast' /\ EntriesAreVisited'
  BY <1>2, <1>5 DEF EntriesArePast, EntriesAreVisited
<1> QED
  BY <1>6, <1>7 DEF IInv

LEMMA NextIInv == IInv /\ [Next]_vars => IInv'
<1> SUFFICES ASSUME IInv, [Next]_vars PROVE IInv'
  OBVIOUS
<1>1. ASSUME NEW key \in Keys, NEW depth \in Depths, SkipKnown(key, depth)
      PROVE  IInv'
  BY <1>1 DEF SkipKnown, cache_check_hit, cacheVars, IInv, TypeOK,
              EntriesArePast, EntriesAreVisited
<1>2. ASSUME NEW key \in Keys, NEW depth \in Depths, VisitNew(key, depth)
      PROVE  IInv'
  BY <1>2, StoreIInv
<1>3. CASE NewTrial
  BY <1>3, InvalidateIInv
<1>4. CASE UNCHANGED vars
  BY <1>4 DEF vars, IInv, TypeOK, EntriesArePast, EntriesAreVisited
<1> QED
  BY <1>1, <1>2, <1>3, <1>4 DEF Next

\* The inductive invariant holds: types, no entry of a later trial, and
\* after trial 0 nothing in the running trial that was not visited in it.
THEOREM CacheIsJustified == Spec => []IInv
BY InitIInv, NextIInv, PTL DEF Spec

\* The cache's variables keep their types: in particular the trial counter
\* never leaves its width.
THEOREM TypeCorrect == Spec => []TypeOK
<1>1. IInv => TypeOK
  BY DEF IInv
<1> QED
  BY <1>1, InitIInv, NextIInv, PTL DEF Spec

\* What a hit says follows from the invariant.
LEMMA IInvHit == IInv => HitIsVisited
<1> SUFFICES ASSUME IInv, global_trial # 0, NEW key \in Keys,
                    NEW depth \in Depths, Hit(key, depth)
             PROVE  VisitedWithin(key, depth)
  BY DEF HitIsVisited
<1>1. Slot(key) \in Slots
  BY CacheAssumption
<1>2. array[Slot(key)] \in Entries
  BY <1>1 DEF IInv, TypeOK
<1>3. <<key, array[Slot(key)].depth>> \in visited
  BY <1>1 DEF IInv, EntriesAreVisited, Hit
<1>4. array[Slot(key)].depth \in Depths /\ array[Slot(key)].depth <= depth
  BY <1>2 DEF Entries, Hit
<1> QED
  BY <1>3, <1>4 DEF VisitedWithin

\* No hit is ever stale: after trial 0 a map is skipped only when the
\* running trial visited it at the same depth or nearer the root.
THEOREM HitsAreSound == Spec => []HitIsVisited
BY IInvHit, InitIInv, NextIInv, PTL DEF Spec

\* A step of the cache that changes the trial leaves a cache in which
\* nothing hits.
LEMMA StepEmpties ==
  IInv /\ [Next]_vars =>
    (global_trial' # global_trial =>
       \A key \in Keys, depth \in Depths : ~ Hit(key, depth)')
<1> SUFFICES ASSUME IInv, [Next]_vars, global_trial' # global_trial,
                    NEW key \in Keys, NEW depth \in Depths, Hit(key, depth)'
             PROVE  FALSE
  OBVIOUS
<1>1. NewTrial
  BY DEF Next, vars, cacheVars, SkipKnown, VisitNew, cache_check_hit,
         cache_check_miss, Store
<1>2. \A s \in Slots : array'[s].trial < global_trial'
  BY <1>1, InvalidateEmpties DEF NewTrial
<1>3. Slot(key) \in Slots
  BY CacheAssumption
<1>4. array'[Slot(key)].trial = global_trial'
  BY DEF Hit
<1>5. global_trial' \in Nat
  BY <1>1, InvalidateIInv, CacheAssumption DEF IInv, TypeOK, Trials
<1> QED
  BY <1>2, <1>3, <1>4, <1>5

\* Invalidating empties the cache, also across a wrap of the counter.
THEOREM NewTrialsAreEmpty == Spec => NewTrialIsEmpty
<1>1. IInv /\ [Next]_vars =>
        [global_trial' # global_trial =>
           \A key \in Keys, depth \in Depths : ~ Hit(key, depth)']_vars
  BY StepEmpties
<1> QED
  BY <1>1, InitIInv, NextIInv, PTL DEF Spec, NewTrialIsEmpty

=============================================================================
