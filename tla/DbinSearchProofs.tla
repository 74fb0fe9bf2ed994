-------------------------- MODULE DbinSearchProofs --------------------------
(***************************************************************************)
(* The dual binary search, for every table whose layers are what their     *)
(* configs say, all endings, every prune table, hash, cache and width of   *)
(* the trial counter.                                                      *)
(*                                                                         *)
(* No hit is stale: a goal is looked up in the cache only while more than  *)
(* three layers are left, so never in the first iteration of a call, and   *)
(* every later one begins after invalidate_cache.                          *)
(*                                                                         *)
(* Long chains compute their goal: each call has what is left of the goal  *)
(* behind its layer, the calls leave the ending its place in the chain,    *)
(* and what meets the rest meets, with the layers in front, the goal.      *)
(***************************************************************************)
EXTENDS DbinSearch, RedstoneProofs, SequenceTheorems

IsStack(s) == \E S : s \in Seq(S)

\* Entries are never of a trial to come; between two iterations of a call
\* they are all of earlier trials, so that none is still in the running one.
EntriesAreOld ==
  /\ DOMAIN array = Slots
  /\ global_trial \in Nat /\ depth \in Nat
  /\ \A s \in Slots : array[s].trial \in Nat /\ array[s].trial <= global_trial
  /\ pc = "iterate" /\ depth > 0 =>
       \A s \in Slots : array[s].trial < global_trial
  /\ pc = "search" => IsStack(stack) /\ Len(stack) > 0
  /\ pc = "search" /\ depth > 0 => stale = {}

LEMMA InitOld == Init => EntriesAreOld
BY DEF Init, EntriesAreOld, MainCache!cache_init, MainCache!blank

LEMMA OneFrameIsStack ==
  ASSUME NEW e
  PROVE  IsStack(<<e>>) /\ Len(<<e>>) > 0
<1>1. \E S : <<e>> \in Seq(S)
  <2> WITNESS {e}
  <2> QED
    OBVIOUS
<1>2. Len(<<e>>) > 0
  OBVIOUS
<1> QED
  BY <1>1, <1>2 DEF IsStack

LEMMA AppendIsStack ==
  ASSUME NEW s, NEW e, IsStack(s), Len(s) > 0
  PROVE  IsStack(Append(s, e)) /\ Len(Append(s, e)) > 0
<1>1. PICK S : s \in Seq(S)
  BY DEF IsStack
<1>2. Append(s, e) \in Seq(S \cup {e}) /\ Len(Append(s, e)) = Len(s) + 1
  <2>1. s \in Seq(S \cup {e})
    BY <1>1
  <2> QED
    BY <2>1
<1>3. Len(s) \in Nat
  BY <1>1
<1> QED
  BY <1>2, <1>3 DEF IsStack

\* The loop of the call on top goes on.
LEMMA AdvancedIsStack ==
  ASSUME IsStack(stack), Len(stack) > 0
  PROVE  IsStack(Advanced) /\ Len(Advanced) = Len(stack)
<1> DEFINE top == [stack[Len(stack)] EXCEPT !.next = @ + 1]
<1>1. PICK S : stack \in Seq(S)
  BY DEF IsStack
<1>2. Advanced = [stack EXCEPT ![Len(stack)] = top]
  BY DEF Advanced
<1>3. \A t : [stack EXCEPT ![Len(stack)] = t] \in Seq(S \cup {t})
             /\ Len([stack EXCEPT ![Len(stack)] = t]) = Len(stack)
  <2>1. TAKE t
  <2>2. stack \in [1 .. Len(stack) -> S \cup {t}] /\ Len(stack) \in Nat
    BY <1>1
  <2>3. [stack EXCEPT ![Len(stack)] = t] \in [1 .. Len(stack) -> S \cup {t}]
    BY <2>2
  <2> QED
    BY <2>2, <2>3
<1> QED
  BY <1>2, <1>3 DEF IsStack

\* A trial that begins is later than that of every entry.
LEMMA InvalidateMakesOld ==
  ASSUME EntriesAreOld, MainCache!invalidate_cache
  PROVE  /\ DOMAIN array' = Slots /\ global_trial' \in Nat
         /\ \A s \in Slots : /\ array'[s].trial \in Nat
                             /\ array'[s].trial < global_trial'
<1>1. CASE global_trial + 1 < TrialLimit
  BY <1>1 DEF MainCache!invalidate_cache, EntriesAreOld
<1>2. CASE ~ (global_trial + 1 < TrialLimit)
  BY <1>2 DEF MainCache!invalidate_cache, MainCache!blank
<1> QED
  BY <1>1, <1>2

LEMMA NextOld ==
  ASSUME EntriesAreOld, [Next]_vars
  PROVE  EntriesAreOld'
<1> USE DEF EntriesAreOld
<1>1. ASSUME StartIteration PROVE EntriesAreOld'
  <2>1. depth > 0 => stale' = {}
    BY <1>1 DEF StartIteration
  <2>2. IsStack(stack') /\ Len(stack') > 0
    <3>1. stack' = <<Frame(request, 0)>>
      BY <1>1 DEF StartIteration
    <3> QED
      BY <3>1, OneFrameIsStack
  <2>3. /\ pc' = "search" /\ depth' = depth
        /\ UNCHANGED <<array, global_trial>>
    BY <1>1 DEF StartIteration, cacheVars
  <2> QED
    BY <2>1, <2>2, <2>3
<1>2. ASSUME FailIteration PROVE EntriesAreOld'
  BY <1>2, InvalidateMakesOld DEF FailIteration
<1>3. ASSUME Descend PROVE EntriesAreOld'
  <2>1. PICK key, d :
          /\ array' = [array EXCEPT ![Slot(key)] =
                         [value |-> key, depth |-> d, trial |-> global_trial]]
          /\ global_trial' = global_trial
          /\ stale' = stale \ {Slot(key)}
    BY <1>3 DEF Descend, MainCache!cache_check_miss, MainCache!Store
  <2>2. \A s \in Slots : array'[s].trial \in {array[s].trial, global_trial}
    BY <2>1
  <2>3. pc = "search" /\ pc' = pc /\ depth' = depth
    BY <1>3 DEF Descend, HasNext
  <2>4. IsStack(stack') /\ Len(stack') > 0
    <3>1. IsStack(Advanced) /\ Len(Advanced) > 0
      BY <2>3, AdvancedIsStack
    <3> QED
      BY <1>3, <3>1, AppendIsStack DEF Descend
  <2> QED
    BY <2>1, <2>2, <2>3, <2>4
<1>4. ASSUME Refuse \/ SkipKnown PROVE EntriesAreOld'
  <2>1. pc = "search" /\ stack' = Advanced
        /\ UNCHANGED <<pc, depth, array, global_trial, stale>>
    BY <1>4 DEF Refuse, SkipKnown, HasNext, MainCache!cache_check_hit,
                MainCache!cacheVars, cacheVars
  <2> QED
    BY <2>1, AdvancedIsStack
<1>5. ASSUME Return0 PROVE EntriesAreOld'
  <2>1. pc = "search" /\ Len(stack) > 1
        /\ stack' = SubSeq(stack, 1, Len(stack) - 1)
        /\ UNCHANGED <<pc, depth, array, global_trial, stale>>
    BY <1>5 DEF Return0, Fails, cacheVars
  <2>2. PICK S : stack \in Seq(S)
    BY <2>1 DEF IsStack
  <2>3. stack' \in Seq(S) /\ Len(stack') > 0
    BY <2>1, <2>2
  <2> QED
    BY <2>1, <2>3 DEF IsStack
<1>6. ASSUME Start \/ GiveUp \/ FindEnding \/ Crash PROVE EntriesAreOld'
  BY <1>6 DEF Start, GiveUp, FindEnding, Crash, cacheVars
<1>7. ASSUME NEW r \in Repeated, NewRequest(r) PROVE EntriesAreOld'
  BY <1>7 DEF NewRequest, cacheVars
<1>8. CASE UNCHANGED vars
  BY <1>8 DEF vars, cacheVars
<1> QED
  BY <1>1, <1>2, <1>3, <1>4, <1>5, <1>6, <1>7, <1>8 DEF Next, SolveStep

LEMMA OldIsNotStale == EntriesAreOld => NoStaleHit
<1> SUFFICES ASSUME EntriesAreOld, HasNext PROVE stale = {}
  BY DEF NoStaleHit
<1>1. pc = "search" /\ ~ (depth - (Len(stack) - 1) < 3)
  BY DEF HasNext, LooksUp, remaining_depth
<1>2. Len(stack) \in Nat /\ Len(stack) > 0
  BY <1>1 DEF EntriesAreOld, IsStack
<1> QED
  BY <1>1, <1>2 DEF EntriesAreOld

\* A goal is skipped only because this iteration went on from it, over all
\* iterations of a call and all calls of a search through random goals.
THEOREM HitsAreFresh == Spec => []NoStaleHit
BY InitOld, NextOld, OldIsNotStale, PTL DEF Spec

-----------------------------------------------------------------------------
(* Dual binary maps and goals.                                             *)

\* A hex map sends the cells of a half into the same half.
LEMMA ThroughType ==
  ASSUME NEW map \in Maps, NEW c \in Cells
  PROVE  Through(map, c) \in Cells
<1>1. N \in Nat \ {0}
  BY NAssumption
<1>2. \E half \in {0, 1}, v \in 0 .. N - 1 : c = half * N + v
  <2>1. CASE c < N
    <3>1. c \in 0 .. N - 1 /\ c = 0 * N + c
      BY <1>1, <2>1 DEF Cells
    <3> QED
      BY <3>1
  <2>2. CASE ~ c < N
    <3>1. c - N \in 0 .. N - 1 /\ c = 1 * N + (c - N)
      BY <1>1, <2>2 DEF Cells
    <3> QED
      BY <3>1
  <2> QED
    BY <2>1, <2>2
<1>3. PICK half \in {0, 1}, v \in 0 .. N - 1 : c = half * N + v
  BY <1>2
<1>4. c \div N = half /\ c % N = v
  BY <1>1, <1>3, Division
<1>5. map[v] \in 0 .. N - 1
  BY DEF Maps, Values
<1> QED
  BY <1>1, <1>4, <1>5 DEF Through, Cells

LEMMA UnprependType ==
  ASSUME NEW map \in Maps, NEW goal \in DbinGoals
  PROVE  unprepend(map, goal) \in DbinGoals
<1>1. goal.zeros \subseteq Cells /\ goal.ones \subseteq Cells
  BY DEF DbinGoals, DbinMaps
<1> QED
  BY <1>1, ThroughType DEF unprepend, DbinGoals, DbinMaps

\* What meets the rest of a goal behind a layer, with the layer in front of it
\* meets the goal.
LEMMA PrependMeets ==
  ASSUME NEW map \in Maps, NEW goal \in DbinGoals, NEW cells,
         Meets(cells, unprepend(map, goal))
  PROVE  Meets(prepend(map, cells), goal)
<1>1. goal.zeros \subseteq Cells /\ goal.ones \subseteq Cells
  BY DEF DbinGoals, DbinMaps
<1>2. /\ \A c \in goal.ones : Through(map, c) \in cells
      /\ \A c \in goal.zeros : Through(map, c) \notin cells
  BY DEF Meets, unprepend
<1> QED
  BY <1>1, <1>2 DEF Meets, prepend

-----------------------------------------------------------------------------
(* The look-up.                                                            *)

\* Whatever the C library's search is given, it ends, and the position it
\* finds is one at which the comparison is 0.
LEMMA SearchFinds ==
  ASSUME NEW goal, NEW endings, Len(endings) \in Nat
  PROVE  /\ bsearch(goal, endings) \in 0 .. Len(endings)
         /\ bsearch(goal, endings) # 0 =>
              cmp_dbin_remainder(goal, endings[bsearch(goal, endings)]) = 0
<1> DEFINE n == Len(endings)
           Ranges == [low : 0 .. n, high : 0 .. n]
           middle(r) == (r.low + r.high) \div 2
           sign(r) == cmp_dbin_remainder(goal, endings[middle(r) + 1])
           lower(r) == [r EXCEPT !.high = middle(r)]
           upper(r) == [r EXCEPT !.low = middle(r) + 1]
           Look(g) == [r \in Ranges |->
                         IF r.low >= r.high THEN 0
                         ELSE IF sign(r) < 0 THEN g[lower(r)]
                         ELSE IF sign(r) > 0 THEN g[upper(r)]
                         ELSE middle(r) + 1]
<1>1. bsearch(goal, endings) = (CHOOSE g : g = Look(g))[[low |-> 0, high |-> n]]
  BY DEF bsearch
<1>2. ASSUME NEW r \in Ranges, ~ r.low >= r.high
      PROVE  /\ middle(r) \in 0 .. n - 1
             /\ lower(r) \in Ranges /\ upper(r) \in Ranges
             /\ lower(r).high - lower(r).low < r.high - r.low
             /\ upper(r).high - upper(r).low < r.high - r.low
             /\ r.high - r.low \in 1 .. n
  <2>1. r.low \in 0 .. n /\ r.high \in 0 .. n /\ n \in Nat
    OBVIOUS
  <2> HIDE DEF n
  <2>2. middle(r) >= r.low /\ middle(r) < r.high /\ middle(r) \in Nat
    BY <1>2, <2>1
  <2>3. /\ lower(r).low = r.low /\ lower(r).high = middle(r)
        /\ upper(r).low = middle(r) + 1 /\ upper(r).high = r.high
    OBVIOUS
  <2>4. middle(r) \in 0 .. n /\ middle(r) + 1 \in 0 .. n /\ middle(r) \in 0 .. n - 1
    BY <2>1, <2>2
  <2>5. lower(r) \in Ranges /\ upper(r) \in Ranges
    BY <2>4
  <2> HIDE DEF middle, lower, upper
  <2> QED
    BY <1>2, <2>1, <2>2, <2>3, <2>4, <2>5
<1>3. \A r \in Ranges : sign(r) \in {-1, 0, 1}
  BY DEF cmp_dbin_remainder
<1>4. \A g : \A r \in Ranges :
        Look(g)[r] = IF r.low >= r.high THEN 0
                     ELSE IF sign(r) < 0 THEN g[lower(r)]
                     ELSE IF sign(r) > 0 THEN g[upper(r)]
                     ELSE middle(r) + 1
  OBVIOUS
<1>5. \A g : Look(g) = [r \in Ranges |-> Look(g)[r]]
  OBVIOUS
<1>6. \A r \in Ranges : sign(r) = 0 =>
        cmp_dbin_remainder(goal, endings[middle(r) + 1]) = 0
  OBVIOUS
<1>7. n \in Nat /\ [low |-> 0, high |-> n] \in Ranges
  OBVIOUS
<1>8. \A r \in Ranges : r.low \in 0 .. n /\ r.high \in 0 .. n
  OBVIOUS
<1> HIDE DEF Look, sign, lower, upper, middle, Ranges, n
<1> DEFINE S == [Ranges -> Nat]
           base == [r \in Ranges |-> 0]
           step == [i \in 1 .. n + 2 |-> [g \in S |-> Look(g)]]
<1>9. PICK f : Follows(f, base, step, n + 2, S)
  <2>1. StaysIn(step, n + 2, S)
    <3>1. ASSUME NEW g \in S PROVE Look(g) \in S
      <4>1. ASSUME NEW r \in Ranges PROVE Look(g)[r] \in Nat
        BY <1>2, <1>4, <1>7
      <4> QED
        BY <1>5, <4>1
    <3>2. \A i \in 1 .. n + 2 : \A g \in S : step[i][g] = Look(g)
      OBVIOUS
    <3> HIDE DEF step, S
    <3> QED
      BY <3>1, <3>2 DEF StaysIn
  <2>2. base \in S
    OBVIOUS
  <2> HIDE DEF S, base, step
  <2> QED
    BY <1>7, <2>1, <2>2, StepsExist
<1>10. \A k \in 1 .. n + 2 : f[k] = Look(f[k - 1])
  <2>1. f \in [0 .. n + 2 -> S] /\ \A k \in 1 .. n + 2 : f[k] = step[k][f[k - 1]]
    BY <1>9 DEF Follows
  <2>2. \A k \in 1 .. n + 2 : \A g \in S : step[k][g] = Look(g)
    OBVIOUS
  <2>3. \A k \in 1 .. n + 2 : f[k - 1] \in S
    BY <1>7, <2>1
  <2> HIDE DEF S, step
  <2> QED
    BY <2>1, <2>2, <2>3
<1>11. f[0] = base /\ f[n + 1] \in S
  BY <1>7, <1>9 DEF Follows
<1> DEFINE size(r) == r.high - r.low
           Settled == {k \in 0 .. n + 1 :
                         \A r \in Ranges : size(r) < k => f[k][r] = f[k + 1][r]}
<1>12. 0 \in Settled
  <2>1. ASSUME NEW r \in Ranges, size(r) < 0 PROVE f[0][r] = f[1][r]
    <3>1. r.low >= r.high
      BY <1>7, <1>8, <2>1
    <3>2. f[1] = Look(f[0])
      BY <1>7, <1>10
    <3> QED
      BY <1>4, <1>11, <3>1, <3>2
  <2> QED
    BY <1>7, <2>1
<1>13. ASSUME NEW k \in 1 .. n + 1, k - 1 \in Settled
       PROVE  k \in Settled
  <2>1. ASSUME NEW r \in Ranges, size(r) < k PROVE f[k][r] = f[k + 1][r]
    <3>1. f[k] = Look(f[k - 1]) /\ f[k + 1] = Look(f[k])
      BY <1>7, <1>10
    <3>2. CASE r.low >= r.high
      BY <1>4, <3>1, <3>2
    <3>3. CASE ~ r.low >= r.high
      <4>1. /\ lower(r) \in Ranges /\ size(lower(r)) < k - 1
            /\ upper(r) \in Ranges /\ size(upper(r)) < k - 1
        BY <1>2, <1>7, <1>8, <2>1, <3>3
      <4>2. f[k - 1][lower(r)] = f[k][lower(r)] /\ f[k - 1][upper(r)] = f[k][upper(r)]
        BY <1>7, <1>13, <4>1
      <4> QED
        BY <1>4, <3>1, <3>3, <4>2
    <3> QED
      BY <3>2, <3>3
  <2> QED
    BY <1>7, <2>1
<1>14. f[n + 1] = Look(f[n + 1])
  <2>1. 0 .. n + 1 \subseteq Settled
    <3> DEFINE top == n + 1
    <3> HIDE DEF Settled
    <3>1. top \in Nat /\ 0 \in Settled /\ \A k \in 1 .. top : k - 1 \in Settled => k \in Settled
      BY <1>7, <1>12, <1>13
    <3> HIDE DEF top
    <3>2. 0 .. top \subseteq Settled
      BY <3>1, InductionTo
    <3> QED
      BY <3>2 DEF top
  <2>2. ASSUME NEW r \in Ranges PROVE f[n + 1][r] = f[n + 2][r]
    <3>1. size(r) < n + 1 /\ n + 1 \in Settled
      BY <1>7, <1>8, <2>1
    <3> QED
      BY <1>7, <3>1
  <2>3. f[n + 2] = Look(f[n + 1])
    BY <1>7, <1>10
  <2>4. f[n + 1] = [r \in Ranges |-> f[n + 1][r]]
    BY <1>11
  <2> QED
    BY <1>5, <2>2, <2>3, <2>4
<1>15. PICK g : g = Look(g) /\ bsearch(goal, endings) = g[[low |-> 0, high |-> n]]
  <2>1. (CHOOSE g : g = Look(g)) = Look(CHOOSE g : g = Look(g))
    BY <1>14
  <2> QED
    BY <1>1, <2>1
<1> DEFINE Good == {k \in 0 .. n + 1 : \A r \in Ranges : size(r) < k =>
             /\ g[r] \in 0 .. n
             /\ g[r] # 0 => cmp_dbin_remainder(goal, endings[g[r]]) = 0}
<1>16. ASSUME NEW r \in Ranges
       PROVE  g[r] = IF r.low >= r.high THEN 0
                     ELSE IF sign(r) < 0 THEN g[lower(r)]
                     ELSE IF sign(r) > 0 THEN g[upper(r)]
                     ELSE middle(r) + 1
  <2>1. g[r] = Look(g)[r]
    BY <1>15
  <2> QED
    BY <1>4, <2>1
<1>17. 0 \in Good
  <2>1. ASSUME NEW r \in Ranges, size(r) < 0 PROVE g[r] = 0
    BY <1>7, <1>8, <1>16, <2>1
  <2> QED
    BY <1>7, <2>1
<1>18. ASSUME NEW k \in 1 .. n + 1, k - 1 \in Good
       PROVE  k \in Good
  <2>1. ASSUME NEW r \in Ranges, size(r) < k
        PROVE  /\ g[r] \in 0 .. n
               /\ g[r] # 0 => cmp_dbin_remainder(goal, endings[g[r]]) = 0
    <3>1. CASE r.low >= r.high
      BY <1>7, <1>16, <3>1
    <3>2. CASE ~ r.low >= r.high
      <4>1. /\ lower(r) \in Ranges /\ size(lower(r)) < k - 1
            /\ upper(r) \in Ranges /\ size(upper(r)) < k - 1
        BY <1>2, <1>7, <1>8, <2>1, <3>2
      <4>2. CASE sign(r) < 0
        BY <1>16, <1>18, <3>2, <4>1, <4>2
      <4>3. CASE sign(r) > 0
        BY <1>3, <1>16, <1>18, <3>2, <4>1, <4>3
      <4>4. CASE sign(r) = 0
        <5>1. g[r] = middle(r) + 1 /\ middle(r) \in 0 .. n - 1
          BY <1>2, <1>16, <3>2, <4>4
        <5> QED
          BY <1>6, <1>7, <4>4, <5>1
      <4> QED
        BY <1>3, <4>2, <4>3, <4>4
    <3> QED
      BY <3>1, <3>2
  <2> QED
    BY <1>7, <2>1
<1>19. n + 1 \in Good
  <2>1. 0 .. n + 1 \subseteq Good
    <3> DEFINE top == n + 1
    <3> HIDE DEF Good
    <3>1. top \in Nat /\ 0 \in Good /\ \A k \in 1 .. top : k - 1 \in Good => k \in Good
      BY <1>7, <1>17, <1>18
    <3> HIDE DEF top
    <3>2. 0 .. top \subseteq Good
      BY <3>1, InductionTo
    <3> QED
      BY <3>2 DEF top
  <2> QED
    BY <1>7, <2>1
<1>20. size([low |-> 0, high |-> n]) < n + 1
  BY <1>7
<1> QED
  BY <1>7, <1>15, <1>19, <1>20 DEF n

-----------------------------------------------------------------------------
(* What a search for a goal begins with.                                   *)

LEMMA RequestFacts ==
  ASSUME request \in Requests
  PROVE  /\ request \in DbinGoals /\ max_depth \in 1 .. 64
         /\ 0 \in DOMAIN Layers
         /\ \A i \in DOMAIN Layers :
              /\ Layers[i].config \in Configs /\ Layers[i].map \in Maps
              /\ Layers[i].map = LayerMap(Layers[i].config)
              /\ RowOf(Table[Group], i) \in Seq(DOMAIN Layers)
         /\ EndingsOf[Group] \in Seq(EndingRecords)
         /\ \A k \in 1 .. Len(EndingsOf[Group]) : IsEnding(EndingsOf[Group][k])
<1>1. request \in DbinGoals /\ max_depth \in 1 .. 64
  BY DbinAssumption DEF IsRequest, max_depth
<1>2. /\ IsTable(Table[Group]) /\ EndingsOf[Group] \in Seq(EndingRecords)
      /\ \A k \in DOMAIN EndingsOf[Group] : IsEnding(EndingsOf[Group][k])
  BY TablesAssumption DEF Group
<1>3. ASSUME NEW i \in DOMAIN Layers
      PROVE  RowOf(Table[Group], i) \in Seq(DOMAIN Layers)
  <2> DEFINE row == Table[Group].next_layer_array
             first == Layers[i].next_layers + 1
             last == Layers[i].next_layers + Layers[i].next_layer_count
  <2>1. /\ row \in Seq(DOMAIN Layers) /\ Len(row) \in Nat
        /\ first \in Nat /\ first >= 1 /\ last \in Nat /\ last <= Len(row)
    BY <1>2 DEF IsTable, IsLayer, IsRow, Layers
  <2>2. RowOf(Table[Group], i) = SubSeq(row, first, last)
    BY DEF RowOf, Layers
  <2> HIDE DEF row, first, last
  <2> QED
    BY <2>1, <2>2
<1> QED
  BY <1>1, <1>2, <1>3, LayerMapType DEF IsTable, IsLayer, Layers

LEMMA StackFacts ==
  ASSUME DbinInv, pc = "search"
  PROVE  /\ request \in Requests
         /\ stack \in Seq(Frames) /\ Len(stack) \in Nat /\ Len(stack) >= 1
         /\ Top \in Frames /\ Top = stack[Len(stack)]
         /\ depth \in Nat /\ depth < max_depth /\ max_depth \in 1 .. 64
         /\ Len(stack) = 1 \/ Len(stack) < depth
         /\ Frames \subseteq [remaining : DbinGoals, layer : DOMAIN Layers, next : Nat]
<1>1. /\ request \in Requests /\ stack \in Seq(Frames) /\ depth \in 0 .. max_depth
  BY DEF DbinInv, TypeOK
<1>2. max_depth \in 1 .. 64
  BY <1>1, RequestFacts
<1>3. /\ Len(stack) > 0 /\ depth < max_depth
      /\ Len(stack) > 1 => Len(stack) < depth
  BY DEF DbinInv, StackIsBounded
<1>4. Len(stack) \in Nat /\ Top \in Frames /\ Top = stack[Len(stack)]
  BY <1>1, <1>3 DEF Top
<1>5. Frames \subseteq [remaining : DbinGoals, layer : DOMAIN Layers, next : Nat]
  BY DEF Frames
<1>6. Len(stack) >= 1 /\ (Len(stack) = 1 \/ Len(stack) < depth)
  <2> DEFINE height == Len(stack)
  <2>1. height \in Nat /\ height > 0 /\ (height > 1 => height < depth)
    BY <1>3, <1>4
  <2> HIDE DEF height
  <2>2. height >= 1 /\ (height = 1 \/ height < depth)
    BY <2>1
  <2> QED
    BY <2>2 DEF height
<1>7. depth \in Nat
  BY <1>1, <1>2
<1> QED
  BY <1>1, <1>2, <1>3, <1>4, <1>5, <1>6, <1>7

\* Between two steps of a call request and table stay.
LEMMA CallStays ==
  ASSUME UNCHANGED request
  PROVE  /\ max_depth' = max_depth /\ Group' = Group /\ Layers' = Layers
         /\ Frames' = Frames
BY DEF max_depth, Group, Layers, Frames

\* What does not concern the cache and the calls.
LEMMA SearchGoesOn ==
  ASSUME DbinInv, pc = "search", pc' = "search",
         UNCHANGED <<request, depth, chain, result, pregened_prune_table>>,
         stack' \in Seq(Frames), Len(stack') > 0, Len(stack') > 1 => Len(stack') < depth,
         array' \in [Slots -> MainCache!Entries], UNCHANGED global_trial,
         stale' \subseteq Slots, StackIsPath'
  PROVE  DbinInv'
<1>1. max_depth' = max_depth /\ Frames' = Frames
  BY CallStays
<1>2. TypeOK'
  BY <1>1 DEF DbinInv, TypeOK
<1>3. StackIsBounded' /\ ChainIsNew'
  BY <1>1 DEF DbinInv, StackIsBounded, ChainIsNew
<1>4. LongChainsCompute'
  BY DEF LongChainsCompute, Answered
<1> QED
  BY <1>2, <1>3, <1>4 DEF DbinInv

\* The loop of the call on top goes on.
LEMMA AdvancedFacts ==
  ASSUME DbinInv, pc = "search"
  PROVE  /\ Advanced \in Seq(Frames) /\ Len(Advanced) = Len(stack)
         /\ \A k \in 1 .. Len(stack) : /\ Advanced[k].remaining = stack[k].remaining
                                       /\ Advanced[k].layer = stack[k].layer
<1> DEFINE frame == [Top EXCEPT !.next = Top.next + 1]
<1>1. /\ stack \in Seq(Frames) /\ Len(stack) \in Nat /\ Len(stack) >= 1
      /\ Top \in Frames /\ Top = stack[Len(stack)]
  BY StackFacts
<1>2. /\ frame \in Frames /\ frame.remaining = Top.remaining /\ frame.layer = Top.layer
  BY <1>1 DEF Frames
<1>3. Advanced = [stack EXCEPT ![Len(stack)] = frame]
  BY DEF Advanced, Top
<1> HIDE DEF frame
<1>4. Advanced \in Seq(Frames) /\ Len(Advanced) = Len(stack)
  BY <1>1, <1>2, <1>3
<1>5. \A k \in 1 .. Len(stack) :
        Advanced[k] = IF k = Len(stack) THEN frame ELSE stack[k]
  BY <1>1, <1>3
<1> QED
  BY <1>1, <1>2, <1>4, <1>5

LEMMA SkipStep ==
  ASSUME DbinInv, Refuse \/ SkipKnown
  PROVE  DbinInv'
<1>1. /\ pc = "search" /\ pc' = "search" /\ stack' = Advanced
      /\ UNCHANGED <<request, depth, chain, result, pregened_prune_table, array,
                     global_trial, stale>>
  BY DEF Refuse, SkipKnown, HasNext, MainCache!cache_check_hit, MainCache!cacheVars,
         cacheVars
<1>2. /\ stack \in Seq(Frames) /\ Len(stack) \in Nat /\ Len(stack) >= 1
      /\ Advanced \in Seq(Frames) /\ Len(Advanced) = Len(stack)
      /\ \A k \in 1 .. Len(stack) : /\ Advanced[k].remaining = stack[k].remaining
                                    /\ Advanced[k].layer = stack[k].layer
  BY <1>1, StackFacts, AdvancedFacts
<1>3. StackIsPath'
  <2>1. Layers' = Layers
    BY <1>1, CallStays
  <2>2. 1 \in 1 .. Len(stack)
        /\ \A k \in 1 .. Len(stack) - 1 : k \in 1 .. Len(stack) /\ k + 1 \in 1 .. Len(stack)
    BY <1>2
  <2> QED
    BY <1>1, <1>2, <2>1, <2>2 DEF DbinInv, StackIsPath
<1>4. Len(stack') > 1 => Len(stack') < depth
  BY <1>1, <1>2 DEF DbinInv, StackIsBounded
<1>5. array \in [Slots -> MainCache!Entries] /\ stale \subseteq Slots
  BY DEF DbinInv, TypeOK
<1> QED
  BY <1>1, <1>2, <1>3, <1>4, <1>5, SearchGoesOn

LEMMA Return0Step ==
  ASSUME DbinInv, Return0
  PROVE  DbinInv'
<1>1. /\ pc = "search" /\ pc' = "search" /\ Len(stack) > 1
      /\ stack' = SubSeq(stack, 1, Len(stack) - 1)
      /\ UNCHANGED <<request, depth, chain, result, pregened_prune_table, array,
                     global_trial, stale>>
  BY DEF Return0, Fails, cacheVars
<1>2. /\ stack \in Seq(Frames) /\ Len(stack) \in Nat /\ depth \in Nat
      /\ Len(stack) = 1 \/ Len(stack) < depth
  BY <1>1, StackFacts
<1>3. /\ stack' \in Seq(Frames) /\ Len(stack') = Len(stack) - 1
      /\ \A k \in 1 .. Len(stack') : stack'[k] = stack[k]
  BY <1>1, <1>2
<1>4. StackIsPath'
  <2>1. Layers' = Layers
    BY <1>1, CallStays
  <2> QED
    BY <1>1, <1>2, <1>3, <2>1 DEF DbinInv, StackIsPath
<1>5. Len(stack') > 0 /\ (Len(stack') > 1 => Len(stack') < depth)
  BY <1>1, <1>2, <1>3
<1>6. array \in [Slots -> MainCache!Entries] /\ stale \subseteq Slots
  BY DEF DbinInv, TypeOK
<1> QED
  BY <1>1, <1>3, <1>4, <1>5, <1>6, SearchGoesOn

\* dfs calls itself only while three layers or more are left.
LEMMA DescendStep ==
  ASSUME DbinInv, Descend
  PROVE  DbinInv'
<1> DEFINE i == Row[Top.next]
           frame == Frame(NextRemaining, i)
<1>1. /\ pc = "search" /\ pc' = "search" /\ ~ LooksUp /\ Top.next <= Len(Row)
      /\ stack' = Append(Advanced, frame)
      /\ MainCache!cache_check_miss(NextRemaining, 99 - remaining_depth)
      /\ stale' = stale \ {Slot(NextRemaining)}
      /\ UNCHANGED <<request, depth, chain, result, pregened_prune_table>>
  BY DEF Descend, HasNext
<1>2. /\ request \in Requests /\ stack \in Seq(Frames)
      /\ Len(stack) \in Nat /\ Len(stack) >= 1
      /\ Top \in Frames /\ Top = stack[Len(stack)]
      /\ depth \in Nat /\ depth < 64
  <2>1. depth \in Nat /\ depth < max_depth /\ max_depth \in 1 .. 64
    BY <1>1, StackFacts
  <2>2. depth < 64
    BY <2>1
  <2> QED
    BY <1>1, <2>1, <2>2, StackFacts
<1>3. i \in DOMAIN Layers
  <2>1. Row \in Seq(DOMAIN Layers) /\ Top.next \in Nat \ {0}
    BY <1>2, RequestFacts DEF Row, Frames
  <2> QED
    BY <1>1, <2>1
<1>4. NextRemaining = unprepend(Layers[i].map, Top.remaining)
  BY DEF NextRemaining, NextLayer
<1>5. NextRemaining \in DbinGoals
  BY <1>2, <1>3, <1>4, RequestFacts, UnprependType DEF Frames
<1>6. /\ frame \in Frames /\ frame.remaining = NextRemaining /\ frame.layer = i
  BY <1>3, <1>5 DEF Frame, Frames
<1>7. Len(stack) < depth - 1
  BY <1>1, <1>2 DEF LooksUp, remaining_depth
<1>8. /\ Advanced \in Seq(Frames) /\ Len(Advanced) = Len(stack)
      /\ \A k \in 1 .. Len(stack) : /\ Advanced[k].remaining = stack[k].remaining
                                    /\ Advanced[k].layer = stack[k].layer
  BY <1>1, AdvancedFacts
<1> HIDE DEF frame, i
<1>9. /\ stack' \in Seq(Frames) /\ Len(stack') = Len(stack) + 1
      /\ stack'[Len(stack) + 1] = frame
      /\ \A k \in 1 .. Len(stack) : stack'[k] = Advanced[k]
  <2>1. /\ Append(Advanced, frame) \in Seq(Frames)
        /\ Len(Append(Advanced, frame)) = Len(Advanced) + 1
        /\ \A k \in 1 .. Len(Advanced) : Append(Advanced, frame)[k] = Advanced[k]
        /\ Append(Advanced, frame)[Len(Advanced) + 1] = frame
    BY <1>6, <1>8, AppendProperties
  <2> QED
    BY <1>1, <1>8, <2>1
<1>10. StackIsPath'
  <2>1. Layers' = Layers /\ request' = request
    BY <1>1, CallStays
  <2>2. stack'[1].remaining = request
    BY <1>1, <1>2, <1>8, <1>9 DEF DbinInv, StackIsPath
  <2>3. ASSUME NEW k \in 1 .. Len(stack)
        PROVE  stack'[k + 1].remaining =
                 unprepend(Layers[stack'[k + 1].layer].map, stack'[k].remaining)
    <3>1. CASE k = Len(stack)
      BY <1>2, <1>4, <1>6, <1>8, <1>9, <3>1
    <3>2. CASE k # Len(stack)
      <4>1. k \in 1 .. Len(stack) - 1 /\ k + 1 \in 1 .. Len(stack)
        BY <1>2, <3>2
      <4>2. /\ stack'[k].remaining = stack[k].remaining
            /\ stack'[k + 1].remaining = stack[k + 1].remaining
            /\ stack'[k + 1].layer = stack[k + 1].layer
        BY <1>8, <1>9, <4>1
      <4> QED
        BY <1>2, <4>1, <4>2 DEF DbinInv, StackIsPath
    <3> QED
      BY <3>1, <3>2
  <2> QED
    BY <1>2, <1>9, <2>1, <2>2, <2>3 DEF StackIsPath
<1>11. array' \in [Slots -> MainCache!Entries] /\ UNCHANGED global_trial
  <2>1. 99 - remaining_depth \in 0 .. 99
    <3> DEFINE height == Len(stack)
    <3>1. height \in Nat /\ height >= 1 /\ height < depth - 1
      BY <1>2, <1>7
    <3>2. remaining_depth = depth - (height - 1)
      BY DEF remaining_depth
    <3> HIDE DEF height
    <3> QED
      BY <1>2, <3>1, <3>2
  <2>2. [value |-> NextRemaining, depth |-> 99 - remaining_depth, trial |-> global_trial]
          \in MainCache!Entries
    BY <1>5, <2>1 DEF MainCache!Entries, DbinInv, TypeOK
  <2> QED
    BY <1>1, <2>2 DEF MainCache!cache_check_miss, MainCache!Store, DbinInv, TypeOK
<1>12. stale' \subseteq Slots
  BY <1>1 DEF DbinInv, TypeOK
<1>13. Len(stack') > 0 /\ Len(stack') < depth
  BY <1>2, <1>7, <1>9
<1> QED
  BY <1>1, <1>9, <1>10, <1>11, <1>12, <1>13, SearchGoesOn

-----------------------------------------------------------------------------
(* What an answer computes.                                                *)

\* The cells of a chain, from its ending to its first layer.
LEMMA ChainSteps ==
  ASSUME NEW c, NEW n \in Nat \ {0}
  PROVE  \E g : /\ ChainCells(c, n) = g[n - 1]
                /\ g[0] = DbinMap(c[n - 1])
                /\ \A k \in 1 .. n - 1 :
                     g[k] = prepend(LayerMap(c[n - 1 - k]), g[k - 1])
<1> DEFINE top == n - 1
           base == DbinMap(c[n - 1])
           In(k, cells) == prepend(LayerMap(c[n - 1 - k]), cells)
           Behind(b) == [k \in 0 .. top |-> IF k = 0 THEN base ELSE In(k, b[k - 1])]
           step == [k \in 1 .. top |-> [cells \in DbinMaps |-> In(k, cells)]]
<1>1. ChainCells(c, n) = (CHOOSE b : b = Behind(b))[top]
  BY DEF ChainCells
<1>2. top \in Nat
  OBVIOUS
<1>3. base \in DbinMaps
  BY DEF DbinMap, DbinMaps
<1>4. \A k, cells : In(k, cells) \in DbinMaps
  BY DEF prepend, DbinMaps
<1>5. \A k \in 1 .. top : \A cells \in DbinMaps : step[k][cells] = In(k, cells)
  OBVIOUS
<1>6. /\ \A b : Behind(b)[0] = base
      /\ \A b : \A k \in 1 .. top : Behind(b)[k] = In(k, b[k - 1])
  BY <1>2
<1>7. \A f \in [0 .. top -> DbinMaps] :
        f[0] = base /\ (\A k \in 1 .. top : f[k] = In(k, f[k - 1])) => f = Behind(f)
  <2> HIDE DEF top, base, In
  <2>1. ASSUME NEW f \in [0 .. top -> DbinMaps], f[0] = base,
               \A k \in 1 .. top : f[k] = In(k, f[k - 1]), NEW k \in 0 .. top
        PROVE  f[k] = Behind(f)[k]
    BY <1>2, <2>1
  <2> QED
    BY <2>1
<1> HIDE DEF top, base, In, Behind, step
<1>8. PICK f : Follows(f, base, step, top, DbinMaps)
  <2>1. StaysIn(step, top, DbinMaps)
    BY <1>4, <1>5 DEF StaysIn
  <2> QED
    BY <1>2, <1>3, <2>1, StepsExist
<1>9. f = Behind(f)
  <2>1. f \in [0 .. top -> DbinMaps] /\ f[0] = base
    BY <1>8 DEF Follows
  <2>2. ASSUME NEW k \in 1 .. top PROVE f[k] = In(k, f[k - 1])
    <3>1. f[k - 1] \in DbinMaps /\ f[k] = step[k][f[k - 1]]
      BY <1>2, <1>8 DEF Follows
    <3> QED
      BY <1>5, <3>1
  <2> QED
    BY <1>7, <2>1, <2>2
<1>10. PICK g : g = Behind(g) /\ ChainCells(c, n) = g[top]
  BY <1>1, <1>9
<1>11. g[0] = base /\ \A k \in 1 .. top : g[k] = In(k, g[k - 1])
  BY <1>6, <1>10
<1> QED
  BY <1>10, <1>11 DEF top, base, In

\* An ending that compares equal is right in every cell asked for.
LEMMA FoundMeets ==
  ASSUME NEW goal, NEW ending, cmp_dbin_remainder(goal, ending) = 0
  PROVE  Meets(ending.map, goal)
<1> DEFINE wrong == (goal.ones \ ending.map) \cup (goal.zeros \cap ending.map)
<1>1. wrong = {}
  BY DEF cmp_dbin_remainder
<1> QED
  BY <1>1 DEF Meets

\* A look-up with layers in front is made with the ending's place free.
LEMMA LookUpFacts ==
  ASSUME DbinInv, FindEnding
  PROVE  \E e \in EndingRecords :
           /\ IsEnding(e) /\ Meets(e.map, Top.remaining)
           /\ chain' = WithPath(WithEnding(e))
<1> DEFINE endings == EndingsOf[Group]
           e == endings[Found]
<1>1. /\ pc = "search" /\ Found # 0 /\ chain' = WithPath(WithEnding(e))
  BY DEF FindEnding
<1>2. request \in Requests
  BY <1>1, StackFacts
<1>3. endings \in Seq(EndingRecords) /\ \A k \in 1 .. Len(endings) : IsEnding(endings[k])
  BY <1>2, RequestFacts
<1>4. Len(endings) \in Nat
  BY <1>3
<1>5. /\ Found \in 0 .. Len(endings)
      /\ Found # 0 => cmp_dbin_remainder(Top.remaining, e) = 0
  <2> HIDE DEF endings
  <2>1. /\ bsearch(Top.remaining, endings) \in 0 .. Len(endings)
        /\ bsearch(Top.remaining, endings) # 0 =>
             cmp_dbin_remainder(Top.remaining, endings[bsearch(Top.remaining, endings)]) = 0
    BY <1>4, SearchFinds
  <2>2. Found = bsearch(Top.remaining, endings)
    BY DEF Found, endings
  <2> QED
    BY <2>1, <2>2
<1>6. Found \in 1 .. Len(endings)
  BY <1>1, <1>4, <1>5
<1>7. e \in EndingRecords /\ IsEnding(e)
  BY <1>3, <1>6
<1>8. Meets(e.map, Top.remaining)
  BY <1>1, <1>5, FoundMeets
<1> QED
  BY <1>1, <1>7, <1>8

\* The chain of an answer: the layers of the calls, then the ending's.
LEMMA AnsweredChain ==
  ASSUME DbinInv, pc = "search", NEW e \in EndingRecords,
         NEW c, c = WithPath(WithEnding(e))
  PROVE  /\ c \in [-2 .. max_depth - 1 -> Configs \cup {Unset}]
         /\ Len(stack) = depth - 1 =>
              /\ c[depth] = e.dbin_config
              /\ depth >= 1 /\ c[depth - 1] # Unset => c[depth - 1] = e.hex_dist1_config
              /\ depth >= 2 /\ c[depth - 2] # Unset => c[depth - 2] = e.hex_dist2_config
              /\ \A k \in 0 .. depth - 3 : c[k] = Layers[stack[k + 2].layer].config
<1>1. /\ request \in Requests /\ stack \in Seq(Frames) /\ Len(stack) \in Nat
      /\ Len(stack) >= 1 /\ depth \in Nat /\ depth < max_depth /\ max_depth \in 1 .. 64
  BY StackFacts
<1>2. chain = [k \in -2 .. max_depth - 1 |-> Unset]
  BY DEF DbinInv, ChainIsNew, empty_chain
<1>3. /\ e.hex_dist1_config \in Configs /\ e.hex_dist2_config \in Configs
      /\ e.dbin_config \in Configs
  <2>1. 0 .. DBIN_CONFIG_COUNT - 1 \subseteq Configs
    <3>1. N * N \in Nat
      BY NAssumption
    <3>2. 4 * N * N = 4 * (N * N) /\ 6 * N * N = 6 * (N * N)
      BY NAssumption
    <3> QED
      BY <3>1, <3>2 DEF DBIN_CONFIG_COUNT, Configs, HEX_CONFIG_COUNT
  <2> QED
    BY <2>1 DEF EndingRecords
<1> DEFINE E(k) == CASE k = depth -> e.dbin_config
                     [] k = depth - 1 /\ e.hex_dist1_config # no_layer -> e.hex_dist1_config
                     [] k = depth - 2 /\ e.hex_dist2_config # no_layer -> e.hex_dist2_config
                     [] OTHER -> Unset
           P(k) == Layers[stack[k + 2].layer].config
           height == Len(stack)
<1>4. c = [k \in -2 .. max_depth - 1 |-> IF k \in 0 .. height - 2 THEN P(k) ELSE E(k)]
  <2>1. WithEnding(e) = [k \in -2 .. max_depth - 1 |-> E(k)]
    BY <1>2 DEF WithEnding
  <2> HIDE DEF E, P
  <2>2. WithPath(WithEnding(e)) =
          [k \in -2 .. max_depth - 1 |-> IF k \in 0 .. height - 2 THEN P(k) ELSE E(k)]
    BY <2>1 DEF WithPath, P
  <2> QED
    BY <2>2
<1>5. ASSUME NEW k \in 0 .. height - 2 PROVE P(k) \in Configs
  <2>1. k + 2 \in 1 .. Len(stack)
    BY <1>1
  <2>2. stack[k + 2] \in Frames
    BY <1>1, <2>1
  <2>3. stack[k + 2].layer \in DOMAIN Layers
    BY <2>2 DEF Frames
  <2> QED
    BY <1>1, <2>3, RequestFacts
<1>6. \A k : E(k) \in Configs \cup {Unset}
  BY <1>3
<1>7. c \in [-2 .. max_depth - 1 -> Configs \cup {Unset}]
  <2> HIDE DEF E, P, height
  <2> QED
    BY <1>4, <1>5, <1>6
<1>8. /\ E(depth) = e.dbin_config
      /\ E(depth - 1) # Unset => E(depth - 1) = e.hex_dist1_config
      /\ E(depth - 2) # Unset => E(depth - 2) = e.hex_dist2_config
  BY <1>1
<1>9. ASSUME height = depth - 1
      PROVE  /\ c[depth] = E(depth)
             /\ depth >= 1 => c[depth - 1] = E(depth - 1)
             /\ depth >= 2 => c[depth - 2] = E(depth - 2)
             /\ \A k \in 0 .. depth - 3 : c[k] = P(k)
  <2>1. /\ depth \in -2 .. max_depth - 1 /\ depth \notin 0 .. height - 2
        /\ depth - 1 \in -2 .. max_depth - 1 /\ depth - 1 \notin 0 .. height - 2
        /\ depth - 2 \in -2 .. max_depth - 1 /\ depth - 2 \notin 0 .. height - 2
        /\ \A k \in 0 .. depth - 3 : k \in -2 .. max_depth - 1 /\ k \in 0 .. height - 2
    <3> HIDE DEF height
    <3> QED
      BY <1>1, <1>9
  <2> HIDE DEF E, P, height
  <2> QED
    BY <1>4, <2>1
<1> HIDE DEF E
<1> QED
  BY <1>7, <1>8, <1>9

\* The ending meets what is left behind the last call, and so, layer by
\* layer, the chain meets the request.
LEMMA FindEndingStep ==
  ASSUME DbinInv, FindEnding
  PROVE  DbinInv'
<1>1. /\ pc = "search" /\ pc' = "done" /\ LooksUp
      /\ result' = depth + 1 /\ stack' = <<>>
      /\ UNCHANGED <<request, depth, pregened_prune_table, array, global_trial, stale>>
  BY DEF FindEnding, cacheVars
<1>2. /\ request \in Requests /\ stack \in Seq(Frames) /\ Len(stack) \in Nat
      /\ Len(stack) >= 1 /\ Top = stack[Len(stack)]
      /\ depth \in Nat /\ depth < max_depth /\ max_depth \in 1 .. 64
      /\ Len(stack) = 1 \/ Len(stack) < depth
  BY <1>1, StackFacts
<1>3. PICK e \in EndingRecords :
        /\ IsEnding(e) /\ Meets(e.map, Top.remaining)
        /\ chain' = WithPath(WithEnding(e))
  BY LookUpFacts
<1>4. /\ chain' \in [-2 .. max_depth - 1 -> Configs \cup {Unset}]
      /\ Len(stack) = depth - 1 =>
           /\ chain'[depth] = e.dbin_config
           /\ depth >= 1 /\ chain'[depth - 1] # Unset =>
                chain'[depth - 1] = e.hex_dist1_config
           /\ depth >= 2 /\ chain'[depth - 2] # Unset =>
                chain'[depth - 2] = e.hex_dist2_config
           /\ \A k \in 0 .. depth - 3 : chain'[k] = Layers[stack[k + 2].layer].config
  BY <1>1, <1>3, AnsweredChain
<1>5. max_depth' = max_depth /\ Frames' = Frames
  BY <1>1, CallStays
<1>6. TypeOK'
  <2>1. result' \in 0 .. max_depth
    BY <1>1, <1>2
  <2>2. stack' \in Seq(Frames)
    BY <1>1
  <2> QED
    BY <1>1, <1>4, <1>5, <2>1, <2>2 DEF DbinInv, TypeOK
<1>7. StackIsBounded' /\ StackIsPath' /\ ChainIsNew'
  <2>1. Len(stack') = 0
    BY <1>1
  <2> QED
    BY <1>1, <2>1 DEF StackIsBounded, StackIsPath, ChainIsNew
<1>8. ASSUME depth >= 3, \A k \in 0 .. depth : chain'[k] # Unset
      PROVE  Meets(ChainCells(chain', depth + 1), request)
  <2> DEFINE height == Len(stack)
  <2>1. height = depth - 1
    <3>1. depth - (height - 1) < 3 /\ height \in Nat /\ (height = 1 \/ height < depth)
      BY <1>1, <1>2 DEF LooksUp, remaining_depth
    <3> HIDE DEF height
    <3> QED
      BY <1>2, <1>8, <3>1
  <2>2. chain'[depth - 1] # Unset /\ chain'[depth - 2] # Unset
    <3>1. depth - 1 \in 0 .. depth /\ depth - 2 \in 0 .. depth
      BY <1>2, <1>8
    <3> QED
      BY <1>8, <3>1
  <2>3. /\ chain'[depth] = e.dbin_config
        /\ chain'[depth - 1] = e.hex_dist1_config
        /\ chain'[depth - 2] = e.hex_dist2_config
        /\ \A k \in 0 .. depth - 3 : chain'[k] = Layers[stack[k + 2].layer].config
    BY <1>2, <1>4, <1>8, <2>1, <2>2
  <2>4. PICK g : /\ ChainCells(chain', depth + 1) = g[depth]
                 /\ g[0] = DbinMap(chain'[depth])
                 /\ \A k \in 1 .. depth :
                      g[k] = prepend(LayerMap(chain'[depth - k]), g[k - 1])
    <3> DEFINE n == depth + 1
    <3>1. n \in Nat \ {0} /\ n - 1 = depth
      BY <1>2
    <3> HIDE DEF n
    <3>2. \E g : /\ ChainCells(chain', n) = g[n - 1]
                 /\ g[0] = DbinMap(chain'[n - 1])
                 /\ \A k \in 1 .. n - 1 :
                      g[k] = prepend(LayerMap(chain'[n - 1 - k]), g[k - 1])
      BY <3>1, ChainSteps
    <3>3. \E g : /\ ChainCells(chain', n) = g[depth]
                 /\ g[0] = DbinMap(chain'[depth])
                 /\ \A k \in 1 .. depth :
                      g[k] = prepend(LayerMap(chain'[depth - k]), g[k - 1])
      BY <3>1, <3>2
    <3> QED
      BY <3>3 DEF n
  <2>5. g[2] = e.map
    <3>1. g[1] = prepend(LayerMap(chain'[depth - 1]), g[0])
      <4>1. 1 \in 1 .. depth /\ 1 - 1 = 0
        BY <1>2, <1>8
      <4> QED
        BY <2>4, <4>1
    <3>2. g[2] = prepend(LayerMap(chain'[depth - 2]), g[1])
      <4>1. 2 \in 1 .. depth /\ 2 - 1 = 1
        BY <1>2, <1>8
      <4> QED
        BY <2>4, <4>1
    <3> QED
      BY <1>3, <2>3, <2>4, <3>1, <3>2 DEF IsEnding
  <2> DEFINE last == depth - 2
             Right == {j \in 0 .. last : Meets(g[j + 2], stack[depth - 1 - j].remaining)}
  <2>6. last \in Nat /\ last + 2 = depth
    BY <1>2, <1>8
  <2>7. 0 \in Right
    <3>1. depth - 1 - 0 = Len(stack) /\ 0 + 2 = 2
      BY <1>2, <2>1
    <3>2. Meets(g[2], Top.remaining)
      BY <1>3, <2>5
    <3> HIDE DEF last
    <3> QED
      BY <1>2, <2>6, <3>1, <3>2
  <2>8. ASSUME NEW j \in 1 .. last, j - 1 \in Right
        PROVE  j \in Right
    <3> DEFINE i == depth - 1 - j
               goal == stack[i].remaining
               layer == stack[i + 1].layer
    <3>1. /\ i \in 1 .. Len(stack) - 1 /\ i \in 1 .. Len(stack) /\ i + 1 \in 1 .. Len(stack)
          /\ depth - (j + 2) = i - 1 /\ i - 1 \in 0 .. depth - 3 /\ j + 2 \in 1 .. depth
          /\ depth - 1 - (j - 1) = i + 1 /\ (j - 1) + 2 = j + 1 /\ (j + 2) - 1 = j + 1
          /\ (i - 1) + 2 = i + 1
      <4> HIDE DEF height
      <4>1. i \in Int /\ j \in Int /\ 1 <= j /\ j <= depth - 2 /\ i = depth - 1 - j
        BY <1>2, <2>6, <2>8
      <4> HIDE DEF i
      <4>2. /\ i \in 1 .. height - 1 /\ i \in 1 .. height /\ i + 1 \in 1 .. height
            /\ depth - (j + 2) = i - 1 /\ i - 1 \in 0 .. depth - 3 /\ j + 2 \in 1 .. depth
            /\ depth - 1 - (j - 1) = i + 1 /\ (j - 1) + 2 = j + 1 /\ (j + 2) - 1 = j + 1
            /\ (i - 1) + 2 = i + 1
        BY <1>2, <2>1, <4>1
      <4> QED
        BY <4>2 DEF height
    <3> HIDE DEF i
    <3>2. Meets(g[j + 1], stack[i + 1].remaining)
      BY <2>8, <3>1
    <3>3. stack[i + 1].remaining = unprepend(Layers[layer].map, goal)
      BY <1>2, <3>1 DEF DbinInv, StackIsPath
    <3>4. stack[i] \in Frames /\ stack[i + 1] \in Frames
      BY <1>2, <3>1
    <3>5. goal \in DbinGoals /\ layer \in DOMAIN Layers
      BY <3>4 DEF Frames
    <3>6. Layers[layer].map \in Maps /\ Layers[layer].map = LayerMap(Layers[layer].config)
      BY <1>2, <3>5, RequestFacts
    <3>7. g[j + 2] = prepend(Layers[layer].map, g[j + 1])
      <4>1. chain'[i - 1] = Layers[layer].config
        BY <2>3, <3>1
      <4>2. g[j + 2] = prepend(LayerMap(chain'[depth - (j + 2)]), g[(j + 2) - 1])
        BY <2>4, <3>1
      <4> QED
        BY <3>1, <3>6, <4>1, <4>2
    <3> HIDE DEF goal, layer
    <3>8. Meets(g[j + 2], goal)
      BY <3>2, <3>3, <3>5, <3>6, <3>7, PrependMeets
    <3>9. Meets(g[j + 2], stack[depth - 1 - j].remaining)
      BY <3>8 DEF goal, i
    <3> QED
      BY <2>6, <3>9
  <2>9. last \in Right
    <3> HIDE DEF Right, last
    <3>1. 0 .. last \subseteq Right
      BY <2>6, <2>7, <2>8, InductionTo
    <3> QED
      BY <2>6, <3>1
  <2>10. Meets(g[last + 2], stack[depth - 1 - last].remaining)
    BY <2>9
  <2>11. depth - 1 - last = 1 /\ last + 2 = depth
    BY <1>2
  <2>12. stack[1].remaining = request
    BY <1>2 DEF DbinInv, StackIsPath
  <2> HIDE DEF last
  <2> QED
    BY <2>4, <2>10, <2>11, <2>12
<1>9. LongChainsCompute'
  <2>1. ASSUME result' > 3, IsWritten(result)' PROVE Meets(ChainCells(chain, result), request)'
    <3>1. depth >= 3
      BY <1>1, <1>2, <2>1
    <3>2. \A k \in 0 .. depth : chain'[k] # Unset
      <4>1. \A k \in 0 .. result' - 1 : chain'[k] # Unset
        BY <2>1 DEF IsWritten
      <4>2. result' - 1 = depth
        BY <1>1, <1>2
      <4> QED
        BY <4>1, <4>2
    <3> QED
      BY <1>1, <1>8, <3>1, <3>2
  <2> QED
    BY <2>1 DEF LongChainsCompute
<1> QED
  BY <1>6, <1>7, <1>9 DEF DbinInv

-----------------------------------------------------------------------------
(* The other steps.                                                        *)

LEMMA EmptyChain ==
  ASSUME NEW bound \in 1 .. 64
  PROVE  empty_chain(bound) \in [-2 .. bound - 1 -> Configs \cup {Unset}]
BY DEF empty_chain

\* The counter and the array have their types after a trial.
LEMMA InvalidateType ==
  ASSUME array \in [Slots -> MainCache!Entries], global_trial \in MainCache!Trials,
         MainCache!invalidate_cache
  PROVE  array' \in [Slots -> MainCache!Entries] /\ global_trial' \in MainCache!Trials
<1>1. MainCache!blank \in MainCache!Entries
  BY DbinAssumption
     DEF MainCache!blank, MainCache!Entries, MainCache!Trials, DbinGoals, DbinMaps
<1>2. 1 \in MainCache!Trials
  BY DbinAssumption DEF MainCache!Trials
<1>3. global_trial + 1 < TrialLimit => global_trial + 1 \in MainCache!Trials
  BY DbinAssumption DEF MainCache!Trials
<1> QED
  BY <1>1, <1>2, <1>3 DEF MainCache!invalidate_cache

LEMMA InitSearch == Init => DbinInv
<1> SUFFICES ASSUME Init PROVE DbinInv
  OBVIOUS
<1>1. /\ pc = "idle" /\ request \in Requests /\ depth = 0 /\ stack = <<>> /\ result = 0
      /\ chain = empty_chain(max_depth) /\ pregened_prune_table = none
      /\ array = [s \in Slots |-> MainCache!blank] /\ global_trial = 0 /\ stale = Slots
  BY DEF Init, MainCache!cache_init
<1>2. max_depth \in 1 .. 64
  BY <1>1, RequestFacts
<1>3. MainCache!blank \in MainCache!Entries /\ 0 \in MainCache!Trials
  BY DbinAssumption
     DEF MainCache!blank, MainCache!Entries, MainCache!Trials, DbinGoals, DbinMaps
<1>4. Len(stack) = 0 /\ stack \in Seq(Frames)
  BY <1>1
<1>5. TypeOK
  <2>1. depth \in 0 .. max_depth /\ result \in 0 .. max_depth
    BY <1>1, <1>2
  <2>2. chain \in [-2 .. max_depth - 1 -> Configs \cup {Unset}]
    BY <1>1, <1>2, EmptyChain
  <2>3. array \in [Slots -> MainCache!Entries]
    BY <1>1, <1>3
  <2> QED
    BY <1>1, <1>3, <1>4, <2>1, <2>2, <2>3 DEF TypeOK
<1> QED
  BY <1>1, <1>4, <1>5
     DEF DbinInv, StackIsBounded, StackIsPath, ChainIsNew, LongChainsCompute, Answered

\* Between two iterations no call is under way.
LEMMA NoCalls ==
  ASSUME DbinInv, pc # "search"
  PROVE  stack = <<>>
<1>1. stack \in Seq(Frames) /\ ~ (Len(stack) > 0)
  BY DEF DbinInv, TypeOK, StackIsBounded
<1> QED
  BY <1>1

LEMMA OtherSteps ==
  ASSUME DbinInv,
         Start \/ StartIteration \/ GiveUp \/ FailIteration \/ Crash
           \/ (\E r \in Repeated : NewRequest(r))
  PROVE  DbinInv'
<1>1. /\ request \in Requests /\ depth \in 0 .. max_depth /\ stack \in Seq(Frames)
      /\ array \in [Slots -> MainCache!Entries] /\ global_trial \in MainCache!Trials
  BY DEF DbinInv, TypeOK
<1>2. max_depth \in 1 .. 64 /\ request \in DbinGoals /\ 0 \in DOMAIN Layers
  BY <1>1, RequestFacts
<1>3. CASE Start
  <2>1. /\ pc = "idle" /\ pc' = "iterate" /\ depth' = 0
        /\ UNCHANGED <<request, stack, chain, result, array, global_trial, stale>>
        /\ pregened_prune_table' \in {pregened_prune_table, Group}
    BY <1>3 DEF Start, cacheVars
  <2>2. max_depth' = max_depth /\ Frames' = Frames
    BY <2>1, CallStays
  <2>3. stack = <<>>
    BY <2>1, NoCalls
  <2>4. Group \in {get_dbin_exact_group(r) : r \in Requests}
    BY <1>1 DEF Group
  <2>5. TypeOK'
    BY <1>2, <2>1, <2>2, <2>4 DEF DbinInv, TypeOK
  <2>6. Len(stack') = 0
    BY <2>1, <2>3
  <2> QED
    BY <2>1, <2>2, <2>5, <2>6
       DEF DbinInv, StackIsBounded, StackIsPath, ChainIsNew, LongChainsCompute, Answered
<1>4. CASE StartIteration
  <2>1. /\ pc = "iterate" /\ pc' = "search" /\ depth < max_depth
        /\ stack' = <<Frame(request, 0)>>
        /\ stale' = {s \in Slots : array[s].trial = global_trial}
        /\ UNCHANGED <<request, depth, chain, result, pregened_prune_table, array, global_trial>>
    BY <1>4 DEF StartIteration, cacheVars
  <2>2. max_depth' = max_depth /\ Frames' = Frames
    BY <2>1, CallStays
  <2>3. Frame(request, 0) \in Frames /\ Frame(request, 0).remaining = request
    BY <1>2 DEF Frame, Frames
  <2>4. stack' \in Seq(Frames) /\ Len(stack') = 1 /\ stack'[1].remaining = request
    BY <2>1, <2>3
  <2>5. TypeOK'
    BY <2>1, <2>2, <2>4 DEF DbinInv, TypeOK
  <2>6. StackIsPath'
    BY <2>1, <2>4 DEF StackIsPath
  <2> QED
    BY <2>1, <2>2, <2>4, <2>5, <2>6
       DEF DbinInv, StackIsBounded, ChainIsNew, LongChainsCompute, Answered
<1>5. CASE GiveUp
  <2>1. /\ pc = "iterate" /\ pc' = "done" /\ depth = max_depth
        /\ result' = max_depth - 1 /\ pregened_prune_table' = freed
        /\ UNCHANGED <<request, depth, stack, chain, array, global_trial, stale>>
    BY <1>5 DEF GiveUp, cacheVars
  <2>2. max_depth' = max_depth /\ Frames' = Frames
    BY <2>1, CallStays
  <2>3. stack = <<>>
    BY <2>1, NoCalls
  <2>4. result' \in 0 .. max_depth
    BY <1>2, <2>1
  <2>5. TypeOK'
    BY <2>1, <2>2, <2>4 DEF DbinInv, TypeOK
  <2>6. Len(stack') = 0 /\ ~ (depth' < max_depth')
    BY <1>2, <2>1, <2>2, <2>3
  <2> QED
    BY <2>1, <2>5, <2>6
       DEF DbinInv, StackIsBounded, StackIsPath, ChainIsNew, LongChainsCompute, Answered
<1>6. CASE FailIteration
  <2>1. /\ pc = "search" /\ pc' = "iterate" /\ depth' = depth + 1 /\ stack' = <<>>
        /\ MainCache!invalidate_cache
        /\ UNCHANGED <<request, chain, result, pregened_prune_table, stale>>
    BY <1>6 DEF FailIteration, Fails
  <2>2. max_depth' = max_depth /\ Frames' = Frames
    BY <2>1, CallStays
  <2>3. depth' \in 0 .. max_depth
    BY <1>1, <1>2, <2>1 DEF DbinInv, StackIsBounded
  <2>4. array' \in [Slots -> MainCache!Entries] /\ global_trial' \in MainCache!Trials
    BY <1>1, <2>1, InvalidateType
  <2>5. stack' \in Seq(Frames) /\ Len(stack') = 0
    BY <2>1
  <2>6. TypeOK'
    BY <2>1, <2>2, <2>3, <2>4, <2>5 DEF DbinInv, TypeOK
  <2> QED
    BY <2>1, <2>2, <2>5, <2>6
       DEF DbinInv, StackIsBounded, StackIsPath, ChainIsNew, LongChainsCompute, Answered
<1>7. ASSUME NEW r \in Repeated, NewRequest(r) PROVE DbinInv'
  <2>1. /\ pc = "done" /\ pc' = "idle" /\ request' = r /\ depth' = 0 /\ result' = 0
        /\ chain' = empty_chain(MaxDepth(r))
        /\ UNCHANGED <<stack, pregened_prune_table, array, global_trial, stale>>
    BY <1>7 DEF NewRequest, cacheVars
  <2>2. r \in Requests /\ max_depth' = MaxDepth(r) /\ max_depth' \in 1 .. 64
    BY <2>1, DbinAssumption DEF max_depth
  <2>3. stack' = <<>>
    BY <2>1, NoCalls
  <2>4. chain' \in [-2 .. max_depth' - 1 -> Configs \cup {Unset}]
    BY <2>1, <2>2, EmptyChain
  <2>5. stack' \in Seq(Frames)' /\ Len(stack') = 0
    BY <2>3
  <2>6. TypeOK'
    <3>1. depth' \in 0 .. max_depth' /\ result' \in 0 .. max_depth'
      BY <2>1, <2>2
    <3> QED
      BY <2>1, <2>2, <2>4, <2>5, <3>1 DEF DbinInv, TypeOK
  <2> QED
    BY <2>1, <2>2, <2>5, <2>6
       DEF DbinInv, StackIsBounded, StackIsPath, ChainIsNew, LongChainsCompute, Answered
<1>8. CASE Crash
  <2>1. /\ pc \in {"search", "iterate"} /\ pc' = "crashed" /\ stack' = <<>>
        /\ UNCHANGED <<request, depth, chain, result, pregened_prune_table,
                       array, global_trial, stale>>
    BY <1>8 DEF Crash, UsesPruneTable, HasNext, cacheVars
  <2>2. max_depth' = max_depth /\ Frames' = Frames
    BY <2>1, CallStays
  <2>3. stack' \in Seq(Frames) /\ Len(stack') = 0
    BY <2>1
  <2>4. TypeOK'
    BY <2>1, <2>2, <2>3 DEF DbinInv, TypeOK
  <2> QED
    BY <2>1, <2>2, <2>3, <2>4
       DEF DbinInv, StackIsBounded, StackIsPath, ChainIsNew, LongChainsCompute, Answered
<1> QED
  BY <1>3, <1>4, <1>5, <1>6, <1>7, <1>8

LEMMA NextSearch ==
  ASSUME DbinInv, [Next]_vars
  PROVE  DbinInv'
<1>1. CASE UNCHANGED vars
  <2>1. /\ UNCHANGED <<pc, request, depth, stack, chain, result, pregened_prune_table,
                       array, global_trial, stale>>
    BY <1>1 DEF vars, cacheVars
  <2>2. max_depth' = max_depth /\ Frames' = Frames /\ Layers' = Layers
    BY <2>1, CallStays
  <2>3. TypeOK'
    BY <2>1, <2>2 DEF DbinInv, TypeOK
  <2>4. StackIsBounded' /\ StackIsPath' /\ ChainIsNew'
    BY <2>1, <2>2 DEF DbinInv, StackIsBounded, StackIsPath, ChainIsNew
  <2>5. LongChainsCompute'
    BY <2>1, <2>2 DEF DbinInv, LongChainsCompute, Answered, IsWritten
  <2> QED
    BY <2>3, <2>4, <2>5 DEF DbinInv
<1> QED
  BY <1>1, SkipStep, Return0Step, DescendStep, FindEndingStep, OtherSteps
     DEF Next, SolveStep

\* An answer of four layers or more computes its goal where the goal asks for
\* something, whenever the whole chain was written: for every table whose
\* layers are what their configs say, all endings, every order of the rows and
\* the endings, every prune table and cache.
THEOREM LongChainsAlwaysCompute == Spec => []LongChainsCompute
<1>1. DbinInv => LongChainsCompute
  BY DEF DbinInv
<1> QED
  BY <1>1, InitSearch, NextSearch, PTL DEF Spec

\* The types, with the bounds behind them: the calls are never more than the
\* iteration's layers less one, and the chain is written once.
THEOREM SearchIsTyped == Spec => [](TypeOK /\ StackIsBounded /\ ChainIsNew)
<1>1. DbinInv => TypeOK /\ StackIsBounded /\ ChainIsNew
  BY DEF DbinInv
<1> QED
  BY <1>1, InitSearch, NextSearch, PTL DEF Spec

=============================================================================
