---------------------------- MODULE HlpOptimality ----------------------------
(***************************************************************************)
(* How short the answers of hlp_solve.c are.  The search skips pairs of    *)
(* layers the table leaves out, maps the cache knows and maps the distance *)
(* check gives up; nothing of that may cost a chain that is wanted.  The   *)
(* shortest chain is found here without any of it.                         *)
(***************************************************************************)
EXTENDS HlpSearch

LayerMaps == {LayerMap(config) : config \in Configs}

\* What chains of k layers compute.
MapsOfChains ==
  LET chains[k \in 0 .. MaxChain] ==
        IF k = 0 THEN {identity}
        ELSE {apply_mapping(map, layer) : map \in chains[k - 1], layer \in LayerMaps}
  IN  [k \in 0 .. MaxChain |-> chains[k]]

\* The lengths of the chains that compute a goal.
LengthsFor(goal) ==
  {k \in 0 .. MaxChain : \E map \in MapsOfChains[k] : test_map(goal, map)}

\* The tables are those for the requests' groups.
ASSUME ShortestAssumption ==
  /\ \A g \in {GroupOf(r) : r \in Requests} : ListsFirstPairs(Table[g], g)
  /\ \A map \in Maps : Slot(map) \in Slots

\* A single call of solve(), as the command line makes it.
OneCallSpec == Init /\ [][SolveStep]_vars

-----------------------------------------------------------------------------
\* An exact goal has no wildcards.  (Only Lua makes such: they count as
\* outputs of 0, so that layers that are wanted may not be in the table.)
IsUsual(r) == r.solve_type = "exact" => Determined(r.goal) = Values

\* (A bound of 0 allows no iteration at all: then even the identity is not
\* found.)
Searched == /\ pc = "done" /\ request.solve_type # "unknown" /\ IsUsual(request)
            /\ mins(request.goal) # zero_map /\ request.max_depth # 0

Wanted == {k \in LengthsFor(request.goal) : k <= Capped(request.max_depth)}

AnswersShortest ==
  result = IF Wanted = {} THEN request.max_depth + 1 ELSE Min(Wanted)

\* Chains of k layers take the map to the goal.  (The first conjunct follows
\* from the second one, and is soon evaluated.)
LeadsTo(goal, map, k) ==
  /\ \A v, w \in Determined(goal) : map[v] = map[w] => goal[v] = goal[w]
  /\ \E rest \in MapsOfChains[k] : test_map(goal, apply_mapping(map, rest))

\* The check by distance passes every map on every shortest chain for the
\* goal, with the threshold for the layers that follow it.
NoneIsDropped(r) ==
  LET lengths == LengthsFor(r.goal)
  IN  \A i, k \in 1 .. MaxChain :
        i + k \in lengths /\ (\A n \in lengths : i + k <= n) =>
          \A map \in MapsOfChains[i] : LeadsTo(r.goal, map, k) =>
            legal_dist(r.goal, map, get_dist_threshold(r.accuracy, GroupOf(r), k))

\* If a search does not return the length of a shortest chain, the distance
\* check dropped one: neither the pairs the table leaves out, nor the cache,
\* nor going on from the presearch's answer lose the last one of them.
OnlyDistanceLosesChains ==
  Searched /\ request.accuracy # REDUCED /\ ~ AnswersShortest =>
    ~ NoneIsDropped(request)

\* What get_dist_threshold promises of its separations: in a perfect search
\* they are enough, and so are those of every search but the reduced one for
\* goals that use all outputs or all but one, where the comment says that as
\* many as there are layers left are always sufficient.  (Goals that use all
\* outputs but two are searched with too low a threshold: NoLongerThanKnown.)
DistancesSuffice ==
  /\ Searched
  /\ \/ request.accuracy = PERFECT /\ get_group(request.goal) # N - 2
     \/ /\ request.accuracy # REDUCED
        /\ request.solve_type = "exact"
        /\ get_group(request.goal) >= N - 1
  => NoneIsDropped(request)

=============================================================================
