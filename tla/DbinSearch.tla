----------------------------- MODULE DbinSearch -----------------------------
(***************************************************************************)
(* The solver of dbin_solve.c: dbin_solve() deepens a search that applies  *)
(* hex layers to the goal until at most three layers are left, and looks   *)
(* those up in the sorted endings.  One step is one turn of a loop, one    *)
(* look-up or one return of dfs.  The cache and the prune table live on    *)
(* from call to call.                                                      *)
(***************************************************************************)
EXTENDS DbinLayers

CONSTANTS Table,         \* precompute_hex_layers(group, -1), by group
          EndingsOf,     \* precompute_dbin_layers, by group
          PruneOf,       \* the distances of get_prune_table, by group
          Requests,      \* the requests of the callers
          Repeated,      \* those a search through random goals makes
          MaxDepth(_),   \* the bound for a request; dbin_print_solve passes 64
          Unset,         \* an entry of the chain nobody wrote
          none, freed,   \* no prune table yet, one given back
          Slots, Slot(_), TrialLimit   \* of the cache

IsRequest(r) == r \in DbinGoals /\ ~ Contradictory(r)

EndingRecords ==
  [map : DbinMaps, dbin_config : 0 .. DBIN_CONFIG_COUNT - 1,
   hex_dist1_config : Configs, hex_dist2_config : Configs]

\* Layer 0x000, which stands for none, is the identity.
IsEnding(e) ==
  e.map = prepend(LayerMap(e.hex_dist2_config),
            prepend(LayerMap(e.hex_dist1_config), DbinMap(e.dbin_config)))

ASSUME DbinAssumption ==
  /\ \A r \in Requests : IsRequest(r)
  /\ Repeated \subseteq Requests
  /\ \A r \in Requests : MaxDepth(r) \in 1 .. 64
  /\ TrialLimit \in Nat /\ TrialLimit > 1

ASSUME TablesAssumption ==
  \A group \in {get_dbin_exact_group(r) : r \in Requests} :
    /\ IsTable(Table[group])
    /\ EndingsOf[group] \in Seq(EndingRecords)
    /\ \A k \in DOMAIN EndingsOf[group] : IsEnding(EndingsOf[group][k])

VARIABLES
  pc,                    \* where dbin_solve() stands
  request,               \* its argument, a goal
  depth,                 \* the iteration
  stack,                 \* the calls of dfs, the first one at the bottom
  chain,                 \* output_chain, and two entries in front of it
  result,                \* what dbin_solve() returned
  pregened_prune_table,  \* the group it was made for
  array, global_trial,   \* the cache
  stale                  \* history: slots whose entry an earlier iteration wrote

cacheVars == <<array, global_trial>>
vars == <<pc, request, depth, stack, chain, result, pregened_prune_table,
          cacheVars, stale>>

MainCache == INSTANCE Cache WITH
  Keys <- DbinGoals, zero_key <- [zeros |-> {}, ones |-> {}],
  Depths <- 0 .. 99

max_depth == MaxDepth(request)
Group == get_dbin_exact_group(request)
Layers == Table[Group].layers

\* A call dfs(layer, remaining_map, remaining_depth); next counts its loop.
Frame(remaining, layer) == [remaining |-> remaining, layer |-> layer, next |-> 1]

Top == stack[Len(stack)]
remaining_depth == depth - (Len(stack) - 1)
Row == RowOf(Table[Group], Top.layer)

empty_chain(bound) == [k \in -2 .. bound - 1 |-> Unset]

-----------------------------------------------------------------------------
Init ==
  /\ pc = "idle"
  /\ request \in Requests
  /\ depth = 0 /\ stack = <<>> /\ result = 0
  /\ chain = empty_chain(max_depth)
  /\ pregened_prune_table = none
  /\ MainCache!cache_init
  /\ stale = Slots

\* Another call, as a search through random goals makes it.
NewRequest(r) ==
  /\ pc = "done" /\ request \in Repeated
  /\ pc' = "idle" /\ request' = r
  /\ depth' = 0 /\ result' = 0 /\ chain' = empty_chain(MaxDepth(r))
  /\ UNCHANGED <<stack, pregened_prune_table, cacheVars, stale>>

\* The first call makes the prune table.
Start ==
  /\ pc = "idle"
  /\ pc' = "iterate" /\ depth' = 0
  /\ pregened_prune_table' =
       IF pregened_prune_table = none THEN Group ELSE pregened_prune_table
  /\ UNCHANGED <<request, stack, chain, result, cacheVars, stale>>

StartIteration ==
  /\ pc = "iterate" /\ depth < max_depth
  /\ pc' = "search"
  /\ stack' = <<Frame(request, 0)>>
  /\ stale' = {s \in Slots : array[s].trial = global_trial}
  /\ UNCHANGED <<request, depth, chain, result, pregened_prune_table, cacheVars>>

\* The prune table is given back, but not forgotten: the next call that fails
\* gives it back again (and if that does not end the program, see Crash, goes
\* on as if nothing had happened).
GiveUp ==
  /\ pc = "iterate" /\ depth = max_depth
  /\ pc' = "done" /\ result' = max_depth - 1
  /\ pregened_prune_table' = freed
  /\ UNCHANGED <<request, depth, stack, chain, cacheVars, stale>>

-----------------------------------------------------------------------------
(* The look-up of an ending.                                               *)

\* cmp_dbin_remainder: the highest cell in which the ending is wrong tells
\* whether it is too small (1) or too large (-1).
cmp_dbin_remainder(goal, ending) ==
  LET missing == goal.ones \ ending.map
      surplus == goal.zeros \cap ending.map
  IN  IF missing \cup surplus = {} THEN 0
      ELSE IF Max(missing \cup surplus) \in missing THEN 1 ELSE -1

\* The C library's search: the position found, or 0.
bsearch(goal, endings) ==
  LET Ranges == [low : 0 .. Len(endings), high : 0 .. Len(endings)]
      look[r \in Ranges] ==
        IF r.low >= r.high THEN 0
        ELSE LET middle == (r.low + r.high) \div 2
                 sign == cmp_dbin_remainder(goal, endings[middle + 1])
             IN  IF sign < 0 THEN look[[r EXCEPT !.high = middle]]
                 ELSE IF sign > 0 THEN look[[r EXCEPT !.low = middle + 1]]
                 ELSE middle + 1
  IN  look[[low |-> 0, high |-> Len(endings)]]

\* Mutated form: two layers are left to the look-up, not three.
LooksUpEarlier == remaining_depth < 2

LooksUp == remaining_depth < 3
Found == bsearch(Top.remaining, EndingsOf[Group])

\* Mutated form: the hex layers of the ending change places.
WithEndingSwapped(e) ==
  [k \in DOMAIN chain |->
     CASE k = depth -> e.dbin_config
       [] k = depth - 1 /\ e.hex_dist2_config # no_layer -> e.hex_dist2_config
       [] k = depth - 2 /\ e.hex_dist1_config # no_layer -> e.hex_dist1_config
       [] OTHER -> chain[k]]

\* The chain gets the ending, wherever the iteration is, and then the layers
\* of the calls that return one after the other.
WithEnding(e) ==
  [k \in DOMAIN chain |->
     CASE k = depth -> e.dbin_config
       [] k = depth - 1 /\ e.hex_dist1_config # no_layer -> e.hex_dist1_config
       [] k = depth - 2 /\ e.hex_dist2_config # no_layer -> e.hex_dist2_config
       [] OTHER -> chain[k]]

WithPath(c) ==
  [k \in DOMAIN c |-> IF k \in 0 .. Len(stack) - 2
                      THEN Layers[stack[k + 2].layer].config ELSE c[k]]

FindEnding ==
  /\ pc = "search" /\ LooksUp /\ Found # 0
  /\ pc' = "done" /\ result' = depth + 1
  /\ chain' = WithPath(WithEnding(EndingsOf[Group][Found]))
  /\ stack' = <<>>
  /\ UNCHANGED <<request, depth, pregened_prune_table, cacheVars, stale>>

-----------------------------------------------------------------------------
(* The loop over the layers of the row.                                    *)
NextLayer == Layers[Row[Top.next]]
NextRemaining == unprepend(NextLayer.map, Top.remaining)
HasNext == pc = "search" /\ ~ LooksUp /\ Top.next <= Len(Row)
Advanced == [stack EXCEPT ![Len(stack)].next = @ + 1]

\* A bit of the goal is further than the layers left can go.
TooFar(goal) ==
  \E b \in {0, 1} :
    BestCompletion(PruneOf[pregened_prune_table], Bit(goal, b)) > remaining_depth

\* What the check says.  The memory of a table that was given back, if it can
\* still be read (else see Crash), holds anything.
PruneAnswers(goal) ==
  IF pregened_prune_table = freed THEN BOOLEAN ELSE {TooFar(goal)}

Refuse ==
  /\ HasNext
  /\ \/ Contradictory(NextRemaining)
     \/ ~ Contradictory(NextRemaining) /\ TRUE \in PruneAnswers(NextRemaining)
  /\ stack' = Advanced
  /\ UNCHANGED <<pc, request, depth, chain, result, pregened_prune_table,
                 cacheVars, stale>>

Passes(goal) == ~ Contradictory(goal) /\ FALSE \in PruneAnswers(goal)

SkipKnown ==
  /\ HasNext /\ Passes(NextRemaining)
  /\ MainCache!cache_check_hit(NextRemaining, 99 - remaining_depth)
  /\ stack' = Advanced
  /\ UNCHANGED <<pc, request, depth, chain, result, pregened_prune_table, stale>>

Descend ==
  /\ HasNext /\ Passes(NextRemaining)
  /\ MainCache!cache_check_miss(NextRemaining, 99 - remaining_depth)
  /\ stack' = Append(Advanced, Frame(NextRemaining, Row[Top.next]))
  /\ stale' = stale \ {Slot(NextRemaining)}
  /\ UNCHANGED <<pc, request, depth, chain, result, pregened_prune_table>>

\* The call on top returns 0.
Fails == pc = "search" /\ IF LooksUp THEN Found = 0 ELSE Top.next > Len(Row)

Return0 ==
  /\ Fails /\ Len(stack) > 1
  /\ stack' = SubSeq(stack, 1, Len(stack) - 1)
  /\ UNCHANGED <<pc, request, depth, chain, result, pregened_prune_table,
                 cacheVars, stale>>

\* Mutated forms: the cache keeps its entries; the iteration is repeated.
FailIterationKeepingCache ==
  /\ Fails /\ Len(stack) = 1
  /\ pc' = "iterate" /\ depth' = depth + 1 /\ stack' = <<>>
  /\ UNCHANGED <<request, chain, result, pregened_prune_table, cacheVars, stale>>

FailIterationAgain ==
  /\ Fails /\ Len(stack) = 1
  /\ pc' = "iterate" /\ stack' = <<>>
  /\ MainCache!invalidate_cache
  /\ UNCHANGED <<request, depth, chain, result, pregened_prune_table, stale>>

FailIteration ==
  /\ Fails /\ Len(stack) = 1
  /\ pc' = "iterate" /\ depth' = depth + 1 /\ stack' = <<>>
  /\ MainCache!invalidate_cache
  /\ UNCHANGED <<request, chain, result, pregened_prune_table, stale>>

-----------------------------------------------------------------------------
\* The prune table is read for every goal that is not contradictory, and given
\* back by a call that fails.  Of a table given back before, either is
\* undefined: it may end the program.
UsesPruneTable ==
  \/ HasNext /\ ~ Contradictory(NextRemaining)
  \/ pc = "iterate" /\ depth = max_depth

Crash ==
  /\ UsesPruneTable /\ pregened_prune_table = freed
  /\ pc' = "crashed" /\ stack' = <<>>
  /\ UNCHANGED <<request, depth, chain, result, pregened_prune_table,
                 cacheVars, stale>>

SolveStep ==
  \/ Start \/ StartIteration \/ GiveUp \/ FindEnding
  \/ Refuse \/ SkipKnown \/ Descend \/ Return0 \/ FailIteration
  \/ Crash

Next == SolveStep \/ \E r \in Repeated : NewRequest(r)

\* dbin_solve() runs to its end once called, or the program ends; nobody has
\* to call it again.
Spec == Init /\ [][Next]_vars /\ WF_vars(SolveStep)

-----------------------------------------------------------------------------
(* Type invariant. *)
Frames == [remaining : DbinGoals, layer : DOMAIN Layers, next : Nat \ {0}]

TypeOK ==
  /\ pc \in {"idle", "iterate", "search", "done", "crashed"}
  /\ request \in Requests
  /\ depth \in 0 .. max_depth
  /\ stack \in Seq(Frames)
  /\ chain \in [-2 .. max_depth - 1 -> Configs \cup {Unset}]
  /\ result \in 0 .. max_depth
  /\ pregened_prune_table \in
       {get_dbin_exact_group(r) : r \in Requests} \cup {none, freed}
  /\ array \in [Slots -> MainCache!Entries]
  /\ global_trial \in MainCache!Trials
  /\ stale \subseteq Slots

-----------------------------------------------------------------------------
\* What the first n entries of the chain compute: hex layers and an ending.
ChainCells(c, n) ==
  LET behind[k \in 0 .. n - 1] ==
        IF k = 0 THEN DbinMap(c[n - 1])
                 ELSE prepend(LayerMap(c[n - 1 - k]), behind[k - 1])
  IN  behind[n - 1]

IsWritten(n) == \A k \in 0 .. n - 1 : chain[k] # Unset

\* LevelsOfMaps[k]: the dual binary maps of chains of k layers.
LayerMaps == {LayerMap(c) : c \in Configs}
LevelsOfMaps ==
  FoldLeft(LAMBDA levels, k :
             Append(levels, {prepend(layer, map) :
                               layer \in LayerMaps, map \in levels[k]}),
           <<{DbinMap(c) : c \in 0 .. DBIN_CONFIG_COUNT - 1}>>, <<1, 2, 3, 4>>)

\* The lengths, up to five, of the chains that compute a goal.
LengthsFor(goal) ==
  {k \in 1 .. 5 : \E map \in LevelsOfMaps[k] : Meets(map, goal)}

Answered == pc = "done" /\ depth < max_depth
IsExact(goal) == goal.zeros \cup goal.ones = Cells

\* An answer of four layers or more whose chain was written throughout
\* computes the goal: going from layer to layer, the prune table, the cache
\* and an ending found for a goal with wildcards never mix up two chains.
LongChainsCompute ==
  Answered /\ result > 3 /\ IsWritten(result) =>
    Meets(ChainCells(chain, result), request)

\* An exact goal that needs more than three layers is answered with a chain
\* written throughout that computes it: the ending found fills the place that
\* the iteration leaves for it.  (Not always with a shortest one: the look-up
\* may miss an ending.  And not after a call that reached its bound: from
\* then on the prune table is memory given back.)
ExactIsSolved ==
  /\ Answered /\ IsExact(request) /\ pregened_prune_table # freed
  /\ LengthsFor(request) # {} /\ Min(LengthsFor(request)) > 3
  => IsWritten(result) /\ Meets(ChainCells(chain, result), request)

\* A goal is skipped because this very iteration went on from it with as
\* many layers left, never because of an entry of an earlier iteration or
\* call.
NoStaleHit ==
  HasNext /\ Passes(NextRemaining)
          /\ MainCache!Hit(NextRemaining, 99 - remaining_depth) =>
    Slot(NextRemaining) \notin stale

\* Every call that finds a prune table nobody gave back returns, whatever
\* earlier calls left in the cache and whichever group the table is for; and
\* one that does not at least comes to an end.
CallsReturn ==
  /\ pc = "idle" /\ pregened_prune_table # freed ~> pc = "done"
  /\ []<>(pc \in {"done", "crashed"})

-----------------------------------------------------------------------------
(* What the documentation says.                                            *)

\* README.md: "the solver always produces optimal length solutions".  No
\* answer is shorter than every chain that computes the goal ...
NeverTooShort ==
  Answered /\ LengthsFor(request) # {} =>
    result >= Min(LengthsFor(request))

\* ... and none is longer than needed.
NeverTooLong ==
  Answered /\ LengthsFor(request) # {} =>
    result <= Min(LengthsFor(request))

\* README.md: wildcards may be used in a goal as in one of the hex solver.
\* The chain of an answer is there, from its first layer to its last.
WildcardsAreSolved == Answered /\ result > 3 => IsWritten(result)

-----------------------------------------------------------------------------
(* The inductive invariant behind LongChainsCompute.                       *)

\* Behind the first call there are always two layers at least: the ending has
\* its place behind the layers of the calls.
StackIsBounded ==
  /\ pc = "search" <=> Len(stack) > 0
  /\ pc = "search" => depth < max_depth
  /\ Len(stack) > 1 => Len(stack) < depth

\* Each call has what is left of the goal behind its layer.
StackIsPath ==
  Len(stack) > 0 =>
    /\ stack[1].remaining = request
    /\ \A k \in 1 .. Len(stack) - 1 :
         stack[k + 1].remaining =
           unprepend(Layers[stack[k + 1].layer].map, stack[k].remaining)

\* The chain is written once, at the end of a call.
ChainIsNew == pc # "done" => chain = empty_chain(max_depth)

DbinInv ==
  TypeOK /\ StackIsBounded /\ StackIsPath /\ ChainIsNew /\ LongChainsCompute

=============================================================================
