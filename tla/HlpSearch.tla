------------------------------ MODULE HlpSearch ------------------------------
(***************************************************************************)
(* The solver of hlp_solve.c: solve() runs an iterative deepening search   *)
(* twice, first with reduced accuracy and then, for anything shorter, with *)
(* the accuracy asked for.  One step is one turn of a loop or one call or  *)
(* return of dfs; the call stack is a sequence of frames.  The cache lives *)
(* on from call to call, as main_cache does.                               *)
(***************************************************************************)
EXTENDS HexTables, LegalDist

CONSTANTS Table,        \* what precompute_hex_layers(group, 1) returns
          MaxChain,     \* the longest chain searched for: 31
          Requests,     \* the requests of the callers
          Unset,        \* an entry of the chain nobody wrote
          none,         \* no reply yet
          Slots, Slot(_), TrialLimit   \* of the cache

-----------------------------------------------------------------------------
(* Requests.                                                               *)
SolveTypes == {"exact", "partial", "unknown"}

REDUCED == -1
NORMAL == 0
INCREASED == 1
PERFECT == 2
Accuracies == REDUCED .. PERFECT

IsRequest(r) ==
  /\ r.goal \in Goals
  /\ r.solve_type \in SolveTypes
  /\ r.accuracy \in Accuracies
  /\ r.max_depth \in Int

\* Mutated form: the upper end of a wildcard's range.
maxs(goal) == [v \in Values |-> IF goal[v] = Wild THEN N - 1 ELSE goal[v]]

mins(goal) == [v \in Values |-> IF goal[v] = Wild THEN 0 ELSE goal[v]]

\* The number of outputs the chain must keep.
get_min_group(goal) ==
  LET outputs == Cardinality({goal[v] : v \in Determined(goal)})
  IN  IF outputs = 0 THEN 1 ELSE outputs

GroupOf(r) ==
  IF r.solve_type = "exact" THEN get_group(mins(r.goal))
                            ELSE get_min_group(r.goal)

\* test_map: the map stays within mins and maxs.
test_map(goal, map) == \A v \in Determined(goal) : map[v] = goal[v]

-----------------------------------------------------------------------------
(* The separations the distance check lets pass with so many layers left.  *)

\* Mutated form: one separation less than there are layers left.
TightDistThreshold(acc, group, remaining) == remaining - 1

get_dist_threshold(acc, group, remaining) ==
  IF acc = REDUCED
  THEN IF remaining > 2 THEN remaining - 1 ELSE remaining
  ELSE IF acc = NORMAL \/ group > N - 2 THEN remaining
  ELSE IF acc = INCREASED \/ group > N - 3 THEN remaining + 1
  ELSE ((remaining * 3 - 1) \div 2) + 1

-----------------------------------------------------------------------------
\* A goal whose inputs, the wildcards excepted, ask for a single output.
OneOutput(goal) == \A v, w \in Determined(goal) : goal[v] = goal[w]

ASSUME SearchAssumption ==
  /\ MaxChain \in Nat \ {0}
  /\ TrialLimit \in Nat /\ TrialLimit > 1
  /\ \A r \in Requests : IsRequest(r) /\ IsTable(Table[GroupOf(r)])
  /\ \A r \in Requests : \A i \in DOMAIN Table[GroupOf(r)].layers :
       Slot(Table[GroupOf(r)].layers[i].map) \in Slots
  /\ Wild \notin Values /\ Unset \notin Configs
  /\ none \notin [length : Int, chain : [1 .. MaxChain + 1 -> Configs \cup {Unset}]]

ASSUME ConstantsAssumption ==
  \A r \in Requests :
    LET table == Table[GroupOf(r)]
    IN  /\ GroupOf(r) = 1 => ReachesConstants(table)
        /\ OneOutput(r.goal) =>
             MAP_ARRAY_ALIGNMENT <= table.layers[0].next_layer_count

-----------------------------------------------------------------------------
VARIABLES
  pc,              \* where solve() stands
  request,         \* its argument
  accuracy,        \* of the search that runs: reduced in the presearch
  max_depth,       \* the bound of the search that runs
  bfs_depth,       \* its iteration
  stack,           \* the calls of dfs, the first one at the bottom
  chain,           \* output_chain
  length,          \* what the last search returned
  result,          \* what solve() returned
  array, global_trial,   \* the cache
  stale,           \* history: slots whose entry an earlier iteration wrote
  trail            \* history: the maps along the chain found last

searchVars == <<request, accuracy, max_depth>>
cacheVars == <<array, global_trial>>
answerVars == <<chain, length, result, trail>>
vars == <<pc, searchVars, bfs_depth, stack, answerVars, cacheVars, stale>>

MainCache == INSTANCE Cache WITH Keys <- Maps, zero_key <- zero_map,
                                 Depths <- 0 .. MaxChain

\* The frame of a call dfs(input, depth, layer): depth is its height in the
\* stack, "staged" the rest of its part of staged_branches.  (The parts of two
\* calls may overlap by the lanes past the end of a row: PaddingIsNotTaken.)
Frame(map, layer) == [map |-> map, layer |-> layer, staged |-> {}]

Top == stack[Len(stack)]
Depth == Len(stack) - 1

Tab == Table[GroupOf(request)]
LayerIds == DOMAIN Tab.layers
TopLayer == Tab.layers[Top.layer]

\* The vector a lane is in.
Quad(lane) == lane \div MAP_ARRAY_ALIGNMENT

LaneMap(layer, lane) == MapOf(Tab, layer, lane)

\* next_layers[lane]: a lane past the end of a row gives an entry of the row
\* behind it.  What lies past the end of the array may be any pointer, to a
\* layer or to nothing; only the goals PaddingIsNotTaken leaves out could be
\* led there, and those of the runs are not.
InsideArray(layer, lane) ==
  layer.next_layers + lane < Len(Tab.next_layer_array)

NextLayers(layer, lane) ==
  IF InsideArray(layer, lane)
  THEN {Tab.next_layer_array[layer.next_layers + lane + 1]}
  ELSE LayerIds

-----------------------------------------------------------------------------
Init ==
  /\ pc = "idle"
  /\ request \in Requests
  /\ accuracy = REDUCED
  /\ max_depth = 0 /\ bfs_depth = 0
  /\ stack = <<>>
  /\ chain = [d \in 0 .. MaxChain |-> Unset]
  /\ length = 0 /\ result = 0
  /\ MainCache!cache_init
  /\ stale = Slots
  /\ trail = <<identity>>

\* Another call of solve, with a fresh output array.
NewRequest(r) ==
  /\ pc = "done"
  /\ pc' = "idle"
  /\ request' = r
  /\ chain' = [d \in 0 .. MaxChain |-> Unset]
  /\ length' = 0 /\ result' = 0 /\ trail' = <<identity>>
  /\ UNCHANGED <<accuracy, max_depth, bfs_depth, stack, cacheVars, stale>>

Capped(depth) == IF depth < 0 \/ depth > MaxChain THEN MaxChain ELSE depth

\* init() knows two kinds of request.
RefuseType ==
  /\ pc = "idle"
  /\ request.solve_type = "unknown"
  /\ pc' = "done" /\ result' = request.max_depth + 1
  /\ UNCHANGED <<searchVars, bfs_depth, stack, chain, length, trail,
                 cacheVars, stale>>

\* A goal whose minima are all 0 is answered without a search, by the layer
\* 0x2f0, which outputs nothing but 0.
AnswerZero ==
  /\ pc = "idle"
  /\ request.solve_type # "unknown"
  /\ mins(request.goal) = zero_map
  /\ pc' = "done" /\ result' = 1
  /\ chain' = [chain EXCEPT ![0] = Config(2, N - 1, 0)]
  /\ trail' = <<identity, LayerMap(Config(2, N - 1, 0))>>
  /\ UNCHANGED <<searchVars, bfs_depth, stack, length, cacheVars, stale>>

StartPresearch ==
  /\ pc = "idle"
  /\ request.solve_type # "unknown"
  /\ mins(request.goal) # zero_map
  /\ pc' = "iterate"
  /\ accuracy' = REDUCED
  /\ max_depth' = Capped(request.max_depth)
  /\ bfs_depth' = 1
  /\ UNCHANGED <<request, stack, answerVars, cacheVars, stale>>

-----------------------------------------------------------------------------
(* single_search_inner: iterations of growing depth.                       *)
StartIteration ==
  /\ pc = "iterate" /\ bfs_depth <= max_depth
  /\ pc' = "visit"
  /\ stack' = <<Frame(identity, 0)>>
  /\ stale' = {s \in Slots : array[s].trial = global_trial}
  /\ UNCHANGED <<searchVars, bfs_depth, answerVars, cacheVars>>

\* Mutated form: a failed search returns the bound itself.
GiveUpAtTheBound ==
  /\ pc = "iterate" /\ bfs_depth > max_depth
  /\ pc' = "returned"
  /\ length' = max_depth
  /\ UNCHANGED <<searchVars, bfs_depth, stack, chain, result, trail,
                 cacheVars, stale>>

\* Every iteration has failed.
GiveUp ==
  /\ pc = "iterate" /\ bfs_depth > max_depth
  /\ pc' = "returned"
  /\ length' = max_depth + 1
  /\ UNCHANGED <<searchVars, bfs_depth, stack, chain, result, trail,
                 cacheVars, stale>>

\* Mutated forms: the iteration is repeated; its cache entries stay valid.
FailIterationAgain ==
  /\ pc = "expand" /\ Len(stack) = 1 /\ Top.staged = {}
  /\ pc' = "iterate"
  /\ stack' = <<>>
  /\ MainCache!invalidate_cache
  /\ UNCHANGED <<searchVars, bfs_depth, answerVars, stale>>

FailIterationKeepingCache ==
  /\ pc = "expand" /\ Len(stack) = 1 /\ Top.staged = {}
  /\ pc' = "iterate"
  /\ bfs_depth' = bfs_depth + 1
  /\ stack' = <<>>
  /\ UNCHANGED <<searchVars, answerVars, cacheVars, stale>>

\* An iteration that fails invalidates the cache.  One that succeeds does
\* not: what it leaves is met by the next search.
FailIteration ==
  /\ pc = "expand" /\ Len(stack) = 1 /\ Top.staged = {}
  /\ pc' = "iterate"
  /\ bfs_depth' = bfs_depth + 1
  /\ stack' = <<>>
  /\ MainCache!invalidate_cache
  /\ UNCHANGED <<searchVars, answerVars, stale>>

-----------------------------------------------------------------------------
(* dfs.  The calls on the stack return 1 one after the other, each writing *)
(* the config of the layer it went on with: "found" is that, in one step.  *)
Found(maps, configs) ==
  /\ pc' = "returned"
  /\ length' = Len(configs)
  /\ chain' = [d \in 0 .. MaxChain |->
                 IF d < Len(configs) THEN configs[d + 1] ELSE chain[d]]
  /\ trail' = maps
  /\ stack' = <<>>

\* The layers the calls above the first one were entered with, and the maps.
PathMaps == [k \in 1 .. Len(stack) |-> stack[k].map]
PathConfigs ==
  [k \in 1 .. Len(stack) - 1 |-> Tab.layers[stack[k + 1].layer].config]

\* The map is a solution already.
FindHere ==
  /\ pc = "visit"
  /\ test_map(request.goal, Top.map)
  /\ Found(PathMaps, PathConfigs)
  /\ UNCHANGED <<searchVars, bfs_depth, result, cacheVars, stale>>

\* Lanes of the row whose layer completes a solution.
FinishingLanes ==
  {lane \in Lanes(TopLayer) :
     test_map(request.goal, apply_mapping(Top.map, LaneMap(TopLayer, lane)))}

\* fast_last_layer_search: the vectors are tried from the last one back, the
\* lanes of one in order.
FindLast ==
  /\ pc = "visit"
  /\ ~ test_map(request.goal, Top.map)
  /\ Depth = bfs_depth - 1
  /\ \E lane \in FinishingLanes :
       /\ \A other \in FinishingLanes :
            \/ Quad(lane) > Quad(other)
            \/ Quad(lane) = Quad(other) /\ lane <= other
       /\ \E next \in NextLayers(TopLayer, lane) :
            Found(Append(PathMaps, apply_mapping(Top.map, Tab.layers[next].map)),
                  Append(PathConfigs, Tab.layers[next].config))
  /\ UNCHANGED <<searchVars, bfs_depth, result, cacheVars, stale>>

\* A call whose last layer fails has nothing staged: it returns 0.
MissLast ==
  /\ pc = "visit"
  /\ ~ test_map(request.goal, Top.map)
  /\ Depth = bfs_depth - 1
  /\ FinishingLanes = {}
  /\ pc' = "expand"
  /\ UNCHANGED <<searchVars, bfs_depth, stack, answerVars, cacheVars, stale>>

\* batch_apply_and_check_exact: the lanes whose map may still reach the goal.
StagedLanes ==
  {lane \in Lanes(TopLayer) :
     legal_dist(request.goal, apply_mapping(Top.map, LaneMap(TopLayer, lane)),
                get_dist_threshold(accuracy, GroupOf(request),
                                   bfs_depth - Depth - 1))}

Stage ==
  /\ pc = "visit"
  /\ ~ test_map(request.goal, Top.map)
  /\ Depth < bfs_depth - 1
  /\ pc' = "expand"
  /\ stack' = [stack EXCEPT ![Len(stack)].staged = StagedLanes]
  /\ UNCHANGED <<searchVars, bfs_depth, answerVars, cacheVars, stale>>

\* The lanes are staged from the last one down and taken from the end.
IsNextLane(lane) == \A other \in Top.staged : lane <= other

Unstage(lane) == [stack EXCEPT ![Len(stack)].staged = @ \ {lane}]

\* The next layer leads to a map the cache knows.
Skip ==
  /\ pc = "expand"
  /\ \E lane \in Top.staged :
       /\ IsNextLane(lane)
       /\ \E next \in NextLayers(TopLayer, lane) :
            MainCache!cache_check_hit(
              apply_mapping(Top.map, Tab.layers[next].map), Depth)
       /\ stack' = Unstage(lane)
  /\ UNCHANGED <<pc, searchVars, bfs_depth, answerVars, stale>>

\* It leads to a map it does not know: dfs calls itself.
Descend ==
  /\ pc = "expand"
  /\ \E lane \in Top.staged :
       /\ IsNextLane(lane)
       /\ \E next \in NextLayers(TopLayer, lane) :
            LET output == apply_mapping(Top.map, Tab.layers[next].map)
            IN  /\ MainCache!cache_check_miss(output, Depth)
                /\ stack' = Append(Unstage(lane), Frame(output, next))
                /\ stale' = stale \ {Slot(output)}
  /\ pc' = "visit"
  /\ UNCHANGED <<searchVars, bfs_depth, answerVars>>

Return0 ==
  /\ pc = "expand" /\ Len(stack) > 1 /\ Top.staged = {}
  /\ stack' = SubSeq(stack, 1, Len(stack) - 1)
  /\ UNCHANGED <<pc, searchVars, bfs_depth, answerVars, cacheVars, stale>>

-----------------------------------------------------------------------------
(* The rest of solve().  Only the presearch runs with reduced accuracy: a  *)
(* request for that accuracy has no main search.                           *)
InPresearch == accuracy = REDUCED

\* Mutated form: also for something as long.
StartMainSearchAsLong ==
  /\ pc = "returned" /\ InPresearch /\ request.accuracy # REDUCED
  /\ pc' = "iterate"
  /\ accuracy' = request.accuracy
  /\ max_depth' = length
  /\ bfs_depth' = 1
  /\ UNCHANGED <<request, stack, answerVars, cacheVars, stale>>

\* The main search looks for something shorter than the presearch found.
StartMainSearch ==
  /\ pc = "returned" /\ InPresearch /\ request.accuracy # REDUCED
  /\ pc' = "iterate"
  /\ accuracy' = request.accuracy
  /\ max_depth' = length - 1
  /\ bfs_depth' = 1
  /\ UNCHANGED <<request, stack, answerVars, cacheVars, stale>>

ReturnPresearch ==
  /\ pc = "returned" /\ InPresearch /\ request.accuracy = REDUCED
  /\ pc' = "done" /\ result' = length
  /\ UNCHANGED <<searchVars, bfs_depth, stack, chain, length, trail,
                 cacheVars, stale>>

ReturnMainSearch ==
  /\ pc = "returned" /\ ~ InPresearch
  /\ pc' = "done"
  /\ result' = IF length > Capped(request.max_depth)
               THEN request.max_depth + 1 ELSE length
  /\ UNCHANGED <<searchVars, bfs_depth, stack, chain, length, trail,
                 cacheVars, stale>>

SolveStep ==
  \/ RefuseType \/ AnswerZero \/ StartPresearch
  \/ StartIteration \/ GiveUp \/ FailIteration
  \/ FindHere \/ FindLast \/ MissLast \/ Stage
  \/ Skip \/ Descend \/ Return0
  \/ StartMainSearch \/ ReturnPresearch \/ ReturnMainSearch

Next == SolveStep \/ \E r \in Requests : NewRequest(r)

\* solve() runs to its end once called; nobody has to call it again.
Spec == Init /\ [][Next]_vars /\ WF_vars(SolveStep)

-----------------------------------------------------------------------------
Frames == [map : Maps, layer : LayerIds, staged : SUBSET Nat]

(* Type invariant. *)
TypeOK ==
  /\ pc \in {"idle", "iterate", "visit", "expand", "returned", "done"}
  /\ request \in Requests
  /\ accuracy \in Accuracies
  /\ max_depth \in -1 .. MaxChain   \* -1: nothing is shorter than the identity
  /\ bfs_depth \in 0 .. MaxChain + 1
  /\ stack \in Seq(Frames)
  /\ chain \in [0 .. MaxChain -> Configs \cup {Unset}]
  /\ length \in 0 .. MaxChain + 1
  /\ result \in Int
  /\ array \in [Slots -> MainCache!Entries]
  /\ global_trial \in MainCache!Trials
  /\ stale \subseteq Slots
  /\ trail \in Seq(Maps)

\* The first n configs are layers that take the identity, map by map along
\* the given maps, to one the goal accepts.
ChainMeets(goal, configs, maps, n) ==
  /\ Len(maps) = n + 1
  /\ maps[1] = identity
  /\ \A d \in 0 .. n - 1 :
       /\ configs[d] \in Configs
       /\ maps[d + 2] = apply_mapping(maps[d + 1], LayerMap(configs[d]))
  /\ test_map(goal, maps[n + 1])

\* A length that hlp_print_search accepts, because it is not beyond the bound
\* asked for, is the length of a chain in output_chain that computes the goal:
\* the one just found, or the presearch's if the main search found nothing
\* shorter.  (False of a fast search that fails although its bound was beyond
\* the one searched, see FailsUnseen.)
SoundAnswer ==
  pc = "done" /\ result <= request.max_depth =>
    ChainMeets(request.goal, chain, trail, result)

\* A search of reduced accuracy that fails returns one more than the bound it
\* searched, which is not beyond the bound asked for if that was capped.
FailsUnseen ==
  /\ request.accuracy = REDUCED
  /\ result = Capped(request.max_depth) + 1
  /\ result <= request.max_depth

\* solve_lua makes no such test: whatever is returned is the length of the
\* chain a script gets.
ScriptsGetChains == pc = "done" => ChainMeets(request.goal, chain, trail, result)

\* solve() keeps its promise to the callers.
Solver == INSTANCE HlpSolver WITH
  reply <- IF pc = "done"
           THEN [length |-> result, chain |-> [k \in 1 .. MaxChain + 1 |-> chain[k - 1]]]
           ELSE none

ImplementsSolver == Solver!Spec

\* A map is skipped because this very iteration went on from it at the same
\* depth or nearer the root, never because of an entry of an earlier
\* iteration, an earlier search or an earlier call, nor of a blank one.
NoStaleHit ==
  pc = "expand" =>
    \A lane \in Top.staged : IsNextLane(lane) =>
      \A next \in NextLayers(TopLayer, lane) :
        LET output == apply_mapping(Top.map, Tab.layers[next].map)
        IN  MainCache!Hit(output, Depth) => Slot(output) \notin stale

\* staged_branches is one block for all calls: a call's part starts behind
\* the rows of the calls below it.
StagingStart ==
  LET start[k \in 0 .. Len(stack) - 1] ==
        IF k = 0 THEN 0
                 ELSE start[k - 1] + Tab.layers[stack[k].layer].next_layer_count
  IN  start[Len(stack) - 1]

\* Mutated form: room for a single row.
OneRowOfStaging == Tab.layers[0].next_layer_count

StagingSpace == bfs_depth * Tab.layers[0].next_layer_count

\* The filter writes the number of every lane and moves on behind the legal
\* ones, lane 0 last: no write is past the block single_search_inner
\* allocated, though the rows on the stack have different lengths.
StagingFits ==
  pc = "visit" /\ Depth < bfs_depth - 1 =>
    StagingStart + Cardinality(StagedLanes \cup {0}) <= StagingSpace

\* The vectors cover more lanes than a row has, and a lane past its end
\* stands for a layer of another row.  No such lane is ever followed: what it
\* computes is 0, and a goal that this could still fit is 0, and answered
\* earlier, or has one output only.  Then the lane is staged, but behind one
\* of the row that leads to the goal.  (Wildcards in an exact goal, which only
\* Lua makes, count as outputs of 0.  Then no layer with one output is in the
\* table, and lanes past the end are followed.)  Nor does a call stage lanes
\* while one below it still holds such a lane: the part of staged_branches
\* that a call gets begins behind the row of its caller, so that what the
\* caller has left to take stays what it staged.
PaddingIsNotTaken ==
  (OneOutput(request.goal) => GroupOf(request) = 1) =>
    /\ pc = "expand" =>
         \A lane \in Top.staged : IsNextLane(lane) => lane < TopLayer.next_layer_count
    /\ pc = "visit" /\ Depth = bfs_depth - 1 /\ ~ test_map(request.goal, Top.map) =>
         \A lane \in FinishingLanes : lane < TopLayer.next_layer_count
    /\ pc = "visit" /\ Depth < bfs_depth - 1 =>
         \A k \in 1 .. Len(stack) - 1 : \A lane \in stack[k].staged :
           lane < Tab.layers[stack[k].layer].next_layer_count

-----------------------------------------------------------------------------
(* The inductive invariant behind SoundAnswer.                             *)

\* Requests for reduced accuracy keep to the bound the program searches.
BoundsAreSearched ==
  \A r \in Requests : r.accuracy = REDUCED => r.max_depth <= MaxChain

\* dfs is running when there are calls of it, never deeper than the iteration.
StackIsBounded ==
  /\ pc \in {"visit", "expand"} <=> Len(stack) > 0
  /\ Len(stack) > 0 =>
       /\ Len(stack) <= bfs_depth
       /\ bfs_depth <= max_depth
       /\ Top.staged # {} => Len(stack) < bfs_depth

\* Each call's map is that of the call below it run through its layer.
StackIsChain ==
  Len(stack) > 0 =>
    /\ stack[1].map = identity
    /\ \A k \in 1 .. Len(stack) - 1 :
         stack[k + 1].map =
           apply_mapping(stack[k].map, Tab.layers[stack[k + 1].layer].map)

\* While solve() searches its bound is the caller's, or what the presearch
\* found: then output_chain holds that.
BoundIsJustified ==
  pc \in {"iterate", "visit", "expand", "returned"} =>
    /\ request.solve_type # "unknown"
    /\ mins(request.goal) # zero_map
    /\ bfs_depth >= 1
    /\ max_depth <= Capped(request.max_depth)
    /\ InPresearch => max_depth = Capped(request.max_depth)
    /\ ~ InPresearch /\ pc # "returned" /\ max_depth < Capped(request.max_depth) =>
         ChainMeets(request.goal, chain, trail, max_depth + 1)

\* A search returns the length of a chain, or one more than the caller's bound.
ReturnIsBounded == pc = "returned" => length <= Capped(request.max_depth) + 1

ReturnIsJustified ==
  pc = "returned" /\ length <= Capped(request.max_depth) =>
    ChainMeets(request.goal, chain, trail, length)

\* Every answer that is accepted is the length of a chain, but for the one
\* failure the caller does not see.
AnswerIsJustified ==
  pc = "done" /\ result <= request.max_depth =>
    \/ result <= MaxChain /\ ChainMeets(request.goal, chain, trail, result)
    \/ FailsUnseen

SearchInv ==
  TypeOK /\ StackIsBounded /\ StackIsChain /\ BoundIsJustified
         /\ ReturnIsBounded /\ ReturnIsJustified /\ AnswerIsJustified

=============================================================================
