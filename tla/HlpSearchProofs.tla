-------------------------- MODULE HlpSearchProofs --------------------------
(***************************************************************************)
(* For every number of signal strengths, every table that is what          *)
(* precompute_hex_layers promises, every cache and every request: solve()  *)
(* keeps its types, and a length its caller accepts is the length of a     *)
(* chain that computes the goal.                                           *)
(***************************************************************************)
EXTENDS HlpSearch, RedstoneProofs, SequenceTheorems

-----------------------------------------------------------------------------
(* Requests and tables.                                                    *)

LEMMA RequestFacts ==
  ASSUME NEW r \in Requests
  PROVE  /\ IsRequest(r) /\ IsTable(Table[GroupOf(r)])
         /\ r.max_depth \in Int
         /\ r.accuracy \in Accuracies
BY SearchAssumption DEF IsRequest

\* The bound of a search is one of the program.
LEMMA CappedFacts ==
  ASSUME NEW depth \in Int
  PROVE  /\ Capped(depth) \in 0 .. MaxChain
         /\ depth >= 0 /\ depth <= MaxChain => Capped(depth) = depth
         /\ depth > MaxChain => Capped(depth) = MaxChain
BY SearchAssumption DEF Capped

LEMMA TableFacts ==
  ASSUME request \in Requests
  PROVE  /\ 0 \in LayerIds /\ Tab.layers[0].map = identity
         /\ Tab.next_layer_array \in Seq(LayerIds)
         /\ \A i \in LayerIds :
              /\ Tab.layers[i].config \in Configs
              /\ Tab.layers[i].map = LayerMap(Tab.layers[i].config)
              /\ Tab.layers[i].map \in Maps
              /\ Tab.layers[i].next_layers \in Nat
              /\ Tab.layers[i].next_layer_count \in Nat
              /\ IsRow(Tab, Tab.layers[i])
<1>1. IsTable(Tab)
  BY RequestFacts DEF Tab
<1> QED
  BY <1>1, LayerMapType DEF IsTable, IsLayer, LayerIds

\* Whatever lane is followed, it leads to a layer.
LEMMA NextIsLayer ==
  ASSUME request \in Requests, NEW i \in LayerIds,
         NEW lane \in Nat, NEW next \in NextLayers(Tab.layers[i], lane)
  PROVE  next \in LayerIds
<1>1. CASE InsideArray(Tab.layers[i], lane)
  <2>1. /\ Tab.layers[i].next_layers \in Nat
        /\ Tab.next_layer_array \in Seq(LayerIds)
    BY TableFacts
  <2>2. Tab.layers[i].next_layers + lane + 1 \in 1 .. Len(Tab.next_layer_array)
    BY <1>1, <2>1 DEF InsideArray
  <2> QED
    BY <1>1, <2>1, <2>2 DEF NextLayers
<1>2. CASE ~ InsideArray(Tab.layers[i], lane)
  BY <1>2 DEF NextLayers
<1> QED
  BY <1>1, <1>2

\* A goal that is not 0 wherever it is determined is not met by the map 0.
LEMMA ZeroGoal ==
  ASSUME NEW goal \in Goals, test_map(goal, zero_map)
  PROVE  mins(goal) = zero_map
<1> SUFFICES ASSUME NEW v \in Values
             PROVE (IF goal[v] = Wild THEN 0 ELSE goal[v]) = 0
  BY DEF mins, zero_map
<1>1. goal[v] # Wild => zero_map[v] = goal[v]
  BY DEF test_map, Determined, Goals
<1> QED
  BY <1>1 DEF zero_map

\* The layer that fast_last_layer_search takes completes a solution: the lane
\* it found is not one that only pads the row.
LEMMA LastLayerSolves ==
  ASSUME request \in Requests, mins(request.goal) # zero_map,
         NEW map \in Maps, NEW i \in LayerIds,
         NEW lane \in Lanes(Tab.layers[i]),
         test_map(request.goal, apply_mapping(map, LaneMap(Tab.layers[i], lane))),
         NEW next \in NextLayers(Tab.layers[i], lane)
  PROVE  test_map(request.goal, apply_mapping(map, Tab.layers[next].map))
<1> DEFINE layer == Tab.layers[i]
<1>1. IsRow(Tab, layer)
  BY TableFacts
<1>2. request.goal \in Goals
  BY RequestFacts DEF IsRequest
<1>3. lane < layer.next_layer_count
  <2> SUFFICES ASSUME ~ lane < layer.next_layer_count PROVE FALSE
    OBVIOUS
  <2>1. LaneMap(layer, lane) = zero_map
    BY <1>1 DEF IsRow, LaneMap, MapOf
  <2>2. apply_mapping(map, zero_map) = zero_map
    BY DEF apply_mapping, zero_map, Maps
  <2> QED
    BY <1>2, <2>1, <2>2, ZeroGoal
<1>4. LaneMap(layer, lane) =
        Tab.layers[Tab.next_layer_array[layer.next_layers + lane + 1]].map
  BY <1>1, <1>3 DEF IsRow, LaneMap, MapOf
<1>5. InsideArray(layer, lane)
  <2>1. layer.next_layers \in Nat /\ layer.next_layer_count \in Nat
    BY TableFacts
  <2>2. layer.next_layers + layer.next_layer_count <= Len(Tab.next_layer_array)
    BY <1>1 DEF IsRow
  <2>3. lane \in Int /\ Len(Tab.next_layer_array) \in Nat
    BY TableFacts DEF Lanes
  <2> QED
    BY <1>3, <2>1, <2>2, <2>3 DEF InsideArray
<1>6. next = Tab.next_layer_array[layer.next_layers + lane + 1]
  BY <1>5 DEF NextLayers
<1> QED
  BY <1>4,<1>6

-----------------------------------------------------------------------------
(* The cache.                                                              *)

CacheType == array \in [Slots -> MainCache!Entries] /\ global_trial \in MainCache!Trials

LEMMA InvalidateType ==
  ASSUME CacheType, MainCache!invalidate_cache
  PROVE  CacheType'
<1>1. MainCache!blank \in MainCache!Entries
  BY IdentityType, SearchAssumption
     DEF MainCache!blank, MainCache!Entries, MainCache!Trials
<1>2. 1 \in MainCache!Trials
  BY SearchAssumption DEF MainCache!Trials
<1>3. global_trial + 1 < TrialLimit => global_trial + 1 \in MainCache!Trials
  BY SearchAssumption DEF CacheType, MainCache!Trials
<1> QED
  BY <1>1, <1>2, <1>3 DEF CacheType, MainCache!invalidate_cache

LEMMA StoreType ==
  ASSUME CacheType, NEW map \in Maps, NEW depth \in 0 .. MaxChain,
         MainCache!cache_check_miss(map, depth)
  PROVE  CacheType'
<1>1. [value |-> map, depth |-> depth, trial |-> global_trial] \in MainCache!Entries
  BY DEF CacheType, MainCache!Entries
<1> QED
  BY <1>1 DEF CacheType, MainCache!cache_check_miss, MainCache!Store

-----------------------------------------------------------------------------
(* Initial states.                                                         *)

LEMMA InitInv == Init => SearchInv
<1> SUFFICES ASSUME Init PROVE SearchInv
  OBVIOUS
<1>1. MaxChain \in Nat /\ MaxChain >= 1
  BY SearchAssumption
<1>2. CacheType
  <2>1. MainCache!blank \in MainCache!Entries
    BY IdentityType, SearchAssumption
       DEF MainCache!blank, MainCache!Entries, MainCache!Trials
  <2> QED
    BY <2>1, SearchAssumption DEF Init, MainCache!cache_init, CacheType, MainCache!Trials
<1>3. stack = <<>> /\ pc = "idle"
  BY DEF Init
<1>4. TypeOK
  BY <1>1, <1>2, IdentityType DEF Init, TypeOK, CacheType, Accuracies, REDUCED, PERFECT
<1> QED
  BY <1>3, <1>4
     DEF SearchInv, StackIsBounded, StackIsChain, BoundIsJustified, ReturnIsBounded,
         ReturnIsJustified, AnswerIsJustified

-----------------------------------------------------------------------------
(* The steps that leave the calls of dfs alone.                            *)

\* The calls of dfs, while request and stack stay.
LEMMA StackUnchanged ==
  ASSUME StackIsChain, UNCHANGED <<stack, request>>
  PROVE  StackIsChain' /\ Frames' = Frames /\ Top' = Top
BY DEF StackIsChain, Frames, LayerIds, Tab, Top

LEMMA NewRequestInv ==
  ASSUME SearchInv, NEW r \in Requests, NewRequest(r)
  PROVE  SearchInv'
<1> USE DEF NewRequest
<1>1. MaxChain \in Nat
  BY SearchAssumption
<1>2. stack' = <<>> /\ pc' = "idle" /\ stack = <<>>
  <2>1. stack \in Seq(Frames) /\ ~ Len(stack) > 0
    BY DEF SearchInv, TypeOK, StackIsBounded
  <2> QED
    BY <2>1
<1>3. TypeOK'
  BY <1>1, <1>2, IdentityType DEF SearchInv, TypeOK, cacheVars
<1> QED
  BY <1>2, <1>3
     DEF SearchInv, StackIsBounded, StackIsChain, BoundIsJustified, ReturnIsBounded,
         ReturnIsJustified, AnswerIsJustified

LEMMA RefuseTypeInv ==
  ASSUME SearchInv, RefuseType
  PROVE  SearchInv'
<1> USE DEF RefuseType
<1>1. stack' = stack /\ stack = <<>> /\ pc' = "done"
  <2>1. stack \in Seq(Frames) /\ ~ Len(stack) > 0
    BY DEF SearchInv, TypeOK, StackIsBounded
  <2> QED
    BY <2>1
<1>2. request.max_depth \in Int
  BY RequestFacts DEF SearchInv, TypeOK
<1>3. TypeOK'
  BY <1>1, <1>2 DEF SearchInv, TypeOK, searchVars, cacheVars
<1>4. AnswerIsJustified'
  BY <1>2 DEF AnswerIsJustified, searchVars
<1> QED
  BY <1>1, <1>3, <1>4
     DEF SearchInv, StackIsBounded, StackIsChain, BoundIsJustified, ReturnIsBounded, ReturnIsJustified

LEMMA AnswerZeroInv ==
  ASSUME SearchInv, AnswerZero
  PROVE  SearchInv'
<1> USE DEF AnswerZero
<1> DEFINE zero == Config(2, N - 1, 0)
<1>1. stack' = stack /\ stack = <<>> /\ pc' = "done" /\ result' = 1
  <2>1. stack \in Seq(Frames) /\ ~ Len(stack) > 0
    BY DEF SearchInv, TypeOK, StackIsBounded
  <2> QED
    BY <2>1
<1>2. /\ MaxChain \in Nat /\ MaxChain >= 1
      /\ chain \in [0 .. MaxChain -> Configs \cup {Unset}]
  BY SearchAssumption DEF SearchInv, TypeOK
<1>3. zero \in Configs /\ LayerMap(zero) = zero_map
  BY ZeroLayer
<1> HIDE DEF zero
<1>4. chain' = [chain EXCEPT ![0] = zero] /\ trail' = <<identity, zero_map>>
  BY <1>3 DEF zero
<1>5. TypeOK'
  <2>1. chain' \in [0 .. MaxChain -> Configs \cup {Unset}]
    BY <1>2, <1>3, <1>4
  <2>2. trail' \in Seq(Maps)
    BY <1>4, IdentityType
  <2> QED
    BY <1>1, <2>1, <2>2 DEF SearchInv, TypeOK, searchVars, cacheVars
<1>6. ChainMeets(request'.goal, chain', trail', 1)
  <2>1. chain'[0] = zero
    BY <1>2, <1>4
  <2>2. apply_mapping(identity, zero_map) = zero_map
    <3>1. 0 \in Values
      BY NAssumption DEF Values
    <3> QED
      BY <3>1 DEF apply_mapping, identity, zero_map
  <2>3. test_map(request.goal, zero_map)
    <3>0. request.goal \in Goals
      BY SearchAssumption DEF SearchInv, TypeOK, IsRequest
    <3> SUFFICES ASSUME NEW v \in Values, request.goal[v] # Wild
                 PROVE  zero_map[v] = request.goal[v]
      BY <3>0 DEF test_map, Determined, Goals
    <3>1. mins(request.goal)[v] = request.goal[v]
      BY DEF mins
    <3> QED
      BY <3>1
  <2>4. Len(trail') = 2 /\ trail'[1] = identity /\ trail'[2] = zero_map
    BY <1>4
  <2>5. request' = request
    BY DEF searchVars
  <2> QED
    BY <1>3, <2>1, <2>2, <2>3, <2>4, <2>5 DEF ChainMeets
<1>7. AnswerIsJustified'
  <2>1. 1 <= MaxChain
    BY SearchAssumption
  <2> QED
    BY <1>1, <1>6, <2>1 DEF AnswerIsJustified
<1> QED
  BY <1>1, <1>5, <1>7
     DEF SearchInv, StackIsBounded, StackIsChain, BoundIsJustified, ReturnIsBounded, ReturnIsJustified

LEMMA StartPresearchInv ==
  ASSUME SearchInv, StartPresearch
  PROVE  SearchInv'
<1> USE DEF StartPresearch
<1>1. stack' = stack /\ stack = <<>> /\ pc' = "iterate"
  <2>1. stack \in Seq(Frames) /\ ~ Len(stack) > 0
    BY DEF SearchInv, TypeOK, StackIsBounded
  <2> QED
    BY <2>1
<1>2. /\ MaxChain \in Nat /\ MaxChain >= 1
      /\ Capped(request.max_depth) \in 0 .. MaxChain
  BY SearchAssumption, RequestFacts, CappedFacts DEF SearchInv, TypeOK
<1>3. TypeOK'
  BY <1>1, <1>2 DEF SearchInv, TypeOK, answerVars, cacheVars, Accuracies, REDUCED, PERFECT
<1>4. BoundIsJustified'
  BY <1>1, <1>2 DEF BoundIsJustified, InPresearch
<1> QED
  BY <1>1, <1>3, <1>4
     DEF SearchInv, StackIsBounded, StackIsChain, ReturnIsBounded, ReturnIsJustified, AnswerIsJustified

LEMMA StartIterationInv ==
  ASSUME SearchInv, StartIteration
  PROVE  SearchInv'
<1> USE DEF StartIteration
<1> DEFINE frame == Frame(identity, 0)
<1>1. request' = request /\ request \in Requests
  BY DEF SearchInv, TypeOK, searchVars
<1>2. Frames' = Frames /\ LayerIds' = LayerIds
  BY <1>1 DEF Frames, LayerIds, Tab
<1>3. frame \in Frames /\ frame.map = identity /\ frame.staged = {}
  BY <1>1, IdentityType, TableFacts DEF Frame, Frames
<1> HIDE DEF frame
<1>4. stack' = <<frame>> /\ pc' = "visit"
  BY DEF frame
<1>5. Len(stack') = 1 /\ stack'[1] = frame /\ Top' = frame
  BY <1>4 DEF Top
<1>6. TypeOK'
  <2>1. stack' \in Seq(Frames')
    BY <1>2, <1>3, <1>4
  <2> QED
    BY <2>1 DEF SearchInv, TypeOK, searchVars, answerVars, cacheVars
<1>7. StackIsBounded'
  <2>1. bfs_depth >= 1 /\ bfs_depth \in Int
    BY SearchAssumption DEF SearchInv, BoundIsJustified, TypeOK
  <2> QED
    BY <1>3, <1>4, <1>5, <2>1 DEF StackIsBounded, searchVars
<1>8. StackIsChain'
  BY <1>3, <1>5 DEF StackIsChain
<1>9. BoundIsJustified'
  BY <1>1 DEF SearchInv, BoundIsJustified, searchVars, answerVars, InPresearch
<1> QED
  BY <1>4, <1>6, <1>7, <1>8, <1>9 DEF SearchInv, ReturnIsBounded, ReturnIsJustified, AnswerIsJustified

\* The main search failed: the presearch's chain is still there.
LEMMA GiveUpInv ==
  ASSUME SearchInv, GiveUp
  PROVE  SearchInv'
<1> USE DEF GiveUp
<1>1. stack' = stack /\ stack = <<>> /\ pc' = "returned"
  <2>1. stack \in Seq(Frames) /\ ~ Len(stack) > 0
    BY DEF SearchInv, TypeOK, StackIsBounded
  <2> QED
    BY <2>1
<1>2. request' = request /\ max_depth' = max_depth /\ accuracy' = accuracy
  BY DEF searchVars
<1>3. max_depth \in -1 .. MaxChain /\ MaxChain \in Nat
  BY SearchAssumption DEF SearchInv, TypeOK
<1>4. Capped(request.max_depth) \in Int
  BY SearchAssumption, RequestFacts, CappedFacts DEF SearchInv, TypeOK
<1>5. TypeOK'
  BY <1>1, <1>3 DEF SearchInv, TypeOK, searchVars, cacheVars
<1>6. BoundIsJustified'
  BY <1>1, <1>2 DEF SearchInv, BoundIsJustified, InPresearch
<1>7. ReturnIsJustified'
  <2> SUFFICES ASSUME max_depth + 1 <= Capped(request.max_depth)
               PROVE  ChainMeets(request.goal, chain, trail, max_depth + 1)
    BY <1>2 DEF ReturnIsJustified
  <2>1. max_depth < Capped(request.max_depth)
    BY <1>3, <1>4
  <2>2. ~ InPresearch
    BY <1>3, <1>4, <2>1 DEF SearchInv, BoundIsJustified
  <2> QED
    BY <2>1, <2>2 DEF SearchInv, BoundIsJustified
<1>8. ReturnIsBounded'
  BY <1>1, <1>2, <1>3, <1>4 DEF SearchInv, BoundIsJustified, ReturnIsBounded
<1> QED
  BY <1>1, <1>5, <1>6, <1>7, <1>8 DEF SearchInv, StackIsBounded, StackIsChain, AnswerIsJustified

LEMMA FailIterationInv ==
  ASSUME SearchInv, FailIteration
  PROVE  SearchInv'
<1> USE DEF FailIteration
<1>1. stack' = <<>> /\ pc' = "iterate"
  OBVIOUS
<1>2. /\ bfs_depth \in Int /\ bfs_depth <= max_depth /\ bfs_depth >= 1
      /\ max_depth \in -1 .. MaxChain /\ MaxChain \in Nat
  BY SearchAssumption DEF SearchInv, TypeOK, StackIsBounded, BoundIsJustified
<1>3. CacheType'
  BY InvalidateType DEF SearchInv, TypeOK, CacheType
<1>4. TypeOK'
  <2>1. bfs_depth' \in 0 .. MaxChain + 1
    BY <1>2
  <2> QED
    BY <1>1, <1>3, <2>1 DEF SearchInv, TypeOK, CacheType, searchVars, answerVars
<1>5. BoundIsJustified'
  BY <1>1, <1>2 DEF SearchInv, BoundIsJustified, searchVars, answerVars, InPresearch
<1> QED
  BY <1>1, <1>4, <1>5
     DEF SearchInv, StackIsBounded, StackIsChain, ReturnIsBounded, ReturnIsJustified, AnswerIsJustified

\* The presearch's length becomes the bound, its chain what the bound means.
LEMMA StartMainSearchInv ==
  ASSUME SearchInv, StartMainSearch
  PROVE  SearchInv'
<1> USE DEF StartMainSearch
<1>1. stack' = stack /\ stack = <<>> /\ pc' = "iterate"
  <2>1. stack \in Seq(Frames) /\ ~ Len(stack) > 0
    BY DEF SearchInv, TypeOK, StackIsBounded
  <2> QED
    BY <2>1
<1>2. /\ length \in 0 .. MaxChain + 1 /\ MaxChain \in Nat /\ MaxChain >= 1
      /\ request \in Requests /\ request.accuracy \in Accuracies
  BY SearchAssumption, RequestFacts DEF SearchInv, TypeOK
<1>3. Capped(request.max_depth) \in 0 .. MaxChain
  BY <1>2, RequestFacts, CappedFacts
<1>4. TypeOK'
  BY <1>1, <1>2 DEF SearchInv, TypeOK, answerVars, cacheVars
<1>5. max_depth' <= Capped(request.max_depth)
  <2>1. length <= Capped(request.max_depth) + 1
    BY DEF SearchInv, ReturnIsBounded
  <2> QED
    BY <1>2, <1>3, <2>1
<1>6. ASSUME max_depth' < Capped(request.max_depth)
      PROVE  ChainMeets(request.goal, chain, trail, max_depth' + 1)
  <2>1. length <= Capped(request.max_depth) /\ max_depth' + 1 = length
    BY <1>2, <1>3, <1>6
  <2> QED
    BY <2>1 DEF SearchInv, ReturnIsJustified
<1>7. BoundIsJustified'
  BY <1>1, <1>2, <1>5, <1>6 DEF SearchInv, BoundIsJustified, InPresearch, answerVars
<1> QED
  BY <1>1, <1>4, <1>7
     DEF SearchInv, StackIsBounded, StackIsChain, ReturnIsBounded, ReturnIsJustified, AnswerIsJustified

LEMMA ReturnInv ==
  ASSUME SearchInv, ReturnPresearch \/ ReturnMainSearch
  PROVE  SearchInv'
<1> USE DEF ReturnPresearch, ReturnMainSearch
<1>1. stack' = stack /\ stack = <<>> /\ pc' = "done" /\ pc = "returned"
  <2>1. stack \in Seq(Frames) /\ ~ Len(stack) > 0
    BY DEF SearchInv, TypeOK, StackIsBounded
  <2> QED
    BY <2>1
<1>2. /\ length \in 0 .. MaxChain + 1 /\ MaxChain \in Nat
      /\ request \in Requests /\ request.max_depth \in Int
  BY SearchAssumption, RequestFacts DEF SearchInv, TypeOK
<1>3. UNCHANGED <<request, chain, trail>>
  BY DEF searchVars
<1>4. TypeOK'
  BY <1>1, <1>2 DEF SearchInv, TypeOK, searchVars, cacheVars
<1>5. AnswerIsJustified'
  <2> SUFFICES ASSUME result' <= request.max_depth, ~ FailsUnseen'
               PROVE  result' <= MaxChain /\ ChainMeets(request.goal, chain, trail, result')
    BY <1>3 DEF AnswerIsJustified
  <2>1. /\ Capped(request.max_depth) \in 0 .. MaxChain
        /\ length <= Capped(request.max_depth) + 1
    BY <1>1, <1>2, CappedFacts DEF SearchInv, ReturnIsBounded
  <2>2. result' = length
    BY <1>2
  <2>3. length <= Capped(request.max_depth)
    <3>1. CASE ReturnPresearch
      <4>1. /\ request'.accuracy = REDUCED
            /\ Capped(request'.max_depth) = Capped(request.max_depth)
            /\ result' <= request'.max_depth
        BY <1>3, <3>1
      <4>2. result' # Capped(request.max_depth) + 1
        BY <4>1 DEF FailsUnseen
      <4> QED
        BY <1>2, <2>1, <2>2, <4>2
    <3>2. CASE ReturnMainSearch
      BY <1>2, <2>1, <3>2
    <3> QED
      BY <3>1, <3>2
  <2> QED
    BY <1>1, <1>2, <2>1, <2>2, <2>3 DEF SearchInv, ReturnIsJustified
<1> QED
  BY <1>1, <1>4, <1>5
     DEF SearchInv, StackIsBounded, StackIsChain, BoundIsJustified, ReturnIsBounded, ReturnIsJustified

-----------------------------------------------------------------------------
(* The steps of dfs.                                                       *)

\* What is known while calls of dfs are on the stack.
LEMMA StackFacts ==
  ASSUME SearchInv, pc \in {"visit", "expand"}
  PROVE  /\ stack \in Seq(Frames) /\ Len(stack) \in Nat /\ Len(stack) >= 1
         /\ Top \in Frames /\ Top.map \in Maps /\ Top.layer \in LayerIds
         /\ Top.staged \in SUBSET Nat
         /\ Depth \in 0 .. MaxChain
         /\ Len(stack) <= bfs_depth /\ bfs_depth <= max_depth
         /\ bfs_depth \in Nat /\ max_depth \in Int /\ max_depth <= MaxChain
         /\ MaxChain \in Nat
         /\ request \in Requests
<1>1. /\ stack \in Seq(Frames) /\ Len(stack) > 0
      /\ Len(stack) <= bfs_depth /\ bfs_depth <= max_depth
  BY DEF SearchInv, TypeOK, StackIsBounded
<1>2. Len(stack) \in Nat /\ Top \in Frames
  BY <1>1 DEF Top
<1>3. /\ MaxChain \in Nat /\ request \in Requests
      /\ bfs_depth \in Nat /\ max_depth \in Int /\ max_depth <= MaxChain
  BY SearchAssumption DEF SearchInv, TypeOK
<1> QED
  BY <1>1, <1>2, <1>3 DEF Frames, Depth

\* A step that changes neither the bounds nor the answers.
LEMMA BoundUnchanged ==
  ASSUME BoundIsJustified, UNCHANGED <<searchVars, bfs_depth, answerVars>>,
         pc \in {"iterate", "visit", "expand"},
         pc' \in {"iterate", "visit", "expand"}
  PROVE  BoundIsJustified'
BY DEF BoundIsJustified, searchVars, answerVars, InPresearch

LEMMA MissLastInv ==
  ASSUME SearchInv, MissLast
  PROVE  SearchInv'
<1> USE DEF MissLast
<1>1. pc = "visit" /\ pc' = "expand"
  OBVIOUS
<1>2. UNCHANGED <<request, stack, bfs_depth, max_depth>>
  BY DEF searchVars
<1>3. TypeOK' /\ StackIsChain'
  BY <1>1, <1>2, StackUnchanged DEF SearchInv, TypeOK, searchVars, answerVars, cacheVars
<1>4. StackIsBounded'
  BY <1>1, <1>2 DEF SearchInv, StackIsBounded, Top
<1>5. BoundIsJustified'
  BY <1>1, BoundUnchanged DEF SearchInv
<1> QED
  BY <1>1, <1>3, <1>4, <1>5 DEF SearchInv, ReturnIsBounded, ReturnIsJustified, AnswerIsJustified

\* What becomes of the calls when the lanes staged by the last one change.
LEMMA StagedChanged ==
  ASSUME SearchInv, pc \in {"visit", "expand"}, UNCHANGED request,
         NEW lanes \in SUBSET Nat,
         stack' = [stack EXCEPT ![Len(stack)].staged = lanes]
  PROVE  /\ stack' \in Seq(Frames) /\ Frames' = Frames
         /\ Len(stack') = Len(stack)
         /\ Top' = [Top EXCEPT !.staged = lanes]
         /\ StackIsChain'
<1>1. /\ stack \in Seq(Frames) /\ Len(stack) \in Nat /\ Len(stack) >= 1
      /\ Top \in Frames
  BY StackFacts
<1>2. [Top EXCEPT !.staged = lanes] \in Frames
  BY <1>1 DEF Frames
<1>3. stack' = [stack EXCEPT ![Len(stack)] = [Top EXCEPT !.staged = lanes]]
  BY DEF Top
<1>4. /\ stack' \in Seq(Frames) /\ Len(stack') = Len(stack)
      /\ Top' = [Top EXCEPT !.staged = lanes]
  BY <1>1, <1>2, <1>3 DEF Top
<1>5. Frames' = Frames /\ Tab' = Tab
  BY DEF Frames, LayerIds, Tab
<1>6. ASSUME NEW k \in 1 .. Len(stack)
      PROVE  stack'[k].map = stack[k].map /\ stack'[k].layer = stack[k].layer
  <2>1. CASE k = Len(stack)
    BY <1>1, <1>3, <2>1 DEF Top, Frames
  <2>2. CASE k # Len(stack)
    BY <1>1, <1>3, <2>2
  <2> QED
    BY <2>1, <2>2
<1>7. StackIsChain'
  <2>1. stack'[1].map = identity
    BY <1>1, <1>6 DEF SearchInv, StackIsChain
  <2>2. ASSUME NEW k \in 1 .. Len(stack) - 1
        PROVE  stack'[k + 1].map =
                 apply_mapping(stack'[k].map, Tab.layers[stack'[k + 1].layer].map)
    BY <1>1, <1>6, <2>2 DEF SearchInv, StackIsChain
  <2> QED
    BY <1>1, <1>4, <1>5, <2>1, <2>2 DEF StackIsChain
<1> QED
  BY <1>4, <1>5, <1>7

LEMMA StageInv ==
  ASSUME SearchInv, Stage
  PROVE  SearchInv'
<1> USE DEF Stage
<1>1. /\ pc = "visit" /\ pc' = "expand"
      /\ UNCHANGED <<request, bfs_depth, max_depth>>
  BY DEF searchVars
<1>2. StagedLanes \in SUBSET Nat
  BY DEF StagedLanes, Lanes
<1>3. /\ stack' \in Seq(Frames) /\ Frames' = Frames
      /\ Len(stack') = Len(stack) /\ StackIsChain'
  BY <1>1, <1>2, StagedChanged
<1>4. TypeOK'
  BY <1>1, <1>3 DEF SearchInv, TypeOK, searchVars, answerVars, cacheVars
<1>5. StackIsBounded'
  <2>1. Len(stack) < bfs_depth
    BY StackFacts DEF Depth
  <2> QED
    BY <1>1, <1>3, <2>1 DEF SearchInv, StackIsBounded
<1>6. BoundIsJustified'
  BY <1>1, BoundUnchanged DEF SearchInv
<1> QED
  BY <1>1, <1>3, <1>4, <1>5, <1>6
     DEF SearchInv, ReturnIsBounded, ReturnIsJustified, AnswerIsJustified

LEMMA SkipInv ==
  ASSUME SearchInv, Skip
  PROVE  SearchInv'
<1> USE DEF Skip
<1>1. /\ pc = "expand" /\ pc' = "expand"
      /\ UNCHANGED <<request, bfs_depth, max_depth>>
  BY DEF searchVars
<1>2. PICK lane \in Top.staged : stack' = Unstage(lane)
  OBVIOUS
<1> DEFINE lanes == Top.staged \ {lane}
<1>3. lanes \in SUBSET Nat /\ stack' = [stack EXCEPT ![Len(stack)].staged = lanes]
  BY <1>1, <1>2, StackFacts DEF Unstage, Top
<1>4. /\ stack' \in Seq(Frames) /\ Frames' = Frames
      /\ Len(stack') = Len(stack) /\ StackIsChain'
  BY <1>1, <1>3, StagedChanged
<1>5. UNCHANGED cacheVars
  BY DEF MainCache!cache_check_hit, MainCache!cacheVars, cacheVars
<1>6. TypeOK'
  BY <1>1, <1>4, <1>5 DEF SearchInv, TypeOK, searchVars, answerVars, cacheVars
<1>7. StackIsBounded'
  BY <1>1, <1>4 DEF SearchInv, StackIsBounded
<1>8. BoundIsJustified'
  BY <1>1, BoundUnchanged DEF SearchInv
<1> QED
  BY <1>1, <1>4, <1>6, <1>7, <1>8
     DEF SearchInv, ReturnIsBounded, ReturnIsJustified, AnswerIsJustified

LEMMA Return0Inv ==
  ASSUME SearchInv, Return0
  PROVE  SearchInv'
<1> USE DEF Return0
<1>1. /\ pc = "expand" /\ pc' = "expand" /\ Len(stack) > 1
      /\ UNCHANGED <<request, bfs_depth, max_depth>>
  BY DEF searchVars
<1>2. /\ stack \in Seq(Frames) /\ Len(stack) \in Nat
      /\ Len(stack) <= bfs_depth /\ bfs_depth \in Nat
  BY <1>1, StackFacts
<1>3. /\ stack' \in Seq(Frames) /\ Len(stack') = Len(stack) - 1
      /\ \A k \in 1 .. Len(stack') : stack'[k] = stack[k]
  BY <1>1, <1>2
<1>4. Frames' = Frames /\ Tab' = Tab
  BY <1>1 DEF Frames, LayerIds, Tab
<1>5. TypeOK'
  BY <1>1, <1>3, <1>4 DEF SearchInv, TypeOK, searchVars, answerVars, cacheVars
<1>6. StackIsBounded'
  BY <1>1, <1>2, <1>3 DEF SearchInv, StackIsBounded
<1>7. StackIsChain'
  BY <1>1, <1>2, <1>3, <1>4 DEF SearchInv, StackIsChain
<1>8. BoundIsJustified'
  BY <1>1, BoundUnchanged DEF SearchInv
<1> QED
  BY <1>1, <1>5, <1>6, <1>7, <1>8
     DEF SearchInv, ReturnIsBounded, ReturnIsJustified, AnswerIsJustified

\* What becomes of the calls when dfs calls itself.
LEMMA CallAdded ==
  ASSUME SearchInv, pc = "expand", UNCHANGED request, Len(stack) < bfs_depth,
         NEW lane \in Top.staged, NEW i \in LayerIds,
         stack' = Append(Unstage(lane),
                         Frame(apply_mapping(Top.map, Tab.layers[i].map), i))
  PROVE  /\ stack' \in Seq(Frames) /\ Frames' = Frames
         /\ Len(stack') = Len(stack) + 1
         /\ Top'.staged = {}
         /\ StackIsChain'
<1> DEFINE below == Unstage(lane)
           output == apply_mapping(Top.map, Tab.layers[i].map)
           frame == Frame(output, i)
<1>1. /\ stack \in Seq(Frames) /\ Len(stack) \in Nat /\ Len(stack) >= 1
      /\ Top \in Frames /\ Top.map \in Maps /\ request \in Requests
  BY StackFacts
<1>2. output \in Maps
  BY <1>1, TableFacts, ApplyType
<1> HIDE DEF output
<1>3. frame \in Frames /\ frame.map = output /\ frame.layer = i /\ frame.staged = {}
  BY <1>2 DEF Frame, Frames
<1>4. below = [stack EXCEPT ![Len(stack)] = [Top EXCEPT !.staged = @ \ {lane}]]
  BY DEF Unstage, Top
<1>5. [Top EXCEPT !.staged = @ \ {lane}] \in Frames
  BY <1>1 DEF Frames
<1>6. below \in Seq(Frames) /\ Len(below) = Len(stack)
  BY <1>1, <1>4, <1>5
<1>7. ASSUME NEW k \in 1 .. Len(stack)
      PROVE  below[k].map = stack[k].map /\ below[k].layer = stack[k].layer
  <2>1. CASE k = Len(stack)
    BY <1>1, <1>4, <2>1 DEF Top, Frames
  <2>2. CASE k # Len(stack)
    BY <1>1, <1>4, <2>2
  <2> QED
    BY <2>1, <2>2
<1> HIDE DEF below, frame
<1>8. stack' = Append(below, frame)
  BY DEF below, frame, output
<1>9. /\ stack' \in Seq(Frames) /\ Len(stack') = Len(stack) + 1
      /\ stack'[Len(stack) + 1] = frame
      /\ \A k \in 1 .. Len(stack) : stack'[k] = below[k]
  BY <1>1, <1>3, <1>6, <1>8
<1>10. Frames' = Frames /\ Tab' = Tab
  BY DEF Frames, LayerIds, Tab
<1>11. StackIsChain'
  <2>1. stack'[1].map = identity
    BY <1>1, <1>7, <1>9 DEF SearchInv, StackIsChain
  <2>2. ASSUME NEW k \in 1 .. Len(stack)
        PROVE  stack'[k + 1].map =
                 apply_mapping(stack'[k].map, Tab.layers[stack'[k + 1].layer].map)
    <3>1. CASE k = Len(stack)
      <4>1. stack'[k + 1].map = output /\ stack'[k + 1].layer = i
        BY <1>3, <1>9, <3>1
      <4>2. stack'[k].map = Top.map
        BY <1>1, <1>7, <1>9, <3>1 DEF Top
      <4> QED
        BY <4>1, <4>2 DEF output
    <3>2. CASE k # Len(stack)
      <4>1. k \in 1 .. Len(stack) - 1 /\ k + 1 \in 1 .. Len(stack)
        BY <1>1, <3>2
      <4>2. /\ stack'[k].map = stack[k].map
            /\ stack'[k + 1].map = stack[k + 1].map
            /\ stack'[k + 1].layer = stack[k + 1].layer
        BY <1>7, <1>9, <4>1
      <4> QED
        BY <1>1, <4>1, <4>2 DEF SearchInv, StackIsChain
    <3> QED
      BY <3>1, <3>2
  <2> QED
    BY <1>1, <1>9, <1>10, <2>1, <2>2 DEF StackIsChain
<1>12. Top'.staged = {}
  BY <1>1, <1>3, <1>9 DEF Top
<1> QED
  BY <1>9, <1>10, <1>11, <1>12

LEMMA DescendInv ==
  ASSUME SearchInv, Descend
  PROVE  SearchInv'
<1> USE DEF Descend
<1>1. /\ pc = "expand" /\ pc' = "visit"
      /\ UNCHANGED <<request, bfs_depth, max_depth>>
      /\ stale' \subseteq Slots
  BY DEF searchVars, SearchInv, TypeOK
<1> PICK lane \in Top.staged :
       \E next \in NextLayers(TopLayer, lane) :
         /\ MainCache!cache_check_miss(
              apply_mapping(Top.map, Tab.layers[next].map), Depth)
         /\ stack' = Append(Unstage(lane),
              Frame(apply_mapping(Top.map, Tab.layers[next].map), next))
  OBVIOUS
<1>2. PICK next \in NextLayers(TopLayer, lane) :
        /\ MainCache!cache_check_miss(
             apply_mapping(Top.map, Tab.layers[next].map), Depth)
        /\ stack' = Append(Unstage(lane),
             Frame(apply_mapping(Top.map, Tab.layers[next].map), next))
  OBVIOUS
<1>3. /\ request \in Requests /\ Top.layer \in LayerIds /\ Top.map \in Maps
      /\ lane \in Nat /\ Depth \in 0 .. MaxChain
      /\ Len(stack) \in Nat /\ bfs_depth \in Nat
  BY <1>1, StackFacts
<1>4. next \in LayerIds
  BY <1>2, <1>3, NextIsLayer DEF TopLayer
<1>5. Len(stack) < bfs_depth
  BY <1>1, <1>2, <1>3, StackFacts DEF SearchInv, StackIsBounded
<1>6. /\ stack' \in Seq(Frames) /\ Frames' = Frames
      /\ Len(stack') = Len(stack) + 1
      /\ Top'.staged = {}
      /\ StackIsChain'
  BY <1>1, <1>2, <1>4, <1>5, CallAdded
<1>7. CacheType'
  <2>1. apply_mapping(Top.map, Tab.layers[next].map) \in Maps
    BY <1>3, <1>4, TableFacts, ApplyType
  <2> QED
    BY <1>2, <1>3, <2>1, StoreType DEF SearchInv, TypeOK, CacheType
<1>8. TypeOK'
  BY <1>1, <1>6, <1>7 DEF SearchInv, TypeOK, CacheType, searchVars, answerVars
<1>9. StackIsBounded'
  <2>1. bfs_depth <= max_depth
    BY <1>1, StackFacts
  <2> QED
    BY <1>1, <1>3, <1>5, <1>6, <2>1 DEF StackIsBounded
<1>10. BoundIsJustified'
  BY <1>1, BoundUnchanged DEF SearchInv
<1> QED
  BY <1>1, <1>6, <1>8, <1>9, <1>10
     DEF SearchInv, ReturnIsBounded, ReturnIsJustified, AnswerIsJustified


-----------------------------------------------------------------------------
(* The steps that find a solution.                                         *)

\* A chain of configs and the maps along it.
IsChain(maps, configs) ==
  /\ configs \in Seq(Configs) /\ maps \in Seq(Maps)
  /\ Len(maps) = Len(configs) + 1
  /\ maps[1] = identity
  /\ \A k \in 1 .. Len(configs) :
       maps[k + 1] = apply_mapping(maps[k], LayerMap(configs[k]))

LEMMA PathIsChain ==
  ASSUME SearchInv, pc = "visit"
  PROVE  /\ IsChain(PathMaps, PathConfigs)
         /\ Len(PathConfigs) = Len(stack) - 1
         /\ PathMaps[Len(stack)] = Top.map
<1>1. /\ stack \in Seq(Frames) /\ Len(stack) \in Nat /\ Len(stack) >= 1
      /\ request \in Requests
  BY StackFacts
<1>2. ASSUME NEW k \in 1 .. Len(stack)
      PROVE  stack[k].map \in Maps /\ stack[k].layer \in LayerIds
  <2>1. stack[k] \in Frames
    BY <1>1
  <2> QED
    BY <2>1 DEF Frames
<1>3. PathMaps \in Seq(Maps) /\ Len(PathMaps) = Len(stack)
  BY <1>1, <1>2 DEF PathMaps
<1>4. PathConfigs \in Seq(Configs) /\ Len(PathConfigs) = Len(stack) - 1
  <2>1. \A k \in 1 .. Len(stack) - 1 : Tab.layers[stack[k + 1].layer].config \in Configs
    BY <1>1, <1>2, TableFacts
  <2> QED
    BY <1>1, <2>1 DEF PathConfigs
<1>5. PathMaps[1] = identity
  BY <1>1 DEF PathMaps, SearchInv, StackIsChain
<1>6. ASSUME NEW k \in 1 .. Len(stack) - 1
      PROVE  PathMaps[k + 1] = apply_mapping(PathMaps[k], LayerMap(PathConfigs[k]))
  <2>1. k \in 1 .. Len(stack) /\ k + 1 \in 1 .. Len(stack)
    BY <1>1
  <2>2. stack[k + 1].map =
          apply_mapping(stack[k].map, Tab.layers[stack[k + 1].layer].map)
    BY <1>1 DEF SearchInv, StackIsChain
  <2>3. Tab.layers[stack[k + 1].layer].map = LayerMap(PathConfigs[k])
    BY <1>1, <1>2, <2>1, TableFacts DEF PathConfigs
  <2> QED
    BY <2>1, <2>2, <2>3 DEF PathMaps
<1>7. PathMaps[Len(stack)] = Top.map
  BY <1>1 DEF PathMaps, Top
<1> QED
  BY <1>1, <1>3, <1>4, <1>5, <1>6, <1>7 DEF IsChain

\* A chain that meets the goal and is no longer than the iteration is deep may
\* be written to output_chain.
LEMMA FoundInv ==
  ASSUME SearchInv, pc = "visit",
         NEW maps, NEW configs, IsChain(maps, configs),
         Len(configs) <= bfs_depth,
         test_map(request.goal, maps[Len(configs) + 1]),
         Found(maps, configs),
         UNCHANGED <<searchVars, bfs_depth, result, cacheVars, stale>>
  PROVE  SearchInv'
<1> USE DEF Found
<1>1. /\ pc' = "returned" /\ stack' = <<>>
      /\ length' = Len(configs) /\ trail' = maps
      /\ UNCHANGED <<request, bfs_depth, max_depth, accuracy>>
  BY DEF searchVars
<1>2. /\ bfs_depth \in Nat /\ max_depth \in Int /\ max_depth <= MaxChain
      /\ bfs_depth <= max_depth /\ MaxChain \in Nat
      /\ request \in Requests
  BY StackFacts
<1>3. Len(configs) \in Nat /\ Len(configs) <= MaxChain
  BY <1>2 DEF IsChain
<1>4. Capped(request.max_depth) \in 0 .. MaxChain /\ max_depth <= Capped(request.max_depth)
  BY <1>2, RequestFacts, CappedFacts DEF SearchInv, BoundIsJustified
<1>5. chain \in [0 .. MaxChain -> Configs \cup {Unset}]
  BY DEF SearchInv, TypeOK
<1>6. \A d \in 0 .. Len(configs) - 1 : chain'[d] = configs[d + 1] /\ configs[d + 1] \in Configs
  BY <1>2, <1>3 DEF IsChain
<1>7. TypeOK'
  <2>1. chain' \in [0 .. MaxChain -> Configs \cup {Unset}]
    BY <1>2, <1>3, <1>5 DEF IsChain
  <2>2. length' \in 0 .. MaxChain + 1 /\ trail' \in Seq(Maps)
    BY <1>1, <1>2, <1>3 DEF IsChain
  <2> QED
    BY <1>1, <2>1, <2>2 DEF SearchInv, TypeOK, searchVars, cacheVars
<1>8. ChainMeets(request.goal, chain', trail', length')
  <2>1. ASSUME NEW d \in 0 .. Len(configs) - 1
        PROVE  maps[d + 2] = apply_mapping(maps[d + 1], LayerMap(chain'[d]))
    <3>1. d + 1 \in 1 .. Len(configs) /\ d + 2 = (d + 1) + 1
      BY <1>3
    <3> QED
      BY <1>6, <3>1 DEF IsChain
  <2> QED
    BY <1>1, <1>6, <2>1 DEF ChainMeets, IsChain
<1>9. BoundIsJustified'
  BY <1>1 DEF SearchInv, BoundIsJustified, InPresearch
<1>10. ReturnIsBounded' /\ ReturnIsJustified'
  BY <1>1, <1>2, <1>3, <1>4, <1>8 DEF ReturnIsBounded, ReturnIsJustified
<1> QED
  BY <1>1, <1>7, <1>9, <1>10 DEF SearchInv, StackIsBounded, StackIsChain, AnswerIsJustified

LEMMA FindHereInv ==
  ASSUME SearchInv, FindHere
  PROVE  SearchInv'
<1> USE DEF FindHere
<1>1. /\ IsChain(PathMaps, PathConfigs)
      /\ Len(PathConfigs) = Len(stack) - 1
      /\ PathMaps[Len(stack)] = Top.map
  BY PathIsChain
<1>2. Len(stack) \in Nat /\ Len(stack) <= bfs_depth /\ bfs_depth \in Nat
  BY StackFacts
<1> QED
  BY <1>1, <1>2, FoundInv

LEMMA FindLastInv ==
  ASSUME SearchInv, FindLast
  PROVE  SearchInv'
<1> USE DEF FindLast
<1>1. /\ IsChain(PathMaps, PathConfigs)
      /\ Len(PathConfigs) = Len(stack) - 1
      /\ PathMaps[Len(stack)] = Top.map
  BY PathIsChain
<1>2. /\ Len(stack) \in Nat /\ Len(stack) >= 1
      /\ Len(stack) <= bfs_depth /\ bfs_depth \in Nat
      /\ Top.map \in Maps /\ Top.layer \in LayerIds /\ request \in Requests
  BY StackFacts
<1> PICK lane \in FinishingLanes :
       \E next \in NextLayers(TopLayer, lane) :
         Found(Append(PathMaps, apply_mapping(Top.map, Tab.layers[next].map)),
               Append(PathConfigs, Tab.layers[next].config))
  OBVIOUS
<1>3. PICK next \in NextLayers(TopLayer, lane) :
        Found(Append(PathMaps, apply_mapping(Top.map, Tab.layers[next].map)),
              Append(PathConfigs, Tab.layers[next].config))
  OBVIOUS
<1>4. /\ lane \in Lanes(TopLayer)
      /\ test_map(request.goal, apply_mapping(Top.map, LaneMap(TopLayer, lane)))
  BY DEF FinishingLanes
<1>5. lane \in Nat
  BY <1>4 DEF Lanes
<1>6. next \in LayerIds
  BY <1>2, <1>3, <1>5, NextIsLayer DEF TopLayer
<1> DEFINE output == apply_mapping(Top.map, Tab.layers[next].map)
           config == Tab.layers[next].config
<1>7. /\ config \in Configs /\ output \in Maps
      /\ output = apply_mapping(Top.map, LayerMap(config))
  BY <1>2, <1>6, TableFacts, ApplyType
<1>8. test_map(request.goal, output)
  <2>1. mins(request.goal) # zero_map
    BY DEF SearchInv, BoundIsJustified
  <2> QED
    BY <1>2, <1>3, <1>4, <2>1, LastLayerSolves DEF TopLayer
<1> HIDE DEF output, config
<1> DEFINE maps == Append(PathMaps, output)
           configs == Append(PathConfigs, config)
<1>9. /\ configs \in Seq(Configs) /\ Len(configs) = Len(stack)
      /\ configs[Len(stack)] = config
      /\ \A k \in 1 .. Len(stack) - 1 : configs[k] = PathConfigs[k]
  BY <1>1, <1>2, <1>7 DEF IsChain
<1>10. /\ maps \in Seq(Maps) /\ Len(maps) = Len(stack) + 1
       /\ maps[Len(stack) + 1] = output
       /\ \A k \in 1 .. Len(stack) : maps[k] = PathMaps[k]
  BY <1>1, <1>2, <1>7 DEF IsChain
<1> HIDE DEF maps, configs
<1>11. IsChain(maps, configs)
  <2>1. maps[1] = identity
    BY <1>1, <1>2, <1>10 DEF IsChain
  <2>2. ASSUME NEW k \in 1 .. Len(stack)
        PROVE  maps[k + 1] = apply_mapping(maps[k], LayerMap(configs[k]))
    <3>1. CASE k = Len(stack)
      BY <1>1, <1>7, <1>9, <1>10, <3>1
    <3>2. CASE k # Len(stack)
      <4>1. k \in 1 .. Len(stack) - 1 /\ k + 1 \in 1 .. Len(stack)
        BY <1>2, <3>2
      <4> QED
        BY <1>1, <1>9, <1>10, <4>1 DEF IsChain
    <3> QED
      BY <3>1, <3>2
  <2> QED
    BY <1>9, <1>10, <2>1, <2>2 DEF IsChain
<1>12. Found(maps, configs)
  BY <1>3 DEF maps, configs, output, config
<1> QED
  BY <1>2, <1>8, <1>9, <1>10, <1>11, <1>12, FoundInv

-----------------------------------------------------------------------------
(* The theorems.                                                           *)

LEMMA NextInv ==
  ASSUME SearchInv, [Next]_vars
  PROVE  SearchInv'
<1>1. CASE SolveStep
  BY <1>1, RefuseTypeInv, AnswerZeroInv, StartPresearchInv, StartIterationInv,
     GiveUpInv, FailIterationInv, FindHereInv, FindLastInv, MissLastInv,
     StageInv, SkipInv, DescendInv, Return0Inv, StartMainSearchInv, ReturnInv
     DEF SolveStep
<1>2. CASE \E r \in Requests : NewRequest(r)
  BY <1>2, NewRequestInv
<1>3. CASE UNCHANGED vars
  <2> USE <1>3 DEF vars, searchVars, answerVars, cacheVars
  <2>1. TypeOK'
    BY DEF SearchInv, TypeOK, Frames, LayerIds, Tab
  <2>2. StackIsBounded' /\ StackIsChain'
    BY DEF SearchInv, StackIsBounded, StackIsChain, Top, Tab
  <2>3. BoundIsJustified' /\ ReturnIsBounded' /\ ReturnIsJustified' /\ AnswerIsJustified'
    BY DEF SearchInv, BoundIsJustified, InPresearch, ReturnIsBounded,
           ReturnIsJustified, AnswerIsJustified, FailsUnseen
  <2> QED
    BY <2>1, <2>2, <2>3 DEF SearchInv
<1> QED
  BY <1>1, <1>2, <1>3 DEF Next

\* The inductive invariant of solve() and dfs.
THEOREM SearchIsJustified == Spec => []SearchInv
<1>1. SearchInv /\ [Next]_vars => SearchInv'
  BY NextInv
<1> QED
  BY <1>1, InitInv, PTL DEF Spec

\* The variables keep their types: no call of dfs is deeper than the chain it
\* fills in, no layer outside the table is entered, and solve() returns a
\* length in its range.
THEOREM TypeCorrect == Spec => []TypeOK
<1>1. SearchInv => TypeOK
  BY DEF SearchInv
<1> QED
  BY <1>1, SearchIsJustified, PTL

\* Whatever bound is asked for, a length that is not beyond it is that of a
\* chain in output_chain that computes the goal, whether the main search or
\* the presearch wrote it, and whatever the cache made the search leave out;
\* the one exception is the failure of a search of reduced accuracy whose bound
\* was capped.
THEOREM AnswersAreJustified == Spec => []AnswerIsJustified
<1>1. SearchInv => AnswerIsJustified
  BY DEF SearchInv
<1> QED
  BY <1>1, SearchIsJustified, PTL

LEMMA NoneFailsUnseen ==
  ASSUME BoundsAreSearched, SearchInv
  PROVE  ~ FailsUnseen
<1>1. /\ request \in Requests /\ request.max_depth \in Int
      /\ MaxChain \in Nat /\ MaxChain >= 1
  BY RequestFacts, SearchAssumption DEF SearchInv, TypeOK
<1> QED
  BY <1>1 DEF BoundsAreSearched, FailsUnseen, Capped

\* So where requests for reduced accuracy keep to the bound the program
\* searches, hlp_print_search's test is enough: what it accepts is a chain.
\* (Where they do not, it is enough as far as no such search fails: run shortest.)
THEOREM AnswersAreSound ==
  ASSUME BoundsAreSearched
  PROVE  Spec => []SoundAnswer
<1>1. SearchInv => SoundAnswer
  BY NoneFailsUnseen DEF SearchInv, AnswerIsJustified, SoundAnswer
<1> QED
  BY <1>1, SearchIsJustified, PTL

-----------------------------------------------------------------------------
(* The cache over iterations, searches and calls: no entry is of a later   *)
(* trial, and from the second iteration on none that was there before is   *)
(* of the running one.  The first iteration may meet such entries, left by *)
(* a search that succeeded; but it stages no layers.                       *)

EntriesAreOld ==
  /\ \A s \in Slots : array[s].trial <= global_trial
  /\ pc = "iterate" /\ bfs_depth > 1 =>
       \A s \in Slots : array[s].trial < global_trial
  /\ pc \in {"visit", "expand"} /\ bfs_depth > 1 => stale = {}

LEMMA TrialFacts ==
  ASSUME SearchInv
  PROVE  /\ global_trial \in Nat
         /\ \A s \in Slots : array[s].trial \in Nat
         /\ bfs_depth \in Nat
<1>1. /\ array \in [Slots -> MainCache!Entries]
      /\ global_trial \in MainCache!Trials
      /\ bfs_depth \in 0 .. MaxChain + 1
  BY DEF SearchInv, TypeOK
<1>2. MainCache!Trials \subseteq Nat
  BY SearchAssumption DEF MainCache!Trials
<1>3. ASSUME NEW s \in Slots PROVE array[s].trial \in MainCache!Trials
  <2>1. array[s] \in MainCache!Entries
    BY <1>1
  <2> QED
    BY <2>1 DEF MainCache!Entries
<1>4. bfs_depth \in Nat
  BY <1>1, SearchAssumption
<1> QED
  BY <1>1, <1>2, <1>3, <1>4

LEMMA InitOld == Init => EntriesAreOld
BY SearchAssumption DEF Init, MainCache!cache_init, MainCache!blank, EntriesAreOld

\* A trial that begins is later than that of every entry.
LEMMA InvalidateMakesOld ==
  ASSUME SearchInv, EntriesAreOld, MainCache!invalidate_cache
  PROVE  \A s \in Slots : array'[s].trial < global_trial'
<1>1. CASE global_trial + 1 < TrialLimit
  BY <1>1, TrialFacts DEF MainCache!invalidate_cache, EntriesAreOld
<1>2. CASE ~ (global_trial + 1 < TrialLimit)
  BY <1>2 DEF MainCache!invalidate_cache, MainCache!blank
<1> QED
  BY <1>1, <1>2

LEMMA NextOld ==
  ASSUME SearchInv, EntriesAreOld, [Next]_vars
  PROVE  EntriesAreOld'
<1> USE DEF EntriesAreOld
<1>1. ASSUME FailIteration PROVE EntriesAreOld'
  <2>1. \A s \in Slots : array'[s].trial < global_trial'
    BY <1>1, InvalidateMakesOld DEF FailIteration
  <2>2. /\ global_trial' \in Nat
        /\ \A s \in Slots : array'[s].trial \in Nat
    <3>1. SearchInv'
      BY <1>1, FailIterationInv
    <3> QED
      BY <3>1, SearchAssumption
         DEF SearchInv, TypeOK, MainCache!Entries, MainCache!Trials
  <2> QED
    BY <1>1, <2>1, <2>2 DEF FailIteration
<1>2. ASSUME StartIteration PROVE EntriesAreOld'
  <2>1. bfs_depth > 1 => stale' = {}
    BY <1>2, TrialFacts DEF StartIteration
  <2> QED
    BY <1>2, <2>1 DEF StartIteration, searchVars, answerVars, cacheVars
<1>3. ASSUME Descend PROVE EntriesAreOld'
  <2>1. PICK output, key, depth :
          /\ array' = [array EXCEPT ![Slot(output)] =
                         [value |-> key, depth |-> depth, trial |-> global_trial]]
          /\ global_trial' = global_trial
          /\ stale' = stale \ {Slot(output)}
          /\ pc = "expand" /\ pc' = "visit" /\ bfs_depth' = bfs_depth
    <3>1. Depth \in Nat
      BY <1>3, StackFacts DEF Descend, Depth, SearchInv, StackIsBounded
    <3> QED
      BY <1>3, <3>1 DEF Descend, MainCache!cache_check_miss, MainCache!Store, searchVars
  <2>2. DOMAIN array = Slots
    BY DEF SearchInv, TypeOK
  <2>3. \A s \in Slots : array'[s].trial <= global_trial'
    BY <2>1, <2>2, TrialFacts
  <2> QED
    BY <2>1, <2>3
<1>4. ASSUME Skip PROVE EntriesAreOld'
  BY <1>4 DEF Skip, MainCache!cache_check_hit, MainCache!cacheVars, searchVars
<1>5. ASSUME NewRequest(request') \/ RefuseType \/ AnswerZero \/ ReturnPresearch
               \/ ReturnMainSearch \/ GiveUp
      PROVE  EntriesAreOld'
  BY <1>5 DEF NewRequest, RefuseType, AnswerZero, ReturnPresearch,
              ReturnMainSearch, GiveUp, cacheVars
<1>6. ASSUME StartPresearch \/ StartMainSearch PROVE EntriesAreOld'
  BY <1>6 DEF StartPresearch, StartMainSearch, cacheVars
<1>7. ASSUME FindHere \/ FindLast PROVE EntriesAreOld'
  BY <1>7 DEF FindHere, FindLast, Found, cacheVars
<1>8. ASSUME MissLast \/ Stage \/ Return0 PROVE EntriesAreOld'
  BY <1>8 DEF MissLast, Stage, Return0, cacheVars
<1>9. CASE UNCHANGED vars
  BY <1>9 DEF vars, searchVars, cacheVars
<1> QED
  BY <1>1, <1>2, <1>3, <1>4, <1>5, <1>6, <1>7, <1>8, <1>9
     DEF Next, SolveStep, NewRequest

\* Layers are staged only from the second iteration on.
LEMMA OldIsNotStale == SearchInv /\ EntriesAreOld => NoStaleHit
<1> SUFFICES ASSUME SearchInv, EntriesAreOld, pc = "expand", NEW lane \in Top.staged
             PROVE  stale = {}
  BY DEF NoStaleHit
<1>1. Len(stack) > 0 /\ Len(stack) < bfs_depth
  BY DEF SearchInv, StackIsBounded
<1>2. Len(stack) \in Nat /\ bfs_depth \in Nat
  BY StackFacts, <1>1, TrialFacts
<1> QED
  BY <1>1, <1>2 DEF EntriesAreOld

\* A map is skipped only because this iteration went on from it: for every
\* table, hash, cache and width of the trial counter, over all iterations,
\* searches and calls.
THEOREM HitsAreFresh == Spec => []NoStaleHit
<1>1. Init => SearchInv /\ EntriesAreOld
  BY InitInv, InitOld
<1>2. SearchInv /\ EntriesAreOld /\ [Next]_vars => (SearchInv /\ EntriesAreOld)'
  BY NextInv, NextOld
<1> QED
  BY <1>1, <1>2, OldIsNotStale, PTL DEF Spec

-----------------------------------------------------------------------------
(* The staging buffer.                                                     *)

LEMMA RoundedUp ==
  ASSUME NEW n \in Nat, NEW factor \in Nat \ {0}
  PROVE  /\ round_up(n, factor) \in Nat
         /\ n <= round_up(n, factor)
         /\ round_up(n, factor) <= n + factor
         /\ n > 0 => round_up(n, factor) < n + factor
<1>1. CASE n = 0
  <2>1. CASE factor = 1
    BY <1>1, <2>1 DEF round_up, CDiv
  <2>2. CASE factor # 1
    BY <1>1, <2>2 DEF round_up, CDiv
  <2> QED
    BY <2>1, <2>2
<1>2. CASE n # 0
  <2> DEFINE q == (n - 1) \div factor
             r == (n - 1) % factor
  <2>1. q \in Nat /\ r \in 0 .. factor - 1 /\ n - 1 = q * factor + r
    BY <1>2, Division
  <2>2. round_up(n, factor) = (q + 1) * factor
    BY <1>2 DEF round_up, CDiv
  <2> HIDE DEF q, r
  <2>3. (q + 1) * factor = q * factor + factor /\ q * factor \in Nat
    BY <2>1
  <2> QED
    BY <2>1, <2>2, <2>3
<1> QED
  BY <1>1, <1>2

LEMMA RowFacts ==
  ASSUME request \in Requests
  PROVE  /\ Tab.layers[0].next_layer_count \in Nat \ {0}
         /\ \A i \in LayerIds :
              /\ Tab.layers[i].next_layer_count \in Nat
              /\ Tab.layers[i].next_layer_count <= Tab.layers[0].next_layer_count
<1>1. IsTable(Tab)
  BY RequestFacts DEF Tab
<1> QED
  BY <1>1 DEF IsTable, IsLayer, LayerIds

\* A lane past the end of a row is staged only for a goal of one output.
LEMMA PaddingIsOneOutput ==
  ASSUME request \in Requests, NEW map \in Maps, NEW i \in LayerIds,
         NEW lane \in Lanes(Tab.layers[i]), NEW threshold,
         legal_dist(request.goal, apply_mapping(map, LaneMap(Tab.layers[i], lane)),
                    threshold)
  PROVE  lane < Tab.layers[i].next_layer_count \/ OneOutput(request.goal)
<1> SUFFICES ASSUME ~ lane < Tab.layers[i].next_layer_count
             PROVE  OneOutput(request.goal)
  OBVIOUS
<1>1. LaneMap(Tab.layers[i], lane) = zero_map
  BY TableFacts DEF IsRow, LaneMap, MapOf
<1>2. apply_mapping(map, zero_map) = zero_map
  BY DEF apply_mapping, zero_map, Maps
<1>3. request.goal \in Goals
  BY RequestFacts DEF IsRequest
<1>4. \A v, w \in Determined(request.goal) : zero_map[v] = zero_map[w]
  BY <1>3 DEF Determined, Goals, zero_map
<1> QED
  BY <1>1, <1>2, <1>4 DEF legal_dist, OneOutput

LEMMA StagingStarts ==
  ASSUME SearchInv, pc \in {"visit", "expand"}
  PROVE  StagingStart \in Nat /\
         StagingStart <= (Len(stack) - 1) * Tab.layers[0].next_layer_count
<1> DEFINE n == Len(stack) - 1
           longest == Tab.layers[0].next_layer_count
           Rows(g) == [k \in 0 .. n |->
                         IF k = 0 THEN 0
                         ELSE g[k - 1] + Tab.layers[stack[k].layer].next_layer_count]
<1>1. n \in Nat /\ stack \in Seq(Frames) /\ request \in Requests
  BY StackFacts
<1>2. longest \in Nat
  BY <1>1, RowFacts
<1>3. ASSUME NEW k \in 1 .. n
      PROVE  /\ Tab.layers[stack[k].layer].next_layer_count \in Nat
             /\ Tab.layers[stack[k].layer].next_layer_count <= longest
  <2>1. stack[k] \in Frames
    BY <1>1
  <2>2. stack[k].layer \in LayerIds
    BY <2>1 DEF Frames
  <2> QED
    BY <1>1, <2>2, RowFacts
<1> DEFINE count == [k \in 1 .. n |-> Tab.layers[stack[k].layer].next_layer_count]
<1>4. count \in [1 .. n -> 0 .. longest]
  BY <1>2, <1>3
<1>5. StagingStart = (CHOOSE g : g = Rows(g))[n]
  BY DEF StagingStart
<1>6. \E g : g = Rows(g)
  <2>1. count \in [1 .. n -> Nat]
    BY <1>2, <1>4
  <2>2. PICK f \in [0 .. n -> Nat] :
          f[0] = 0 /\ \A k \in 1 .. n : f[k] = f[k - 1] + count[k]
    <3> HIDE DEF count, n
    <3> QED
      BY <1>1, <2>1, RunningTotals
  <2>3. \A k \in 1 .. n :
          f[k] = f[k - 1] + Tab.layers[stack[k].layer].next_layer_count
    BY <2>2
  <2>4. f = Rows(f)
    BY <2>2, <2>3
  <2> HIDE DEF Rows
  <2> QED
    BY <2>4
<1>7. ASSUME NEW g, g = Rows(g)
      PROVE  g[n] \in Nat /\ g[n] <= n * longest
  <2> DEFINE Bounded == {k \in 0 .. n : g[k] \in Nat /\ g[k] <= k * longest}
  <2>1. \A k \in 0 .. n :
          g[k] = IF k = 0 THEN 0
                 ELSE g[k - 1] + Tab.layers[stack[k].layer].next_layer_count
    <3>1. \A k \in 0 .. n :
            Rows(g)[k] = IF k = 0 THEN 0
                         ELSE g[k - 1] + Tab.layers[stack[k].layer].next_layer_count
      OBVIOUS
    <3> HIDE DEF Rows
    <3> QED
      BY <1>7, <3>1, Zenon
  <2>2. 0 \in Bounded
    BY <1>1, <1>2, <2>1
  <2>3. ASSUME NEW k \in 1 .. n, k - 1 \in Bounded
        PROVE  k \in Bounded
    <3>1. g[k] = g[k - 1] + Tab.layers[stack[k].layer].next_layer_count
      BY <2>1
    <3>2. g[k - 1] \in Nat /\ g[k - 1] <= (k - 1) * longest
      BY <2>3
    <3>3. (k - 1) * longest + longest = k * longest /\ (k - 1) * longest \in Nat
      BY <1>2
    <3> HIDE DEF longest
    <3>4. g[k] \in Nat /\ g[k] <= k * longest
      BY <1>2, <1>3, <3>1, <3>2, <3>3
    <3> QED
      BY <3>4
  <2>4. 0 .. n \subseteq Bounded
    <3> HIDE DEF Bounded
    <3> QED
      BY <1>1, <2>2, <2>3, InductionTo
  <2> QED
    BY <1>1, <2>4
<1> HIDE DEF Rows
<1> QED
  BY <1>5, <1>6, <1>7

LEMMA StagingHasSpace == SearchInv => StagingFits
<1> SUFFICES ASSUME SearchInv, pc = "visit", Depth < bfs_depth - 1
             PROVE  StagingStart + Cardinality(StagedLanes \cup {0}) <= StagingSpace
  BY DEF StagingFits
<1> DEFINE longest == Tab.layers[0].next_layer_count
<1>1. /\ request \in Requests /\ Top.map \in Maps /\ Top.layer \in LayerIds
      /\ Len(stack) \in Nat /\ Len(stack) >= 1 /\ bfs_depth \in Nat
  BY StackFacts
<1>2. /\ TopLayer.next_layer_count \in Nat /\ TopLayer.next_layer_count <= longest
      /\ longest \in Nat \ {0}
  BY <1>1, RowFacts DEF TopLayer
<1>3. MAP_ARRAY_ALIGNMENT \in Nat \ {0}
  BY AlignmentAssumption
<1>4. PICK most \in Nat : /\ StagedLanes \cup {0} \subseteq 0 .. most - 1
                          /\ most <= 2 * longest
  <2>1. CASE OneOutput(request.goal)
    <3> DEFINE lanes == round_up(TopLayer.next_layer_count, MAP_ARRAY_ALIGNMENT)
               most == IF lanes = 0 THEN 1 ELSE lanes
    <3>1. MAP_ARRAY_ALIGNMENT <= longest
      BY <1>1, <2>1, ConstantsAssumption DEF Tab
    <3>2. lanes \in Nat /\ lanes <= TopLayer.next_layer_count + MAP_ARRAY_ALIGNMENT
      BY <1>2, <1>3, RoundedUp
    <3>3. StagedLanes \subseteq 0 .. lanes - 1
      BY DEF StagedLanes, Lanes
    <3> HIDE DEF lanes, longest
    <3>4. most \in Nat /\ StagedLanes \cup {0} \subseteq 0 .. most - 1 /\ most <= 2 * longest
      BY <1>2, <1>3, <3>1, <3>2, <3>3
    <3> QED
      BY <3>4
  <2>2. CASE ~ OneOutput(request.goal)
    <3>1. StagedLanes \cup {0} \subseteq 0 .. longest - 1
      <4>1. ASSUME NEW lane \in StagedLanes
            PROVE  lane \in Nat /\ lane < TopLayer.next_layer_count
        <5>1. lane \in Lanes(TopLayer) /\ lane \in Nat
          BY DEF StagedLanes, Lanes
        <5> QED
          BY <1>1, <2>2, <5>1, PaddingIsOneOutput DEF StagedLanes, TopLayer
      <4> QED
        BY <1>2, <4>1
    <3> QED
      BY <1>2, <3>1
  <2> QED
    BY <2>1, <2>2
<1>5. Cardinality(StagedLanes \cup {0}) \in Nat /\ Cardinality(StagedLanes \cup {0}) <= most
  <2>1. IsFiniteSet(0 .. most - 1) /\ Cardinality(0 .. most - 1) = most
    BY FS_Interval
  <2> QED
    BY <1>4, <2>1, FS_Subset, FS_CardinalityType
<1>6. StagingStart \in Nat /\ StagingStart <= (Len(stack) - 1) * longest
  BY StagingStarts
<1>7. (Len(stack) - 1) * longest + 2 * longest <= bfs_depth * longest
  <2>1. Len(stack) + 1 <= bfs_depth
    BY <1>1 DEF Depth
  <2>2. (Len(stack) + 1) * longest <= bfs_depth * longest
    <3> HIDE DEF longest
    <3>1. \A a, b, c \in Nat : a <= b => a * c <= b * c
      OBVIOUS
    <3> QED
      BY <1>1, <1>2, <2>1, <3>1
  <2> HIDE DEF longest
  <2>3. (Len(stack) + 1) * longest = (Len(stack) - 1) * longest + 2 * longest
    BY <1>1, <1>2
  <2> QED
    BY <2>2, <2>3
<1> HIDE DEF longest
<1>8. bfs_depth * longest \in Nat /\ (Len(stack) - 1) * longest \in Nat
  BY <1>1, <1>2
<1>9. StagingSpace = bfs_depth * longest
  BY DEF StagingSpace, longest
<1> QED
  BY <1>2, <1>4, <1>5, <1>6, <1>7, <1>8, <1>9

\* No call of dfs writes past the block that was allocated for all of them,
\* for any lengths of the rows on the stack and whatever the filter keeps.
THEOREM StagingAlwaysFits == Spec => []StagingFits
BY SearchIsJustified, StagingHasSpace, PTL

-----------------------------------------------------------------------------
(* Lanes past the end of a row.  A goal of several outputs never stages    *)
(* them.  For a constant every lane is staged, but two layers are enough,  *)
(* and the second iteration comes to a layer that begins such a chain      *)
(* before it comes to the end of the identity's row: nothing but that      *)
(* layer itself writes its map into the cache.                             *)

First == Tab.layers[0]
RowLayer(lane) == Tab.next_layer_array[First.next_layers + lane + 1]

\* The lanes of the identity's row that lead to the goal.
Leads(lane) ==
  LET map == LaneMap(First, lane)
      second == Tab.layers[RowLayer(lane)]
  IN  /\ lane \in 0 .. First.next_layer_count - 1
      /\ \/ test_map(request.goal, map)
         \/ \E k \in 0 .. second.next_layer_count - 1 :
              test_map(request.goal, apply_mapping(map, LaneMap(second, k)))

\* Such a lane is still to be taken, and the cache does not know its map; or
\* the call it leads to has just begun.
Waits(lane) ==
  /\ (pc = "visit" /\ Len(stack) = 1) \/ lane \in stack[1].staged
  /\ \A s \in Slots :
       array[s].trial = global_trial => array[s].value # LaneMap(First, lane)

Tried(lane) ==
  /\ pc = "visit" /\ Len(stack) = 2
  /\ stack[2].map = LaneMap(First, lane) /\ stack[2].layer = RowLayer(lane)

IsConstantGoal == OneOutput(request.goal) /\ GroupOf(request) = 1

StagedIsInRow ==
  Len(stack) > 0 =>
    /\ stack[1].layer = 0
    /\ \A k \in 1 .. Len(stack) : \A lane \in stack[k].staged :
         \/ lane < Tab.layers[stack[k].layer].next_layer_count
         \/ OneOutput(request.goal)

ConstantIsNear ==
  IsConstantGoal /\ pc \in {"iterate", "visit", "expand"} =>
    /\ bfs_depth <= 2
    /\ bfs_depth = 2 /\ pc # "iterate" =>
         \A lane : Leads(lane) => Waits(lane) \/ Tried(lane)

\* What is known of a lane within the identity's row.
LEMMA FirstRow ==
  ASSUME request \in Requests, NEW lane \in 0 .. First.next_layer_count - 1
  PROVE  /\ lane \in Lanes(First)
         /\ RowLayer(lane) \in LayerIds
         /\ Tab.layers[RowLayer(lane)].map = LaneMap(First, lane)
         /\ LaneMap(First, lane) \in Maps
         /\ apply_mapping(identity, LaneMap(First, lane)) = LaneMap(First, lane)
         /\ NextLayers(First, lane) = {RowLayer(lane)}
<1>1. /\ 0 \in LayerIds /\ First.next_layer_count \in Nat /\ IsRow(Tab, First)
      /\ First.next_layers \in Nat
      /\ Tab.next_layer_array \in Seq(LayerIds)
  BY TableFacts, RowFacts DEF First
<1>2. lane \in Lanes(First)
  <2>1. First.next_layer_count <= round_up(First.next_layer_count, MAP_ARRAY_ALIGNMENT)
        /\ round_up(First.next_layer_count, MAP_ARRAY_ALIGNMENT) \in Nat
    BY <1>1, RoundedUp, AlignmentAssumption
  <2> QED
    BY <1>1, <2>1 DEF Lanes
<1>3. /\ First.next_layers + lane < Len(Tab.next_layer_array)
      /\ LaneMap(First, lane) = Tab.layers[RowLayer(lane)].map
  BY <1>1, <1>2 DEF IsRow, LaneMap, MapOf, RowLayer
<1>4. RowLayer(lane) \in LayerIds
  BY <1>1, <1>3 DEF RowLayer
<1>5. LaneMap(First, lane) \in Maps
  BY <1>3, <1>4, TableFacts
<1>6. \A map \in Maps : apply_mapping(identity, map) = map
  BY DEF apply_mapping, identity, Maps
<1>7. NextLayers(First, lane) = {RowLayer(lane)}
  BY <1>3 DEF NextLayers, InsideArray, RowLayer
<1> QED
  BY <1>2, <1>3, <1>4, <1>5, <1>6, <1>7

\* A constant that is not 0 has a lane that leads to it, and no two lanes of
\* the identity's row are alike.
LEMMA SomeLaneLeads ==
  ASSUME request \in Requests, IsConstantGoal, mins(request.goal) # zero_map
  PROVE  /\ \E lane : Leads(lane)
         /\ \A j, k \in 0 .. First.next_layer_count - 1 :
              LaneMap(First, j) = LaneMap(First, k) => j = k
<1> DEFINE goal == request.goal
<1>1. goal \in Goals /\ ReachesConstants(Tab)
  BY RequestFacts, ConstantsAssumption DEF IsRequest, IsConstantGoal, Tab
<1>2. PICK v \in Values : goal[v] # Wild /\ goal[v] # 0
  BY DEF mins, zero_map
<1> DEFINE value == goal[v]
<1>3. value \in Values \ {0}
  BY <1>1, <1>2 DEF Goals
<1>4. ASSUME NEW map, \A w \in Values : map[w] = value
      PROVE  test_map(goal, map)
  <2>1. v \in Determined(goal) /\ Determined(goal) \subseteq Values
    BY <1>1, <1>2 DEF Determined, Goals
  <2> QED
    BY <1>4, <2>1 DEF test_map, OneOutput, IsConstantGoal
<1>5. PICK j \in 0 .. First.next_layer_count - 1 :
        \/ \A w \in Values : LaneMap(First, j)[w] = value
        \/ \E k \in 0 .. Tab.layers[RowLayer(j)].next_layer_count - 1 :
             \A w \in Values :
               apply_mapping(LaneMap(First, j),
                             LaneMap(Tab.layers[RowLayer(j)], k))[w] = value
  <2> HIDE DEF value
  <2> QED
    BY <1>1, <1>3 DEF ReachesConstants, First, LaneMap, RowLayer
<1>6. Leads(j)
  <2> HIDE DEF value
  <2> QED
    BY <1>4, <1>5 DEF Leads
<1>7. \A i, k \in 0 .. First.next_layer_count - 1 :
        LaneMap(First, i) = LaneMap(First, k) => i = k
  BY <1>1 DEF ReachesConstants, First, LaneMap
<1> QED
  BY <1>6, <1>7

\* For a constant the distance check lets every map pass.
LEMMA ConstantIsLegal ==
  ASSUME NEW goal \in Goals, OneOutput(goal), NEW map \in Maps, NEW threshold \in Nat
  PROVE  legal_dist(goal, map, threshold)
<1> DEFINE inputs == Determined(goal)
           current == {map[v] : v \in inputs}
           final(c) == goal[CHOOSE v \in inputs : map[v] = c]
           next(c) == Min({d \in current : d > c})
<1>1. inputs \subseteq Values
  BY DEF Determined, Goals
<1>2. current \subseteq Nat
  BY <1>1 DEF Maps, Values
<1>3. ASSUME NEW c \in current, c # Max(current)
      PROVE  ~ (Distance(final(c), final(next(c))) > Distance(c, next(c)))
  <2>1. \E d \in current : d > c
    <3> SUFFICES ASSUME \A d \in current : ~ (d > c) PROVE FALSE
      OBVIOUS
    <3>1. c \in current /\ c # Max(current)
      BY <1>3
    <3> HIDE DEF current
    <3>2. \A d \in current : c >= d
      BY <1>2, <3>1
    <3> DEFINE top == Max(current)
    <3>3. top \in current /\ \A d \in current : top >= d
      BY <3>1, <3>2 DEF Max
    <3>4. top # c
      BY <3>1
    <3> HIDE DEF top
    <3> QED
      BY <1>2, <3>1, <3>2, <3>3, <3>4
  <2> DEFINE above == {d \in current : d > c}
  <2>2. above \in SUBSET Nat /\ above # {}
    BY <1>2, <2>1
  <2>3. next(c) \in above
    <3> HIDE DEF above
    <3>1. \E m \in above : \A k \in above : m <= k
      BY <2>2, LeastMember
    <3>2. Min(above) \in above
      BY <3>1 DEF Min
    <3> QED
      BY <3>2 DEF above
  <2>4. \A d \in current : final(d) = final(c)
    <3>1. ASSUME NEW d \in current
          PROVE  (CHOOSE v \in inputs : map[v] = d) \in inputs
      OBVIOUS
    <3> QED
      BY <3>1 DEF OneOutput
  <2> HIDE DEF final
  <2>5. Distance(final(c), final(next(c))) = Distance(final(c), final(c))
    BY <2>3, <2>4
  <2>6. final(c) \in Int
    <3>1. (CHOOSE v \in inputs : map[v] = c) \in inputs
      OBVIOUS
    <3>2. \A v \in inputs : goal[v] \in Int
      BY DEF Determined, Goals, Values
    <3> QED
      BY <3>1, <3>2 DEF final
  <2>7. Distance(final(c), final(c)) = 0
    BY <2>6 DEF Distance
  <2>8. Distance(c, next(c)) >= 0
    <3>1. c \in Nat /\ next(c) \in Nat
      BY <1>2, <2>2, <2>3
    <3> HIDE DEF next
    <3> QED
      BY <3>1 DEF Distance
  <2>9. Distance(c, next(c)) \in Int
    <3>1. c \in Nat /\ next(c) \in Nat
      BY <1>2, <2>2, <2>3
    <3> HIDE DEF next
    <3> QED
      BY <3>1 DEF Distance
  <2> QED
    BY <2>5, <2>7, <2>8, <2>9
<1>4. Separations(goal, map) = {}
  BY <1>3 DEF Separations
<1>5. \A v, w \in Determined(goal) : map[v] = map[w] => goal[v] = goal[w]
  BY DEF OneOutput
<1> QED
  BY <1>4, <1>5, FS_EmptySet DEF legal_dist

\* Between two requests the table stays.
LEMMA TableStays ==
  ASSUME UNCHANGED request
  PROVE  /\ Tab' = Tab /\ First' = First /\ (IsConstantGoal <=> IsConstantGoal')
         /\ \A lane : /\ RowLayer(lane)' = RowLayer(lane)
                      /\ LaneMap(First, lane)' = LaneMap(First, lane)
                      /\ Leads(lane) <=> Leads(lane)'
<1>1. Tab' = Tab
  BY DEF Tab
<1> QED
  BY <1>1 DEF First, IsConstantGoal, RowLayer, LaneMap, MapOf, Leads

\* Taking a lane changes what the last call has staged, and nothing else.
LEMMA Unstaged ==
  ASSUME SearchInv, pc = "expand", NEW lane
  PROVE  /\ Unstage(lane) \in Seq(Frames) /\ Len(Unstage(lane)) = Len(stack)
         /\ \A k \in 1 .. Len(stack) :
              /\ Unstage(lane)[k].map = stack[k].map
              /\ Unstage(lane)[k].layer = stack[k].layer
              /\ Unstage(lane)[k].staged =
                   IF k = Len(stack) THEN stack[k].staged \ {lane} ELSE stack[k].staged
<1> DEFINE frame == [Top EXCEPT !.staged = Top.staged \ {lane}]
<1>1. /\ stack \in Seq(Frames) /\ Len(stack) \in Nat /\ Len(stack) >= 1
      /\ Top \in Frames
  BY StackFacts
<1>2. /\ frame \in Frames /\ frame.map = Top.map /\ frame.layer = Top.layer
      /\ frame.staged = Top.staged \ {lane}
  BY <1>1 DEF Frames
<1>3. Unstage(lane) = [stack EXCEPT ![Len(stack)] = frame]
  BY DEF Unstage, Top
<1> HIDE DEF frame
<1>4. Unstage(lane) \in Seq(Frames) /\ Len(Unstage(lane)) = Len(stack)
  BY <1>1, <1>2, <1>3
<1>5. \A k \in 1 .. Len(stack) :
        Unstage(lane)[k] = IF k = Len(stack) THEN frame ELSE stack[k]
  BY <1>1, <1>3
<1>6. Top = stack[Len(stack)]
  BY DEF Top
<1> QED
  BY <1>2, <1>4, <1>5, <1>6

\* Whatever a call stages is in its row, unless the goal has one output.
LEMMA StagedStays ==
  ASSUME SearchInv, StagedIsInRow, [Next]_vars
  PROVE  StagedIsInRow'
<1> USE DEF StagedIsInRow
<1>1. ASSUME UNCHANGED <<stack, request>> PROVE StagedIsInRow'
  BY <1>1, TableStays
<1>2. ASSUME FailIteration \/ FindHere \/ FindLast PROVE StagedIsInRow'
  BY <1>2 DEF FailIteration, FindHere, FindLast, Found
<1>3. ASSUME StartIteration PROVE StagedIsInRow'
  BY <1>3 DEF StartIteration, Frame
<1>4. ASSUME NEW lanes \in SUBSET Nat, pc \in {"visit", "expand"}, UNCHANGED request,
             stack' = [stack EXCEPT ![Len(stack)].staged = lanes],
             \A lane \in lanes : \/ lane < TopLayer.next_layer_count
                                 \/ OneOutput(request.goal)
      PROVE  StagedIsInRow'
  <2>1. stack \in Seq(Frames) /\ Len(stack) \in Nat /\ Len(stack) >= 1
    BY <1>4, StackFacts
  <2>2. Tab' = Tab /\ Len(stack') = Len(stack)
    BY <1>4, <2>1, TableStays
  <2>3. ASSUME NEW k \in 1 .. Len(stack)
        PROVE  /\ stack'[k].layer = stack[k].layer
               /\ stack'[k].staged = IF k = Len(stack) THEN lanes ELSE stack[k].staged
    <3>1. stack[k] \in Frames
      BY <2>1
    <3>2. stack'[k] = IF k = Len(stack) THEN [stack[k] EXCEPT !.staged = lanes]
                                        ELSE stack[k]
      BY <1>4, <2>1
    <3> QED
      BY <3>1, <3>2 DEF Frames
  <2>4. 1 \in 1 .. Len(stack)
    BY <2>1
  <2> QED
    BY <1>4, <2>1, <2>2, <2>3, <2>4 DEF TopLayer, Top
<1>5. ASSUME Stage PROVE StagedIsInRow'
  <2>1. /\ pc = "visit" /\ UNCHANGED request /\ StagedLanes \in SUBSET Nat
        /\ stack' = [stack EXCEPT ![Len(stack)].staged = StagedLanes]
    BY <1>5 DEF Stage, searchVars, StagedLanes, Lanes
  <2>2. request \in Requests /\ Top.map \in Maps /\ Top.layer \in LayerIds
    BY <2>1, StackFacts
  <2>3. \A lane \in StagedLanes : \/ lane < TopLayer.next_layer_count
                                  \/ OneOutput(request.goal)
    BY <2>2, PaddingIsOneOutput DEF StagedLanes, TopLayer
  <2> QED
    BY <1>4, <2>1, <2>3
<1>6. ASSUME pc = "expand"
      PROVE  /\ Top.staged \in SUBSET Nat
             /\ \A lane \in Top.staged : \/ lane < TopLayer.next_layer_count
                                         \/ OneOutput(request.goal)
  BY <1>6, StackFacts DEF Top, TopLayer
<1>7. ASSUME Skip PROVE StagedIsInRow'
  <2>1. PICK lane : /\ pc = "expand" /\ UNCHANGED request
                    /\ stack' = [stack EXCEPT ![Len(stack)].staged = Top.staged \ {lane}]
    BY <1>7 DEF Skip, Unstage, Top, searchVars
  <2> QED
    BY <1>4, <1>6, <2>1
<1>8. ASSUME Descend PROVE StagedIsInRow'
  <2>1. PICK lane, frame :
          /\ pc = "expand" /\ UNCHANGED request /\ frame.staged = {}
          /\ lane \in Top.staged
          /\ stack' = Append(Unstage(lane), frame)
    BY <1>8 DEF Descend, Frame, searchVars
  <2>2. stack \in Seq(Frames) /\ Len(stack) \in Nat /\ Len(stack) >= 1
    BY <2>1, StackFacts
  <2>3. /\ Unstage(lane) \in Seq(Frames) /\ Len(Unstage(lane)) = Len(stack)
        /\ \A k \in 1 .. Len(stack) :
             /\ Unstage(lane)[k].layer = stack[k].layer
             /\ Unstage(lane)[k].staged \subseteq stack[k].staged
    BY <2>1, <2>2, Unstaged
  <2>4. /\ Len(stack') = Len(stack) + 1 /\ stack'[Len(stack) + 1] = frame
        /\ \A k \in 1 .. Len(stack) : stack'[k] = Unstage(lane)[k]
    BY <2>1, <2>2, <2>3
  <2>5. Tab' = Tab
    BY <2>1, TableStays
  <2>6. 1 \in 1 .. Len(stack)
    BY <2>2
  <2> QED
    BY <2>1, <2>2, <2>3, <2>4, <2>5, <2>6
<1>9. ASSUME Return0 PROVE StagedIsInRow'
  <2>1. /\ pc = "expand" /\ UNCHANGED request /\ Len(stack) > 1
        /\ stack' = SubSeq(stack, 1, Len(stack) - 1)
    BY <1>9 DEF Return0, searchVars
  <2>2. stack \in Seq(Frames) /\ Len(stack) \in Nat
    BY <2>1, StackFacts
  <2>3. Len(stack') = Len(stack) - 1 /\ \A k \in 1 .. Len(stack') : stack'[k] = stack[k]
    BY <2>1, <2>2
  <2>4. Tab' = Tab
    BY <2>1, TableStays
  <2> QED
    BY <2>1, <2>2, <2>3, <2>4
<1>10. ASSUME NEW r \in Requests, NewRequest(r) PROVE StagedIsInRow'
  <2>1. Len(stack) = 0 /\ stack' = stack
    BY <1>10, StackUnchanged DEF NewRequest, SearchInv, StackIsBounded, TypeOK
  <2> QED
    BY <2>1
<1>11. ASSUME RefuseType \/ AnswerZero \/ StartPresearch \/ GiveUp \/ MissLast
                \/ StartMainSearch \/ ReturnPresearch \/ ReturnMainSearch
       PROVE  StagedIsInRow'
  BY <1>1, <1>11 DEF RefuseType, AnswerZero, StartPresearch, GiveUp, MissLast,
       StartMainSearch, ReturnPresearch, ReturnMainSearch, searchVars
<1>12. ASSUME UNCHANGED vars PROVE StagedIsInRow'
  BY <1>1, <1>12 DEF vars, searchVars
<1> QED
  BY <1>2, <1>3, <1>5, <1>7, <1>8, <1>9, <1>10, <1>11, <1>12 DEF Next, SolveStep

LEMMA SecondCall ==
  ASSUME NEW S, NEW first \in Seq(S), Len(first) = 1, NEW second \in S
  PROVE  LET both == Append(first, second)
         IN  Len(both) = 2 /\ both[1] = first[1] /\ both[2] = second
<1> DEFINE both == Append(first, second)
           n == Len(first)
<1>1. /\ Len(both) = n + 1 /\ both[n + 1] = second
      /\ \A k \in 1 .. n : both[k] = first[k]
  BY AppendProperties
<1>2. n = 1
  OBVIOUS
<1> HIDE DEF both, n
<1>3. Len(both) = 2 /\ both[1] = first[1] /\ both[2] = second
  BY <1>1, <1>2
<1> QED
  BY <1>3 DEF both

\* The cache an iteration begins with after the first one knows no map.
LEMMA ConstantStays ==
  ASSUME SearchInv, EntriesAreOld, StagedIsInRow, ConstantIsNear, [Next]_vars
  PROVE  ConstantIsNear'
<1>1. ASSUME pc' \notin {"iterate", "visit", "expand"} PROVE ConstantIsNear'
  BY <1>1 DEF ConstantIsNear
<1>2. ASSUME bfs_depth' = 1 PROVE ConstantIsNear'
  BY <1>2 DEF ConstantIsNear
<1>3. ASSUME UNCHANGED <<pc, request, bfs_depth, stack, array, global_trial>>
      PROVE  ConstantIsNear'
  BY <1>3, TableStays DEF ConstantIsNear, Waits, Tried
\* A step within the second iteration.
<1>4. ASSUME pc \in {"visit", "expand"}, pc' \in {"visit", "expand"},
             UNCHANGED <<request, bfs_depth>>,
             IsConstantGoal /\ bfs_depth = 2 =>
               \A lane : Leads(lane) /\ (Waits(lane) \/ Tried(lane)) =>
                           Waits(lane)' \/ Tried(lane)'
      PROVE  ConstantIsNear'
  BY <1>4, TableStays DEF ConstantIsNear
<1>5. ASSUME pc \in {"visit", "expand"}
      PROVE  /\ request \in Requests /\ stack \in Seq(Frames) /\ Len(stack) \in Nat
             /\ Len(stack) >= 1 /\ Len(stack) <= bfs_depth /\ bfs_depth \in Nat
             /\ stack[1].map = identity /\ stack[1].layer = 0
             /\ (Top.staged # {} => Len(stack) < bfs_depth)
  BY <1>5, StackFacts DEF SearchInv, StackIsBounded, StackIsChain, StagedIsInRow
<1>6. ASSUME StartIteration PROVE ConstantIsNear'
  <2>1. pc = "iterate" /\ Len(stack') = 1 /\ pc' = "visit"
        /\ UNCHANGED <<request, bfs_depth, array, global_trial>>
    BY <1>6 DEF StartIteration, searchVars, cacheVars
  <2>2. bfs_depth = 2 =>
          \A s \in Slots : array'[s].trial # global_trial'
    BY <2>1, TrialFacts DEF EntriesAreOld
  <2> QED
    BY <2>1, <2>2, TableStays DEF ConstantIsNear, Waits
<1>7. ASSUME FailIteration PROVE ConstantIsNear'
  <2>1. /\ pc = "expand" /\ Len(stack) = 1 /\ stack[1].staged = {}
        /\ bfs_depth' = bfs_depth + 1 /\ pc' = "iterate" /\ UNCHANGED request
    BY <1>7 DEF FailIteration, searchVars, Top
  <2>2. ASSUME IsConstantGoal, bfs_depth = 2 PROVE FALSE
    <3>1. mins(request.goal) # zero_map
      BY <2>1 DEF SearchInv, BoundIsJustified
    <3>2. PICK lane : Leads(lane)
      BY <1>5, <2>1, <2>2, <3>1, SomeLaneLeads
    <3> QED
      BY <2>1, <2>2, <3>2 DEF ConstantIsNear, Waits, Tried
  <2> QED
    BY <1>5, <2>1, <2>2, TableStays DEF ConstantIsNear
<1>8. ASSUME MissLast PROVE ConstantIsNear'
  <2>1. /\ pc = "visit" /\ pc' = "expand" /\ Depth = bfs_depth - 1
        /\ ~ test_map(request.goal, Top.map) /\ FinishingLanes = {}
        /\ UNCHANGED <<request, bfs_depth, stack, array, global_trial>>
    BY <1>8 DEF MissLast, searchVars, cacheVars
  <2>2. ASSUME bfs_depth = 2, NEW lane, Leads(lane), Waits(lane) \/ Tried(lane)
        PROVE  Waits(lane)'
    <3>1. Len(stack) = 2
      BY <1>5, <2>1, <2>2 DEF Depth
    <3>2. ~ Tried(lane)
      <4> SUFFICES ASSUME Tried(lane) PROVE FALSE
        OBVIOUS
      <4> DEFINE map == LaneMap(First, lane)
      <4>1. Top.map = map /\ TopLayer = Tab.layers[RowLayer(lane)]
        BY <3>1 DEF Tried, Top, TopLayer
      <4>2. RowLayer(lane) \in LayerIds
        BY <1>5, <2>1, <2>2, FirstRow DEF Leads
      <4>3. TopLayer.next_layer_count \in Nat
        BY <1>5, <2>1, <4>1, <4>2, RowFacts
      <4>4. 0 .. TopLayer.next_layer_count - 1 \subseteq Lanes(TopLayer)
        <5> DEFINE n == TopLayer.next_layer_count
        <5>1. n <= round_up(n, MAP_ARRAY_ALIGNMENT)
              /\ round_up(n, MAP_ARRAY_ALIGNMENT) \in Nat
          BY <4>3, RoundedUp, AlignmentAssumption
        <5> QED
          BY <4>3, <5>1 DEF Lanes
      <4> QED
        BY <2>1, <2>2, <4>1, <4>4 DEF Leads, FinishingLanes
    <3>3. lane \in stack[1].staged
      BY <2>2, <3>1, <3>2 DEF Waits
    <3> QED
      BY <2>1, <2>2, <3>2, <3>3, TableStays DEF Waits
  <2> QED
    BY <1>4, <2>1, <2>2
<1>9. ASSUME Stage PROVE ConstantIsNear'
  <2>1. /\ pc = "visit" /\ pc' = "expand" /\ Depth < bfs_depth - 1
        /\ stack' = [stack EXCEPT ![Len(stack)].staged = StagedLanes]
        /\ UNCHANGED <<request, bfs_depth, array, global_trial>>
    BY <1>9 DEF Stage, searchVars, cacheVars
  <2>2. ASSUME IsConstantGoal, bfs_depth = 2, NEW lane, Leads(lane),
               Waits(lane) \/ Tried(lane)
        PROVE  Waits(lane)'
    <3>1. Len(stack) = 1
      <4> DEFINE height == Len(stack)
      <4>1. height \in Nat /\ height >= 1 /\ height - 1 < bfs_depth - 1 /\ bfs_depth = 2
        BY <1>5, <2>1, <2>2 DEF Depth
      <4> HIDE DEF height
      <4>2. height = 1
        BY <4>1
      <4> QED
        BY <4>2 DEF height
    <3>2. stack'[1].staged = StagedLanes
      <4>1. stack[1] \in Frames
        BY <2>1, <3>1, StackFacts DEF Top
      <4>2. stack'[1] = [stack[1] EXCEPT !.staged = StagedLanes]
        BY <1>5, <2>1, <3>1
      <4> QED
        BY <4>1, <4>2 DEF Frames
    <3>3. Top.map = identity /\ TopLayer = First
      BY <1>5, <2>1, <3>1 DEF Top, TopLayer, First
    <3>4. /\ lane \in Lanes(First) /\ LaneMap(First, lane) \in Maps
          /\ apply_mapping(identity, LaneMap(First, lane)) = LaneMap(First, lane)
      BY <1>5, <2>1, <2>2, FirstRow DEF Leads
    <3>5. get_dist_threshold(accuracy, GroupOf(request), bfs_depth - Depth - 1) \in Nat
      <4>1. bfs_depth - Depth - 1 = 1
        BY <2>2, <3>1 DEF Depth
      <4> QED
        BY <4>1 DEF get_dist_threshold
    <3>6. legal_dist(request.goal, LaneMap(First, lane),
            get_dist_threshold(accuracy, GroupOf(request), bfs_depth - Depth - 1))
      <4>1. request.goal \in Goals /\ OneOutput(request.goal)
        BY <1>5, <2>1, <2>2, RequestFacts DEF IsRequest, IsConstantGoal
      <4> QED
        BY <3>4, <3>5, <4>1, ConstantIsLegal
    <3>7. lane \in StagedLanes
      BY <3>3, <3>4, <3>6 DEF StagedLanes
    <3> QED
      BY <2>1, <2>2, <3>1, <3>2, <3>7, TableStays DEF Waits, Tried
  <2> QED
    BY <1>4, <2>1, <2>2
\* What the leading lanes are when a lane is taken in the second iteration.
<1>10. ASSUME pc = "expand", IsConstantGoal, bfs_depth = 2, Top.staged # {},
              NEW lane, Leads(lane)
       PROVE  /\ Len(stack) = 1 /\ Waits(lane) /\ lane \in Top.staged
              /\ Top.map = identity /\ TopLayer = First
              /\ lane \in 0 .. First.next_layer_count - 1
  <2>1. Len(stack) = 1
    <3> DEFINE height == Len(stack)
    <3>1. height \in Nat /\ height >= 1 /\ height < bfs_depth /\ bfs_depth = 2
      BY <1>5, <1>10
    <3> HIDE DEF height
    <3>2. height = 1
      BY <3>1
    <3> QED
      BY <3>2 DEF height
  <2>2. Waits(lane)
    BY <1>10 DEF ConstantIsNear, Tried
  <2> QED
    BY <1>5, <1>10, <2>1, <2>2 DEF Waits, Leads, Top, TopLayer, First
<1>11. ASSUME Skip PROVE ConstantIsNear'
  <2>1. PICK lane \in Top.staged :
          /\ \E next \in NextLayers(TopLayer, lane) :
               MainCache!Hit(apply_mapping(Top.map, Tab.layers[next].map), Depth)
          /\ stack' = Unstage(lane)
    BY <1>11 DEF Skip, MainCache!cache_check_hit
  <2>2. /\ pc = "expand" /\ pc' = "expand"
        /\ UNCHANGED <<request, bfs_depth, array, global_trial>>
    BY <1>11 DEF Skip, MainCache!cache_check_hit, MainCache!cacheVars, searchVars
  <2>3. ASSUME IsConstantGoal, bfs_depth = 2, NEW l, Leads(l),
               Waits(l) \/ Tried(l)
        PROVE  Waits(l)'
    <3>1. /\ Len(stack) = 1 /\ Waits(l) /\ l \in Top.staged
          /\ Top.map = identity /\ TopLayer = First
          /\ l \in 0 .. First.next_layer_count - 1
      BY <1>10, <2>1, <2>2, <2>3
    <3>2. l # lane
      <4> SUFFICES ASSUME l = lane PROVE FALSE
        OBVIOUS
      <4> DEFINE map == LaneMap(First, l)
      <4>1. /\ NextLayers(First, l) = {RowLayer(l)} /\ map \in Maps
            /\ apply_mapping(identity, Tab.layers[RowLayer(l)].map) = map
        BY <1>5, <2>2, <3>1, FirstRow
      <4>2. MainCache!Hit(map, Depth)
        BY <2>1, <3>1, <4>1
      <4>3. Slot(map) \in Slots
        <5>1. RowLayer(l) \in LayerIds /\ Tab.layers[RowLayer(l)].map = map
          BY <1>5, <2>2, <3>1, FirstRow
        <5> QED
          BY <1>5, <2>2, <5>1, SearchAssumption DEF LayerIds, Tab
      <4> QED
        BY <3>1, <4>2, <4>3 DEF Waits, MainCache!Hit
    <3>3. stack'[1].staged = stack[1].staged \ {lane}
      BY <2>1, <2>2, <3>1, Unstaged
    <3> QED
      BY <2>2, <3>1, <3>2, <3>3, TableStays DEF Waits, Top
  <2> QED
    BY <1>4, <2>2, <2>3
<1>12. ASSUME Descend PROVE ConstantIsNear'
  <2>1. PICK lane \in Top.staged : \E next \in NextLayers(TopLayer, lane) :
          LET output == apply_mapping(Top.map, Tab.layers[next].map)
          IN  /\ MainCache!cache_check_miss(output, Depth)
              /\ stack' = Append(Unstage(lane), Frame(output, next))
              /\ IsNextLane(lane)
    BY <1>12 DEF Descend
  <2>2. PICK next \in NextLayers(TopLayer, lane) :
          LET output == apply_mapping(Top.map, Tab.layers[next].map)
          IN  /\ MainCache!cache_check_miss(output, Depth)
              /\ stack' = Append(Unstage(lane), Frame(output, next))
    BY <2>1
  <2> DEFINE output == apply_mapping(Top.map, Tab.layers[next].map)
  <2>3. pc = "expand" /\ pc' = "visit" /\ UNCHANGED <<request, bfs_depth>>
    BY <1>12 DEF Descend, searchVars
  <2>4. ASSUME IsConstantGoal, bfs_depth = 2, NEW l, Leads(l),
               Waits(l) \/ Tried(l)
        PROVE  Waits(l)' \/ Tried(l)'
    <3>1. /\ Len(stack) = 1 /\ Waits(l) /\ l \in Top.staged
          /\ Top.map = identity /\ TopLayer = First
          /\ l \in 0 .. First.next_layer_count - 1
      BY <1>10, <2>1, <2>3, <2>4
    <3>2. lane \in 0 .. First.next_layer_count - 1
      <4>1. lane <= l
        BY <2>1, <3>1 DEF IsNextLane
      <4>2. lane \in Nat /\ First.next_layer_count \in Nat
        BY <1>5, <2>1, <2>3, StackFacts, RowFacts DEF First
      <4> QED
        BY <3>1, <4>1, <4>2
    <3>3. /\ next = RowLayer(lane) /\ output = LaneMap(First, lane)
      BY <1>5, <2>2, <2>3, <3>1, <3>2, FirstRow
    <3>4. /\ Len(stack') = 2
          /\ stack'[1].staged = stack[1].staged \ {lane}
          /\ stack'[2].map = output /\ stack'[2].layer = next
      <4>1. /\ Unstage(lane) \in Seq(Frames) /\ Len(Unstage(lane)) = 1
            /\ Unstage(lane)[1].staged = stack[1].staged \ {lane}
        BY <2>3, <3>1, Unstaged
      <4>2. stack' = Append(Unstage(lane), Frame(output, next))
        BY <2>2
      <4>3. Frame(output, next) \in Frames
        <5>1. next \in LayerIds /\ LaneMap(First, lane) \in Maps
          BY <1>5, <2>3, <3>2, <3>3, FirstRow
        <5> QED
          BY <3>3, <5>1 DEF Frame, Frames
      <4> DEFINE below == Unstage(lane)
                 frame == Frame(output, next)
      <4>4. /\ below \in Seq(Frames) /\ Len(below) = 1 /\ frame \in Frames
            /\ stack' = Append(below, frame)
        BY <4>1, <4>2, <4>3
      <4> HIDE DEF below, frame
      <4>5. Len(stack') = 2 /\ stack'[1] = below[1] /\ stack'[2] = frame
        BY <4>4, SecondCall
      <4> QED
        BY <4>1, <4>5 DEF Frame, below, frame
    <3>5. CASE l = lane
      BY <2>3, <3>3, <3>4, <3>5, TableStays DEF Tried
    <3>6. CASE l # lane
      <4>1. LaneMap(First, l) # output
        <5>1. mins(request.goal) # zero_map
          BY <2>3 DEF SearchInv, BoundIsJustified
        <5> QED
          BY <1>5, <2>3, <2>4, <3>1, <3>2, <3>3, <3>6, <5>1, SomeLaneLeads
      <4>2. /\ array' = [array EXCEPT ![Slot(output)] =
                          [value |-> output, depth |-> Depth, trial |-> global_trial]]
            /\ global_trial' = global_trial
        BY <2>2 DEF MainCache!cache_check_miss, MainCache!Store
      <4>3. DOMAIN array = Slots
        BY DEF SearchInv, TypeOK
      <4> HIDE DEF output
      <4>4. \A s \in Slots : array'[s].trial = global_trial' =>
                               array'[s].value # LaneMap(First, l)
        BY <3>1, <4>1, <4>2, <4>3 DEF Waits
      <4> QED
        BY <2>3, <3>1, <3>4, <3>6, <4>4, TableStays DEF Waits, Top
    <3> QED
      BY <3>5, <3>6
  <2> QED
    BY <1>4, <2>3, <2>4
<1>13. ASSUME Return0 PROVE ConstantIsNear'
  <2>1. /\ pc = "expand" /\ pc' = "expand" /\ Len(stack) > 1
        /\ stack' = SubSeq(stack, 1, Len(stack) - 1)
        /\ UNCHANGED <<request, bfs_depth, array, global_trial>>
    BY <1>13 DEF Return0, searchVars, cacheVars
  <2>2. stack'[1] = stack[1]
    BY <1>5, <2>1
  <2>3. ASSUME NEW lane, Waits(lane) \/ Tried(lane) PROVE Waits(lane)'
    BY <2>1, <2>2, <2>3, TableStays DEF Waits, Tried
  <2> QED
    BY <1>4, <2>1, <2>3
<1>14. ASSUME FindHere \/ FindLast \/ RefuseType \/ AnswerZero \/ GiveUp
                \/ ReturnPresearch \/ ReturnMainSearch
       PROVE  ConstantIsNear'
  BY <1>1, <1>14 DEF FindHere, FindLast, Found, RefuseType, AnswerZero, GiveUp,
       ReturnPresearch, ReturnMainSearch
<1>15. ASSUME StartPresearch \/ StartMainSearch PROVE ConstantIsNear'
  BY <1>2, <1>15 DEF StartPresearch, StartMainSearch
<1>16. ASSUME NEW r \in Requests, NewRequest(r) PROVE ConstantIsNear'
  BY <1>1, <1>16 DEF NewRequest
<1>17. ASSUME UNCHANGED vars PROVE ConstantIsNear'
  BY <1>3, <1>17 DEF vars, searchVars, cacheVars
<1> QED
  BY <1>6, <1>7, <1>8, <1>9, <1>11, <1>12, <1>13, <1>14, <1>15, <1>16, <1>17
     DEF Next, SolveStep

LEMMA NoPaddingNext ==
  SearchInv /\ StagedIsInRow /\ ConstantIsNear => PaddingIsNotTaken
<1> SUFFICES ASSUME SearchInv, StagedIsInRow, ConstantIsNear,
                    OneOutput(request.goal) => GroupOf(request) = 1
             PROVE  /\ pc = "expand" => \A lane \in Top.staged :
                         IsNextLane(lane) => lane < TopLayer.next_layer_count
                    /\ pc = "visit" => \A lane \in FinishingLanes :
                         lane < TopLayer.next_layer_count
                    /\ pc = "visit" /\ Depth < bfs_depth - 1 =>
                         \A k \in 1 .. Len(stack) - 1 : \A lane \in stack[k].staged :
                           lane < Tab.layers[stack[k].layer].next_layer_count
  BY DEF PaddingIsNotTaken
<1>1. ASSUME pc = "expand", NEW lane \in Top.staged, IsNextLane(lane)
      PROVE  lane < TopLayer.next_layer_count
  <2>1. /\ request \in Requests /\ stack \in Seq(Frames) /\ Len(stack) \in Nat
        /\ Len(stack) >= 1 /\ Len(stack) < bfs_depth /\ bfs_depth \in Nat
        /\ lane \in Nat /\ Top = stack[Len(stack)]
    BY <1>1, StackFacts DEF SearchInv, StackIsBounded, Top
  <2>2. CASE ~ OneOutput(request.goal)
    BY <1>1, <2>1, <2>2 DEF StagedIsInRow, TopLayer
  <2>3. CASE OneOutput(request.goal)
    <3>1. IsConstantGoal /\ bfs_depth = 2 /\ Len(stack) = 1
      <4>1. IsConstantGoal
        BY <2>3 DEF IsConstantGoal
      <4>2. bfs_depth <= 2
        BY <1>1, <4>1 DEF ConstantIsNear
      <4> DEFINE height == Len(stack)
      <4>3. height \in Nat /\ height >= 1 /\ height < bfs_depth /\ bfs_depth \in Nat
        BY <2>1
      <4> HIDE DEF height
      <4>4. bfs_depth = 2 /\ height = 1
        BY <4>2, <4>3
      <4> QED
        BY <4>1, <4>4 DEF height
    <3>2. mins(request.goal) # zero_map
      BY <1>1 DEF SearchInv, BoundIsJustified
    <3>3. PICK l : Leads(l)
      BY <2>1, <3>1, <3>2, SomeLaneLeads
    <3>4. l \in stack[1].staged
      BY <1>1, <3>1, <3>3 DEF ConstantIsNear, Waits, Tried
    <3>5. TopLayer = First /\ First.next_layer_count \in Nat
      BY <2>1, <3>1, RowFacts DEF TopLayer, First, StagedIsInRow
    <3>6. l \in 0 .. First.next_layer_count - 1
      BY <3>3 DEF Leads
    <3>7. lane <= l
      BY <1>1, <2>1, <3>1, <3>4 DEF IsNextLane
    <3> QED
      BY <2>1, <3>5, <3>6, <3>7
  <2> QED
    BY <2>2, <2>3
<1>2. ASSUME pc = "visit", NEW lane \in FinishingLanes
      PROVE  lane < TopLayer.next_layer_count
  <2>1. /\ request \in Requests /\ Top.map \in Maps /\ Top.layer \in LayerIds
        /\ mins(request.goal) # zero_map
    BY <1>2, StackFacts DEF SearchInv, BoundIsJustified
  <2> SUFFICES ASSUME ~ lane < TopLayer.next_layer_count PROVE FALSE
    OBVIOUS
  <2>2. LaneMap(TopLayer, lane) = zero_map
    BY <2>1, TableFacts DEF IsRow, LaneMap, MapOf, FinishingLanes, TopLayer
  <2>3. apply_mapping(Top.map, zero_map) = zero_map
    BY <2>1 DEF apply_mapping, zero_map, Maps
  <2>4. request.goal \in Goals
    BY <2>1, RequestFacts DEF IsRequest
  <2> QED
    BY <2>1, <2>2, <2>3, <2>4, ZeroGoal DEF FinishingLanes
<1>3. ASSUME pc = "visit", Depth < bfs_depth - 1,
             NEW k \in 1 .. Len(stack) - 1, NEW lane \in stack[k].staged
      PROVE  lane < Tab.layers[stack[k].layer].next_layer_count
  <2>1. Len(stack) \in Nat /\ bfs_depth \in Nat
    BY <1>3, StackFacts
  <2>2. k \in 1 .. Len(stack) /\ Len(stack) > 0 /\ bfs_depth > 2
    BY <1>3, <2>1 DEF Depth
  <2>3. ~ OneOutput(request.goal)
    BY <1>3, <2>1, <2>2 DEF ConstantIsNear, IsConstantGoal
  <2> QED
    BY <1>3, <2>2, <2>3 DEF StagedIsInRow
<1> QED
  BY <1>1, <1>2, <1>3

\* No lane past the end of a row is followed, over all iterations, searches
\* and calls, nor still staged where the next call's part of the buffer
\* begins: a goal of several outputs stages none, and for a constant the
\* search neither comes to one nor has a call that stages above another.
THEOREM PaddingIsNeverTaken == Spec => []PaddingIsNotTaken
<1> DEFINE PadInv == SearchInv /\ EntriesAreOld /\ StagedIsInRow /\ ConstantIsNear
<1>1. Init => PadInv
  BY InitInv, InitOld DEF Init, StagedIsInRow, ConstantIsNear
<1>2. PadInv /\ [Next]_vars => PadInv'
  BY NextInv, NextOld, StagedStays, ConstantStays
<1>3. PadInv => PaddingIsNotTaken
  BY NoPaddingNext
<1> QED
  BY <1>1, <1>2, <1>3, PTL DEF Spec

-----------------------------------------------------------------------------
(* The search implements what solve() promises (module HlpSolver), step by *)
(* step: the step that returns answers the call, a new request is a call,  *)
(* and everything in between is hidden from the caller.                    *)

\* The abstract specification's layers are the search's.
LEMMA SameLayers ==
  /\ Solver!Values = Values /\ Solver!Configs = Configs /\ Solver!identity = identity
  /\ \A config : Solver!LayerMap(config) = LayerMap(config)
  /\ \A f, g : Solver!apply_mapping(f, g) = apply_mapping(f, g)
<1>1. Solver!Values = Values
  BY DEF Solver!Values, Values
<1>2. Solver!Configs = Configs /\ Solver!identity = identity
  BY <1>1 DEF Solver!Configs, Configs, Solver!HEX_CONFIG_COUNT, HEX_CONFIG_COUNT,
              Solver!identity, identity
<1>3. \A v, config : Solver!hex_layer(v, config) = hex_layer(v, config)
  BY DEF Solver!hex_layer, hex_layer, Solver!ModeBits, ModeBits,
         Solver!Comparator, Comparator, Solver!Larger, Larger
<1>4. \A config : Solver!LayerMap(config) = LayerMap(config)
  BY <1>1, <1>3, Zenon DEF Solver!LayerMap, LayerMap
<1>5. \A f, g : Solver!apply_mapping(f, g) = apply_mapping(f, g)
  BY <1>1, Zenon DEF Solver!apply_mapping, apply_mapping
<1> QED
  BY <1>1, <1>2, <1>4, <1>5

\* What a chain of configs computes, layer by layer.
LEMMA ChainInSteps ==
  ASSUME NEW n \in Nat, NEW configs \in [1 .. n -> Configs], NEW maps,
         Len(configs) = n,
         maps[1] = identity,
         \A d \in 1 .. n : maps[d + 1] = apply_mapping(maps[d], LayerMap(configs[d]))
  PROVE  Solver!ChainMap(configs) = maps[n + 1]
<1> DEFINE Through(g) ==
             [k \in 0 .. n |-> IF k = 0 THEN Solver!identity
                               ELSE Solver!apply_mapping(g[k - 1],
                                      Solver!LayerMap(configs[k]))]
           along == [k \in 0 .. n |-> maps[k + 1]]
<1>1. Solver!ChainMap(configs) = (CHOOSE g : g = Through(g))[n]
  BY DEF Solver!ChainMap
<1>2. along = Through(along)
  <2>1. ASSUME NEW k \in 0 .. n
        PROVE  along[k] = IF k = 0 THEN Solver!identity
                          ELSE Solver!apply_mapping(along[k - 1],
                                 Solver!LayerMap(configs[k]))
    <3>1. CASE k = 0
      BY <3>1, SameLayers
    <3>2. CASE k # 0
      <4>1. k \in 1 .. n /\ k - 1 \in 0 .. n /\ (k - 1) + 1 = k
        BY <3>2
      <4>2. along[k] = maps[k + 1] /\ along[k - 1] = maps[k]
        BY <4>1
      <4> HIDE DEF along
      <4>3. maps[k + 1] = Solver!apply_mapping(maps[k], Solver!LayerMap(configs[k]))
        BY <4>1, SameLayers
      <4> QED
        BY <3>2, <4>2, <4>3
    <3> QED
      BY <3>1, <3>2
  <2>2. along = [k \in 0 .. n |-> along[k]]
    OBVIOUS
  <2> HIDE DEF along
  <2> QED
    BY <2>1, <2>2
<1>3. ASSUME NEW g, g = Through(g)
      PROVE  g[n] = maps[n + 1]
  <2> DEFINE Alike == {k \in 0 .. n : g[k] = maps[k + 1]}
  <2>1. ASSUME NEW k \in 0 .. n
        PROVE  g[k] = IF k = 0 THEN identity
                      ELSE apply_mapping(g[k - 1], LayerMap(configs[k]))
    <3>1. Through(g)[k] = IF k = 0 THEN identity
                          ELSE apply_mapping(g[k - 1], LayerMap(configs[k]))
      BY SameLayers
    <3> HIDE DEF Through
    <3> QED
      BY <1>3, <3>1, Zenon
  <2>2. 0 \in Alike
    BY <2>1
  <2>3. \A k \in 1 .. n : k - 1 \in Alike => k \in Alike
    BY <2>1
  <2>4. 0 .. n \subseteq Alike
    <3> HIDE DEF Alike
    <3> QED
      BY <2>2, <2>3, InductionTo
  <2> QED
    BY <2>4
<1> HIDE DEF Through, along
<1> QED
  BY <1>1, <1>2, <1>3

\* What the callers see of a state in which solve() has returned.
Reply == [length |-> result, chain |-> [k \in 1 .. MaxChain + 1 |-> chain[k - 1]]]

\* A length that solve() returns is never negative, but for one that says
\* that nothing was found.
ResultIsLength ==
  pc = "done" => result \in Nat \/ result = request.max_depth + 1

ReplyIsKept == pc = "done" => Reply # none /\ Solver!IsReply(request, Reply)

LEMMA ReplyIsSound ==
  ASSUME BoundsAreSearched, SearchInv, ResultIsLength
  PROVE  ReplyIsKept
<1> SUFFICES ASSUME pc = "done"
             PROVE  Reply # none /\ Solver!IsReply(request, Reply)
  BY DEF ReplyIsKept
<1>1. /\ request \in Requests /\ result \in Int
      /\ chain \in [0 .. MaxChain -> Configs \cup {Unset}]
  BY DEF SearchInv, TypeOK
<1>2. request.max_depth \in Int /\ MaxChain \in Nat
  BY <1>1, RequestFacts, SearchAssumption
<1>3. Reply \in [length : Int, chain : [1 .. MaxChain + 1 -> Configs \cup {Unset}]]
  BY <1>1, <1>2 DEF Reply
<1>4. Reply # none
  BY <1>3, SearchAssumption
<1>5. SUFFICES ASSUME result <= request.max_depth
               PROVE  /\ result <= Len(Reply.chain)
                      /\ Solver!Computes(SubSeq(Reply.chain, 1, result), request.goal)
  BY <1>4 DEF Solver!IsReply, Solver!Accepted, Reply
<1>6. result <= MaxChain /\ ChainMeets(request.goal, chain, trail, result)
  BY <1>5, NoneFailsUnseen DEF SearchInv, AnswerIsJustified
<1>7. result \in 0 .. MaxChain
  BY <1>1, <1>2, <1>5, <1>6 DEF ResultIsLength
<1> DEFINE configs == SubSeq(Reply.chain, 1, result)
<1>8. /\ configs \in [1 .. result -> Configs]
      /\ Len(configs) = result
      /\ \A k \in 1 .. result : configs[k] = chain[k - 1]
  <2>1. Reply.chain = [k \in 1 .. MaxChain + 1 |-> chain[k - 1]]
    BY DEF Reply
  <2>2. Reply.chain \in Seq(Configs \cup {Unset}) /\ Len(Reply.chain) = MaxChain + 1
    BY <1>1, <1>2, <2>1
  <2>3. /\ configs \in Seq(Configs \cup {Unset}) /\ Len(configs) = result
        /\ \A k \in 1 .. result : configs[k] = Reply.chain[k]
    <3> HIDE DEF Reply
    <3> QED
      BY <1>7, <1>2, <2>2
  <2> HIDE DEF configs
  <2>4. \A k \in 1 .. result : configs[k] = chain[k - 1] /\ chain[k - 1] \in Configs
    <3>1. ASSUME NEW k \in 1 .. result
          PROVE  /\ k - 1 \in 0 .. result - 1
                 /\ k \in 1 .. MaxChain + 1
                 /\ Reply.chain[k] = chain[k - 1]
      BY <1>7, <1>2, <2>1
    <3> HIDE DEF Reply
    <3> QED
      BY <1>6, <2>3, <3>1 DEF ChainMeets
  <2> QED
    BY <1>7, <2>3, <2>4
<1> HIDE DEF configs
<1>9. /\ trail[1] = identity
      /\ \A d \in 1 .. result :
            trail[d + 1] = apply_mapping(trail[d], LayerMap(configs[d]))
  BY <1>7, <1>6, <1>8 DEF ChainMeets
<1>10. Solver!ChainMap(configs) = trail[result + 1]
  <2>1. result \in Nat
    BY <1>7
  <2> QED
    BY <2>1, <1>8, <1>9, ChainInSteps
<1>11. test_map(request.goal, trail[result + 1])
  BY <1>6 DEF ChainMeets
<1>12. \A k \in 1 .. Len(configs) : configs[k] \in Configs
  BY <1>8
<1>13. \A v \in Values : request.goal[v] # Wild =>
          Solver!ChainMap(configs)[v] = request.goal[v]
  BY <1>1, <1>10, <1>11, SearchAssumption DEF test_map, Determined, IsRequest, Goals
<1>14. Solver!Computes(configs, request.goal)
  BY <1>12, <1>13, SameLayers DEF Solver!Computes
<1>15. result <= Len(Reply.chain)
  BY <1>2, <1>7 DEF Reply
<1> QED
  BY <1>14, <1>15 DEF configs

LEMMA ResultStaysLength ==
  ASSUME SearchInv, ResultIsLength, [Next]_vars
  PROVE  ResultIsLength'
<1>1. length \in Nat
  BY SearchAssumption DEF SearchInv, TypeOK
<1>2. CASE UNCHANGED vars
  BY <1>2 DEF vars, searchVars, answerVars, ResultIsLength
<1>3. CASE \E r \in Requests : NewRequest(r)
  BY <1>3 DEF NewRequest, ResultIsLength
<1>4. CASE SolveStep
  <2>1. pc' = "done" => RefuseType \/ AnswerZero \/ ReturnPresearch \/ ReturnMainSearch
    BY <1>4 DEF SolveStep, StartPresearch, StartIteration, GiveUp, FailIteration,
       FindHere, FindLast, Found, MissLast, Stage, Skip, Descend, Return0, StartMainSearch
  <2> QED
    BY <1>1, <2>1 DEF RefuseType, AnswerZero, ReturnPresearch, ReturnMainSearch,
                      ResultIsLength, searchVars
<1> QED
  BY <1>2, <1>3, <1>4 DEF Next

\* What every step of the search is to a caller: it answers the call, is the
\* next call or changes nothing.
LEMMA StepIsAllowed ==
  ASSUME ReplyIsKept, [Next]_vars, ReplyIsKept'
  PROVE  [Solver!Next]_(Solver!vars)
<1>1. CASE UNCHANGED vars
  BY <1>1 DEF vars, searchVars, answerVars, Solver!vars
<1>2. ASSUME NEW r \in Requests, NewRequest(r)
      PROVE  [Solver!Next]_(Solver!vars)
  <2>1. Reply # none
    BY <1>2 DEF NewRequest, ReplyIsKept
  <2>2. Solver!Call(r)
    BY <1>2, <2>1 DEF NewRequest, Solver!Call, Reply
  <2> QED
    BY <2>2 DEF Solver!Next
<1>3. CASE SolveStep /\ pc' = "done"
  <2>1. pc # "done" /\ request' = request
    BY <1>3 DEF SolveStep, RefuseType, AnswerZero, StartPresearch, StartIteration,
       GiveUp, FailIteration, FindHere, FindLast, Found, MissLast, Stage, Skip,
       Descend, Return0, StartMainSearch, ReturnPresearch, ReturnMainSearch, searchVars
  <2>2. Reply' # none /\ Solver!IsReply(request', Reply')
    BY <1>3 DEF ReplyIsKept
  <2>3. Solver!Return
    BY <1>3, <2>1, <2>2 DEF Solver!Return, Reply
  <2> QED
    BY <2>3 DEF Solver!Next
<1>4. CASE SolveStep /\ pc' # "done"
  <2>1. pc # "done" /\ request' = request
    BY <1>4 DEF SolveStep, RefuseType, AnswerZero, StartPresearch, StartIteration,
       GiveUp, FailIteration, FindHere, FindLast, Found, MissLast, Stage, Skip,
       Descend, Return0, StartMainSearch, ReturnPresearch, ReturnMainSearch, searchVars
  <2> QED
    BY <1>4, <2>1 DEF Solver!vars
<1> QED
  BY <1>1, <1>2, <1>3, <1>4 DEF Next

\* The solver keeps its promise in every step, for requests that are searched
\* as far as they ask, or not with reduced accuracy: the step that returns
\* gives, if the length is not beyond the bound the caller asked for, a chain
\* that computes the goal; no other step changes the request or the answer a
\* caller was given.
THEOREM SolverIsImplemented ==
  ASSUME BoundsAreSearched
  PROVE  Spec => Solver!Init /\ [][Solver!Next]_(Solver!vars)
<1>1. Init => SearchInv /\ ResultIsLength /\ Solver!Init
  <2>1. Init => ResultIsLength /\ Solver!Init
    BY DEF Init, ResultIsLength, Solver!Init
  <2> QED
    BY <2>1, InitInv
<1>2. SearchInv /\ ResultIsLength /\ [Next]_vars => (SearchInv /\ ResultIsLength)'
  BY NextInv, ResultStaysLength
<1>3. ReplyIsKept /\ [Next]_vars /\ ReplyIsKept' => [Solver!Next]_(Solver!vars)
  BY StepIsAllowed
<1>4. SearchInv /\ ResultIsLength => ReplyIsKept
  BY ReplyIsSound
<1> QED
  BY <1>1, <1>2, <1>3, <1>4, PTL DEF Spec

=============================================================================
