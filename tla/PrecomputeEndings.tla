------------------------- MODULE PrecomputeEndings -------------------------
(***************************************************************************)
(* precompute_dbin_layers step by step: the three nested searches for      *)
(* endings of one, two and three layers, with the tree of the endings      *)
(* found, and the history that saves finished arrays for later calls.      *)
(***************************************************************************)
EXTENDS DbinLayers

CONSTANTS DbinGroups,  \* the groups callers ask for
          HexLayers,   \* what precompute_hex_layers(group, -1) returns
          NULL         \* no array, no layer, no node

VARIABLES endings_pc,  \* "idle", or the length of the endings looked for
          for_group,   \* the call's parameter, group
          config_i,    \* config, of the first loop
          final,       \* the ending another layer is put in front of
          base_layer,  \* the layer whose row is tried there
          hex_i,       \* the position in that row
          tree_data,   \* the endings found, by length
          unique_layers_tree,   \* pointers to them, ordered by their maps
          dbin_finish_history,
          endings_answer   \* the last call's group and result

treeVars == <<tree_data, unique_layers_tree>>
endingsLoopVars == <<config_i, final, base_layer, hex_i, treeVars>>
endingsVars == <<endings_pc, for_group, endingsLoopVars, dbin_finish_history,
                 endings_answer>>

Table == HexLayers[for_group]

\* A pointer into tree_data, with the map it points to, which never changes.
Pointer(k, i, map) == [dist |-> k, at |-> i, map |-> map]

cmp_dbin_layer(a, b) == IsBelow(a.map, b.map)

Tree == INSTANCE AaTree WITH Below <- cmp_dbin_layer

Row == RowOf(Table, base_layer)
Finals == IF endings_pc = "dist1" THEN tree_data[1] ELSE tree_data[2]

EndingsInit ==
  /\ endings_pc = "idle" /\ for_group = 1
  /\ config_i = 0 /\ final = 1 /\ base_layer = NULL /\ hex_i = 0
  /\ tree_data = <<<<>>, <<>>, <<>>>> /\ unique_layers_tree = NULL
  /\ dbin_finish_history = [g \in 1 .. 4 |-> NULL]
  /\ endings_answer = NULL

CallKnownEndings(g) ==
  /\ endings_pc = "idle" /\ dbin_finish_history[g] # NULL
  /\ endings_answer' = [group |-> g, endings |-> dbin_finish_history[g]]
  /\ UNCHANGED <<endings_pc, for_group, endingsLoopVars, dbin_finish_history>>

CallNewEndings(g) ==
  /\ endings_pc = "idle" /\ dbin_finish_history[g] = NULL
  /\ endings_pc' = "dist0" /\ for_group' = g
  /\ UNCHANGED <<endingsLoopVars, dbin_finish_history, endings_answer>>

\* An ending is written behind the others and kept if its map is new.
Add(k, ending) ==
  \E pointer \in {Pointer(k, Len(tree_data[k]) + 1, ending.map)} :
    IF Tree!find(unique_layers_tree, pointer) # NULL
    THEN UNCHANGED treeVars
    ELSE /\ tree_data' = [tree_data EXCEPT ![k] = Append(@, ending)]
         /\ unique_layers_tree' = Tree!aa_add(unique_layers_tree, pointer)

TryDist0 ==
  /\ endings_pc = "dist0" /\ config_i < DBIN_CONFIG_COUNT
  /\ Add(1, Ending(DbinMap(config_i), config_i, 0, 0))
  /\ config_i' = config_i + 1
  /\ UNCHANGED <<endings_pc, for_group, final, base_layer, hex_i,
                 dbin_finish_history, endings_answer>>

StartDist1 ==
  /\ endings_pc = "dist0" /\ config_i = DBIN_CONFIG_COUNT
  /\ endings_pc' = "dist1" /\ base_layer' = 0
  /\ UNCHANGED <<for_group, config_i, final, hex_i, treeVars,
                 dbin_finish_history, endings_answer>>

\* hex_dist2_config keeps the position in the identity's row for now.
TryDist1 ==
  /\ endings_pc = "dist1" /\ final <= Len(Finals) /\ hex_i < Len(Row)
  /\ LET behind == Finals[final]
         layer == Table.layers[Row[hex_i + 1]]
     IN  Add(2, Ending(prepend(layer.map, behind.map), behind.dbin_config,
                       layer.config, hex_i))
  /\ hex_i' = hex_i + 1
  /\ UNCHANGED <<endings_pc, for_group, config_i, final, base_layer,
                 dbin_finish_history, endings_answer>>

NextDist1 ==
  /\ endings_pc = "dist1" /\ final <= Len(Finals) /\ hex_i = Len(Row)
  /\ final' = final + 1 /\ hex_i' = 0
  /\ UNCHANGED <<endings_pc, for_group, config_i, base_layer, treeVars,
                 dbin_finish_history, endings_answer>>

StartDist2 ==
  /\ endings_pc = "dist1" /\ final > Len(Finals)
  /\ endings_pc' = "dist2" /\ final' = 1 /\ base_layer' = NULL
  /\ UNCHANGED <<for_group, config_i, hex_i, treeVars, dbin_finish_history,
                 endings_answer>>

\* Mutated form: the position is left in the ending.
PickFinalKeepingPosition ==
  /\ endings_pc = "dist2" /\ final <= Len(Finals) /\ base_layer = NULL
  /\ base_layer' = RowOf(Table, 0)[Finals[final].hex_dist2_config + 1]
  /\ UNCHANGED <<endings_pc, for_group, config_i, final, hex_i, treeVars,
                 dbin_finish_history, endings_answer>>

\* The position says which layer comes next, and makes room for its config.
PickFinal ==
  /\ endings_pc = "dist2" /\ final <= Len(Finals) /\ base_layer = NULL
  /\ base_layer' = RowOf(Table, 0)[Finals[final].hex_dist2_config + 1]
  /\ tree_data' = [tree_data EXCEPT ![2][final].hex_dist2_config = 0]
  /\ UNCHANGED <<unique_layers_tree, endings_pc, for_group, config_i, final,
                 hex_i, dbin_finish_history, endings_answer>>

\* Mutated form: the two hex layers change places.
TryDist2Swapped ==
  /\ endings_pc = "dist2" /\ base_layer # NULL /\ hex_i < Len(Row)
  /\ LET behind == Finals[final]
         layer == Table.layers[Row[hex_i + 1]]
     IN  Add(3, Ending(prepend(layer.map, behind.map), behind.dbin_config,
                       layer.config, behind.hex_dist1_config))
  /\ hex_i' = hex_i + 1
  /\ UNCHANGED <<endings_pc, for_group, config_i, final, base_layer,
                 dbin_finish_history, endings_answer>>

TryDist2 ==
  /\ endings_pc = "dist2" /\ base_layer # NULL /\ hex_i < Len(Row)
  /\ LET behind == Finals[final]
         layer == Table.layers[Row[hex_i + 1]]
     IN  Add(3, Ending(prepend(layer.map, behind.map), behind.dbin_config,
                       behind.hex_dist1_config, layer.config))
  /\ hex_i' = hex_i + 1
  /\ UNCHANGED <<endings_pc, for_group, config_i, final, base_layer,
                 dbin_finish_history, endings_answer>>

\* Mutated form: the same ending again.
NextDist2Again ==
  /\ endings_pc = "dist2" /\ base_layer # NULL /\ hex_i = Len(Row)
  /\ base_layer' = NULL /\ hex_i' = 0
  /\ UNCHANGED <<endings_pc, for_group, config_i, final, treeVars,
                 dbin_finish_history, endings_answer>>

NextDist2 ==
  /\ endings_pc = "dist2" /\ base_layer # NULL /\ hex_i = Len(Row)
  /\ final' = final + 1 /\ base_layer' = NULL /\ hex_i' = 0
  /\ UNCHANGED <<endings_pc, for_group, config_i, treeVars,
                 dbin_finish_history, endings_answer>>

\* aa_to_array copies what the tree points to, in order; the copy is saved and
\* returned.
FinishEndings ==
  /\ endings_pc = "dist2" /\ final > Len(Finals)
  /\ LET pointers == Tree!to_array(unique_layers_tree)
         endings == [i \in DOMAIN pointers |->
                       tree_data[pointers[i].dist][pointers[i].at]]
     IN  /\ dbin_finish_history' = [dbin_finish_history EXCEPT ![for_group] = endings]
         /\ endings_answer' = [group |-> for_group, endings |-> endings]
  /\ endings_pc' = "idle" /\ for_group' = 1
  /\ config_i' = 0 /\ final' = 1 /\ base_layer' = NULL /\ hex_i' = 0
  /\ tree_data' = <<<<>>, <<>>, <<>>>> /\ unique_layers_tree' = NULL

\* The steps of a call that builds the array.
EndingsLoop ==
  \/ TryDist0 \/ StartDist1 \/ TryDist1 \/ NextDist1
  \/ StartDist2 \/ PickFinal \/ TryDist2 \/ NextDist2 \/ FinishEndings

-----------------------------------------------------------------------------
EndingsReturned == endings_pc = "idle" /\ endings_answer # NULL

\* The loops return the array of the definition, for the group asked for.
ReturnsTheEndings ==
  EndingsReturned => endings_answer.endings = Endings(endings_answer.group)

\* MapsOfLength[k]: the dual binary maps of chains of k layers, whatever
\* layers follow each other.
LayerMaps == {LayerMap(c) : c \in Configs}
MapsOfLength ==
  FoldLeft(LAMBDA levels, k :
             Append(levels, {prepend(layer, map) :
                               layer \in LayerMaps, map \in levels[k]}),
           <<{DbinMap(c) : c \in 0 .. DBIN_CONFIG_COUNT - 1}>>, <<1, 2>>)

Computes(e) ==
  LET from(c) == IF c = no_layer THEN identity ELSE LayerMap(c)
  IN  prepend(from(e.hex_dist2_config),
              prepend(from(e.hex_dist1_config), DbinMap(e.dbin_config)))

\* The layers of an ending compute its map.  And although the rows drop
\* pairs of layers and the tree keeps the first ending of each map only,
\* every map with as many different pairs of bits as the group says that at
\* most three layers compute has an ending, with as few layers as possible.
EndingsAreShortest ==
  EndingsReturned =>
    LET endings == {endings_answer.endings[k] : k \in DOMAIN endings_answer.endings}
    IN  /\ \A e \in endings : Computes(e) = e.map
        /\ \A k \in 1 .. 3 : \A map \in MapsOfLength[k] :
             get_dbin_exact_group(ExactGoal(map)) = endings_answer.group =>
               \E e \in endings : e.map = map /\ EndingLength(e) <= k

\* The tree stays balanced over the thousands of additions in the order the
\* loops make them: one turn of skew and split on the way back from a leaf is
\* enough, and no look-up recurses deeper than twice the logarithm of the
\* number of endings.
TreeIsShallow ==
  /\ Tree!Balanced(unique_layers_tree)
  /\ 2 ^ ((Tree!Height(unique_layers_tree) + 1) \div 2)
       <= Len(tree_data[1]) + Len(tree_data[2]) + Len(tree_data[3]) + 1

=============================================================================
