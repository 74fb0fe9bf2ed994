-------------------------- MODULE PrecomputeLayers --------------------------
(***************************************************************************)
(* precompute_hex_layers step by step: the history that saves finished     *)
(* tables for later calls, the loop over all configs, the loop over pairs  *)
(* of layers with the hash table of compositions, the final layout.        *)
(***************************************************************************)
EXTENDS HexTables

CONSTANTS Groups,   \* the groups callers ask for
          none      \* no table

VARIABLES pc,                   \* "idle", "configs" or "pairs"
          group, direction,     \* the call's parameters
          conf,                 \* first loop's config
          first_layer_i,        \* second loop's layers
          second_layer_i,
          unique_next_layers,   \* maps met by the running loop
          layer_configs,        \* configs kept by the first loop
          rows,                 \* rows filled by the second loop
          history,              \* finished tables
          answer                \* the last call's parameters and result

vars == <<pc, group, direction, conf, first_layer_i, second_layer_i,
          unique_next_layers, layer_configs, rows, history, answer>>

loopVars == <<conf, first_layer_i, second_layer_i,
              unique_next_layers, layer_configs, rows>>

\* Mutated form: both directions share a place.
HistoryIndexOfGroup(g, d) == g - 1

history_index(g, d) == g - 1 + (IF d < 0 THEN N ELSE 0)

Init ==
  /\ pc = "idle" /\ group = 1 /\ direction = 1
  /\ conf = 0 /\ first_layer_i = 0 /\ second_layer_i = 1
  /\ unique_next_layers = {identity}
  /\ layer_configs = <<>> /\ rows = <<>>
  /\ history = [i \in 0 .. 2 * N - 1 |-> none]
  /\ answer = none

\* A call that finds its table in the history returns at once.
CallKnown(g, d) ==
  /\ pc = "idle"
  /\ history[history_index(g, d)] # none
  /\ answer' = [group |-> g, direction |-> d,
                table |-> history[history_index(g, d)]]
  /\ UNCHANGED <<pc, group, direction, loopVars, history>>

CallNew(g, d) ==
  /\ pc = "idle"
  /\ history[history_index(g, d)] = none
  /\ pc' = "configs" /\ group' = g /\ direction' = d
  /\ UNCHANGED <<loopVars, history, answer>>

\* Mutated form: maps must keep more outputs than the group has.
IsNewAboveGroup(map) == get_group(map) > group /\ map \notin unique_next_layers

\* The two tests a map passes to be recorded.
IsNew(map) == get_group(map) >= group /\ map \notin unique_next_layers

TryConfig ==
  /\ pc = "configs" /\ conf < HEX_CONFIG_COUNT
  /\ LET output == LayerMap(conf)
     IN  IF IsNew(output)
         THEN /\ unique_next_layers' = unique_next_layers \cup {output}
              /\ layer_configs' = Append(layer_configs, conf)
         ELSE UNCHANGED <<unique_next_layers, layer_configs>>
  /\ conf' = conf + 1
  /\ UNCHANGED <<pc, group, direction, first_layer_i, second_layer_i, rows,
                 history, answer>>

\* Mutated form: the layers' own maps stay in the hash table.
StartPairsWithLayers ==
  /\ pc = "configs" /\ conf = HEX_CONFIG_COUNT
  /\ pc' = "pairs"
  /\ first_layer_i' = 0 /\ second_layer_i' = 1
  /\ rows' = <<<<>>>>
  /\ UNCHANGED <<group, direction, conf, unique_next_layers, layer_configs,
                 history, answer>>

\* The hash table is emptied for the second loop, the identity excepted.
StartPairs ==
  /\ pc = "configs" /\ conf = HEX_CONFIG_COUNT
  /\ pc' = "pairs"
  /\ unique_next_layers' = {identity}
  /\ first_layer_i' = 0 /\ second_layer_i' = 1
  /\ rows' = <<<<>>>>
  /\ UNCHANGED <<group, direction, conf, layer_configs, history, answer>>

TryPair ==
  /\ pc = "pairs" /\ second_layer_i <= Len(layer_configs)
  /\ LET output == compose(direction, LayerOf(layer_configs, first_layer_i),
                                      LayerOf(layer_configs, second_layer_i))
     IN  IF IsNew(output)
         THEN /\ unique_next_layers' = unique_next_layers \cup {output}
              /\ rows' = [rows EXCEPT ![first_layer_i + 1] =
                            Append(@, second_layer_i)]
         ELSE UNCHANGED <<unique_next_layers, rows>>
  /\ second_layer_i' = second_layer_i + 1
  /\ UNCHANGED <<pc, group, direction, conf, first_layer_i, layer_configs,
                 history, answer>>

NextFirstLayer ==
  /\ pc = "pairs" /\ second_layer_i > Len(layer_configs)
  /\ first_layer_i < Len(layer_configs)
  /\ first_layer_i' = first_layer_i + 1 /\ second_layer_i' = 1
  /\ rows' = Append(rows, <<>>)
  /\ UNCHANGED <<pc, group, direction, conf, unique_next_layers,
                 layer_configs, history, answer>>

\* The layout is filled in, the table saved and returned.
Finish ==
  /\ pc = "pairs" /\ second_layer_i > Len(layer_configs)
  /\ first_layer_i = Len(layer_configs)
  /\ LET table == Assemble(layer_configs, rows)
     IN  /\ history' = [history EXCEPT ![history_index(group, direction)] = table]
         /\ answer' = [group |-> group, direction |-> direction, table |-> table]
  /\ pc' = "idle" /\ group' = 1 /\ direction' = 1
  /\ conf' = 0 /\ first_layer_i' = 0 /\ second_layer_i' = 1
  /\ unique_next_layers' = {identity}
  /\ layer_configs' = <<>> /\ rows' = <<>>

Next ==
  \/ \E g \in Groups, d \in Directions : CallKnown(g, d) \/ CallNew(g, d)
  \/ TryConfig \/ StartPairs \/ TryPair \/ NextFirstLayer \/ Finish

Spec == Init /\ [][Next]_vars

-----------------------------------------------------------------------------
Returned == pc = "idle" /\ answer # none

Layers == answer.table.layers
RowAfter(i) ==
  SubSeq(answer.table.next_layer_array, Layers[i].next_layers + 1,
         Layers[i].next_layers + Layers[i].next_layer_count)

\* The loops return the table of the definition, for the group and direction
\* asked for, whatever tables the history held.
ReturnsTheTable ==
  Returned => answer.table = HexTable(answer.group, answer.direction)

\* Maps that chains of at most k layers compute when every layer is allowed
\* after every other one, as long as enough outputs are left.
Reachable(k) ==
  LET reach[n \in 0 .. k] ==
        IF n = 0 THEN {identity}
        ELSE LET maps == reach[n - 1]
                 longer == {compose(answer.direction, map, LayerMap(c)) :
                              map \in maps, c \in Configs}
             IN  maps \cup {m \in longer : get_group(m) >= answer.group}
  IN  reach[k]

\* Maps that chains of at most k layers compute when every layer is in the
\* row of the layer before it.
ReachableAlongRows(k) ==
  LET reach[n \in 0 .. k] ==
        IF n = 0 THEN {<<identity, 0>>}
        ELSE LET ends == reach[n - 1]
             IN  ends \cup
                   UNION {{<<compose(answer.direction, e[1], Layers[j].map), j>> :
                              j \in {RowAfter(e[2])[p] : p \in DOMAIN RowAfter(e[2])}} :
                            e \in ends}
  IN  {e[1] : e \in {f \in reach[k] : get_group(f[1]) >= answer.group}}

\* "always only check unique pairs of layers" (redstone.h) loses nothing: a
\* map that some chain of two or three layers computes is computed by a
\* chain no longer that follows the rows.  Nor do they check a map twice: no
\* two pairs of the rows compute the same map, and none the identity.
RowsLoseNoMap ==
  Returned =>
    /\ \A k \in 2 .. 3 : Reachable(k) = ReachableAlongRows(k)
    /\ LET pairs == UNION {{<<i, j>> : j \in {RowAfter(i)[p] : p \in DOMAIN RowAfter(i)}} :
                             i \in DOMAIN Layers}
           Product(q) == compose(answer.direction, Layers[q[1]].map,
                                                   Layers[q[2]].map)
       IN  Cardinality({Product(q) : q \in pairs} \ {identity}) = Cardinality(pairs)

\* The search reads the maps of a row in whole vectors of MAP_ARRAY_ALIGNMENT,
\* also those of an empty row: they lie inside the array, are the row's maps
\* in order, and zero maps after its end.
VectorsStayInRow ==
  Returned =>
    \A i \in DOMAIN Layers :
      LET count == Layers[i].next_layer_count
          top == CDiv(count - 1, MAP_ARRAY_ALIGNMENT)
      IN  \A k \in 0 .. top * MAP_ARRAY_ALIGNMENT + MAP_ARRAY_ALIGNMENT - 1 :
            LET at == Layers[i].next_layer_luts + k + 1
            IN  /\ at <= Len(answer.table.next_map_array)
                /\ answer.table.next_map_array[at] =
                     IF k < count THEN Layers[RowAfter(i)[k + 1]].map ELSE zero_map

\* The search allocates its staging buffer for bfs_depth rows as long as the
\* identity's: no row is longer.
IdentityRowIsLongest ==
  Returned =>
    \A i \in DOMAIN Layers :
       Layers[i].next_layer_count <= Layers[0].next_layer_count

=============================================================================
