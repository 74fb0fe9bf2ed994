----------------------------- MODULE PruneTable -----------------------------
(***************************************************************************)
(* get_prune_table step by step: the search that gives each mask its       *)
(* distance, and the table for masks with wildcards, indexed by a ternary  *)
(* number whose digit 2 is a wildcard.                                     *)
(***************************************************************************)
EXTENDS DbinLayers

CONSTANTS DbinGroups, \* the groups callers ask for
          HexLayers,  \* what precompute_hex_layers(group, -1) returns
          NULL        \* no table

VARIABLES pc,               \* "idle", "pretable" or "table"
          for_group,        \* the call's parameter, group
          pretable,         \* masks reached: distance and layer
          search_distance,
          mask_i,           \* the loop's map, as a number
          next_layer_i,
          found,
          prune_table,      \* the entries set, in order
          pregened_prune_table,
          returned          \* the last call's group and result

loopVars == <<search_distance, mask_i, next_layer_i, found>>
vars == <<pc, for_group, pretable, loopVars, prune_table,
          pregened_prune_table, returned>>

MaskCount == 2 ^ N
PRUNE_TABLE_ENTRY_COUNT == 3 ^ N

Init ==
  /\ pc = "idle" /\ for_group = 1
  /\ pretable = <<>>
  /\ search_distance = 0 /\ mask_i = 0 /\ next_layer_i = 0 /\ found = 0
  /\ prune_table = <<>>
  /\ pregened_prune_table = NULL /\ returned = NULL

\* The table of the first call answers every later one.
CallKnown(g) ==
  /\ pc = "idle" /\ pregened_prune_table # NULL
  /\ returned' = [group |-> g, table |-> pregened_prune_table]
  /\ UNCHANGED <<pc, for_group, pretable, loopVars, prune_table,
                 pregened_prune_table>>

CallNew(g) ==
  /\ pc = "idle" /\ pregened_prune_table = NULL
  /\ pc' = "pretable" /\ for_group' = g
  /\ pretable' = FirstPretable(g)
  /\ UNCHANGED <<loopVars, prune_table, pregened_prune_table, returned>>

-----------------------------------------------------------------------------
CurrentMask == MaskOf(mask_i)
AtDistance ==
  CurrentMask \in DOMAIN pretable /\ pretable[CurrentMask].distance = search_distance

CurrentRow == RowOf(HexLayers[for_group], pretable[CurrentMask].layer)

PutNextLayer ==
  /\ pc = "pretable" /\ mask_i < MaskCount /\ AtDistance
  /\ next_layer_i < Len(CurrentRow)
  /\ LET layer == CurrentRow[next_layer_i + 1]
         next_map == prependBit(HexLayers[for_group].layers[layer].map, CurrentMask)
     IN  pretable' = pretable @@ (next_map :> [distance |-> search_distance + 1,
                                               layer |-> layer])
  /\ next_layer_i' = next_layer_i + 1
  /\ UNCHANGED <<pc, for_group, search_distance, mask_i, found, prune_table,
                 pregened_prune_table, returned>>

NextMask ==
  /\ pc = "pretable" /\ mask_i < MaskCount
  /\ AtDistance => next_layer_i = Len(CurrentRow)
  /\ mask_i' = mask_i + 1 /\ next_layer_i' = 0
  /\ found' = IF AtDistance THEN found + 1 ELSE found
  /\ UNCHANGED <<pc, for_group, pretable, search_distance, prune_table,
                 pregened_prune_table, returned>>

NextDistance ==
  /\ pc = "pretable" /\ mask_i = MaskCount
  /\ found > 0 /\ search_distance < last_search_distance
  /\ search_distance' = search_distance + 1
  /\ mask_i' = 0 /\ found' = 0
  /\ UNCHANGED <<pc, for_group, pretable, next_layer_i, prune_table,
                 pregened_prune_table, returned>>

EndPretable ==
  /\ pc = "pretable" /\ mask_i = MaskCount
  /\ found = 0 \/ search_distance = last_search_distance
  /\ pc' = "table"
  /\ UNCHANGED <<for_group, pretable, loopVars, prune_table,
                 pregened_prune_table, returned>>

-----------------------------------------------------------------------------
Digit(index, v) == (index \div 3 ^ v) % 3
Wildcards(index) == {v \in Values : Digit(index, v) = 2}

\* get_ternary_index of a bit of a goal.
get_ternary_index(bit) ==
  MapThenSumSet(LAMBDA v : 3 ^ v * (IF v \in bit.zeros THEN 0
                                    ELSE IF v \in bit.ones THEN 1 ELSE 2), Values)

\* Mutated form: the worse of the two.
WorseEntry(index) ==
  LET offset == 3 ^ Min(Wildcards(index))
  IN  Max({prune_table[index - 2 * offset + 1], prune_table[index - offset + 1]})

\* The lowest wildcard read as 0 and as 1: both entries are set already.
BetterEntry(index) ==
  LET offset == 3 ^ Min(Wildcards(index))
  IN  Min({prune_table[index - 2 * offset + 1], prune_table[index - offset + 1]})

ExactEntry(index) ==
  LET mask == {v \in Values : Digit(index, v) = 1}
  IN  IF mask \in DOMAIN pretable THEN pretable[mask].distance ELSE unreachable

SetEntry ==
  /\ pc = "table" /\ Len(prune_table) < PRUNE_TABLE_ENTRY_COUNT
  /\ LET index == Len(prune_table)
     IN  prune_table' = Append(prune_table,
                               IF Wildcards(index) = {} THEN ExactEntry(index)
                               ELSE BetterEntry(index))
  /\ UNCHANGED <<pc, for_group, pretable, loopVars, pregened_prune_table, returned>>

Finish ==
  /\ pc = "table" /\ Len(prune_table) = PRUNE_TABLE_ENTRY_COUNT
  /\ pregened_prune_table' = prune_table
  /\ returned' = [group |-> for_group, table |-> prune_table]
  /\ pc' = "idle" /\ for_group' = 1
  /\ pretable' = <<>> /\ prune_table' = <<>>
  /\ search_distance' = 0 /\ mask_i' = 0 /\ next_layer_i' = 0 /\ found' = 0

\* The steps of a call that builds the table.
Loop ==
  \/ PutNextLayer \/ NextMask \/ NextDistance \/ EndPretable
  \/ SetEntry \/ Finish

-----------------------------------------------------------------------------
Returned == pc = "idle" /\ returned # NULL
BuiltFor(g) == pc = "table" /\ for_group = g
               /\ Len(prune_table) = PRUNE_TABLE_ENTRY_COUNT

Bits == {b \in [zeros : SUBSET Values, ones : SUBSET Values] :
           b.zeros \cap b.ones = {}}

\* The entry the search reads for a bit of a goal is the least distance of
\* all the masks the wildcards can be completed to, though the table only
\* ever compares two entries.
EntriesAreBest ==
  \A g \in DbinGroups : BuiltFor(g) =>
    LET distances == PruneDistances(g)
    IN  \A bit \in Bits :
          prune_table[get_ternary_index(bit) + 1] = BestCompletion(distances, bit)

\* The dual binary maps of chains of at most k layers.
MapsWithin(k) ==
  FoldLeft(LAMBDA maps, i : maps \cup
             UNION {{prepend(LayerMap(c), map) : c \in Configs} : map \in maps},
           {DbinMap(c) : c \in 0 .. DBIN_CONFIG_COUNT - 1}, [i \in 1 .. k - 1 |-> i])
MapsOfSize == [k \in 1 .. 5 |-> MapsWithin(k)]

\* What the table is for: a goal is dropped only if no chain computes it with
\* the layers left.  A map with three or four different pairs of bits that k
\* layers compute has, in each bit, a distance of less than k.
PruneLosesNothing ==
  \A g \in DbinGroups \cap {3, 4} : BuiltFor(g) =>
    \A k \in DOMAIN MapsOfSize : \A map \in MapsOfSize[k] :
      get_dbin_exact_group(ExactGoal(map)) = g =>
        \A b \in {0, 1} :
          prune_table[get_ternary_index(Bit(ExactGoal(map), b)) + 1] < k

=============================================================================
