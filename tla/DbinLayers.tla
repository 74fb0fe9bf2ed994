----------------------------- MODULE DbinLayers -----------------------------
(***************************************************************************)
(* The data of dbin_solve.c.  A dual binary layer turns a signal strength  *)
(* into two bits; a chain of hex layers that ends in one computes a dual   *)
(* binary map, two bits for every input.  Such a map is the set of its     *)
(* cells that are 1, the program's 32-bit mask: cell c is bit 1 or 2 of    *)
(* the input c % N.  A goal names the cells that must be 0 and must be 1.  *)
(***************************************************************************)
EXTENDS HexTables

Cells == 0 .. 2 * N - 1
DbinMaps == SUBSET Cells
DBIN_CONFIG_COUNT == 4 * N * N

\* The larger of a comparator's output and the other one's, a block further.
dbin_layer(start, config) ==
  LET mode == config \div (N * N)
      output1 == Comparator(start, (config \div N) % N, mode \div 2 = 1)
      output2 == Comparator(config % N, start, mode % 2 = 1)
  IN  <<Larger(output1, output2 - 1) > 0, Larger(output2, output1 - 1) > 0>>

DbinMap(config) == {c \in Cells : dbin_layer(c % N, config)[c \div N + 1]}

\* Where a hex map sends a cell.
Through(map, cell) == map[cell % N] + N * (cell \div N)

\* A hex map in front of a dual binary one.
prepend(map, cells) == {c \in Cells : Through(map, c) \in cells}

DbinGoals == [zeros : DbinMaps, ones : DbinMaps]

\* dbin_expand_exact: a goal without wildcards.
ExactGoal(cells) == [zeros |-> Cells \ cells, ones |-> cells]

Meets(cells, goal) == goal.ones \subseteq cells /\ goal.zeros \cap cells = {}

\* Some cell is asked for both ways.
Contradictory(goal) == goal.zeros \cap goal.ones # {}

\* What is left to compute behind a hex map.  Inputs that the map joins may
\* ask for different bits: then nothing can finish the chain.
unprepend(map, goal) == [zeros |-> {Through(map, c) : c \in goal.zeros},
                         ones  |-> {Through(map, c) : c \in goal.ones}]

\* The number of different pairs of bits, as dbin_solve counts it: on the
\* zeros of the goal, so that a wildcard counts as a 1.
get_dbin_exact_group(goal) ==
  Cardinality({<<v \in goal.zeros, v + N \in goal.zeros>> : v \in Values})

\* The layers worth trying after a layer.
RowOf(table, i) ==
  SubSeq(table.next_layer_array, table.layers[i].next_layers + 1,
         table.layers[i].next_layers + table.layers[i].next_layer_count)

-----------------------------------------------------------------------------
(* Endings: the last one to three layers of a chain, one ending for each   *)
(* dual binary map they compute, shortest first.  (hex_i is what the       *)
(* program keeps in hex_dist2_config until it has looked at the row.)      *)
Ending(map, config, dist1, dist2) ==
  [map |-> map, dbin_config |-> config,
   hex_dist1_config |-> dist1, hex_dist2_config |-> dist2]

\* A config that no ending has: layer 0x000 is the identity.
no_layer == 0

EndingLength(e) == 1 + (IF e.hex_dist1_config # no_layer THEN 1 ELSE 0)
                     + (IF e.hex_dist2_config # no_layer THEN 1 ELSE 0)

\* Masks are compared as numbers: the highest cell in which they differ
\* decides.
IsBelow(cells, others) ==
  cells # others /\ Max((cells \ others) \cup (others \ cells)) \in others

SortedByMap(endings) == SortSeq(endings, LAMBDA e, f : IsBelow(e.map, f.map))

\* The candidates whose map is neither in "seen" nor that of an earlier one.
NewOnes(candidates, seen) ==
  LET maps == {candidates[k].map : k \in DOMAIN candidates} \ seen
      First(map) == Min({k \in DOMAIN candidates : candidates[k].map = map})
      kept == Ascending({First(map) : map \in maps}, Len(candidates))
  IN  [k \in DOMAIN kept |-> candidates[kept[k]]]

MapsOf(endings) == {endings[k].map : k \in DOMAIN endings}

Dist0 == NewOnes([k \in 1 .. DBIN_CONFIG_COUNT |->
                    [ending |-> Ending(DbinMap(k - 1), k - 1, no_layer, no_layer),
                     layer |-> 0, map |-> DbinMap(k - 1)]], {})

\* The ending with a hex layer in front of it.
WithLayer(e, map, config) ==
  IF e.hex_dist1_config = no_layer
  THEN Ending(map, e.dbin_config, config, no_layer)
  ELSE Ending(map, e.dbin_config, e.hex_dist1_config, config)

\* One more hex layer, from the row of the layer it comes in front of.
Longer(table, shorter) ==
  LET Behind(f) ==
        LET row == RowOf(table, f.layer)
        IN  [k \in DOMAIN row |->
               LET map == prepend(table.layers[row[k]].map, f.map)
               IN  [ending |-> WithLayer(f.ending, map, table.layers[row[k]].config),
                    layer |-> row[k], map |-> map]]
  IN  FlattenSeq([k \in DOMAIN shorter |-> Behind(shorter[k])])

EndingsFrom(table) ==
  LET dist1 == NewOnes(Longer(table, Dist0), MapsOf(Dist0))
      dist2 == NewOnes(Longer(table, dist1), MapsOf(Dist0) \cup MapsOf(dist1))
      all == Dist0 \o dist1 \o dist2
  IN  SortedByMap([k \in DOMAIN all |-> all[k].ending])

\* What precompute_dbin_layers returns.
Endings(g) ==
  CHOOSE endings \in {EndingsFrom(table) : table \in {HexTable(g, -1)}} : TRUE

-----------------------------------------------------------------------------
(* The prune table: for one bit of a goal, how many hex layers there must  *)
(* be in front of the last one.                                            *)

unreachable == 15   \* the largest distance four bits hold

\* The masks a dual binary layer can give one of its bits.
Distance0Masks ==
  {{v \in Values : v < hole[1] \/ v >= hole[2]} :
     hole \in {h \in Values \X (1 .. N) : h[1] < h[2]}}

\* Mutated form: three pairs of bits need as much of each mask as four.
ImpossibleMasksFromThree(g) ==
  {mask \in SUBSET Values :
     \/ g > 2 /\ mask \in {{}, Values}
     \/ g > 2 /\ Cardinality(mask) \in {1, N - 1}}

\* The masks that a goal with so many different pairs of bits cannot have.
ImpossibleMasks(g) ==
  {mask \in SUBSET Values :
     \/ g > 2 /\ mask \in {{}, Values}
     \/ g = 4 /\ Cardinality(mask) \in {1, N - 1}}

prependBit(map, mask) == {v \in Values : map[v] \in mask}

\* All masks, as the program numbers them.
MaskOf(k) == {v \in Values : (k \div 2 ^ v) % 2 = 1}
Masks == [k \in 1 .. 2 ^ N |-> MaskOf(k - 1)]

\* The masks known at the start, with the layer each is reached through.
FirstPretable(g) ==
  LET known == Distance0Masks \cup ImpossibleMasks(g)
  IN  [mask \in known |->
         [distance |-> IF mask \in ImpossibleMasks(g) THEN unreachable ELSE 0,
          layer |-> 0]]

\* One more hex layer in front of a mask, from the row of the layer the mask
\* was first reached through.
FillBehind(table, filled, mask) ==
  LET Fill(pre, i) ==
        pre @@ (prependBit(table.layers[i].map, mask) :>
                  [distance |-> filled[mask].distance + 1, layer |-> i])
  IN  FoldLeft(Fill, filled, RowOf(table, filled[mask].layer))

FillLevel(table, filled, distance) ==
  LET Fill(pre, mask) ==
        IF mask \in DOMAIN filled /\ filled[mask].distance = distance
        THEN FillBehind(table, pre, mask) ELSE pre
  IN  FoldLeft(Fill, filled, Masks)

last_search_distance == 12

PretableFrom(table, g) ==
  FoldLeft(LAMBDA pre, distance : FillLevel(table, pre, distance),
           FirstPretable(g), [k \in 1 .. last_search_distance + 1 |-> k - 1])

\* The distances get_prune_table gives the masks.
PruneDistances(g) ==
  CHOOSE distances \in
    {[mask \in SUBSET Values |->
        IF mask \in DOMAIN pre THEN pre[mask].distance ELSE unreachable] :
       pre \in {PretableFrom(table, g) : table \in {HexTable(g, -1)}}} : TRUE

\* A bit of a goal is the pair of masks of one of its halves.
Bit(goal, b) == [zeros |-> {v \in Values : v + N * b \in goal.zeros},
                 ones  |-> {v \in Values : v + N * b \in goal.ones}]

\* The least distance of the masks a bit with wildcards can be completed to.
BestCompletion(distances, bit) ==
  Min({distances[bit.ones \cup free] :
         free \in SUBSET (Values \ (bit.zeros \cup bit.ones))})

=============================================================================
