----------------------------- MODULE HexTables -----------------------------
(***************************************************************************)
(* The tables precompute_hex_layers (redstone.c) builds for a search: one  *)
(* layer for every distinct map, and for each layer the layers worth       *)
(* trying after it.  A pair of layers is listed only if no pair listed     *)
(* before it has the same composition.                                     *)
(***************************************************************************)
EXTENDS Redstone, Sequences, SequencesExt, FiniteSetsExt

CONSTANT MAP_ARRAY_ALIGNMENT   \* maps handled by one vector operation: 4

ASSUME AlignmentAssumption == MAP_ARRAY_ALIGNMENT \in Nat \ {0}

Directions == {-1, 1}

\* Division as C rounds it, towards zero.
CDiv(x, y) == IF x < 0 THEN -((-x) \div y) ELSE x \div y

round_up(n, factor) == (CDiv(n - 1, factor) + 1) * factor

\* A direction d < 0 is for the solver that builds its chain from the end.
compose(d, first, second) ==
  IF d < 0 THEN apply_mapping(second, first)
                   ELSE apply_mapping(first, second)

-----------------------------------------------------------------------------
(* What the two loops of the function keep, said without the loops.        *)
Ascending(S, n) == SelectSeq([k \in 1 .. n + 1 |-> k - 1], LAMBDA k : k \in S)

\* The configs of the unique layers: the first one for each map that keeps
\* enough outputs, the identity excepted.
UniqueConfigs(g) ==
  LET maps == [config \in Configs |-> LayerMap(config)]
      kept == {c \in Configs : get_group(maps[c]) >= g /\ maps[c] # identity}
      First(map) == Min({c \in kept : maps[c] = map})
  IN  Ascending({First(map) : map \in {maps[c] : c \in kept}},
                HEX_CONFIG_COUNT)

\* layers[0] is the identity, layers[i] the i-th unique layer.
LayerOf(configs, i) == IF i = 0 THEN identity ELSE LayerMap(configs[i])

\* The row of a first layer: the second layers, in order, whose composition
\* with it (products[j] for layer j) keeps enough outputs and is not the
\* composition of a pair seen before.
NextRow(products, seen, g) ==
  LET fresh == {j \in DOMAIN products :
                  /\ get_group(products[j]) >= g
                  /\ products[j] \notin seen
                  /\ \A k \in 1 .. j - 1 : products[k] # products[j]}
  IN  Ascending(fresh, Len(products))

\* The rows of all first layers, the identity's first.
RowsFrom(pairs, n, g) ==
  LET AddRow(done, i) ==
        [rows |-> Append(done.rows, NextRow(pairs[i], done.seen, g)),
         seen |-> done.seen \cup {pairs[i][j] : j \in DOMAIN pairs[i]}]
  IN  FoldLeft(AddRow, [rows |-> <<>>, seen |-> {identity}],
               [k \in 1 .. n + 1 |-> k - 1]).rows

Products(maps, n, d) ==
  [i \in 0 .. n |-> [j \in 1 .. n |-> compose(d, maps[i], maps[j])]]

NextRows(configs, g, d) ==
  LET n == Len(configs)
  IN  RowsFrom(Products([i \in 0 .. n |-> LayerOf(configs, i)], n, d),
               n, g)

-----------------------------------------------------------------------------
(* The blocks the table is laid out in.  All rows of layer indices are one *)
(* array, all rows of maps another one, where each row starts on a         *)
(* multiple of the alignment and is filled up with zero maps (calloc).     *)
RowSizes(lists) == [i \in 1 .. Len(lists) |-> Len(lists[i])]

\* Where each row starts when rows of these lengths are put one behind the
\* other.
Starts(lengths) ==
  LET start[i \in 0 .. Len(lengths)] ==
        IF i = 0 THEN 0 ELSE start[i - 1] + lengths[i]
  IN  start

\* Mutated form: rows of maps are packed without padding.
UnpaddedSizes(lists) == [i \in 1 .. Len(lists) |-> Len(lists[i])]

PaddedSizes(lists) ==
  [i \in 1 .. Len(lists) |-> round_up(Len(lists[i]), MAP_ARRAY_ALIGNMENT)]

RowOfMaps(configs, row, padded) ==
  [k \in 1 .. padded |->
     IF k <= Len(row) THEN LayerOf(configs, row[k]) ELSE zero_map]

\* What the search is handed: a table of layers, each with its map, its
\* config and where its row starts in both arrays, all counted from 0.
Assemble(configs, lists) ==
  LET sizes == RowSizes(lists)
      spaces == PaddedSizes(lists)
      layer_starts == Starts(sizes)
      map_starts == Starts(spaces)
  IN  [layers |->
         [i \in 0 .. Len(configs) |->
            [map |-> LayerOf(configs, i),
             config |-> IF i = 0 THEN 0 ELSE configs[i],
             next_layer_count |-> sizes[i + 1],
             next_layers |-> layer_starts[i],
             next_layer_luts |-> map_starts[i]]],
       next_layer_array |-> FlattenSeq(lists),
       next_map_array |->
         FlattenSeq([i \in 1 .. Len(lists) |->
                       RowOfMaps(configs, lists[i], spaces[i])])]

\* (The sets of one element make TLC evaluate each part once.)
HexTable(g, d) ==
  CHOOSE table \in
    {Assemble(built[1], built[2]) : built \in
       {<<c, NextRows(c, g, d)>> : c \in {UniqueConfigs(g)}}} : TRUE

-----------------------------------------------------------------------------
(* What the searches rely on of a table: layer 0 is the identity, and its  *)
(* row is the longest; every entry of a row is a layer, and the row of     *)
(* maps has its map in the same lane; lanes that only pad a row hold the   *)
(* map 0.                                                                  *)
IsLayer(layer) ==
  /\ layer.config \in Configs
  /\ layer.map = LayerMap(layer.config)
  /\ layer.next_layer_count \in Nat
  /\ layer.next_layers \in Nat
  /\ layer.next_layer_luts \in Nat

\* The lanes of the vectors that hold a row's maps, an empty row's included.
Lanes(layer) ==
  0 .. round_up(layer.next_layer_count, MAP_ARRAY_ALIGNMENT) - 1

\* The map in a lane of a row.
MapOf(table, layer, lane) == table.next_map_array[layer.next_layer_luts + lane + 1]

IsRow(table, layer) ==
  /\ layer.next_layers + layer.next_layer_count <= Len(table.next_layer_array)
  /\ \A lane \in Lanes(layer) :
       LET next == table.next_layer_array[layer.next_layers + lane + 1]
       IN  MapOf(table, layer, lane) =
             IF lane < layer.next_layer_count THEN table.layers[next].map ELSE zero_map

IsTable(table) ==
  /\ \A i \in DOMAIN table.layers :
        IsLayer(table.layers[i]) /\ IsRow(table, table.layers[i])
  /\ 0 \in DOMAIN table.layers /\ table.layers[0].map = identity
  /\ table.layers[0].next_layer_count > 0
  /\ \A i \in DOMAIN table.layers :
        table.layers[i].next_layer_count <= table.layers[0].next_layer_count
  /\ table.next_layer_array \in Seq(DOMAIN table.layers)

\* Where layers may have a single output they differ, and every constant is
\* one of them or a layer of a row run after one of them.
ReachesConstants(table) ==
  LET first == table.layers[0]
      lanes == 0 .. first.next_layer_count - 1
      Row(lane) == table.layers[table.next_layer_array[first.next_layers + lane + 1]]
      Constant(map, value) == \A v \in Values : map[v] = value
  IN  /\ \A j, k \in lanes :
           MapOf(table, first, j) = MapOf(table, first, k) => j = k
      /\ \A value \in Values \ {0} : \E j \in lanes :
           LET map == MapOf(table, first, j)
           IN  \/ Constant(map, value)
               \/ \E k \in 0 .. Row(j).next_layer_count - 1 :
                    Constant(apply_mapping(map, MapOf(table, Row(j), k)), value)

\* What finding shortest chains relies on: layers are numbered, every layer
\* with enough outputs is one of them, rows ascend, and what two layers
\* compute, if it has enough outputs, is the identity or what a pair of the
\* rows computes that is not behind them.
ListsFirstPairs(table, g) ==
  LET ids == DOMAIN table.layers
      Row(i) == [k \in 1 .. table.layers[i].next_layer_count |->
                   table.next_layer_array[table.layers[i].next_layers + k]]
      pairs == [i \in ids |-> [j \in ids |->
                  apply_mapping(table.layers[i].map, table.layers[j].map)]]
  IN  /\ ids \subseteq Nat
      /\ \A c \in Configs : get_group(LayerMap(c)) >= g =>
           \E i \in ids : table.layers[i].map = LayerMap(c)
      /\ \A i \in ids : \A k, l \in DOMAIN Row(i) : k < l => Row(i)[k] < Row(i)[l]
      /\ \A i, j \in ids : get_group(pairs[i][j]) >= g =>
           \/ pairs[i][j] = identity
           \/ \E h \in ids : \E k \in DOMAIN Row(h) :
                /\ h < i \/ (h = i /\ Row(h)[k] <= j)
                /\ pairs[h][Row(h)[k]] = pairs[i][j]

=============================================================================
