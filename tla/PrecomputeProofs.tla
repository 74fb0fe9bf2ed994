-------------------------- MODULE PrecomputeProofs --------------------------
(***************************************************************************)
(* Proofs about precompute_hex_layers: what holds of the kept configs and  *)
(* the rows while its loops run, hence of every table it returns, saved or *)
(* new; and what the searches may rely on because of it.  The number of    *)
(* signal strengths, the groups asked for and the order of the calls are   *)
(* arbitrary.                                                              *)
(***************************************************************************)
EXTENDS PrecomputeLayers, RedstoneProofs, SequenceTheorems

-----------------------------------------------------------------------------
(* What the first loop keeps, up to a config.                              *)

\* No two kept layers have the same map, none has the identity or too few
\* outputs.
KeptApart(configs, g) ==
  /\ configs \in Seq(Configs)
  /\ \A p \in 1 .. Len(configs) :
        LayerMap(configs[p]) # identity /\ get_group(LayerMap(configs[p])) >= g
  /\ \A p, q \in 1 .. Len(configs) :
        LayerMap(configs[p]) = LayerMap(configs[q]) => p = q

IsKept(configs, map) ==
  map = identity \/ \E p \in 1 .. Len(configs) : LayerMap(configs[p]) = map

\* No config below this one is missing.
AllKept(configs, g, bound) ==
  \A config \in Configs :
    config < bound /\ get_group(LayerMap(config)) >= g
      => IsKept(configs, LayerMap(config))

-----------------------------------------------------------------------------
(* What the second loop lists, up to a pair.                               *)

Product(configs, d, i, j) == compose(d, LayerOf(configs, i), LayerOf(configs, j))

Listed(rows_, i, j) == \E p \in 1 .. Len(rows_[i + 1]) : rows_[i + 1][p] = j

\* The loop comes to the pair <<i, j>> before <<k, l>>.
Before(i, j, k, l) == i < k \/ (i = k /\ j < l)

RowsAreTyped(rows_, n, first) ==
  /\ first \in 0 .. n
  /\ rows_ \in Seq(Seq(1 .. n))
  /\ Len(rows_) = first + 1

\* Rows grow with the loop, the identity's by every layer.
RowsAreShort(rows_, n, first, second) ==
  /\ second \in 1 .. n + 1
  /\ \A i \in 0 .. first : Len(rows_[i + 1]) <= n
  /\ Len(rows_[first + 1]) <= second - 1
  /\ Len(rows_[1]) = IF first = 0 THEN second - 1 ELSE n
  /\ \A p \in 1 .. Len(rows_[1]) : rows_[1][p] = p

\* Rows list their layers in ascending order.
RowsAscend(rows_, first) ==
  \A i \in 0 .. first : \A p, q \in 1 .. Len(rows_[i + 1]) :
    p < q => rows_[i + 1][p] < rows_[i + 1][q]

ListedIsTried(rows_, n, first, second) ==
  \A i \in 0 .. first, j \in 1 .. n :
    Listed(rows_, i, j) => Before(i, j, first, second)

\* Two listed pairs compute different maps, and not the identity.
ListedApart(configs, rows_, d, first) ==
  \A i \in 0 .. first, j \in 1 .. Len(configs) :
    Listed(rows_, i, j) =>
      /\ Product(configs, d, i, j) # identity
      /\ \A k \in 0 .. first, l \in 1 .. Len(configs) :
           Listed(rows_, k, l) /\ Product(configs, d, k, l) = Product(configs, d, i, j)
             => k = i /\ l = j

\* What a tried pair computes with enough outputs, a listed pair computes
\* that is the same or was tried before it.
IsMade(configs, rows_, d, first, i, j) ==
  \E k \in 0 .. first, l \in 1 .. Len(configs) :
    /\ Listed(rows_, k, l)
    /\ ~ Before(i, j, k, l)
    /\ Product(configs, d, k, l) = Product(configs, d, i, j)

TriedIsMade(configs, rows_, g, d, first, second) ==
  \A i \in 0 .. first, j \in 1 .. Len(configs) :
    Before(i, j, first, second) /\ get_group(Product(configs, d, i, j)) >= g
      => \/ Product(configs, d, i, j) = identity
         \/ IsMade(configs, rows_, d, first, i, j)

PairsListed(configs, rows_, g, d, first, second) ==
  /\ RowsAreTyped(rows_, Len(configs), first)
  /\ RowsAreShort(rows_, Len(configs), first, second)
  /\ RowsAscend(rows_, first)
  /\ ListedIsTried(rows_, Len(configs), first, second)
  /\ ListedApart(configs, rows_, d, first)
  /\ TriedIsMade(configs, rows_, g, d, first, second)

\* The maps of listed pairs.
IsListed(configs, rows_, d, first, map) ==
  \/ map = identity
  \/ \E i \in 0 .. first, j \in 1 .. Len(configs) :
       Listed(rows_, i, j) /\ Product(configs, d, i, j) = map

-----------------------------------------------------------------------------
(* The invariant.                                                          *)

\* What a finished table was laid out from.
IsMadeFrom(table, configs, rows_, g, d) ==
  /\ KeptApart(configs, g)
  /\ AllKept(configs, g, HEX_CONFIG_COUNT)
  /\ PairsListed(configs, rows_, g, d, Len(configs), Len(configs) + 1)
  /\ table = Assemble(configs, rows_)

IsHexTable(table, g, d) ==
  \E configs \in Seq(Configs) : \E rows_ \in Seq(Seq(1 .. Len(configs))) :
    IsMadeFrom(table, configs, rows_, g, d)

CallIsTyped ==
  /\ pc \in {"idle", "configs", "pairs"}
  /\ pc # "idle" => group \in Groups /\ direction \in Directions

ConfigsInv ==
  pc = "configs" =>
    /\ conf \in 0 .. HEX_CONFIG_COUNT
    /\ KeptApart(layer_configs, group)
    /\ AllKept(layer_configs, group, conf)
    /\ \A map \in Maps : map \in unique_next_layers <=> IsKept(layer_configs, map)

PairsInv ==
  pc = "pairs" =>
    /\ KeptApart(layer_configs, group)
    /\ AllKept(layer_configs, group, HEX_CONFIG_COUNT)
    /\ PairsListed(layer_configs, rows, group, direction,
                   first_layer_i, second_layer_i)
    /\ \A map \in Maps : map \in unique_next_layers <=>
         IsListed(layer_configs, rows, direction, first_layer_i, map)

\* A call begins with empty tables.
IdleInv ==
  pc = "idle" =>
    conf = 0 /\ layer_configs = <<>> /\ unique_next_layers = {identity}

HistoryInv ==
  /\ DOMAIN history = 0 .. 2 * N - 1
  /\ \A g \in Groups, d \in Directions :
       LET table == history[history_index(g, d)]
       IN  table # none => IsHexTable(table, g, d)
  /\ answer # none => /\ answer.group \in Groups /\ answer.direction \in Directions
                      /\ IsHexTable(answer.table, answer.group, answer.direction)

PrecomputeInv == CallIsTyped /\ IdleInv /\ ConfigsInv /\ PairsInv /\ HistoryInv

-----------------------------------------------------------------------------
(* Composition.                                                            *)

LEMMA ComposeType ==
  ASSUME NEW d \in Directions, NEW first \in Maps, NEW second \in Maps
  PROVE  compose(d, first, second) \in Maps
BY ApplyType DEF compose

LEMMA ComposeIsAssociative ==
  ASSUME NEW d \in Directions,
         NEW first \in Maps, NEW second \in Maps, NEW third \in Maps
  PROVE  compose(d, compose(d, first, second), third) =
         compose(d, first, compose(d, second, third))
<1>1. ASSUME NEW a \in Maps, NEW b \in Maps, NEW c \in Maps
      PROVE  apply_mapping(apply_mapping(a, b), c) =
             apply_mapping(a, apply_mapping(b, c))
  <2>1. \A v \in Values : a[v] \in Values
    BY DEF Maps
  <2> QED
    BY <2>1 DEF apply_mapping
<1> QED
  BY <1>1 DEF compose

LEMMA ComposeWithIdentity ==
  ASSUME NEW d \in Directions, NEW map \in Maps
  PROVE  compose(d, identity, map) = map /\ compose(d, map, identity) = map
<1>1. \A v \in Values : map[v] \in Values
  BY DEF Maps
<1>2. map = [v \in Values |-> map[v]]
  BY DEF Maps
<1>3. apply_mapping(identity, map) = map /\ apply_mapping(map, identity) = map
  BY <1>1, <1>2 DEF apply_mapping, identity
<1> QED
  BY <1>3 DEF compose

LEMMA GroupType ==
  ASSUME NEW map \in Maps
  PROVE  get_group(map) \in Nat
BY ImageIsFinite, FS_CardinalityType DEF get_group

LEMMA ComposeAddsNoOutputs ==
  ASSUME NEW d \in Directions, NEW first \in Maps, NEW second \in Maps
  PROVE  /\ get_group(compose(d, first, second)) <= get_group(first)
         /\ get_group(compose(d, first, second)) <= get_group(second)
BY CompositionAddsNoOutputs DEF compose

\* The identity has enough outputs for every group.
LEMMA IdentityGroup == get_group(identity) = N
<1>1. Image(identity) = Values
  BY DEF Image, identity
<1> QED
  BY <1>1, ValuesAreFinite DEF get_group

LEMMA LayerOfType ==
  ASSUME NEW configs \in Seq(Configs), NEW i \in 0 .. Len(configs)
  PROVE  LayerOf(configs, i) \in Maps
BY LayerMapType, IdentityType DEF LayerOf

LEMMA ProductType ==
  ASSUME NEW configs \in Seq(Configs), NEW d \in Directions,
         NEW i \in 0 .. Len(configs), NEW j \in 0 .. Len(configs)
  PROVE  Product(configs, d, i, j) \in Maps
BY LayerOfType, ComposeType DEF Product

\* After the identity, a layer computes its own map.
LEMMA ProductWithIdentity ==
  ASSUME NEW configs \in Seq(Configs), NEW d \in Directions,
         NEW j \in 0 .. Len(configs)
  PROVE  /\ Product(configs, d, 0, j) = LayerOf(configs, j)
         /\ Product(configs, d, j, 0) = LayerOf(configs, j)
BY LayerOfType, ComposeWithIdentity DEF Product, LayerOf

-----------------------------------------------------------------------------
(* The first loop.                                                         *)

LEMMA ConfigAdded ==
  ASSUME NEW configs \in Seq(Configs), NEW c \in Configs, NEW g \in Nat,
         KeptApart(configs, g), AllKept(configs, g, c),
         get_group(LayerMap(c)) >= g, ~ IsKept(configs, LayerMap(c))
  PROVE  LET longer == Append(configs, c)
         IN  /\ KeptApart(longer, g)
             /\ AllKept(longer, g, c + 1)
             /\ \A map \in Maps :
                  IsKept(longer, map) <=> IsKept(configs, map) \/ map = LayerMap(c)
<1> DEFINE longer == Append(configs, c)
           n == Len(configs)
<1>1. /\ longer \in Seq(Configs)
      /\ Len(longer) = n + 1
      /\ \A p \in 1 .. n : longer[p] = configs[p]
      /\ longer[n + 1] = c
      /\ n \in Nat
  BY AppendProperties
<1> HIDE DEF longer, n
<1>2. \A map : IsKept(longer, map) <=> IsKept(configs, map) \/ map = LayerMap(c)
  <2> SUFFICES ASSUME NEW map
               PROVE  IsKept(longer, map) <=> IsKept(configs, map) \/ map = LayerMap(c)
    OBVIOUS
  <2>1. ASSUME IsKept(longer, map), map # identity
        PROVE  IsKept(configs, map) \/ map = LayerMap(c)
    <3>1. PICK p \in 1 .. n + 1 : LayerMap(longer[p]) = map
      BY <1>1, <2>1 DEF IsKept
    <3>2. CASE p = n + 1
      BY <1>1, <3>1, <3>2
    <3>3. CASE p \in 1 .. n
      BY <1>1, <3>1, <3>3 DEF IsKept, n
    <3> QED
      BY <1>1, <3>2, <3>3
  <2>2. ASSUME IsKept(configs, map), map # identity
        PROVE  IsKept(longer, map)
    <3>1. PICK p \in 1 .. n : LayerMap(configs[p]) = map
      BY <2>2 DEF IsKept, n
    <3>2. p \in 1 .. n + 1 /\ LayerMap(longer[p]) = map
      BY <1>1, <3>1
    <3> QED
      BY <1>1, <3>2 DEF IsKept
  <2>3. IsKept(longer, LayerMap(c))
    <3>1. n + 1 \in 1 .. n + 1
      BY <1>1
    <3> QED
      BY <1>1, <3>1 DEF IsKept
  <2>4. map = identity => IsKept(longer, map) /\ IsKept(configs, map)
    BY DEF IsKept
  <2> QED
    BY <2>1, <2>2, <2>3, <2>4
<1>3. KeptApart(longer, g)
  <2>1. ASSUME NEW p \in 1 .. n
        PROVE  /\ LayerMap(longer[p]) # identity /\ get_group(LayerMap(longer[p])) >= g
               /\ LayerMap(longer[p]) # LayerMap(c)
    <3>1. longer[p] = configs[p]
      BY <1>1
    <3>2. LayerMap(configs[p]) # LayerMap(c)
      BY DEF IsKept, n
    <3> QED
      BY <3>1, <3>2 DEF KeptApart, n
  <2>2. LayerMap(c) # identity
    BY DEF IsKept
  <2>3. \A p \in 1 .. n + 1 : p = n + 1 \/ p \in 1 .. n
    BY <1>1
  <2>4. \A p \in 1 .. n + 1 :
           LayerMap(longer[p]) # identity /\ get_group(LayerMap(longer[p])) >= g
    BY <1>1, <2>1, <2>2, <2>3
  <2>5. ASSUME NEW p \in 1 .. n + 1, NEW q \in 1 .. n + 1,
               LayerMap(longer[p]) = LayerMap(longer[q])
        PROVE  p = q
    <3>1. CASE p \in 1 .. n /\ q \in 1 .. n
      BY <1>1, <2>5, <3>1 DEF KeptApart, n
    <3>2. CASE p = n + 1 \/ q = n + 1
      BY <1>1, <2>1, <2>3, <2>5, <3>2
    <3> QED
      BY <2>3, <3>1, <3>2
  <2> QED
    BY <1>1, <2>4, <2>5 DEF KeptApart
<1>4. AllKept(longer, g, c + 1)
  <2> SUFFICES ASSUME NEW b \in Configs, b < c + 1, get_group(LayerMap(b)) >= g
               PROVE  IsKept(longer, LayerMap(b))
    BY DEF AllKept
  <2>1. b = c \/ b < c
    BY DEF Configs
  <2> QED
    BY <1>2, <2>1 DEF AllKept
<1> QED
  BY <1>2, <1>3, <1>4 DEF longer

LEMMA ConfigSkipped ==
  ASSUME NEW configs \in Seq(Configs), NEW c \in Configs, NEW g \in Nat,
         AllKept(configs, g, c),
         get_group(LayerMap(c)) >= g => IsKept(configs, LayerMap(c))
  PROVE  AllKept(configs, g, c + 1)
<1> SUFFICES ASSUME NEW b \in Configs, b < c + 1, get_group(LayerMap(b)) >= g
             PROVE  IsKept(configs, LayerMap(b))
  BY DEF AllKept
<1>1. b = c \/ b < c
  BY DEF Configs
<1> QED
  BY <1>1 DEF AllKept

\* A layer's map is not the identity, and no two layers have the same map.
LEMMA LayersDiffer ==
  ASSUME NEW g \in Nat, NEW configs, KeptApart(configs, g),
         NEW i \in 1 .. Len(configs)
  PROVE  /\ LayerOf(configs, i) # identity
         /\ get_group(LayerOf(configs, i)) >= g
         /\ \A j \in 1 .. Len(configs) :
               LayerOf(configs, i) = LayerOf(configs, j) => i = j
<1>1. configs \in Seq(Configs) /\ Len(configs) \in Nat
  BY LenProperties DEF KeptApart
<1>2. \A j \in 1 .. Len(configs) : LayerOf(configs, j) = LayerMap(configs[j])
  BY <1>1 DEF LayerOf
<1> QED
  BY <1>2 DEF KeptApart

-----------------------------------------------------------------------------
(* The second loop.                                                        *)

LEMMA RowType ==
  ASSUME NEW n \in Nat, NEW first, NEW rows_, RowsAreTyped(rows_, n, first),
         NEW i \in 0 .. first
  PROVE  /\ rows_[i + 1] \in Seq(1 .. n)
         /\ Len(rows_[i + 1]) \in Nat
         /\ first \in Nat
<1>1. first \in Nat /\ i + 1 \in 1 .. Len(rows_)
  BY DEF RowsAreTyped
<1>2. rows_[i + 1] \in Seq(1 .. n)
  BY <1>1, ElementOfSeq DEF RowsAreTyped
<1> QED
  BY <1>1, <1>2, LenProperties

\* The second loop begins with an empty row for the identity.
LEMMA PairsBegin ==
  ASSUME NEW configs \in Seq(Configs), NEW g \in Nat, NEW d \in Directions
  PROVE  /\ PairsListed(configs, <<<<>>>>, g, d, 0, 1)
         /\ \A map : IsListed(configs, <<<<>>>>, d, 0, map) <=> map = identity
<1> DEFINE n == Len(configs)
           none_ == <<<<>>>>
<1>1. n \in Nat
  BY LenProperties
<1>2. /\ none_ \in Seq(Seq(1 .. n)) /\ Len(none_) = 1
      /\ none_[1] = <<>> /\ Len(<<>>) = 0
  BY EmptySeq
<1> HIDE DEF n, none_
<1>3. \A i \in 0 .. 0 : i = 0 /\ i + 1 = 1
  OBVIOUS
<1>4. \A i \in 0 .. 0 : \A j : ~ Listed(none_, i, j)
  BY <1>2, <1>3 DEF Listed
<1>5. RowsAreTyped(none_, n, 0)
  BY <1>1, <1>2 DEF RowsAreTyped
<1>6. RowsAreShort(none_, n, 0, 1)
  BY <1>1, <1>2, <1>3 DEF RowsAreShort
<1>7. ListedIsTried(none_, n, 0, 1)
  BY <1>4 DEF ListedIsTried
<1>8. ListedApart(configs, none_, d, 0)
  BY <1>4 DEF ListedApart
<1>9. TriedIsMade(configs, none_, g, d, 0, 1)
  <2>1. \A i \in 0 .. 0, j \in 1 .. n : ~ Before(i, j, 0, 1)
    BY DEF Before
  <2> QED
    BY <2>1 DEF TriedIsMade, n
<1>10. \A map : IsListed(configs, none_, d, 0, map) <=> map = identity
  BY <1>4 DEF IsListed
<1>11. RowsAscend(none_, 0)
  BY <1>2, <1>3 DEF RowsAscend
<1> QED
  BY <1>5, <1>6, <1>7, <1>8, <1>9, <1>10, <1>11 DEF PairsListed, n, none_

\* Nothing the identity's row could list is listed before.
LEMMA FirstRowTakesAll ==
  ASSUME NEW configs, NEW g \in Nat, NEW d \in Directions,
         NEW second \in 1 .. Len(configs), NEW rows_,
         KeptApart(configs, g), PairsListed(configs, rows_, g, d, 0, second)
  PROVE  /\ get_group(Product(configs, d, 0, second)) >= g
         /\ ~ IsListed(configs, rows_, d, 0, Product(configs, d, 0, second))
<1>1. configs \in Seq(Configs) /\ Len(configs) \in Nat
  BY LenProperties DEF KeptApart
<1>2. \A j \in 1 .. Len(configs) : Product(configs, d, 0, j) = LayerOf(configs, j)
  BY <1>1, ProductWithIdentity
<1>3. get_group(Product(configs, d, 0, second)) >= g
  BY <1>2, LayersDiffer
<1>4. Product(configs, d, 0, second) # identity
  BY <1>2, LayersDiffer
<1>5. ASSUME NEW i \in 0 .. 0, NEW j \in 1 .. Len(configs), Listed(rows_, i, j),
             Product(configs, d, i, j) = Product(configs, d, 0, second)
      PROVE  FALSE
  <2>1. i = 0
    OBVIOUS
  <2>2. j = second
    BY <1>2, <1>5, <2>1, LayersDiffer
  <2>3. Before(0, second, 0, second)
    BY <1>5, <2>1, <2>2 DEF PairsListed, ListedIsTried
  <2> QED
    BY <1>1, <2>3 DEF Before
<1> QED
  BY <1>3, <1>4, <1>5 DEF IsListed

\* A pair that was tried and not listed.
LEMMA PairSkipped ==
  ASSUME NEW configs \in Seq(Configs), NEW g \in Nat, NEW d \in Directions,
         NEW first, NEW second \in 1 .. Len(configs), NEW rows_,
         first # 0, PairsListed(configs, rows_, g, d, first, second),
         get_group(Product(configs, d, first, second)) >= g =>
           IsListed(configs, rows_, d, first, Product(configs, d, first, second))
  PROVE  PairsListed(configs, rows_, g, d, first, second + 1)
<1> DEFINE n == Len(configs)
<1>1. n \in Nat /\ second \in 1 .. n /\ first \in Nat
  BY LenProperties DEF PairsListed, RowsAreTyped
<1>2. RowsAreTyped(rows_, n, first) /\ ListedApart(configs, rows_, d, first)
  BY DEF PairsListed
<1>3. /\ RowsAreShort(rows_, n, first, second)
      /\ ListedIsTried(rows_, n, first, second)
      /\ TriedIsMade(configs, rows_, g, d, first, second)
  BY DEF PairsListed
<1>4. \A i \in 0 .. first, j \in 1 .. n :
        /\ Before(i, j, first, second) => Before(i, j, first, second + 1)
        /\ Before(i, j, first, second + 1) =>
             Before(i, j, first, second) \/ (i = first /\ j = second)
        /\ Before(i, j, first, second) => ~ Before(first, second, i, j)
  <2> HIDE DEF n
  <2> QED
    BY <1>1 DEF Before
<1>5. RowsAreShort(rows_, n, first, second + 1)
  <2>1. Len(rows_[first + 1]) \in Nat
    BY <1>1, <1>2, RowType
  <2> HIDE DEF n
  <2>2. Len(rows_[first + 1]) <= second + 1 - 1 /\ second + 1 \in 1 .. n + 1
    BY <1>1, <1>3, <2>1 DEF RowsAreShort
  <2> QED
    BY <1>3, <2>2 DEF RowsAreShort
<1>6. ListedIsTried(rows_, n, first, second + 1)
  BY <1>3, <1>4 DEF ListedIsTried
<1>7. TriedIsMade(configs, rows_, g, d, first, second + 1)
  <2> SUFFICES ASSUME NEW i \in 0 .. first, NEW j \in 1 .. n,
                      Before(i, j, first, second + 1),
                      get_group(Product(configs, d, i, j)) >= g,
                      Product(configs, d, i, j) # identity
               PROVE  IsMade(configs, rows_, d, first, i, j)
    BY DEF TriedIsMade
  <2>1. CASE Before(i, j, first, second)
    BY <1>3, <2>1 DEF TriedIsMade
  <2>2. CASE i = first /\ j = second
    <3>1. PICK k \in 0 .. first, l \in 1 .. n :
            Listed(rows_, k, l) /\ Product(configs, d, k, l) = Product(configs, d, i, j)
      BY <2>2 DEF IsListed
    <3>2. ~ Before(i, j, k, l)
      BY <1>3, <1>4, <2>2, <3>1 DEF ListedIsTried
    <3> QED
      BY <3>1, <3>2 DEF IsMade
  <2> QED
    BY <1>4, <2>1, <2>2
<1>8. RowsAscend(rows_, first)
  BY DEF PairsListed
<1> QED
  BY <1>2, <1>5, <1>6, <1>7, <1>8 DEF PairsListed

\* A pair that is added to the running row.
LEMMA PairAdded ==
  ASSUME NEW configs \in Seq(Configs), NEW g \in Nat, NEW d \in Directions,
         NEW first, NEW second \in 1 .. Len(configs), NEW rows_,
         PairsListed(configs, rows_, g, d, first, second),
         ~ IsListed(configs, rows_, d, first, Product(configs, d, first, second))
  PROVE  LET longer == [rows_ EXCEPT ![first + 1] = Append(@, second)]
         IN  /\ PairsListed(configs, longer, g, d, first, second + 1)
             /\ \A map : IsListed(configs, longer, d, first, map) <=>
                  \/ IsListed(configs, rows_, d, first, map)
                  \/ map = Product(configs, d, first, second)
<1> DEFINE n == Len(configs)
           row == rows_[first + 1]
           longer == [rows_ EXCEPT ![first + 1] = Append(@, second)]
<1>1. n \in Nat /\ second \in 1 .. n /\ first \in 0 .. n
  BY LenProperties DEF PairsListed, RowsAreTyped
<1>2. /\ RowsAreTyped(rows_, n, first) /\ ListedApart(configs, rows_, d, first)
      /\ RowsAreShort(rows_, n, first, second)
      /\ ListedIsTried(rows_, n, first, second)
      /\ TriedIsMade(configs, rows_, g, d, first, second)
  BY DEF PairsListed
<1>3. rows_ \in Seq(Seq(1 .. n)) /\ Len(rows_) = first + 1
  BY <1>2 DEF RowsAreTyped
<1>4. row \in Seq(1 .. n) /\ Len(row) \in Nat
  BY <1>1, <1>2, RowType
<1>5. /\ Append(row, second) \in Seq(1 .. n)
      /\ Len(Append(row, second)) = Len(row) + 1
      /\ \A p \in 1 .. Len(row) : Append(row, second)[p] = row[p]
      /\ Append(row, second)[Len(row) + 1] = second
  <2> HIDE DEF n, row
  <2> QED
    BY <1>1, <1>4, AppendProperties
<1>6. /\ longer \in Seq(Seq(1 .. n)) /\ Len(longer) = first + 1
      /\ longer[first + 1] = Append(row, second)
      /\ \A i \in 0 .. first : i # first => longer[i + 1] = rows_[i + 1]
  <2>1. first + 1 \in 1 .. Len(rows_)
    BY <1>1, <1>3
  <2>2. /\ longer \in Seq(Seq(1 .. n)) /\ Len(longer) = Len(rows_)
        /\ \A j \in 1 .. Len(rows_) :
             longer[j] = IF j = first + 1 THEN Append(row, second) ELSE rows_[j]
    <3> HIDE DEF n
    <3> QED
      BY <1>3, <1>5, <2>1, ExceptSeq
  <2> HIDE DEF n, longer, row
  <2>3. \A i \in 0 .. first : i + 1 \in 1 .. Len(rows_) /\ (i # first => i + 1 # first + 1)
    BY <1>1, <1>3
  <2> QED
    BY <1>3, <2>1, <2>2, <2>3
<1> DEFINE P(i, j) == Product(configs, d, i, j)
<1> HIDE DEF n, row, longer, P
<1>7. \A i \in 0 .. first, j \in 1 .. n :
        Listed(longer, i, j) <=> Listed(rows_, i, j) \/ (i = first /\ j = second)
  <2> SUFFICES ASSUME NEW i \in 0 .. first, NEW j \in 1 .. n
               PROVE  Listed(longer, i, j) <=>
                        Listed(rows_, i, j) \/ (i = first /\ j = second)
    OBVIOUS
  <2>1. CASE i # first
    BY <1>6, <2>1 DEF Listed
  <2>2. CASE i = first
    <3>1. Listed(rows_, i, j) <=> \E p \in 1 .. Len(row) : row[p] = j
      BY <2>2 DEF Listed, row
    <3>2. Listed(longer, i, j) <=>
            \E p \in 1 .. Len(row) + 1 : Append(row, second)[p] = j
      BY <1>5, <1>6, <2>2 DEF Listed
    <3>3. \A p : p \in 1 .. Len(row) + 1 <=> p \in 1 .. Len(row) \/ p = Len(row) + 1
      BY <1>4
    <3> QED
      BY <1>5, <2>2, <3>1, <3>2, <3>3
  <2> QED
    BY <2>1, <2>2
<1>8. \A i \in 0 .. first, j \in 1 .. n :
        /\ Before(i, j, first, second) => Before(i, j, first, second + 1)
        /\ Before(i, j, first, second + 1) =>
             Before(i, j, first, second) \/ (i = first /\ j = second)
        /\ ~ Before(i, j, i, j)
  BY <1>1 DEF Before
<1>9. Before(first, second, first, second + 1)
  BY <1>1 DEF Before
<1>10. first \in 0 .. first
  BY <1>1
<1>11. RowsAreTyped(longer, n, first)
  BY <1>1, <1>6 DEF RowsAreTyped
<1>12. RowsAreShort(longer, n, first, second + 1)
  <2>1. Len(row) <= second - 1
    BY <1>2 DEF RowsAreShort, row
  <2>2. /\ second + 1 \in 1 .. n + 1
        /\ Len(longer[first + 1]) <= second + 1 - 1
        /\ Len(longer[first + 1]) <= n
    BY <1>1, <1>4, <1>5, <1>6, <2>1
  <2>3. \A i \in 0 .. first : Len(longer[i + 1]) <= n
    BY <1>2, <1>6, <2>2 DEF RowsAreShort
  <2>4. CASE first = 0
    <3>1. /\ row = rows_[1] /\ longer[1] = Append(row, second)
          /\ Len(row) = second - 1
      BY <1>2, <1>6, <2>4 DEF RowsAreShort, row
    <3>2. Len(longer[1]) = second + 1 - 1
      BY <1>1, <1>5, <3>1
    <3>3. \A p \in 1 .. Len(longer[1]) : p \in 1 .. Len(row) \/ p = Len(row) + 1
      BY <1>4, <1>5, <3>1
    <3>4. Len(row) + 1 = second
      BY <1>1, <3>1
    <3>5. \A p \in 1 .. Len(row) : row[p] = p
      BY <1>2, <3>1 DEF RowsAreShort
    <3>6. \A p \in 1 .. Len(longer[1]) : longer[1][p] = p
      BY <1>5, <3>1, <3>3, <3>4, <3>5
    <3> QED
      BY <2>2, <2>3, <2>4, <3>2, <3>6 DEF RowsAreShort
  <2>5. CASE first # 0
    <3>1. longer[1] = rows_[1]
      <4>1. 0 \in 0 .. first /\ 0 + 1 = 1
        BY <1>1
      <4> QED
        BY <1>6, <2>5, <4>1
    <3> QED
      BY <1>2, <2>2, <2>3, <2>5, <3>1 DEF RowsAreShort
  <2> QED
    BY <2>4, <2>5
<1>13. ListedIsTried(longer, n, first, second + 1)
  BY <1>2, <1>7, <1>8, <1>9 DEF ListedIsTried
<1>14. /\ P(first, second) # identity
       /\ \A i \in 0 .. first, j \in 1 .. n :
            Listed(rows_, i, j) => P(i, j) # P(first, second)
  BY DEF IsListed, P, n
<1>15. ListedApart(configs, longer, d, first)
  <2>1. \A i \in 0 .. first, j \in 1 .. n :
          Listed(rows_, i, j) =>
            /\ P(i, j) # identity
            /\ \A k \in 0 .. first, l \in 1 .. n :
                 Listed(rows_, k, l) /\ P(k, l) = P(i, j) => k = i /\ l = j
    BY <1>2 DEF ListedApart, P, n
  <2>2. \A i \in 0 .. first, j \in 1 .. n :
          Listed(longer, i, j) =>
            /\ P(i, j) # identity
            /\ \A k \in 0 .. first, l \in 1 .. n :
                 Listed(longer, k, l) /\ P(k, l) = P(i, j) => k = i /\ l = j
    BY <1>7, <1>14, <2>1
  <2> QED
    BY <2>2 DEF ListedApart, P, n
<1>16. TriedIsMade(configs, longer, g, d, first, second + 1)
  <2> SUFFICES ASSUME NEW i \in 0 .. first, NEW j \in 1 .. n,
                      Before(i, j, first, second + 1),
                      get_group(Product(configs, d, i, j)) >= g,
                      Product(configs, d, i, j) # identity
               PROVE  IsMade(configs, longer, d, first, i, j)
    BY DEF TriedIsMade, n
  <2>1. CASE Before(i, j, first, second)
    <3>1. IsMade(configs, rows_, d, first, i, j)
      BY <1>2, <2>1 DEF TriedIsMade, n
    <3> QED
      BY <1>7, <3>1 DEF IsMade, n
  <2>2. CASE i = first /\ j = second
    BY <1>1, <1>7, <1>8, <1>10, <2>2 DEF IsMade, n
  <2> QED
    BY <1>8, <2>1, <2>2
<1>17. \A map : IsListed(configs, longer, d, first, map) <=>
                  \/ IsListed(configs, rows_, d, first, map)
                  \/ map = Product(configs, d, first, second)
  BY <1>1, <1>7, <1>10 DEF IsListed, n
<1>18. RowsAscend(longer, first)
  <2> SUFFICES ASSUME NEW i \in 0 .. first,
                      NEW p \in 1 .. Len(longer[i + 1]),
                      NEW q \in 1 .. Len(longer[i + 1]), p < q
               PROVE  longer[i + 1][p] < longer[i + 1][q]
    BY DEF RowsAscend
  <2>1. RowsAscend(rows_, first)
    BY DEF PairsListed
  <2>2. CASE i # first
    BY <1>6, <2>1, <2>2 DEF RowsAscend
  <2>3. CASE i = first
    <3>1. longer[i + 1] = Append(row, second) /\ p \in 1 .. Len(row) + 1 /\ q \in 1 .. Len(row) + 1
      BY <1>5, <1>6, <2>3
    <3>2. p \in 1 .. Len(row) /\ (q \in 1 .. Len(row) \/ q = Len(row) + 1)
      BY <1>4, <3>1
    <3>3. CASE q \in 1 .. Len(row)
      <4>1. row[p] < row[q]
        BY <1>10, <2>1, <3>2, <3>3 DEF RowsAscend, row
      <4> QED
        BY <1>5, <3>1, <3>2, <3>3, <4>1
    <3>4. CASE q = Len(row) + 1
      <4>1. row[p] \in 1 .. n
        BY <1>4, <3>2, ElementOfSeq
      <4>2. Listed(rows_, first, row[p])
        BY <3>2 DEF Listed, row
      <4>3. Before(first, row[p], first, second)
        BY <1>2, <1>10, <4>1, <4>2 DEF ListedIsTried
      <4>4. row[p] < second
        BY <1>1, <4>1, <4>3 DEF Before
      <4> QED
        BY <1>5, <3>1, <3>2, <3>4, <4>4
    <3> QED
      BY <3>2, <3>3, <3>4
  <2> QED
    BY <2>2, <2>3
<1> QED
  BY <1>11, <1>12, <1>13, <1>15, <1>16, <1>17, <1>18 DEF PairsListed, n, longer

\* The row of the next first layer begins empty.
LEMMA RowAdded ==
  ASSUME NEW configs \in Seq(Configs), NEW g \in Nat, NEW d \in Directions,
         NEW first \in 0 .. Len(configs) - 1, NEW second, NEW rows_,
         PairsListed(configs, rows_, g, d, first, second), second > Len(configs)
  PROVE  LET longer == Append(rows_, <<>>)
         IN  /\ PairsListed(configs, longer, g, d, first + 1, 1)
             /\ \A map : IsListed(configs, longer, d, first + 1, map) <=>
                         IsListed(configs, rows_, d, first, map)
<1> DEFINE n == Len(configs)
           longer == Append(rows_, <<>>)
<1>1. n \in Nat /\ first \in 0 .. n - 1 /\ first + 1 \in 1 .. n
  BY LenProperties
<1>2. /\ RowsAreTyped(rows_, n, first) /\ ListedApart(configs, rows_, d, first)
      /\ RowsAreShort(rows_, n, first, second)
      /\ ListedIsTried(rows_, n, first, second)
      /\ TriedIsMade(configs, rows_, g, d, first, second)
  BY DEF PairsListed
<1>3. rows_ \in Seq(Seq(1 .. n)) /\ Len(rows_) = first + 1
  BY <1>2 DEF RowsAreTyped
<1>4. second = n + 1
  <2> HIDE DEF n
  <2>1. second \in 1 .. n + 1 /\ second > n
    BY <1>2 DEF RowsAreShort, n
  <2> QED
    BY <1>1, <2>1
<1>5. /\ longer \in Seq(Seq(1 .. n)) /\ Len(longer) = first + 2
      /\ \A i \in 0 .. first : longer[i + 1] = rows_[i + 1]
      /\ longer[first + 2] = <<>> /\ Len(<<>>) = 0
  <2>1. <<>> \in Seq(1 .. n) /\ Len(<<>>) = 0
    BY EmptySeq
  <2>2. /\ longer \in Seq(Seq(1 .. n))
        /\ Len(longer) = Len(rows_) + 1
        /\ \A i \in 1 .. Len(rows_) : longer[i] = rows_[i]
        /\ longer[Len(rows_) + 1] = <<>>
    <3> HIDE DEF n
    <3> QED
      BY <1>3, <2>1, AppendProperties
  <2> HIDE DEF longer, n
  <2>3. \A i \in 0 .. first : i + 1 \in 1 .. Len(rows_)
    BY <1>1, <1>3
  <2>4. Len(rows_) + 1 = first + 2
    BY <1>1, <1>3
  <2> QED
    BY <2>1, <2>2, <2>3, <2>4
<1> HIDE DEF n, longer
<1>6. /\ \A i : i \in 0 .. first + 1 <=> i \in 0 .. first \/ i = first + 1
      /\ first + 1 + 1 = first + 2 /\ ~ (first + 1 \in 0 .. first)
  BY <1>1
<1>7. \A i \in 0 .. first + 1 : \A j :
        Listed(longer, i, j) <=> i \in 0 .. first /\ Listed(rows_, i, j)
  <2>1. \A i \in 0 .. first : \A j : Listed(longer, i, j) <=> Listed(rows_, i, j)
    BY <1>5 DEF Listed
  <2>2. \A j : ~ Listed(longer, first + 1, j)
    <3>1. Len(longer[first + 1 + 1]) = 0
      BY <1>5, <1>6
    <3> QED
      BY <3>1 DEF Listed
  <2> QED
    BY <1>6, <2>1, <2>2
<1>8. \A i \in 0 .. first + 1, j \in 1 .. n :
        /\ i \in 0 .. first => Before(i, j, first + 1, 1)
        /\ Before(i, j, first + 1, 1) => i \in 0 .. first /\ Before(i, j, first, n + 1)
  BY <1>1 DEF Before
<1>9. RowsAreTyped(longer, n, first + 1)
  BY <1>1, <1>5 DEF RowsAreTyped
<1>10. RowsAreShort(longer, n, first + 1, 1)
  <2>1. longer[1] = rows_[1]
    <3>1. 0 \in 0 .. first /\ 0 + 1 = 1
      BY <1>1
    <3> QED
      BY <1>5, <3>1
  <2>2. /\ Len(rows_[1]) = n /\ \A p \in 1 .. Len(rows_[1]) : rows_[1][p] = p
    <3>1. second - 1 = n
      BY <1>1, <1>4
    <3>2. Len(rows_[1]) = n
      BY <1>2, <3>1, Zenon DEF RowsAreShort
    <3> QED
      BY <1>2, <3>2 DEF RowsAreShort
  <2>3. Len(longer[first + 1 + 1]) <= n /\ Len(longer[first + 1 + 1]) <= 1 - 1
    BY <1>1, <1>5, <1>6
  <2>4. \A i \in 0 .. first + 1 : Len(longer[i + 1]) <= n
    <3>1. \A i \in 0 .. first : Len(longer[i + 1]) <= n
      BY <1>2, <1>5 DEF RowsAreShort
    <3> QED
      BY <1>6, <2>3, <3>1
  <2>5. first + 1 # 0 /\ 1 \in 1 .. n + 1
    BY <1>1
  <2> QED
    BY <2>1, <2>2, <2>3, <2>4, <2>5 DEF RowsAreShort
<1>11. ListedIsTried(longer, n, first + 1, 1)
  BY <1>7, <1>8 DEF ListedIsTried
<1>12. ListedApart(configs, longer, d, first + 1)
  BY <1>2, <1>7 DEF ListedApart, n
<1>13. TriedIsMade(configs, longer, g, d, first + 1, 1)
  <2> SUFFICES ASSUME NEW i \in 0 .. first + 1, NEW j \in 1 .. n,
                      Before(i, j, first + 1, 1),
                      get_group(Product(configs, d, i, j)) >= g,
                      Product(configs, d, i, j) # identity
               PROVE  IsMade(configs, longer, d, first + 1, i, j)
    BY DEF TriedIsMade, n
  <2>1. IsMade(configs, rows_, d, first, i, j)
    BY <1>2, <1>4, <1>8 DEF TriedIsMade, n
  <2> QED
    BY <1>6, <1>7, <2>1 DEF IsMade, n
<1>14. \A map : IsListed(configs, longer, d, first + 1, map) <=>
                IsListed(configs, rows_, d, first, map)
  BY <1>6, <1>7 DEF IsListed, n
<1>15. RowsAscend(longer, first + 1)
  <2>1. RowsAscend(rows_, first)
    BY DEF PairsListed
  <2>2. \A i \in 0 .. first + 1 :
          (i \in 0 .. first /\ longer[i + 1] = rows_[i + 1]) \/ Len(longer[i + 1]) = 0
    BY <1>5, <1>6
  <2>3. ASSUME NEW i \in 0 .. first + 1, NEW p \in 1 .. Len(longer[i + 1]),
               NEW q \in 1 .. Len(longer[i + 1]), p < q
        PROVE  longer[i + 1][p] < longer[i + 1][q]
    <3>1. CASE Len(longer[i + 1]) = 0
      BY <2>3, <3>1
    <3>2. CASE i \in 0 .. first /\ longer[i + 1] = rows_[i + 1]
      BY <2>1, <2>3, <3>2 DEF RowsAscend
    <3> QED
      BY <2>2, <3>1, <3>2
  <2> QED
    BY <2>3 DEF RowsAscend
<1> QED
  BY <1>9, <1>10, <1>11, <1>12, <1>13, <1>14, <1>15 DEF PairsListed, n, longer

-----------------------------------------------------------------------------
(* The layout.                                                             *)

\* Where rows start: at 0, and then each where the one before it ends.
LEMMA StartsFacts ==
  ASSUME NEW lengths \in Seq(Nat)
  PROVE  /\ Starts(lengths) \in [0 .. Len(lengths) -> Nat]
         /\ Starts(lengths)[0] = 0
         /\ \A i \in 1 .. Len(lengths) :
              Starts(lengths)[i] = Starts(lengths)[i - 1] + lengths[i]
<1> DEFINE n == Len(lengths)
           Sums(g) == [i \in 0 .. n |-> IF i = 0 THEN 0 ELSE g[i - 1] + lengths[i]]
<1>1. Starts(lengths) = CHOOSE g : g = Sums(g)
  BY DEF Starts
<1>2. n \in Nat /\ lengths \in [1 .. n -> Nat]
  BY LenProperties
<1> HIDE DEF n
<1>3. PICK f \in [0 .. n -> Nat] :
         f[0] = 0 /\ \A i \in 1 .. n : f[i] = f[i - 1] + lengths[i]
  BY <1>2, RunningTotals
<1>4. f = Sums(f)
  <2>1. ASSUME NEW i \in 0 .. n PROVE f[i] = IF i = 0 THEN 0 ELSE f[i - 1] + lengths[i]
    <3>1. i = 0 \/ i \in 1 .. n
      BY <1>2
    <3> QED
      BY <1>3, <3>1
  <2>2. f = [i \in 0 .. n |-> f[i]]
    OBVIOUS
  <2> QED
    BY <2>1, <2>2
<1>5. PICK g : g = Starts(lengths) /\ g = Sums(g)
  <2>1. (CHOOSE g : g = Sums(g)) = Sums(CHOOSE g : g = Sums(g))
    BY <1>4
  <2> QED
    BY <1>1, <2>1
<1>6. /\ g[0] = 0 /\ g = [i \in 0 .. n |-> g[i]]
      /\ \A i \in 1 .. n : g[i] = g[i - 1] + lengths[i]
  <2>1. ASSUME NEW i \in 0 .. n PROVE g[i] = IF i = 0 THEN 0 ELSE g[i - 1] + lengths[i]
    BY <1>5
  <2>2. g = [i \in 0 .. n |-> g[i]]
    BY <1>5
  <2>3. \A i \in 1 .. n : i \in 0 .. n /\ i # 0
    BY <1>2
  <2>4. 0 \in 0 .. n
    BY <1>2
  <2> QED
    BY <2>1, <2>2, <2>3, <2>4
<1> DEFINE Same == {i \in 0 .. n : g[i] = f[i]}
<1>7. 0 .. n \subseteq Same
  <2>1. 0 \in Same
    BY <1>2, <1>3, <1>6
  <2>2. ASSUME NEW i \in 1 .. n, i - 1 \in Same
        PROVE  i \in Same
    <3>1. g[i - 1] = f[i - 1]
      BY <2>2
    <3>2. g[i] = f[i]
      BY <1>3, <1>6, <3>1
    <3> QED
      BY <3>2
  <2> HIDE DEF Same
  <2> QED
    BY <1>2, <2>1, <2>2, InductionTo
<1>8. g \in [0 .. n -> Nat]
  BY <1>6, <1>7
<1> QED
  BY <1>5, <1>6, <1>8 DEF n

\* What the flattened sequence has of the first m ones, when they start there.
Placed(flat, seqs, start, m) ==
  /\ Len(flat) = start[m]
  /\ \A i \in 1 .. m :
       /\ start[i - 1] + Len(seqs[i]) <= Len(flat)
       /\ \A k \in 1 .. Len(seqs[i]) : flat[start[i - 1] + k] = seqs[i][k]

LEMMA PlacedNext ==
  ASSUME NEW S, NEW seqs \in Seq(Seq(S)), NEW m \in 0 .. Len(seqs) - 1,
         NEW start \in [0 .. Len(seqs) -> Nat],
         \A i \in 1 .. Len(seqs) : start[i] = start[i - 1] + Len(seqs[i]),
         NEW flat \in Seq(S), Placed(flat, seqs, start, m)
  PROVE  /\ flat \o seqs[m + 1] \in Seq(S)
         /\ Placed(flat \o seqs[m + 1], seqs, start, m + 1)
<1> DEFINE next == seqs[m + 1]
           longer == flat \o next
           n == Len(seqs)
<1>1. n \in Nat /\ m \in 0 .. n - 1 /\ m + 1 \in 1 .. n
  BY LenProperties
<1>2. next \in Seq(S) /\ Len(next) \in Nat /\ Len(flat) \in Nat
  <2> HIDE DEF n
  <2>1. m + 1 \in 1 .. Len(seqs)
    BY <1>1 DEF n
  <2>2. next \in Seq(S)
    BY <2>1, ElementOfSeq
  <2> QED
    BY <2>2, LenProperties
<1>3. /\ longer \in Seq(S) /\ Len(longer) = Len(flat) + Len(next)
      /\ \A i \in 1 .. Len(flat) + Len(next) :
           longer[i] = IF i <= Len(flat) THEN flat[i] ELSE next[i - Len(flat)]
  <2> HIDE DEF next
  <2> QED
    BY <1>2, ConcatProperties
<1>4. start[m + 1] = start[m] + Len(next) /\ start[m] \in Nat
  <2> HIDE DEF n
  <2>1. m + 1 - 1 = m /\ m \in 0 .. n
    BY <1>1
  <2>2. start[m + 1] = start[m + 1 - 1] + Len(next)
    BY <1>1 DEF n
  <2>3. start[m] \in Nat
    BY <2>1 DEF n
  <2> QED
    BY <2>1, <2>2, <2>3
<1>5. Len(flat) = start[m]
  BY DEF Placed
<1> HIDE DEF next, longer, n
<1>6. Len(longer) = start[m + 1]
  BY <1>3, <1>4, <1>5
<1>7. ASSUME NEW i \in 1 .. m + 1
      PROVE  /\ start[i - 1] + Len(seqs[i]) <= Len(longer)
             /\ \A k \in 1 .. Len(seqs[i]) : longer[start[i - 1] + k] = seqs[i][k]
  <2>1. CASE i = m + 1
    <3>1. i - 1 = m /\ seqs[i] = next
      BY <1>1, <2>1 DEF next
    <3>2. ASSUME NEW k \in 1 .. Len(next)
          PROVE  longer[start[m] + k] = next[k]
      <4> DEFINE at == Len(flat) + k
      <4>1. /\ at \in 1 .. Len(flat) + Len(next)
            /\ ~ at <= Len(flat) /\ at - Len(flat) = k
        BY <1>2
      <4> HIDE DEF at
      <4>2. longer[at] = next[k]
        BY <1>3, <4>1
      <4> QED
        BY <1>5, <4>2 DEF at
    <3> QED
      BY <1>2, <1>3, <1>5, <3>1, <3>2
  <2>2. CASE i \in 1 .. m
    <3>1. /\ start[i - 1] + Len(seqs[i]) <= Len(flat)
          /\ \A k \in 1 .. Len(seqs[i]) : flat[start[i - 1] + k] = seqs[i][k]
      BY <2>2 DEF Placed
    <3>2. start[i - 1] \in Nat /\ Len(seqs[i]) \in Nat
      <4>1. i - 1 \in 0 .. n /\ i \in 1 .. Len(seqs)
        BY <1>1, <2>2 DEF n
      <4>2. seqs[i] \in Seq(S)
        BY <4>1, ElementOfSeq
      <4> QED
        BY <4>1, <4>2, LenProperties DEF n
    <3>3. start[i - 1] + Len(seqs[i]) <= Len(longer)
      BY <1>2, <1>3, <3>1, <3>2
    <3>4. ASSUME NEW k \in 1 .. Len(seqs[i])
          PROVE  longer[start[i - 1] + k] = seqs[i][k]
      <4>1. /\ start[i - 1] + k \in 1 .. Len(flat) + Len(next)
            /\ start[i - 1] + k <= Len(flat)
        BY <1>2, <3>1, <3>2
      <4> QED
        BY <1>3, <3>1, <4>1
    <3> QED
      BY <3>3, <3>4
  <2> QED
    BY <1>1, <2>1, <2>2
<1> QED
  BY <1>3, <1>6, <1>7, Zenon DEF Placed, longer, next

\* Flattening puts every sequence where the lengths before it end.
LEMMA FlattenPlaces ==
  ASSUME NEW S, NEW seqs \in Seq(Seq(S)), Len(seqs) > 0,
         NEW start \in [0 .. Len(seqs) -> Nat], start[0] = 0,
         \A i \in 1 .. Len(seqs) : start[i] = start[i - 1] + Len(seqs[i])
  PROVE  /\ FlattenSeq(seqs) \in Seq(S)
         /\ Placed(FlattenSeq(seqs), seqs, start, Len(seqs))
<1> DEFINE n == Len(seqs)
           Joined(g) == [i \in 1 .. n |-> IF i = 1 THEN seqs[i] ELSE g[i - 1] \o seqs[i]]
<1>1. n \in Nat /\ n >= 1
  BY LenProperties
<1>2. FlattenSeq(seqs) = (CHOOSE g : g = Joined(g))[n]
  BY DEF FlattenSeq
<1>3. \A i \in 1 .. n : seqs[i] \in Seq(S)
  BY ElementOfSeq
<1> DEFINE step == [i \in 1 .. n - 1 |-> [s \in Seq(S) |-> s \o seqs[i + 1]]]
<1>4. ASSUME NEW i \in 1 .. n - 1, NEW s \in Seq(S)
      PROVE  step[i][s] = s \o seqs[i + 1] /\ s \o seqs[i + 1] \in Seq(S)
  <2> HIDE DEF n
  <2>1. seqs[i + 1] \in Seq(S)
    BY <1>1, <1>3
  <2> QED
    BY <2>1, ConcatProperties
<1>5. seqs[1] \in Seq(S)
  <2> HIDE DEF n
  <2> QED
    BY <1>1, <1>3
<1> HIDE DEF n, step
<1>6. PICK f : Follows(f, seqs[1], step, n - 1, Seq(S))
  <2>1. StaysIn(step, n - 1, Seq(S))
    BY <1>4 DEF StaysIn
  <2>2. n - 1 \in Nat
    BY <1>1
  <2> QED
    BY <1>5, <2>1, <2>2, StepsExist
<1> DEFINE h == [i \in 1 .. n |-> f[i - 1]]
<1>7. h = Joined(h)
  <2>1. ASSUME NEW i \in 1 .. n
        PROVE  h[i] = IF i = 1 THEN seqs[i] ELSE h[i - 1] \o seqs[i]
    <3>1. CASE i = 1
      BY <1>6, <3>1 DEF Follows
    <3>2. CASE i # 1
      <4>1. /\ i - 1 \in 1 .. n - 1 /\ i - 1 \in 1 .. n /\ i - 1 - 1 \in 0 .. n - 1
            /\ i - 1 + 1 = i
        BY <1>1, <3>2
      <4>2. f[i - 1] = step[i - 1][f[i - 1 - 1]] /\ f[i - 1 - 1] \in Seq(S)
        BY <1>6, <4>1 DEF Follows
      <4>3. f[i - 1] = f[i - 1 - 1] \o seqs[i]
        BY <1>4, <4>1, <4>2
      <4> QED
        BY <3>2, <4>1, <4>3
    <3> QED
      BY <3>1, <3>2
  <2> QED
    BY <2>1
<1>8. PICK g : FlattenSeq(seqs) = g[n] /\ g = Joined(g)
  <2>1. (CHOOSE g : g = Joined(g)) = Joined(CHOOSE g : g = Joined(g))
    <3> HIDE DEF h
    <3> QED
      BY <1>7
  <2> QED
    BY <1>2, <2>1
<1>9. ASSUME NEW i \in 1 .. n
      PROVE  g[i] = IF i = 1 THEN seqs[i] ELSE g[i - 1] \o seqs[i]
  BY <1>8
<1> DEFINE Good == {i \in 0 .. n - 1 : g[i + 1] \in Seq(S) /\ Placed(g[i + 1], seqs, start, i + 1)}
<1>10. 0 \in Good
  <2>1. g[1] = seqs[1]
    <3>1. 1 \in 1 .. n
      BY <1>1
    <3> QED
      BY <1>9, <3>1
  <2>2. /\ start[1] = start[1 - 1] + Len(seqs[1]) /\ 1 - 1 = 0
        /\ Len(seqs[1]) \in Nat
    BY <1>1, <1>5, LenProperties DEF n
  <2>3. \A i \in 1 .. 1 : i = 1
    OBVIOUS
  <2>4. Placed(g[1], seqs, start, 1)
    BY <2>1, <2>2, <2>3 DEF Placed
  <2>5. 0 \in 0 .. n - 1 /\ 0 + 1 = 1
    BY <1>1
  <2> QED
    BY <1>5, <2>1, <2>4, <2>5
<1>11. ASSUME NEW i \in 1 .. n - 1, i - 1 \in Good
       PROVE  i \in Good
  <2>1. i - 1 + 1 = i /\ i \in 0 .. n - 1 /\ i + 1 \in 1 .. n /\ i + 1 # 1 /\ i + 1 - 1 = i
    BY <1>1
  <2>2. g[i] \in Seq(S) /\ Placed(g[i], seqs, start, i)
    BY <1>11, <2>1
  <2>3. g[i + 1] = g[i] \o seqs[i + 1]
    <3> DEFINE j == i + 1
    <3>1. j \in 1 .. n /\ j # 1 /\ j - 1 = i
      BY <2>1
    <3> HIDE DEF j
    <3>2. g[j] = g[j - 1] \o seqs[j]
      BY <1>9, <3>1
    <3> QED
      BY <3>1, <3>2 DEF j
  <2>4. i \in 0 .. Len(seqs) - 1
    BY <2>1 DEF n
  <2>5. g[i + 1] \in Seq(S) /\ Placed(g[i + 1], seqs, start, i + 1)
    <3> DEFINE t == g[i]
    <3> HIDE DEF t
    <3>1. t \in Seq(S) /\ Placed(t, seqs, start, i)
      BY <2>2 DEF t
    <3>2. t \o seqs[i + 1] \in Seq(S) /\ Placed(t \o seqs[i + 1], seqs, start, i + 1)
      BY <2>4, <3>1, PlacedNext
    <3> QED
      BY <2>3, <3>2 DEF t
  <2> QED
    BY <2>1, <2>5
<1>12. n - 1 \in Good
  <2>1. n - 1 \in Nat /\ n - 1 \in 0 .. n - 1
    BY <1>1
  <2> HIDE DEF Good
  <2>2. 0 .. n - 1 \subseteq Good
    BY <1>10, <1>11, <2>1, InductionTo
  <2> QED
    BY <2>1, <2>2
<1> QED
  BY <1>1, <1>8, <1>12 DEF n

\* A row of maps takes whole vectors.
LEMMA RoundUpFacts ==
  ASSUME NEW n \in Nat
  PROVE  /\ round_up(n, MAP_ARRAY_ALIGNMENT) \in Nat
         /\ n <= round_up(n, MAP_ARRAY_ALIGNMENT)
         /\ CDiv(n - 1, MAP_ARRAY_ALIGNMENT) * MAP_ARRAY_ALIGNMENT
              + MAP_ARRAY_ALIGNMENT = round_up(n, MAP_ARRAY_ALIGNMENT)
<1> DEFINE b == MAP_ARRAY_ALIGNMENT
           q == CDiv(n - 1, b)
<1>1. b \in Nat /\ b > 0
  BY AlignmentAssumption
<1>2. q \in Int /\ q >= -1 /\ n <= q * b + b
  <2>1. CASE n = 0
    <3> DEFINE r == 1 \div b
    <3>1. q = -r
      BY <2>1 DEF CDiv
    <3>2. r \in Int /\ r * b <= 1 /\ r >= 0
      BY <1>1
    <3>3. r <= 1
      <4> HIDE DEF r
      <4> SUFFICES ASSUME r >= 2 PROVE FALSE
        BY <3>2
      <4>1. r * b >= 2 * b
        BY <1>1, <3>2
      <4> QED
        BY <1>1, <3>2, <4>1
    <3> HIDE DEF r
    <3>4. r = 0 \/ r = 1
      BY <3>2, <3>3
    <3> QED
      BY <1>1, <2>1, <3>1, <3>4
  <2>2. CASE n # 0
    <3> DEFINE x == n - 1
               r == x \div b
    <3>1. x \in Nat /\ ~ x < 0
      BY <2>2
    <3>2. q = r
      BY <2>2 DEF CDiv
    <3>3. r \in Int /\ x < (r + 1) * b /\ r >= 0
      <4> HIDE DEF x
      <4> QED
        BY <1>1, <3>1
    <3> HIDE DEF r
    <3>4. (r + 1) * b = r * b + b /\ r * b \in Int
      BY <1>1, <3>3
    <3> QED
      BY <1>1, <2>2, <3>2, <3>3, <3>4
  <2> QED
    BY <2>1, <2>2
<1> HIDE DEF q
<1>3. (q + 1) * b = q * b + b /\ q * b \in Int /\ (q + 1) * b >= 0
  BY <1>1, <1>2
<1>4. round_up(n, b) = (q + 1) * b
  BY DEF round_up, q
<1> QED
  BY <1>1, <1>2, <1>3, <1>4 DEF q

\* Where a table has a row: its layers one behind the other in one array,
\* their maps in the same order in the other, zero maps in the lanes left.
HasRow(table, configs, rows_, i) ==
  LET layer == table.layers[i]
      row == rows_[i + 1]
  IN  /\ layer.next_layer_count = Len(row)
      /\ layer.next_layers \in Nat /\ layer.next_layer_luts \in Nat
      /\ layer.next_layers + Len(row) <= Len(table.next_layer_array)
      /\ \A k \in 1 .. Len(row) : table.next_layer_array[layer.next_layers + k] = row[k]
      /\ layer.next_layer_luts + round_up(Len(row), MAP_ARRAY_ALIGNMENT)
           <= Len(table.next_map_array)
      /\ \A k \in 0 .. round_up(Len(row), MAP_ARRAY_ALIGNMENT) - 1 :
           MapOf(table, layer, k) =
             IF k < Len(row) THEN LayerOf(configs, row[k + 1]) ELSE zero_map

IsLaidOut(table, configs, rows_) ==
  /\ DOMAIN table.layers = 0 .. Len(configs)
  /\ table.next_layer_array \in Seq(1 .. Len(configs))
  /\ \A i \in 0 .. Len(configs) :
       /\ table.layers[i].map = LayerOf(configs, i)
       /\ table.layers[i].config = IF i = 0 THEN 0 ELSE configs[i]
       /\ HasRow(table, configs, rows_, i)

LEMMA Layout ==
  ASSUME NEW configs \in Seq(Configs), NEW rows_ \in Seq(Seq(1 .. Len(configs))),
         Len(rows_) = Len(configs) + 1
  PROVE  IsLaidOut(Assemble(configs, rows_), configs, rows_)
<1> DEFINE n == Len(configs)
           table == Assemble(configs, rows_)
           sizes == RowSizes(rows_)
           spaces == PaddedSizes(rows_)
           maps == [i \in 1 .. Len(rows_) |-> RowOfMaps(configs, rows_[i], spaces[i])]
<1>1. n \in Nat /\ Len(rows_) = n + 1 /\ Len(rows_) \in Nat
  BY LenProperties
<1>2. ASSUME NEW i \in 1 .. n + 1
      PROVE  /\ rows_[i] \in Seq(1 .. n) /\ Len(rows_[i]) \in Nat
             /\ sizes[i] = Len(rows_[i])
             /\ spaces[i] = round_up(Len(rows_[i]), MAP_ARRAY_ALIGNMENT)
             /\ spaces[i] \in Nat /\ sizes[i] <= spaces[i]
  <2>1. rows_[i] \in Seq(1 .. n)
    BY <1>1, ElementOfSeq
  <2>2. Len(rows_[i]) \in Nat
    BY <2>1, LenProperties
  <2> QED
    BY <1>1, <2>1, <2>2, RoundUpFacts DEF RowSizes, PaddedSizes
<1>3. sizes \in Seq(Nat) /\ Len(sizes) = n + 1
  BY <1>1, <1>2 DEF RowSizes
<1>4. spaces \in Seq(Nat) /\ Len(spaces) = n + 1
  BY <1>1, <1>2 DEF PaddedSizes
<1> DEFINE starts == Starts(sizes)
           map_starts == Starts(spaces)
<1>5. /\ starts \in [0 .. n + 1 -> Nat] /\ starts[0] = 0
      /\ \A i \in 1 .. n + 1 : starts[i] = starts[i - 1] + sizes[i]
  <2> HIDE DEF sizes
  <2> QED
    BY <1>3, StartsFacts
<1>6. /\ map_starts \in [0 .. n + 1 -> Nat] /\ map_starts[0] = 0
      /\ \A i \in 1 .. n + 1 : map_starts[i] = map_starts[i - 1] + spaces[i]
  <2> HIDE DEF spaces
  <2> QED
    BY <1>4, StartsFacts
<1>7. /\ table.layers =
           [i \in 0 .. n |-> [map |-> LayerOf(configs, i),
                              config |-> IF i = 0 THEN 0 ELSE configs[i],
                              next_layer_count |-> sizes[i + 1],
                              next_layers |-> starts[i],
                              next_layer_luts |-> map_starts[i]]]
      /\ table.next_layer_array = FlattenSeq(rows_)
      /\ table.next_map_array = FlattenSeq(maps)
  <2> HIDE DEF sizes, spaces
  <2> QED
    BY DEF Assemble, sizes, spaces
<1>8. ASSUME NEW i \in 1 .. n + 1
      PROVE  /\ maps[i] \in Seq(Maps) /\ Len(maps[i]) = spaces[i]
             /\ \A k \in 1 .. spaces[i] : maps[i][k] =
                  IF k <= Len(rows_[i]) THEN LayerOf(configs, rows_[i][k]) ELSE zero_map
  <2> DEFINE row == rows_[i]
             space == spaces[i]
  <2>1. maps[i] = [k \in 1 .. space |->
                     IF k <= Len(row) THEN LayerOf(configs, row[k]) ELSE zero_map]
    BY <1>1 DEF RowOfMaps
  <2>2. row \in Seq(1 .. n) /\ Len(row) \in Nat /\ space \in Nat
    BY <1>2
  <2> HIDE DEF row, space, n
  <2>3. ASSUME NEW k \in 1 .. space, k <= Len(row)
        PROVE  LayerOf(configs, row[k]) \in Maps
    <3>1. k \in 1 .. Len(row)
      BY <2>2, <2>3
    <3>2. row[k] \in 1 .. n
      BY <2>2, <3>1, ElementOfSeq
    <3>3. row[k] \in 0 .. Len(configs)
      BY <3>2 DEF n
    <3> QED
      BY <3>3, LayerOfType
  <2>4. \A k \in 1 .. space :
           (IF k <= Len(row) THEN LayerOf(configs, row[k]) ELSE zero_map) \in Maps
    BY <2>3, IdentityType
  <2> HIDE DEF maps
  <2>5. maps[i] \in Seq(Maps) /\ Len(maps[i]) = space
    BY <2>1, <2>2, <2>4
  <2> QED
    BY <2>1, <2>5 DEF row, space
<1>9. maps \in Seq(Seq(Maps)) /\ Len(maps) = n + 1
  <2>1. \A i \in 1 .. n + 1 : maps[i] \in Seq(Maps)
    BY <1>8
  <2>2. maps = [i \in 1 .. n + 1 |-> maps[i]]
    BY <1>1
  <2> DEFINE S == Seq(Maps)
             m == n + 1
  <2> HIDE DEF maps, n
  <2>3. m \in Nat
    BY <1>1
  <2> HIDE DEF S, m
  <2>4. \A i \in 1 .. m : maps[i] \in S
    BY <2>1 DEF S, m
  <2>5. maps = [i \in 1 .. m |-> maps[i]]
    BY <2>2 DEF m
  <2>6. maps \in [1 .. m -> S]
    BY <2>4, <2>5, Zenon
  <2>7. maps \in Seq(S) /\ Len(maps) = m
    BY <2>3, <2>6
  <2> QED
    BY <2>7 DEF S, m
<1> HIDE DEF n, table, sizes, spaces, maps, starts, map_starts
<1>10. /\ FlattenSeq(rows_) \in Seq(1 .. n)
       /\ Placed(FlattenSeq(rows_), rows_, starts, n + 1)
  <2>1. \A i \in 1 .. Len(rows_) : starts[i] = starts[i - 1] + Len(rows_[i])
    BY <1>1, <1>2, <1>5
  <2>2. Len(rows_) > 0 /\ rows_ \in Seq(Seq(1 .. n))
    BY <1>1 DEF n
  <2>3. starts \in [0 .. Len(rows_) -> Nat]
    BY <1>1, <1>5
  <2>4. /\ FlattenSeq(rows_) \in Seq(1 .. n)
        /\ Placed(FlattenSeq(rows_), rows_, starts, Len(rows_))
    BY <1>5, <2>1, <2>2, <2>3, FlattenPlaces
  <2> QED
    BY <1>1, <2>4
<1>11. Placed(FlattenSeq(maps), maps, map_starts, n + 1)
  <2>1. \A i \in 1 .. Len(maps) : map_starts[i] = map_starts[i - 1] + Len(maps[i])
    BY <1>6, <1>8, <1>9
  <2>2. Len(maps) > 0 /\ map_starts \in [0 .. Len(maps) -> Nat]
    BY <1>1, <1>6, <1>9
  <2>3. Placed(FlattenSeq(maps), maps, map_starts, Len(maps))
    BY <1>6, <1>9, <2>1, <2>2, FlattenPlaces
  <2> QED
    BY <1>9, <2>3
<1>12. ASSUME NEW i \in 0 .. n PROVE HasRow(table, configs, rows_, i)
  <2> DEFINE layer == table.layers[i]
             row == rows_[i + 1]
             lanes == round_up(Len(row), MAP_ARRAY_ALIGNMENT)
  <2>1. i + 1 \in 1 .. n + 1 /\ i + 1 - 1 = i /\ i \in 0 .. n + 1
    BY <1>1
  <2>2. /\ layer.next_layer_count = sizes[i + 1]
        /\ layer.next_layers = starts[i] /\ layer.next_layer_luts = map_starts[i]
    BY <1>7
  <2>3. starts[i] \in Nat /\ map_starts[i] \in Nat
    BY <1>5, <1>6, <2>1
  <2>4. /\ Len(row) \in Nat /\ sizes[i + 1] = Len(row) /\ spaces[i + 1] = lanes
        /\ lanes \in Nat
    BY <1>2, <2>1
  <2>5. /\ starts[i] + Len(row) <= Len(FlattenSeq(rows_))
        /\ \A k \in 1 .. Len(row) : FlattenSeq(rows_)[starts[i] + k] = row[k]
    <3> DEFINE flat == FlattenSeq(rows_)
               j == i + 1
    <3>1. /\ starts[j - 1] + Len(rows_[j]) <= Len(flat)
          /\ \A k \in 1 .. Len(rows_[j]) : flat[starts[j - 1] + k] = rows_[j][k]
      <4> HIDE DEF flat, j
      <4>1. j \in 1 .. n + 1
        BY <2>1 DEF j
      <4> QED
        BY <1>10, <4>1, Zenon DEF Placed, flat
    <3> QED
      BY <2>1, <3>1
  <2>6. /\ Len(maps[i + 1]) = lanes
        /\ \A k \in 1 .. lanes : maps[i + 1][k] =
             IF k <= Len(row) THEN LayerOf(configs, row[k]) ELSE zero_map
    BY <1>8, <2>1, <2>4
  <2>7. /\ map_starts[i] + lanes <= Len(FlattenSeq(maps))
        /\ \A k \in 1 .. lanes : FlattenSeq(maps)[map_starts[i] + k] = maps[i + 1][k]
    <3> DEFINE flat == FlattenSeq(maps)
               j == i + 1
    <3>1. /\ map_starts[j - 1] + Len(maps[j]) <= Len(flat)
          /\ \A k \in 1 .. Len(maps[j]) : flat[map_starts[j - 1] + k] = maps[j][k]
      <4> HIDE DEF flat, j
      <4>1. j \in 1 .. n + 1
        BY <2>1 DEF j
      <4> QED
        BY <1>11, <4>1, Zenon DEF Placed, flat
    <3> QED
      BY <2>1, <2>6, <3>1
  <2> HIDE DEF layer, row, lanes
  <2>8. ASSUME NEW k \in 0 .. lanes - 1
        PROVE  MapOf(table, layer, k) =
                 IF k < Len(row) THEN LayerOf(configs, row[k + 1]) ELSE zero_map
    <3>1. k + 1 \in 1 .. lanes /\ (k + 1 <= Len(row) <=> k < Len(row))
      BY <2>4
    <3>2. FlattenSeq(maps)[map_starts[i] + (k + 1)] = maps[i + 1][k + 1]
      BY <2>7, <3>1
    <3>3. map_starts[i] + (k + 1) = map_starts[i] + k + 1
      <4> DEFINE s == map_starts[i]
      <4>1. s \in Nat /\ k \in Nat
        BY <2>3, <2>4
      <4> HIDE DEF s
      <4>2. s + (k + 1) = s + k + 1
        BY <4>1
      <4> QED
        BY <4>2 DEF s
    <3>4. MapOf(table, layer, k) = maps[i + 1][k + 1]
      BY <1>7, <2>2, <3>2, <3>3 DEF MapOf
    <3> QED
      BY <2>6, <3>1, <3>4
  <2> QED
    BY <1>7, <2>2, <2>3, <2>4, <2>5, <2>6, <2>7, <2>8 DEF HasRow, layer, row, lanes
<1> QED
  BY <1>7, <1>10, <1>12 DEF IsLaidOut, n, table

\* The layer 0x000 is the identity.
LEMMA FirstLayer == 0 \in Configs /\ LayerMap(0) = identity
<1>1. N \in Nat /\ N >= 2 /\ N * N \in Nat /\ N * N > 0
  BY NAssumption
<1>2. 0 \in Configs
  BY <1>1 DEF Configs, HEX_CONFIG_COUNT
<1>3. 0 \div (N * N) = 0 /\ (0 \div N) % N = 0 /\ 0 % N = 0
  <2>1. 0 = 0 * N + 0 /\ 0 \in 0 .. N - 1
    BY <1>1
  <2>2. 0 = 0 * (N * N) + 0 /\ 0 \in 0 .. N * N - 1
    BY <1>1
  <2>3. 0 \div N = 0 /\ 0 % N = 0
    BY <1>1, <2>1, Division
  <2>4. 0 \div (N * N) = 0
    BY <1>1, <2>2, Division
  <2> QED
    BY <2>3, <2>4
<1>4. ASSUME NEW v \in Values PROVE hex_layer(v, 0) = v
  <2>1. v \in Int /\ 0 <= v
    BY <1>1 DEF Values
  <2>2. Comparator(v, 0, FALSE) = v /\ Comparator(0, v, FALSE) = 0 /\ Larger(v, 0) = v
    BY <2>1 DEF Comparator, Larger
  <2>3. ModeBits(0) = 0
    BY DEF ModeBits
  <2>4. ((0 \div 2) % 2 = 1) = FALSE /\ (0 % 2 = 1) = FALSE /\ (0 >= 4) = FALSE
    OBVIOUS
  <2>5. hex_layer(v, 0) = Larger(Comparator(v, 0, FALSE), Comparator(0, v, FALSE))
    BY <1>3, <2>3, <2>4, Zenon DEF hex_layer
  <2> QED
    BY <2>2, <2>5
<1> QED
  BY <1>2, <1>4 DEF LayerMap, identity

\* The layer 0x5f0 reverses the order of the inputs: whatever the group, it
\* keeps enough outputs, and it is not the identity.
LEMMA ReversingLayer ==
  \E config \in Configs :
    LayerMap(config) # identity /\ get_group(LayerMap(config)) = N
<1> DEFINE config == Config(5, N - 1, 0)
           reverse == [v \in Values |-> N - 1 - v]
<1>1. N \in Nat /\ N >= 2 /\ N * N \in Nat
  BY NAssumption
<1>2. N * N >= N /\ N * N > 0
  BY <1>1
<1>3. config = 5 * (N * N) + (N * N - N)
  BY <1>1 DEF Config
<1>4. config = (6 * N - 1) * N + 0
  BY <1>1 DEF Config
<1>5. config \div (N * N) = 5
  <2>1. N * N - N \in 0 .. N * N - 1
    BY <1>1, <1>2
  <2> HIDE DEF config
  <2> QED
    BY <1>1, <1>2, <1>3, <2>1, Division
<1>6. config \div N = 6 * N - 1 /\ config % N = 0
  <2> HIDE DEF config
  <2> QED
    BY <1>1, <1>4, Division
<1>7. (6 * N - 1) % N = N - 1
  <2>1. 6 * N - 1 = 5 * N + (N - 1)
    BY <1>1
  <2> QED
    BY <1>1, <2>1, Division
<1>8. config \in Configs
  <2>1. config >= 0 /\ config <= 6 * N * N - 1
    BY <1>1, <1>2, <1>3
  <2> QED
    BY <1>1, <1>3, <2>1 DEF Configs, HEX_CONFIG_COUNT
<1>9. ASSUME NEW v \in Values PROVE hex_layer(v, config) = N - 1 - v
  <2>1. ModeBits(5) = 6
    BY DEF ModeBits
  <2>2. v \in Int /\ 0 <= v /\ v <= N - 1
    BY <1>1 DEF Values
  <2>3. Comparator(N - 1, v, TRUE) = N - 1 - v /\ Comparator(0, v, FALSE) = 0
    BY <1>1, <2>2 DEF Comparator
  <2>4. Larger(N - 1 - v, 0) = N - 1 - v
    BY <1>1, <2>2 DEF Larger
  <2> HIDE DEF config
  <2>5. ModeBits(config \div (N * N)) = 6
    BY <1>5, <2>1
  <2>6. (config \div N) % N = N - 1 /\ config % N = 0
    BY <1>6, <1>7
  <2>7. ((6 \div 2) % 2 = 1) = TRUE /\ (6 % 2 = 1) = FALSE /\ (6 >= 4) = TRUE
    OBVIOUS
  <2>8. hex_layer(v, config) =
          Larger(Comparator(N - 1, v, TRUE), Comparator(0, v, FALSE))
    BY <2>5, <2>6, <2>7, Zenon DEF hex_layer
  <2> QED
    BY <2>3, <2>4, <2>8
<1>10. LayerMap(config) = reverse
  BY <1>9 DEF LayerMap
<1> HIDE DEF config
<1>11. \A v \in Values : N - 1 - v \in Values /\ N - 1 - (N - 1 - v) = v
  BY <1>1 DEF Values
<1>12. Image(reverse) = Values
  <2>1. \A v \in Values : reverse[v] \in Values
    BY <1>11
  <2>2. \A v \in Values : reverse[N - 1 - v] = v
    BY <1>11
  <2> QED
    BY <1>11, <2>1, <2>2 DEF Image
<1>13. reverse # identity
  <2>1. 0 \in Values /\ reverse[0] # identity[0]
    BY <1>1 DEF Values, identity
  <2> QED
    BY <2>1
<1> QED
  BY <1>8, <1>10, <1>12, <1>13, ValuesAreFinite DEF get_group

-----------------------------------------------------------------------------
(* Finished tables.                                                        *)

LEMMA MadeFacts ==
  ASSUME NEW configs \in Seq(Configs), NEW rows_ \in Seq(Seq(1 .. Len(configs))),
         NEW g \in 1 .. N, NEW d \in Directions, NEW table,
         IsMadeFrom(table, configs, rows_, g, d)
  PROVE  /\ Len(configs) \in Nat /\ Len(configs) > 0
         /\ IsLaidOut(table, configs, rows_)
         /\ Len(rows_[1]) = Len(configs)
         /\ \A p \in 1 .. Len(configs) : rows_[1][p] = p
         /\ \A i \in 0 .. Len(configs) :
              /\ rows_[i + 1] \in Seq(1 .. Len(configs))
              /\ Len(rows_[i + 1]) \in Nat /\ Len(rows_[i + 1]) <= Len(configs)
<1> DEFINE n == Len(configs)
<1>1. n \in Nat
  BY LenProperties
<1>2. /\ RowsAreTyped(rows_, n, n) /\ RowsAreShort(rows_, n, n, n + 1)
  BY DEF IsMadeFrom, PairsListed
<1>3. IsLaidOut(table, configs, rows_)
  BY <1>2, Layout DEF IsMadeFrom, RowsAreTyped
<1>4. n > 0
  <2>1. PICK config \in Configs :
          LayerMap(config) # identity /\ get_group(LayerMap(config)) = N
    BY ReversingLayer
  <2>2. config < HEX_CONFIG_COUNT /\ N >= g
    BY NAssumption DEF Configs, HEX_CONFIG_COUNT
  <2>3. IsKept(configs, LayerMap(config))
    BY <2>1, <2>2 DEF IsMadeFrom, AllKept
  <2>4. PICK p : p \in 1 .. n
    BY <2>1, <2>3 DEF IsKept
  <2> HIDE DEF n
  <2> QED
    BY <1>1, <2>4
<1>5. Len(rows_[1]) = n
  <2> DEFINE m == n + 1
  <2>1. m - 1 = n
    BY <1>1
  <2> HIDE DEF n, m
  <2>2. RowsAreShort(rows_, n, n, m)
    BY <1>2 DEF m
  <2>3. Len(rows_[1]) = IF n = 0 THEN m - 1 ELSE n
    BY <2>2, Zenon DEF RowsAreShort
  <2> QED
    BY <2>1, <2>3
<1>6. \A i \in 0 .. n :
        /\ rows_[i + 1] \in Seq(1 .. n)
        /\ Len(rows_[i + 1]) \in Nat /\ Len(rows_[i + 1]) <= n
  <2> HIDE DEF n
  <2> QED
    BY <1>1, <1>2, RowType DEF RowsAreShort
<1> QED
  BY <1>1, <1>2, <1>3, <1>4, <1>5, <1>6 DEF RowsAreShort

\* What the answer was made from.
LEMMA AnswerFacts ==
  ASSUME Groups \subseteq 1 .. N, HistoryInv, Returned
  PROVE  /\ answer.group \in 1 .. N /\ answer.direction \in Directions
         /\ \E configs \in Seq(Configs) : \E rows_ \in Seq(Seq(1 .. Len(configs))) :
              IsMadeFrom(answer.table, configs, rows_, answer.group, answer.direction)
BY DEF HistoryInv, Returned, IsHexTable

LEMMA RowOfIsRow ==
  ASSUME NEW configs \in Seq(Configs), NEW rows_,
         IsLaidOut(answer.table, configs, rows_),
         NEW i \in 0 .. Len(configs), rows_[i + 1] \in Seq(1 .. Len(configs))
  PROVE  RowAfter(i) = rows_[i + 1]
<1> DEFINE array == answer.table.next_layer_array
           at == Layers[i].next_layers
           row == rows_[i + 1]
           n == Len(configs)
<1>1. /\ Layers[i].next_layer_count = Len(row)
      /\ at \in Nat /\ at + Len(row) <= Len(array)
      /\ \A k \in 1 .. Len(row) : array[at + k] = row[k]
  BY DEF IsLaidOut, HasRow, Layers
<1>2. array \in Seq(1 .. n)
  BY DEF IsLaidOut
<1>3. RowAfter(i) = SubSeq(array, at + 1, at + Len(row))
  BY <1>1 DEF RowAfter
<1> HIDE DEF array, at, row
<1>4. Len(row) \in Nat /\ Len(array) \in Nat /\ row \in Seq(1 .. n)
  BY <1>2, LenProperties DEF row
<1> HIDE DEF n
<1>5. ASSUME NEW k \in at + 1 .. at + Len(row)
      PROVE  array[k] \in 1 .. n
  <2>1. k \in 1 .. Len(array)
    BY <1>1, <1>4
  <2> QED
    BY <1>2, <2>1, ElementOfSeq
<1>6. /\ SubSeq(array, at + 1, at + Len(row)) \in Seq(1 .. n)
      /\ Len(SubSeq(array, at + 1, at + Len(row))) = Len(row)
      /\ \A k \in 1 .. Len(row) : SubSeq(array, at + 1, at + Len(row))[k] = array[at + k]
  <2> DEFINE first == at + 1
             last == at + Len(row)
  <2>1. /\ first \in Int /\ last \in Int /\ last - first + 1 = Len(row)
        /\ first <= last <=> Len(row) > 0
        /\ \A k \in 1 .. Len(row) : first + k - 1 = at + k
    BY <1>1, <1>4
  <2> HIDE DEF first, last
  <2>2. \A k \in first .. last : array[k] \in 1 .. n
    BY <1>5 DEF first, last
  <2>3. /\ SubSeq(array, first, last) \in Seq(1 .. n)
        /\ Len(SubSeq(array, first, last)) = IF first <= last THEN last - first + 1 ELSE 0
        /\ \A k \in 1 .. last - first + 1 : SubSeq(array, first, last)[k] = array[first + k - 1]
    BY <2>1, <2>2, SubSeqProperties
  <2>4. Len(SubSeq(array, first, last)) = Len(row)
    BY <1>4, <2>1, <2>3
  <2>5. \A k \in 1 .. Len(row) : SubSeq(array, first, last)[k] = array[at + k]
    BY <2>1, <2>3
  <2> QED
    BY <2>3, <2>4, <2>5 DEF first, last
<1> DEFINE part == SubSeq(array, at + 1, at + Len(row))
<1> HIDE DEF part
<1>7. /\ part \in Seq(1 .. n) /\ Len(part) = Len(row)
      /\ \A k \in 1 .. Len(part) : part[k] = row[k]
  BY <1>1, <1>6 DEF part
<1>8. part = row
  BY <1>4, <1>7, SeqEqual
<1> QED
  BY <1>3, <1>8 DEF part, row

-----------------------------------------------------------------------------
(* Chains of layers.                                                       *)

IsAnswer(configs, rows_) ==
  /\ configs \in Seq(Configs) /\ rows_ \in Seq(Seq(1 .. Len(configs)))
  /\ answer.group \in 1 .. N /\ answer.direction \in Directions
  /\ IsMadeFrom(answer.table, configs, rows_, answer.group, answer.direction)

\* The layers and rows of the answer.
LEMMA AnswerLayers ==
  ASSUME NEW configs, NEW rows_, IsAnswer(configs, rows_),
         NEW i \in 0 .. Len(configs)
  PROVE  /\ DOMAIN Layers = 0 .. Len(configs)
         /\ Layers[i].map = LayerOf(configs, i)
         /\ RowAfter(i) = rows_[i + 1]
         /\ Layers[i].next_layer_count = Len(rows_[i + 1])
         /\ DOMAIN RowAfter(i) = 1 .. Len(rows_[i + 1])
         /\ \A p \in DOMAIN RowAfter(i) :
              RowAfter(i)[p] \in 1 .. Len(configs) /\ Listed(rows_, i, RowAfter(i)[p])
         /\ \A j : Listed(rows_, i, j) => \E p \in DOMAIN RowAfter(i) : RowAfter(i)[p] = j
<1>1. /\ IsLaidOut(answer.table, configs, rows_)
      /\ rows_[i + 1] \in Seq(1 .. Len(configs))
      /\ configs \in Seq(Configs)
  BY MadeFacts DEF IsAnswer
<1>2. RowAfter(i) = rows_[i + 1]
  BY <1>1, RowOfIsRow
<1>3. DOMAIN rows_[i + 1] = 1 .. Len(rows_[i + 1])
  BY <1>1, LenProperties
<1>4. \A p \in 1 .. Len(rows_[i + 1]) : rows_[i + 1][p] \in 1 .. Len(configs)
  BY <1>1, ElementOfSeq
<1> QED
  BY <1>1, <1>2, <1>3, <1>4 DEF IsLaidOut, HasRow, Layers, Listed

\* A layer with enough outputs is one of the table's.
LEMMA EveryLayerIsThere ==
  ASSUME NEW configs, NEW rows_, IsAnswer(configs, rows_),
         NEW config \in Configs, get_group(LayerMap(config)) >= answer.group
  PROVE  \E j \in 0 .. Len(configs) : LayerOf(configs, j) = LayerMap(config)
<1>1. Len(configs) \in Nat
  BY LenProperties DEF IsAnswer
<1>2. config < HEX_CONFIG_COUNT
  BY NAssumption DEF Configs, HEX_CONFIG_COUNT
<1>3. IsKept(configs, LayerMap(config))
  BY <1>2 DEF IsAnswer, IsMadeFrom, AllKept
<1>4. CASE LayerMap(config) = identity
  <2>1. 0 \in 0 .. Len(configs)
    BY <1>1
  <2> QED
    BY <1>4, <2>1 DEF LayerOf
<1>5. CASE \E p \in 1 .. Len(configs) : LayerMap(configs[p]) = LayerMap(config)
  <2>1. PICK p \in 1 .. Len(configs) : LayerMap(configs[p]) = LayerMap(config)
    BY <1>5
  <2>2. p \in 0 .. Len(configs) /\ p # 0
    BY <1>1
  <2> QED
    BY <2>1, <2>2 DEF LayerOf
<1> QED
  BY <1>3, <1>4, <1>5 DEF IsKept

\* A layer that is listed after another one, or none at all.
MayFollow(rows_, i, j) == (i = 0 /\ j = 0) \/ Listed(rows_, i, j)

\* What two layers compute with enough outputs, two layers compute that are
\* listed one after the other, unless two compute it that come before them.
LEMMA PairIsListed ==
  ASSUME NEW configs, NEW rows_, IsAnswer(configs, rows_),
         NEW i \in 0 .. Len(configs), NEW j \in 0 .. Len(configs),
         get_group(Product(configs, answer.direction, i, j)) >= answer.group
  PROVE  \/ MayFollow(rows_, i, j)
         \/ \E k, l \in 0 .. Len(configs) :
              /\ Before(k, l, i, j)
              /\ Product(configs, answer.direction, k, l) =
                 Product(configs, answer.direction, i, j)
<1> DEFINE n == Len(configs)
           P(k, l) == Product(configs, answer.direction, k, l)
<1>1. n \in Nat /\ configs \in Seq(Configs) /\ answer.direction \in Directions
  BY LenProperties DEF IsAnswer
<1>2. \A k \in 0 .. n : P(0, k) = LayerOf(configs, k) /\ P(k, 0) = LayerOf(configs, k)
  BY <1>1, ProductWithIdentity
<1>3. TriedIsMade(configs, rows_, answer.group, answer.direction, n, n + 1)
  BY DEF IsAnswer, IsMadeFrom, PairsListed
<1>4. CASE j = 0 /\ i = 0
  BY <1>4 DEF MayFollow
<1>5. CASE j = 0 /\ i # 0
  <2> HIDE DEF n
  <2>1. 0 \in 0 .. n /\ Before(0, i, i, j)
    BY <1>1, <1>5 DEF Before, n
  <2>2. P(0, i) = P(i, j)
    BY <1>2, <1>5 DEF n
  <2> QED
    BY <2>1, <2>2 DEF n
<1>6. CASE j # 0
  <2>1. j \in 1 .. n /\ Before(i, j, n, n + 1)
    <3> HIDE DEF n
    <3> QED
      BY <1>1, <1>6 DEF Before, n
  <2>2. P(i, j) = identity \/ IsMade(configs, rows_, answer.direction, n, i, j)
    BY <1>3, <2>1 DEF TriedIsMade
  <2>3. CASE P(i, j) = identity
    <3> HIDE DEF n, P
    <3>1. 0 \in 0 .. n /\ Before(0, 0, i, j)
      BY <1>1, <1>6 DEF Before, n
    <3>2. P(0, 0) = identity
      BY <1>2, <3>1 DEF LayerOf
    <3> QED
      BY <2>3, <3>1, <3>2 DEF n, P
  <2>4. CASE IsMade(configs, rows_, answer.direction, n, i, j)
    <3>1. PICK k \in 0 .. n, l \in 1 .. n :
            Listed(rows_, k, l) /\ ~ Before(i, j, k, l) /\ P(k, l) = P(i, j)
      BY <2>4 DEF IsMade
    <3> HIDE DEF n, P
    <3>2. l \in 0 .. n /\ ((k = i /\ l = j) \/ Before(k, l, i, j))
      BY <1>1, <3>1 DEF Before, n
    <3> QED
      BY <3>1, <3>2 DEF MayFollow, n, P
  <2> QED
    BY <2>2, <2>3, <2>4
<1> QED
  BY <1>4, <1>5, <1>6

\* Every layer may follow the identity.
LEMMA IdentityIsFollowed ==
  ASSUME NEW configs, NEW rows_, IsAnswer(configs, rows_),
         NEW j \in 0 .. Len(configs)
  PROVE  MayFollow(rows_, 0, j)
<1> DEFINE n == Len(configs)
<1> SUFFICES ASSUME j # 0 PROVE Listed(rows_, 0, j)
  BY DEF MayFollow
<1>1. Len(rows_[1]) = n /\ n \in Nat /\ \A p \in 1 .. n : rows_[1][p] = p
  BY MadeFacts DEF IsAnswer
<1> HIDE DEF n
<1>2. j \in 1 .. n /\ 0 + 1 = 1
  BY <1>1 DEF n
<1> QED
  BY <1>1, <1>2 DEF Listed

\* The maps of chains one layer longer, and their ends when the layer is one
\* of the row.
Longer(maps) ==
  maps \cup {m \in {compose(answer.direction, map, LayerMap(c)) :
                      map \in maps, c \in Configs} : get_group(m) >= answer.group}

LongerAlongRows(ends) ==
  ends \cup UNION {{<<compose(answer.direction, e[1], Layers[j].map), j>> :
                       j \in {RowAfter(e[2])[p] : p \in DOMAIN RowAfter(e[2])}} : e \in ends}

LEMMA LongerType ==
  ASSUME answer.direction \in Directions, NEW maps \in SUBSET Maps
  PROVE  Longer(maps) \in SUBSET Maps
BY LayerMapType, ComposeType DEF Longer

LEMMA ReachableFacts ==
  ASSUME answer.direction \in Directions, NEW k \in Nat
  PROVE  \E f \in [0 .. k -> SUBSET Maps] :
           /\ f[0] = {identity}
           /\ \A i \in 1 .. k : f[i] = Longer(f[i - 1])
           /\ Reachable(k) = f[k]
<1> DEFINE R(g) ==
      [n \in 0 .. k |->
         IF n = 0 THEN {identity}
         ELSE LET maps == g[n - 1]
                  longer == {compose(answer.direction, map, LayerMap(c)) :
                               map \in maps, c \in Configs}
              IN  maps \cup {m \in longer : get_group(m) >= answer.group}]
<1>1. Reachable(k) = (CHOOSE g : g = R(g))[k]
  BY DEF Reachable
<1>2. \A g : R(g) = [n \in 0 .. k |-> IF n = 0 THEN {identity} ELSE Longer(g[n - 1])]
  BY DEF Longer
<1> HIDE DEF R
<1> DEFINE step == [i \in 1 .. k |-> [maps \in SUBSET Maps |-> Longer(maps)]]
<1>3. \A i \in 1 .. k : \A maps \in SUBSET Maps :
        step[i][maps] = Longer(maps) /\ Longer(maps) \in SUBSET Maps
  BY LongerType
<1> HIDE DEF step
<1>4. PICK f : Follows(f, {identity}, step, k, SUBSET Maps)
  <2>1. StaysIn(step, k, SUBSET Maps)
    BY <1>3, Zenon DEF StaysIn
  <2>2. {identity} \in SUBSET Maps
    BY IdentityType
  <2> QED
    BY <2>1, <2>2, StepsExist
<1>5. ASSUME NEW n \in 0 .. k
      PROVE  f[n] = IF n = 0 THEN {identity} ELSE Longer(f[n - 1])
  <2>1. n = 0 \/ (n # 0 /\ n \in 1 .. k /\ n - 1 \in 0 .. k)
    OBVIOUS
  <2> QED
    BY <1>3, <1>4, <2>1 DEF Follows
<1>6. f = R(f)
  <2>1. f = [n \in 0 .. k |-> f[n]]
    BY <1>4 DEF Follows
  <2> QED
    BY <1>2, <1>5, <2>1
<1>7. PICK g : g = R(g) /\ Reachable(k) = g[k]
  <2>1. (CHOOSE g : g = R(g)) = R(CHOOSE g : g = R(g))
    BY <1>6
  <2> QED
    BY <1>1, <2>1
<1>8. ASSUME NEW n \in 0 .. k
      PROVE  g[n] = IF n = 0 THEN {identity} ELSE Longer(g[n - 1])
  <2>1. g[n] = R(g)[n]
    BY <1>7
  <2> QED
    BY <1>2, <2>1
<1> DEFINE Same == {n \in 0 .. k : g[n] = f[n]}
<1>9. 0 .. k \subseteq Same
  <2>1. 0 \in Same
    BY <1>5, <1>8
  <2>2. ASSUME NEW n \in 1 .. k, n - 1 \in Same
        PROVE  n \in Same
    <3>1. n \in 0 .. k /\ n # 0 /\ g[n - 1] = f[n - 1]
      BY <2>2
    <3> QED
      BY <1>5, <1>8, <3>1
  <2> HIDE DEF Same
  <2> QED
    BY <2>1, <2>2, InductionTo
<1>10. g[k] = f[k]
  BY <1>9
<1>11. /\ f \in [0 .. k -> SUBSET Maps] /\ f[0] = {identity}
       /\ \A i \in 1 .. k : f[i] = Longer(f[i - 1])
  BY <1>4, <1>5 DEF Follows
<1> QED
  BY <1>7, <1>10, <1>11

\* What one more layer along the rows leads to.
LEMMA LongerAlongRowsMember ==
  ASSUME NEW ends, NEW x
  PROVE  x \in LongerAlongRows(ends) <=>
           \/ x \in ends
           \/ \E e \in ends : \E p \in DOMAIN RowAfter(e[2]) :
                x = <<compose(answer.direction, e[1], Layers[RowAfter(e[2])[p]].map),
                      RowAfter(e[2])[p]>>
<1> DEFINE Behind(e) == {<<compose(answer.direction, e[1], Layers[j].map), j>> :
                           j \in {RowAfter(e[2])[p] : p \in DOMAIN RowAfter(e[2])}}
<1>1. LongerAlongRows(ends) = ends \cup UNION {Behind(e) : e \in ends}
  BY DEF LongerAlongRows
<1>2. ASSUME NEW e
      PROVE  x \in Behind(e) <=>
               \E p \in DOMAIN RowAfter(e[2]) :
                 x = <<compose(answer.direction, e[1], Layers[RowAfter(e[2])[p]].map),
                       RowAfter(e[2])[p]>>
  OBVIOUS
<1> HIDE DEF Behind
<1>3. x \in UNION {Behind(e) : e \in ends} <=> \E e \in ends : x \in Behind(e)
  OBVIOUS
<1> QED
  BY <1>1, <1>2, <1>3

LEMMA LongerAlongRowsType ==
  ASSUME NEW configs, NEW rows_, IsAnswer(configs, rows_),
         NEW ends \in SUBSET (Maps \X (0 .. Len(configs)))
  PROVE  LongerAlongRows(ends) \in SUBSET (Maps \X (0 .. Len(configs)))
<1> SUFFICES ASSUME NEW e \in ends, NEW p \in DOMAIN RowAfter(e[2])
             PROVE  <<compose(answer.direction, e[1], Layers[RowAfter(e[2])[p]].map),
                      RowAfter(e[2])[p]>> \in Maps \X (0 .. Len(configs))
  BY LongerAlongRowsMember
<1> DEFINE j == RowAfter(e[2])[p]
<1>1. e[1] \in Maps /\ e[2] \in 0 .. Len(configs)
  OBVIOUS
<1>2. j \in 1 .. Len(configs)
  BY <1>1, AnswerLayers
<1>3. j \in 0 .. Len(configs)
  BY <1>2
<1> HIDE DEF j
<1>4. Layers[j].map \in Maps
  BY <1>3, AnswerLayers, LayerOfType DEF IsAnswer
<1> QED
  BY <1>1, <1>3, <1>4, ComposeType DEF IsAnswer, j

LEMMA ReachableAlongRowsFacts ==
  ASSUME NEW configs, NEW rows_, IsAnswer(configs, rows_), NEW k \in Nat
  PROVE  \E f \in [0 .. k -> SUBSET (Maps \X (0 .. Len(configs)))] :
           /\ f[0] = {<<identity, 0>>}
           /\ \A i \in 1 .. k : f[i] = LongerAlongRows(f[i - 1])
           /\ ReachableAlongRows(k) =
                {e[1] : e \in {x \in f[k] : get_group(x[1]) >= answer.group}}
<1> DEFINE R(g) ==
      [n \in 0 .. k |->
         IF n = 0 THEN {<<identity, 0>>}
         ELSE LET ends == g[n - 1]
              IN  ends \cup
                    UNION {{<<compose(answer.direction, e[1], Layers[j].map), j>> :
                               j \in {RowAfter(e[2])[p] : p \in DOMAIN RowAfter(e[2])}} :
                             e \in ends}]
           Ends == Maps \X (0 .. Len(configs))
<1>1. ReachableAlongRows(k) =
        {e[1] : e \in {x \in (CHOOSE g : g = R(g))[k] : get_group(x[1]) >= answer.group}}
  BY DEF ReachableAlongRows
<1>2. \A g : R(g) = [n \in 0 .. k |->
                       IF n = 0 THEN {<<identity, 0>>} ELSE LongerAlongRows(g[n - 1])]
  BY DEF LongerAlongRows
<1> HIDE DEF R
<1> DEFINE step == [i \in 1 .. k |-> [ends \in SUBSET Ends |-> LongerAlongRows(ends)]]
<1>3. \A i \in 1 .. k : \A ends \in SUBSET Ends :
        step[i][ends] = LongerAlongRows(ends) /\ LongerAlongRows(ends) \in SUBSET Ends
  BY LongerAlongRowsType
<1>4. {<<identity, 0>>} \in SUBSET Ends
  <2>1. 0 \in 0 .. Len(configs)
    BY LenProperties DEF IsAnswer
  <2> QED
    BY <2>1, IdentityType
<1> HIDE DEF step, Ends
<1>5. PICK f : Follows(f, {<<identity, 0>>}, step, k, SUBSET Ends)
  <2>1. StaysIn(step, k, SUBSET Ends)
    BY <1>3, Zenon DEF StaysIn
  <2> QED
    BY <1>4, <2>1, StepsExist
<1>6. ASSUME NEW n \in 0 .. k
      PROVE  f[n] = IF n = 0 THEN {<<identity, 0>>} ELSE LongerAlongRows(f[n - 1])
  <2>1. n = 0 \/ (n # 0 /\ n \in 1 .. k /\ n - 1 \in 0 .. k)
    OBVIOUS
  <2> QED
    BY <1>3, <1>5, <2>1 DEF Follows
<1>7. f = R(f)
  <2>1. f = [n \in 0 .. k |-> f[n]]
    BY <1>5 DEF Follows
  <2> QED
    BY <1>2, <1>6, <2>1
<1>8. PICK g : /\ g = R(g)
               /\ ReachableAlongRows(k) =
                    {e[1] : e \in {x \in g[k] : get_group(x[1]) >= answer.group}}
  <2>1. (CHOOSE g : g = R(g)) = R(CHOOSE g : g = R(g))
    BY <1>7
  <2> QED
    BY <1>1, <2>1
<1>9. ASSUME NEW n \in 0 .. k
      PROVE  g[n] = IF n = 0 THEN {<<identity, 0>>} ELSE LongerAlongRows(g[n - 1])
  <2>1. g[n] = R(g)[n]
    BY <1>8
  <2> QED
    BY <1>2, <2>1
<1> DEFINE Same == {n \in 0 .. k : g[n] = f[n]}
<1>10. 0 .. k \subseteq Same
  <2>1. 0 \in Same
    BY <1>6, <1>9
  <2>2. ASSUME NEW n \in 1 .. k, n - 1 \in Same
        PROVE  n \in Same
    <3>1. n \in 0 .. k /\ n # 0 /\ g[n - 1] = f[n - 1]
      BY <2>2
    <3> QED
      BY <1>6, <1>9, <3>1
  <2> HIDE DEF Same
  <2> QED
    BY <2>1, <2>2, InductionTo
<1>11. g[k] = f[k]
  BY <1>10
<1>12. /\ f \in [0 .. k -> SUBSET Ends] /\ f[0] = {<<identity, 0>>}
       /\ \A i \in 1 .. k : f[i] = LongerAlongRows(f[i - 1])
  BY <1>5, <1>6 DEF Follows
<1> QED
  BY <1>8, <1>11, <1>12 DEF Ends

\* A layer that may follow leads from a chain to a longer one.
LEMMA OneLayerLonger ==
  ASSUME NEW configs, NEW rows_, IsAnswer(configs, rows_),
         NEW ends \in SUBSET (Maps \X (0 .. Len(configs))),
         NEW map \in Maps, NEW i \in 0 .. Len(configs), NEW j \in 0 .. Len(configs),
         <<map, i>> \in ends, MayFollow(rows_, i, j)
  PROVE  <<compose(answer.direction, map, LayerOf(configs, j)), j>>
           \in LongerAlongRows(ends)
<1>1. CASE i = 0 /\ j = 0
  <2>1. compose(answer.direction, map, LayerOf(configs, j)) = map
    BY <1>1, ComposeWithIdentity DEF LayerOf, IsAnswer
  <2> QED
    BY <1>1, <2>1 DEF LongerAlongRows
<1>2. CASE Listed(rows_, i, j)
  <2> DEFINE e == <<map, i>>
  <2>1. e \in ends /\ e[1] = map /\ e[2] = i
    OBVIOUS
  <2> HIDE DEF e
  <2>2. \E p \in DOMAIN RowAfter(e[2]) : RowAfter(e[2])[p] = j
    BY <1>2, <2>1, AnswerLayers
  <2>3. Layers[j].map = LayerOf(configs, j)
    BY AnswerLayers
  <2>4. <<compose(answer.direction, e[1], Layers[j].map), j>> \in LongerAlongRows(ends)
    BY <2>1, <2>2, LongerAlongRowsMember
  <2> QED
    BY <2>1, <2>3, <2>4
<1> QED
  BY <1>1, <1>2 DEF MayFollow

\* No chain along the rows is lost when every layer is allowed.
LEMMA RowsReachNoMore ==
  ASSUME NEW configs, NEW rows_, IsAnswer(configs, rows_), NEW k \in Nat
  PROVE  ReachableAlongRows(k) \subseteq Reachable(k)
<1> DEFINE n == Len(configs)
           d == answer.direction
<1>1. /\ n \in Nat /\ configs \in Seq(Configs) /\ d \in Directions
      /\ answer.group \in Nat
  BY NAssumption, LenProperties DEF IsAnswer
<1>2. PICK f \in [0 .. k -> SUBSET Maps] :
        /\ f[0] = {identity}
        /\ \A i \in 1 .. k : f[i] = Longer(f[i - 1])
        /\ Reachable(k) = f[k]
  BY <1>1, ReachableFacts
<1>3. PICK h \in [0 .. k -> SUBSET (Maps \X (0 .. n))] :
        /\ h[0] = {<<identity, 0>>}
        /\ \A i \in 1 .. k : h[i] = LongerAlongRows(h[i - 1])
        /\ ReachableAlongRows(k) =
             {e[1] : e \in {x \in h[k] : get_group(x[1]) >= answer.group}}
  BY ReachableAlongRowsFacts
<1> DEFINE Good ==
      {t \in 0 .. k : \A e \in h[t] : get_group(e[1]) >= answer.group => e[1] \in f[t]}
<1>4. 0 \in Good
  BY <1>2, <1>3
<1>5. ASSUME NEW t \in 1 .. k, t - 1 \in Good
      PROVE  t \in Good
  <2> SUFFICES ASSUME NEW e \in h[t], get_group(e[1]) >= answer.group
               PROVE  e[1] \in f[t]
    OBVIOUS
  <2>1. t - 1 \in 0 .. k /\ h[t] = LongerAlongRows(h[t - 1]) /\ f[t] = Longer(f[t - 1])
    BY <1>2, <1>3
  <2>2. \A x \in h[t - 1] : get_group(x[1]) >= answer.group => x[1] \in f[t - 1]
    BY <1>5
  <2>3. CASE e \in h[t - 1]
    BY <2>1, <2>2, <2>3 DEF Longer
  <2>4. CASE e \notin h[t - 1]
    <3> DEFINE ends == h[t - 1]
               Next_(x) == {<<compose(d, x[1], Layers[j].map), j>> :
                              j \in {RowAfter(x[2])[p] : p \in DOMAIN RowAfter(x[2])}}
    <3>1. PICK x \in ends : e \in Next_(x)
      <4> HIDE DEF ends
      <4>1. e \in LongerAlongRows(ends) /\ e \notin ends
        BY <2>1, <2>4 DEF ends
      <4> QED
        BY <4>1, Zenon DEF LongerAlongRows
    <3>2. PICK p \in DOMAIN RowAfter(x[2]) :
            e = <<compose(d, x[1], Layers[RowAfter(x[2])[p]].map), RowAfter(x[2])[p]>>
      BY <3>1
    <3>3. x \in Maps \X (0 .. n)
      BY <1>3, <2>1, <3>1
    <3>4. x[1] \in Maps /\ x[2] \in 0 .. n
      BY <3>3
    <3> DEFINE j == RowAfter(x[2])[p]
    <3>5. j \in 1 .. n
      BY <3>4, AnswerLayers
    <3> HIDE DEF j, n, d
    <3>6. j \in 0 .. n /\ j # 0
      BY <1>1, <3>5
    <3>7. /\ Layers[j].map = LayerMap(configs[j]) /\ configs[j] \in Configs
          /\ LayerMap(configs[j]) \in Maps
      <4>1. configs[j] \in Configs
        BY <1>1, <3>5, ElementOfSeq DEF n
      <4> QED
        BY <3>6, <4>1, AnswerLayers, LayerMapType DEF LayerOf, n
    <3>8. e[1] = compose(d, x[1], LayerMap(configs[j]))
      BY <3>2, <3>7 DEF j
    <3>9. get_group(e[1]) <= get_group(x[1])
      BY <1>1, <3>4, <3>7, <3>8, ComposeAddsNoOutputs
    <3>10. get_group(x[1]) \in Nat /\ get_group(e[1]) \in Nat
      BY <1>1, <3>4, <3>7, <3>8, ComposeType, GroupType
    <3>11. get_group(x[1]) >= answer.group
      BY <1>1, <3>9, <3>10
    <3>12. x[1] \in f[t - 1]
      BY <2>2, <3>11
    <3> QED
      BY <2>1, <3>7, <3>8, <3>12 DEF Longer, d
  <2> QED
    BY <2>3, <2>4
<1>6. k \in Good
  <2>1. k \in 0 .. k
    OBVIOUS
  <2> HIDE DEF Good
  <2> QED
    BY <1>4, <1>5, <2>1, InductionTo
<1> QED
  BY <1>2, <1>3, <1>6

\* Chains with their maps, last layers, and ranks: of two chains that are
\* equally long, the lexicographically first one has the lower rank.
Extended(configs, e, j) ==
  <<compose(answer.direction, e[1], LayerOf(configs, j)),
    e[2] * (Len(configs) + 1) + j, j>>

RankedChains(configs, k, w) ==
  /\ w \in [0 .. k -> SUBSET (Maps \X Nat \X (0 .. Len(configs)))]
  /\ w[0] = {<<identity, 0, 0>>}
  /\ \A t \in 1 .. k :
       w[t] = {Extended(configs, e, j) : e \in w[t - 1], j \in 0 .. Len(configs)}

LEMMA RankOrder ==
  ASSUME NEW b \in Nat, NEW x \in Nat, NEW y \in Nat,
         NEW i \in 0 .. b - 1, NEW j \in 0 .. b - 1, Before(x, i, y, j)
  PROVE  x * b + i < y * b + j
<1>1. CASE x = y
  BY <1>1 DEF Before
<1>2. CASE x < y
  <2>1. (x + 1) * b <= y * b
    BY <1>2
  <2>2. (x + 1) * b = x * b + b /\ x * b \in Int /\ y * b \in Int
    OBVIOUS
  <2> QED
    BY <2>1, <2>2
<1> QED
  BY <1>1, <1>2 DEF Before

LEMMA ExtendedType ==
  ASSUME NEW configs, NEW rows_, IsAnswer(configs, rows_),
         NEW e \in Maps \X Nat \X (0 .. Len(configs)), NEW j \in 0 .. Len(configs)
  PROVE  /\ Extended(configs, e, j) \in Maps \X Nat \X (0 .. Len(configs))
         /\ Extended(configs, e, j)[1] = compose(answer.direction, e[1], LayerOf(configs, j))
         /\ Extended(configs, e, j)[2] = e[2] * (Len(configs) + 1) + j
         /\ Extended(configs, e, j)[3] = j
<1>1. /\ configs \in Seq(Configs) /\ Len(configs) \in Nat
      /\ answer.direction \in Directions
  BY LenProperties DEF IsAnswer
<1>2. e[1] \in Maps /\ e[2] \in Nat
  OBVIOUS
<1>3. compose(answer.direction, e[1], LayerOf(configs, j)) \in Maps
  BY <1>1, <1>2, LayerOfType, ComposeType
<1>4. e[2] * (Len(configs) + 1) + j \in Nat
  BY <1>1, <1>2
<1> QED
  BY <1>3, <1>4 DEF Extended

LEMMA RankedChainsExist ==
  ASSUME NEW configs, NEW rows_, IsAnswer(configs, rows_), NEW k \in Nat
  PROVE  \E w : RankedChains(configs, k, w)
<1> DEFINE n == Len(configs)
           Chains == Maps \X Nat \X (0 .. n)
           Next_(ends) == {Extended(configs, e, j) : e \in ends, j \in 0 .. n}
           step == [t \in 1 .. k |-> [ends \in SUBSET Chains |-> Next_(ends)]]
<1>1. \A ends \in SUBSET Chains : Next_(ends) \in SUBSET Chains
  <2> SUFFICES ASSUME NEW ends \in SUBSET Chains, NEW e \in ends, NEW j \in 0 .. n
               PROVE  Extended(configs, e, j) \in Chains
    OBVIOUS
  <2> QED
    BY ExtendedType
<1>2. <<identity, 0, 0>> \in Chains
  <2>1. 0 \in 0 .. n
    BY LenProperties DEF IsAnswer
  <2> QED
    BY <2>1, IdentityType
<1> HIDE DEF Chains, Next_
<1>3. \A t \in 1 .. k : \A ends \in SUBSET Chains : step[t][ends] = Next_(ends)
  OBVIOUS
<1> HIDE DEF step
<1>4. PICK w : Follows(w, {<<identity, 0, 0>>}, step, k, SUBSET Chains)
  <2>1. StaysIn(step, k, SUBSET Chains)
    BY <1>1, <1>3, Zenon DEF StaysIn
  <2>2. {<<identity, 0, 0>>} \in SUBSET Chains
    BY <1>2
  <2> QED
    BY <2>1, <2>2, StepsExist
<1>5. ASSUME NEW t \in 1 .. k
      PROVE  w[t] = Next_(w[t - 1])
  <2>1. w[t - 1] \in SUBSET Chains /\ w[t] = step[t][w[t - 1]]
    BY <1>4 DEF Follows
  <2> QED
    BY <1>3, <2>1
<1>6. w \in [0 .. k -> SUBSET Chains] /\ w[0] = {<<identity, 0, 0>>}
  BY <1>4 DEF Follows
<1> QED
  BY <1>5, <1>6 DEF RankedChains, Chains, Next_

\* Every map that layers reach has a chain of layers of the table.
LEMMA ReachedHasChain ==
  ASSUME NEW configs, NEW rows_, IsAnswer(configs, rows_), NEW k \in Nat,
         NEW w, RankedChains(configs, k, w), NEW map \in Reachable(k)
  PROVE  get_group(map) >= answer.group /\ \E e \in w[k] : e[1] = map
<1> DEFINE n == Len(configs)
           d == answer.direction
<1>1. /\ n \in Nat /\ configs \in Seq(Configs) /\ d \in Directions
      /\ 0 \in 0 .. n /\ LayerOf(configs, 0) = identity
      /\ answer.group \in Nat /\ get_group(identity) >= answer.group
  BY LenProperties, NAssumption, IdentityGroup DEF IsAnswer, LayerOf
<1>2. PICK f \in [0 .. k -> SUBSET Maps] :
        /\ f[0] = {identity}
        /\ \A i \in 1 .. k : f[i] = Longer(f[i - 1])
        /\ Reachable(k) = f[k]
  BY <1>1, ReachableFacts
<1>3. /\ w \in [0 .. k -> SUBSET (Maps \X Nat \X (0 .. n))]
      /\ w[0] = {<<identity, 0, 0>>}
      /\ \A t \in 1 .. k : w[t] = {Extended(configs, e, j) : e \in w[t - 1], j \in 0 .. n}
  BY DEF RankedChains
<1> HIDE DEF n, d
<1> DEFINE Good == {t \in 0 .. k : \A m \in f[t] :
                      get_group(m) >= answer.group /\ \E e \in w[t] : e[1] = m}
<1>4. 0 \in Good
  <2> DEFINE e == <<identity, 0, 0>>
  <2>1. e \in w[0] /\ e[1] = identity
    BY <1>3
  <2> HIDE DEF e
  <2>2. \A m \in f[0] : m = identity
    BY <1>2
  <2>3. \A m \in f[0] : get_group(m) >= answer.group /\ \E x \in w[0] : x[1] = m
    BY <1>1, <2>1, <2>2
  <2>4. 0 \in 0 .. k
    OBVIOUS
  <2> QED
    BY <2>3, <2>4
<1>5. ASSUME NEW t \in 1 .. k, t - 1 \in Good
      PROVE  t \in Good
  <2> SUFFICES ASSUME NEW m \in f[t]
               PROVE  get_group(m) >= answer.group /\ \E e \in w[t] : e[1] = m
    OBVIOUS
  <2>1. /\ t - 1 \in 0 .. k /\ f[t] = Longer(f[t - 1]) /\ f[t - 1] \in SUBSET Maps
        /\ w[t] = {Extended(configs, e, j) : e \in w[t - 1], j \in 0 .. n}
        /\ w[t - 1] \in SUBSET (Maps \X Nat \X (0 .. n))
    BY <1>2, <1>3
  <2>2. \A x \in f[t - 1] : get_group(x) >= answer.group /\ \E e \in w[t - 1] : e[1] = x
    BY <1>5
\* The chain before the last layer, and that layer.
  <2>3. /\ get_group(m) >= answer.group
        /\ \E x \in f[t - 1], j \in 0 .. n : m = compose(d, x, LayerOf(configs, j))
    <3>1. CASE m \in f[t - 1]
      <4>1. compose(d, m, LayerOf(configs, 0)) = m
        BY <1>1, <2>1, <3>1, ComposeWithIdentity
      <4> QED
        BY <1>1, <2>2, <3>1, <4>1
    <3>2. CASE m \notin f[t - 1]
      <4>1. PICK x \in f[t - 1], c \in Configs :
              m = compose(d, x, LayerMap(c)) /\ get_group(m) >= answer.group
        BY <2>1, <3>2 DEF Longer, d
      <4>2. x \in Maps /\ LayerMap(c) \in Maps
        BY <2>1, LayerMapType
      <4>3. get_group(m) <= get_group(LayerMap(c))
        BY <1>1, <4>1, <4>2, ComposeAddsNoOutputs
      <4>4. get_group(m) \in Nat /\ get_group(LayerMap(c)) \in Nat
        BY <1>1, <4>1, <4>2, ComposeType, GroupType
      <4>5. get_group(LayerMap(c)) >= answer.group
        BY <1>1, <4>1, <4>3, <4>4
      <4>6. PICK j \in 0 .. n : LayerOf(configs, j) = LayerMap(c)
        BY <4>5, EveryLayerIsThere DEF n
      <4> QED
        BY <4>1, <4>6
    <3> QED
      BY <3>1, <3>2
  <2>4. PICK x \in f[t - 1], j \in 0 .. n : m = compose(d, x, LayerOf(configs, j))
    BY <2>3
  <2>5. PICK e \in w[t - 1] : e[1] = x
    BY <2>2
  <2>6. Extended(configs, e, j)[1] = m
    <3>1. e \in Maps \X Nat \X (0 .. n)
      BY <2>1
    <3> QED
      BY <2>4, <2>5, <3>1, ExtendedType DEF n, d
  <2>7. Extended(configs, e, j) \in w[t]
    BY <2>1
  <2> QED
    BY <2>3, <2>6, <2>7
<1>6. k \in Good
  <2>1. k \in 0 .. k
    OBVIOUS
  <2> HIDE DEF Good
  <2> QED
    BY <1>4, <1>5, <2>1, InductionTo
<1> QED
  BY <1>2, <1>6

\* Of the chains with a map, the first one.
IsFirst(e, chains) == \A x \in chains : x[1] = e[1] => e[2] <= x[2]

\* In the first chain with its map every layer may follow the one before: were
\* a pair not listed, two layers that come before it would do the same.
LEMMA FirstChainMayFollow ==
  ASSUME NEW configs, NEW rows_, IsAnswer(configs, rows_), NEW k \in Nat,
         NEW w, RankedChains(configs, k, w), NEW t \in 1 .. k,
         NEW x \in w[t - 1], NEW j \in 0 .. Len(configs),
         IsFirst(Extended(configs, x, j), w[t]),
         get_group(Extended(configs, x, j)[1]) >= answer.group
  PROVE  /\ get_group(x[1]) >= answer.group
         /\ IsFirst(x, w[t - 1])
         /\ MayFollow(rows_, x[3], j)
<1> DEFINE n == Len(configs)
           d == answer.direction
           b == n + 1
           Chains == Maps \X Nat \X (0 .. n)
           L(l) == LayerOf(configs, l)
           P(i, l) == Product(configs, d, i, l)
           Ext(e, l) == Extended(configs, e, l)
<1>1. /\ n \in Nat /\ configs \in Seq(Configs) /\ d \in Directions
      /\ 0 \in 0 .. n /\ answer.group \in Nat /\ b \in Nat
      /\ \A l \in 0 .. n : l \in 0 .. b - 1
  BY LenProperties, NAssumption DEF IsAnswer
<1>2. /\ w \in [0 .. k -> SUBSET Chains]
      /\ w[0] = {<<identity, 0, 0>>}
      /\ \A s \in 1 .. k : w[s] = {Ext(e, l) : e \in w[s - 1], l \in 0 .. n}
  BY DEF RankedChains
<1>3. /\ \A i, l \in 0 .. n : P(i, l) = compose(d, L(i), L(l)) /\ P(i, l) \in Maps
      /\ \A l \in 0 .. n : L(l) \in Maps
  BY <1>1, LayerOfType, ProductType DEF Product
<1>4. \A e \in Chains, l \in 0 .. n :
        /\ Ext(e, l) \in Chains /\ Ext(e, l)[1] = compose(d, e[1], L(l))
        /\ Ext(e, l)[2] = e[2] * b + l /\ Ext(e, l)[3] = l
  BY ExtendedType
<1>5. \A e \in Chains : e[1] \in Maps /\ e[2] \in Nat /\ e[3] \in 0 .. n
  OBVIOUS
<1> HIDE DEF n, d, b, L, P, Ext, Chains
<1>6. /\ t - 1 \in 0 .. k /\ w[t - 1] \in SUBSET Chains /\ x \in Chains
      /\ w[t] = {Ext(e, l) : e \in w[t - 1], l \in 0 .. n} /\ j \in 0 .. n
      /\ IsFirst(Ext(x, j), w[t]) /\ get_group(Ext(x, j)[1]) >= answer.group
  BY <1>2 DEF n, Ext
<1>7. get_group(x[1]) >= answer.group
  <2>1. x[1] \in Maps /\ L(j) \in Maps /\ Ext(x, j)[1] = compose(d, x[1], L(j))
    BY <1>3, <1>4, <1>5, <1>6
  <2>2. get_group(Ext(x, j)[1]) <= get_group(x[1])
    BY <1>1, <2>1, ComposeAddsNoOutputs
  <2>3. get_group(Ext(x, j)[1]) \in Nat /\ get_group(x[1]) \in Nat
    BY <1>1, <2>1, ComposeType, GroupType
  <2> QED
    BY <1>1, <1>6, <2>2, <2>3
<1>8. IsFirst(x, w[t - 1])
  <2> SUFFICES ASSUME NEW y \in w[t - 1], y[1] = x[1], ~ x[2] <= y[2]
               PROVE  FALSE
    BY DEF IsFirst
  <2>1. y \in Chains /\ x[2] \in Nat /\ y[2] \in Nat
    BY <1>5, <1>6
  <2>2. Ext(y, j) \in w[t] /\ Ext(y, j)[1] = Ext(x, j)[1]
    BY <1>4, <1>6, <2>1
  <2>3. Ext(x, j)[2] <= Ext(y, j)[2]
    BY <1>6, <2>2 DEF IsFirst
  <2>4. Before(y[2], j, x[2], j)
    BY <2>1 DEF Before
  <2>5. y[2] * b + j < x[2] * b + j
    BY <1>1, <1>6, <2>1, <2>4, RankOrder
  <2>6. Ext(x, j)[2] = x[2] * b + j /\ Ext(y, j)[2] = y[2] * b + j
    BY <1>4, <1>6, <2>1
  <2>7. y[2] * b + j \in Int /\ x[2] * b + j \in Int
    BY <1>1, <2>1
  <2> QED
    BY <2>3, <2>5, <2>6, <2>7
<1>9. CASE t = 1
  <2>1. x = <<identity, 0, 0>>
    BY <1>2, <1>9
  <2>2. x[3] = 0
    BY <2>1
  <2>3. MayFollow(rows_, 0, j)
    BY <1>6, IdentityIsFollowed DEF n
  <2> QED
    BY <1>7, <1>8, <2>2, <2>3
<1>10. CASE t # 1
  <2>1. /\ t - 1 \in 1 .. k /\ t - 1 - 1 \in 0 .. k
        /\ w[t - 1 - 1] \in SUBSET Chains
        /\ w[t - 1] = {Ext(e, l) : e \in w[t - 1 - 1], l \in 0 .. n}
    BY <1>2, <1>10
  <2>2. PICK y \in w[t - 1 - 1], i \in 0 .. n : x = Ext(y, i)
    BY <2>1
  <2>3. /\ y \in Chains /\ y[1] \in Maps /\ y[2] \in Nat
        /\ x[1] = compose(d, y[1], L(i)) /\ x[2] = y[2] * b + i /\ x[3] = i
    BY <1>4, <1>5, <2>1, <2>2
\* Two layers further from the chain before the last two.
  <2>4. ASSUME NEW p \in 0 .. n, NEW q \in 0 .. n
        PROVE  /\ Ext(Ext(y, p), q) \in w[t]
               /\ Ext(Ext(y, p), q)[1] = compose(d, y[1], P(p, q))
               /\ Ext(Ext(y, p), q)[2] = (y[2] * b + p) * b + q
    <3>1. Ext(y, p) \in w[t - 1] /\ Ext(y, p) \in Chains
      BY <1>4, <2>1, <2>3
    <3>2. Ext(Ext(y, p), q) \in w[t]
      BY <1>6, <3>1
    <3>3. Ext(Ext(y, p), q)[1] = compose(d, compose(d, y[1], L(p)), L(q))
      BY <1>4, <2>3, <3>1
    <3>4. compose(d, compose(d, y[1], L(p)), L(q)) = compose(d, y[1], P(p, q))
      <4> DEFINE l == L(p)
                 r == L(q)
      <4>1. /\ y[1] \in Maps /\ l \in Maps /\ r \in Maps
            /\ P(p, q) = compose(d, l, r)
        BY <1>3, <2>3
      <4> HIDE DEF l, r
      <4>2. compose(d, compose(d, y[1], l), r) = compose(d, y[1], compose(d, l, r))
        BY <1>1, <4>1, ComposeIsAssociative
      <4> QED
        BY <4>1, <4>2 DEF l, r
    <3>5. Ext(Ext(y, p), q)[2] = (y[2] * b + p) * b + q
      <4> DEFINE e == Ext(y, p)
      <4>1. e \in Chains /\ e[2] = y[2] * b + p
        BY <1>4, <2>3, <3>1
      <4> HIDE DEF e
      <4>2. Ext(e, q)[2] = e[2] * b + q
        BY <1>4, <4>1
      <4> QED
        BY <4>1, <4>2 DEF e
    <3> QED
      BY <3>2, <3>3, <3>4, <3>5
  <2>5. Ext(x, j)[1] = compose(d, y[1], P(i, j)) /\ Ext(x, j)[2] = (y[2] * b + i) * b + j
    BY <1>6, <2>2, <2>4
  <2>6. get_group(P(i, j)) >= answer.group
    <3>1. P(i, j) \in Maps
      BY <1>3, <1>6
    <3>2. get_group(compose(d, y[1], P(i, j))) <= get_group(P(i, j))
      BY <1>1, <2>3, <3>1, ComposeAddsNoOutputs
    <3>3. get_group(compose(d, y[1], P(i, j))) \in Nat /\ get_group(P(i, j)) \in Nat
      BY <1>1, <2>3, <3>1, ComposeType, GroupType
    <3> QED
      BY <1>1, <1>6, <2>5, <3>2, <3>3
  <2>7. ASSUME NEW p \in 0 .. n, NEW q \in 0 .. n, Before(p, q, i, j), P(p, q) = P(i, j)
        PROVE  FALSE
    <3>1. Ext(x, j)[2] <= (y[2] * b + p) * b + q
      BY <1>6, <2>4, <2>5, <2>7 DEF IsFirst
    <3> DEFINE u == y[2] * b + p
               v == y[2] * b + i
    <3>2. y[2] * b \in Nat
      BY <1>1, <2>3
    <3>3. u \in Nat /\ v \in Nat /\ Before(u, q, v, j)
      BY <1>1, <1>6, <2>7, <3>2 DEF Before
    <3>4. Ext(x, j)[2] = v * b + j /\ Ext(x, j)[2] <= u * b + q
      BY <2>5, <3>1
    <3> HIDE DEF u, v
    <3>5. u * b + q < v * b + j
      BY <1>1, <1>6, <3>3, RankOrder
    <3>6. u * b + q \in Int /\ v * b + j \in Int
      BY <1>1, <1>6, <3>3
    <3> QED
      BY <3>4, <3>5, <3>6
  <2>8. MayFollow(rows_, i, j)
    BY <1>6, <2>6, <2>7, PairIsListed DEF P, d, n
  <2> QED
    BY <1>7, <1>8, <2>3, <2>8
<1> QED
  BY <1>9, <1>10

\* Nothing is lost along the rows, however long the chains.
LEMMA RowsReachAll ==
  ASSUME NEW configs, NEW rows_, IsAnswer(configs, rows_), NEW k \in Nat
  PROVE  Reachable(k) \subseteq ReachableAlongRows(k)
<1> DEFINE n == Len(configs)
           d == answer.direction
           Chains == Maps \X Nat \X (0 .. n)
<1>1. PICK h \in [0 .. k -> SUBSET (Maps \X (0 .. n))] :
        /\ h[0] = {<<identity, 0>>}
        /\ \A i \in 1 .. k : h[i] = LongerAlongRows(h[i - 1])
        /\ ReachableAlongRows(k) =
             {e[1] : e \in {x \in h[k] : get_group(x[1]) >= answer.group}}
  BY ReachableAlongRowsFacts
<1>2. PICK w : RankedChains(configs, k, w)
  BY RankedChainsExist
<1>3. /\ w \in [0 .. k -> SUBSET Chains]
      /\ w[0] = {<<identity, 0, 0>>}
      /\ \A t \in 1 .. k :
           w[t] = {Extended(configs, e, j) : e \in w[t - 1], j \in 0 .. n}
  BY <1>2 DEF RankedChains
<1>4. \A e \in Chains : e[1] \in Maps /\ e[2] \in Nat /\ e[3] \in 0 .. n
  OBVIOUS
<1>5. \A e \in Chains, l \in 0 .. n :
        /\ Extended(configs, e, l)[1] = compose(d, e[1], LayerOf(configs, l))
        /\ Extended(configs, e, l)[3] = l
  BY ExtendedType
<1> HIDE DEF n, d, Chains
<1> DEFINE Good == {t \in 0 .. k : \A e \in w[t] :
             IsFirst(e, w[t]) /\ get_group(e[1]) >= answer.group
               => <<e[1], e[3]>> \in h[t]}
<1>6. 0 \in Good
  <2>1. \A e \in w[0] : e[1] = identity /\ e[3] = 0
    BY <1>3
  <2> QED
    BY <1>1, <2>1
<1>7. ASSUME NEW t \in 1 .. k, t - 1 \in Good
      PROVE  t \in Good
  <2> SUFFICES ASSUME NEW e \in w[t], IsFirst(e, w[t]), get_group(e[1]) >= answer.group
               PROVE  <<e[1], e[3]>> \in h[t]
    OBVIOUS
  <2>1. /\ t - 1 \in 0 .. k /\ w[t - 1] \in SUBSET Chains
        /\ h[t - 1] \in SUBSET (Maps \X (0 .. n)) /\ h[t] = LongerAlongRows(h[t - 1])
    BY <1>1, <1>3
  <2>2. PICK x \in w[t - 1], j \in 0 .. n : e = Extended(configs, x, j)
    BY <1>3
  <2>3. /\ get_group(x[1]) >= answer.group /\ IsFirst(x, w[t - 1])
        /\ MayFollow(rows_, x[3], j)
    BY <1>2, <2>2, FirstChainMayFollow DEF n
  <2>4. <<x[1], x[3]>> \in h[t - 1]
    BY <1>7, <2>3
  <2>5. x \in Chains /\ x[1] \in Maps /\ x[3] \in 0 .. n
    BY <1>4, <2>1
  <2>6. <<compose(d, x[1], LayerOf(configs, j)), j>> \in LongerAlongRows(h[t - 1])
    BY <2>1, <2>3, <2>4, <2>5, OneLayerLonger DEF n, d
  <2>7. e[1] = compose(d, x[1], LayerOf(configs, j)) /\ e[3] = j
    BY <1>5, <2>2, <2>5
  <2> QED
    BY <2>1, <2>6, <2>7
<1>8. k \in Good
  <2>1. k \in 0 .. k
    OBVIOUS
  <2> HIDE DEF Good
  <2> QED
    BY <1>6, <1>7, <2>1, InductionTo
<1> SUFFICES ASSUME NEW map \in Reachable(k)
             PROVE  map \in ReachableAlongRows(k)
  OBVIOUS
<1>9. get_group(map) >= answer.group /\ \E e \in w[k] : e[1] = map
  BY <1>2, ReachedHasChain
<1>10. PICK e \in w[k] : e[1] = map /\ IsFirst(e, w[k])
  <2> DEFINE Ranks == {x[2] : x \in {y \in w[k] : y[1] = map}}
  <2>1. w[k] \in SUBSET Chains
    BY <1>3
  <2>2. Ranks \in SUBSET Nat /\ Ranks # {}
    BY <1>4, <1>9, <2>1
  <2>3. PICK r \in Ranks : \A s \in Ranks : r <= s
    <3> HIDE DEF Ranks
    <3> QED
      BY <2>2, LeastMember
  <2>4. PICK x \in w[k] : x[1] = map /\ x[2] = r
    BY <2>3
  <2>5. IsFirst(x, w[k])
    BY <2>3, <2>4 DEF IsFirst
  <2> QED
    BY <2>4, <2>5
<1>11. <<e[1], e[3]>> \in h[k]
  BY <1>8, <1>9, <1>10
<1>12. <<e[1], e[3]>>[1] = map
  BY <1>10
<1> QED
  BY <1>1, <1>9, <1>11, <1>12

-----------------------------------------------------------------------------
(* The invariant holds.                                                    *)

LEMMA HistoryIndexType ==
  ASSUME NEW g \in 1 .. N, NEW d \in Directions
  PROVE  /\ history_index(g, d) \in 0 .. 2 * N - 1
         /\ \A g2 \in 1 .. N, d2 \in Directions :
              history_index(g2, d2) = history_index(g, d) => g2 = g /\ d2 = d
BY NAssumption DEF history_index, Directions

LEMMA InitInv ==
  ASSUME Groups \subseteq 1 .. N, Init
  PROVE  PrecomputeInv
<1>1. ASSUME NEW g \in Groups, NEW d \in Directions
      PROVE  history[history_index(g, d)] = none
  BY <1>1, HistoryIndexType DEF Init
<1> QED
  BY <1>1 DEF Init, PrecomputeInv, CallIsTyped, IdleInv, ConfigsInv, PairsInv, HistoryInv

\* What steps that change neither keep of the saved and returned tables.
LEMMA HistoryKept ==
  ASSUME HistoryInv, UNCHANGED <<history, answer>>
  PROVE  HistoryInv'
BY DEF HistoryInv

LEMMA CallKnownStep ==
  ASSUME Groups \subseteq 1 .. N, PrecomputeInv, NEW g \in Groups,
         NEW d \in Directions, CallKnown(g, d)
  PROVE  PrecomputeInv'
<1>1. HistoryInv'
  <2>1. /\ answer' = [group |-> g, direction |-> d, table |-> history[history_index(g, d)]]
        /\ history' = history
        /\ IsHexTable(history[history_index(g, d)], g, d)
    BY DEF CallKnown, PrecomputeInv, HistoryInv
  <2> QED
    BY <2>1 DEF PrecomputeInv, HistoryInv
<1>2. /\ UNCHANGED <<pc, group, direction, conf, first_layer_i, second_layer_i>>
      /\ UNCHANGED <<unique_next_layers, layer_configs, rows>>
  BY DEF CallKnown, loopVars
<1>3. CallIsTyped' /\ IdleInv' /\ ConfigsInv' /\ PairsInv'
  BY <1>2 DEF PrecomputeInv, CallIsTyped, IdleInv, ConfigsInv, PairsInv
<1> QED
  BY <1>1, <1>3 DEF PrecomputeInv

LEMMA NothingKept ==
  ASSUME NEW g
  PROVE  /\ KeptApart(<<>>, g) /\ AllKept(<<>>, g, 0)
         /\ \A map : IsKept(<<>>, map) <=> map = identity
<1>1. <<>> \in Seq(Configs) /\ Len(<<>>) = 0
  BY EmptySeq
<1>2. AllKept(<<>>, g, 0)
  BY DEF AllKept, Configs
<1> QED
  BY <1>1, <1>2 DEF KeptApart, IsKept

LEMMA CallNewStep ==
  ASSUME PrecomputeInv, NEW g \in Groups, NEW d \in Directions, CallNew(g, d)
  PROVE  PrecomputeInv'
<1>1. /\ conf' = 0 /\ layer_configs' = <<>> /\ unique_next_layers' = {identity}
      /\ pc' = "configs" /\ group' = g /\ direction' = d
      /\ UNCHANGED <<history, answer>>
  BY DEF CallNew, loopVars, PrecomputeInv, IdleInv
<1>2. 0 \in 0 .. HEX_CONFIG_COUNT
  BY NAssumption DEF HEX_CONFIG_COUNT
<1>3. ConfigsInv'
  BY <1>1, <1>2, NothingKept DEF ConfigsInv
<1>4. CallIsTyped' /\ IdleInv' /\ PairsInv'
  BY <1>1 DEF CallIsTyped, IdleInv, PairsInv
<1> QED
  BY <1>1, <1>3, <1>4, HistoryKept DEF PrecomputeInv

LEMMA TryConfigStep ==
  ASSUME Groups \subseteq 1 .. N, PrecomputeInv, TryConfig
  PROVE  PrecomputeInv'
<1> DEFINE output == LayerMap(conf)
<1>1. /\ pc = "configs" /\ pc' = pc /\ conf' = conf + 1
      /\ UNCHANGED <<group, direction, first_layer_i, second_layer_i, rows>>
      /\ UNCHANGED <<history, answer>>
  BY DEF TryConfig
<1>2. /\ conf \in Configs /\ conf + 1 \in 0 .. HEX_CONFIG_COUNT
      /\ KeptApart(layer_configs, group) /\ AllKept(layer_configs, group, conf)
      /\ \A map \in Maps : map \in unique_next_layers <=> IsKept(layer_configs, map)
  BY <1>1, NAssumption DEF PrecomputeInv, ConfigsInv, TryConfig, Configs, HEX_CONFIG_COUNT
<1>3. group \in Nat /\ layer_configs \in Seq(Configs) /\ output \in Maps
  <2>1. group \in 1 .. N
    BY <1>1 DEF PrecomputeInv, CallIsTyped
  <2>2. layer_configs \in Seq(Configs)
    BY <1>2 DEF KeptApart
  <2>3. output \in Maps
    BY <1>2, LayerMapType
  <2> QED
    BY <2>1, <2>2, <2>3
<1>4. ConfigsInv'
  <2>1. CASE IsNew(output)
    <3>1. /\ unique_next_layers' = unique_next_layers \cup {output}
          /\ layer_configs' = Append(layer_configs, conf)
      BY <2>1 DEF TryConfig
    <3>2. get_group(output) >= group /\ ~ IsKept(layer_configs, output)
      BY <1>2, <1>3, <2>1 DEF IsNew
    <3> DEFINE longer == Append(layer_configs, conf)
    <3>3. /\ KeptApart(longer, group) /\ AllKept(longer, group, conf + 1)
          /\ \A map \in Maps :
               IsKept(longer, map) <=> IsKept(layer_configs, map) \/ map = output
      BY <1>2, <1>3, <3>2, ConfigAdded
    <3> HIDE DEF longer, output
    <3>4. \A map \in Maps : map \in unique_next_layers' <=> IsKept(longer, map)
      BY <1>2, <3>1, <3>3
    <3> QED
      BY <1>1, <1>2, <3>1, <3>3, <3>4 DEF ConfigsInv, longer
  <2>2. CASE ~ IsNew(output)
    <3>1. UNCHANGED <<unique_next_layers, layer_configs>>
      BY <2>2 DEF TryConfig
    <3>2. get_group(output) >= group => IsKept(layer_configs, output)
      BY <1>2, <1>3, <2>2 DEF IsNew
    <3>3. AllKept(layer_configs, group, conf + 1)
      BY <1>2, <1>3, <3>2, ConfigSkipped
    <3> QED
      BY <1>1, <1>2, <3>1, <3>3 DEF ConfigsInv
  <2> QED
    BY <2>1, <2>2
<1>5. CallIsTyped' /\ IdleInv' /\ PairsInv'
  BY <1>1 DEF PrecomputeInv, CallIsTyped, IdleInv, PairsInv
<1> QED
  BY <1>1, <1>4, <1>5, HistoryKept DEF PrecomputeInv

LEMMA StartPairsStep ==
  ASSUME Groups \subseteq 1 .. N, PrecomputeInv, StartPairs
  PROVE  PrecomputeInv'
<1>1. /\ pc = "configs" /\ pc' = "pairs" /\ conf = HEX_CONFIG_COUNT
      /\ unique_next_layers' = {identity}
      /\ first_layer_i' = 0 /\ second_layer_i' = 1 /\ rows' = <<<<>>>>
      /\ UNCHANGED <<group, direction, layer_configs>>
      /\ UNCHANGED <<history, answer>>
  BY DEF StartPairs
<1>2. /\ KeptApart(layer_configs, group)
      /\ AllKept(layer_configs, group, HEX_CONFIG_COUNT)
      /\ group \in Groups /\ direction \in Directions
  BY <1>1 DEF PrecomputeInv, ConfigsInv, CallIsTyped
<1>3. group \in Nat /\ layer_configs \in Seq(Configs)
  BY <1>2, NAssumption DEF KeptApart
<1>4. PairsInv'
  BY <1>1, <1>2, <1>3, PairsBegin DEF PairsInv
<1>5. CallIsTyped' /\ IdleInv' /\ ConfigsInv'
  BY <1>1, <1>2 DEF CallIsTyped, IdleInv, ConfigsInv
<1> QED
  BY <1>1, <1>4, <1>5, HistoryKept DEF PrecomputeInv

LEMMA TryPairStep ==
  ASSUME Groups \subseteq 1 .. N, PrecomputeInv, TryPair
  PROVE  PrecomputeInv'
<1> DEFINE output == Product(layer_configs, direction, first_layer_i, second_layer_i)
<1>1. /\ pc = "pairs" /\ pc' = pc /\ second_layer_i' = second_layer_i + 1
      /\ second_layer_i <= Len(layer_configs)
      /\ UNCHANGED <<group, direction, conf, first_layer_i, layer_configs>>
      /\ UNCHANGED <<history, answer>>
  BY DEF TryPair
<1>2. /\ KeptApart(layer_configs, group)
      /\ AllKept(layer_configs, group, HEX_CONFIG_COUNT)
      /\ PairsListed(layer_configs, rows, group, direction, first_layer_i, second_layer_i)
      /\ \A map \in Maps : map \in unique_next_layers <=>
           IsListed(layer_configs, rows, direction, first_layer_i, map)
      /\ group \in Groups /\ direction \in Directions
  BY <1>1 DEF PrecomputeInv, PairsInv, CallIsTyped
<1>3. /\ group \in Nat /\ layer_configs \in Seq(Configs) /\ Len(layer_configs) \in Nat
      /\ first_layer_i \in 0 .. Len(layer_configs)
      /\ second_layer_i \in 1 .. Len(layer_configs)
  <2>1. /\ first_layer_i \in 0 .. Len(layer_configs)
        /\ second_layer_i \in 1 .. Len(layer_configs) + 1
    BY <1>2 DEF PairsListed, RowsAreTyped, RowsAreShort
  <2>2. layer_configs \in Seq(Configs) /\ Len(layer_configs) \in Nat
    BY <1>2, LenProperties DEF KeptApart
  <2> QED
    BY <1>1, <1>2, <2>1, <2>2, NAssumption
<1>4. output \in Maps
  <2>1. second_layer_i \in 0 .. Len(layer_configs)
    BY <1>3
  <2> QED
    BY <1>2, <1>3, <2>1, ProductType
<1>5. /\ IsNew(output) => /\ unique_next_layers' = unique_next_layers \cup {output}
                          /\ rows' = [rows EXCEPT ![first_layer_i + 1] =
                                        Append(@, second_layer_i)]
      /\ ~ IsNew(output) => UNCHANGED <<unique_next_layers, rows>>
  BY DEF TryPair, Product
<1>6. PairsInv'
  <2>1. CASE IsNew(output)
    <3>1. ~ IsListed(layer_configs, rows, direction, first_layer_i, output)
      BY <1>2, <1>4, <2>1 DEF IsNew
    <3> DEFINE longer == [rows EXCEPT ![first_layer_i + 1] = Append(@, second_layer_i)]
    <3>2. /\ PairsListed(layer_configs, longer, group, direction,
                         first_layer_i, second_layer_i + 1)
          /\ \A map : IsListed(layer_configs, longer, direction, first_layer_i, map) <=>
               \/ IsListed(layer_configs, rows, direction, first_layer_i, map)
               \/ map = output
      BY <1>2, <1>3, <3>1, PairAdded
    <3> HIDE DEF longer, output
    <3>3. \A map \in Maps : map \in unique_next_layers' <=>
            IsListed(layer_configs, longer, direction, first_layer_i, map)
      BY <1>2, <1>5, <2>1, <3>2
    <3>4. rows' = longer
      BY <1>5, <2>1 DEF longer
    <3> QED
      BY <1>1, <1>2, <3>2, <3>3, <3>4 DEF PairsInv
  <2>2. CASE ~ IsNew(output)
    <3>1. get_group(output) >= group =>
            IsListed(layer_configs, rows, direction, first_layer_i, output)
      BY <1>2, <1>4, <2>2 DEF IsNew
    <3>2. first_layer_i # 0
      BY <1>2, <1>3, <3>1, FirstRowTakesAll
    <3>3. PairsListed(layer_configs, rows, group, direction,
                      first_layer_i, second_layer_i + 1)
      BY <1>2, <1>3, <3>1, <3>2, PairSkipped
    <3> QED
      BY <1>1, <1>2, <1>5, <2>2, <3>3 DEF PairsInv
  <2> QED
    BY <2>1, <2>2
<1>7. CallIsTyped' /\ IdleInv' /\ ConfigsInv'
  BY <1>1, <1>2 DEF CallIsTyped, IdleInv, ConfigsInv
<1> QED
  BY <1>1, <1>6, <1>7, HistoryKept DEF PrecomputeInv

LEMMA NextFirstLayerStep ==
  ASSUME Groups \subseteq 1 .. N, PrecomputeInv, NextFirstLayer
  PROVE  PrecomputeInv'
<1>1. /\ pc = "pairs" /\ pc' = pc /\ second_layer_i > Len(layer_configs)
      /\ first_layer_i < Len(layer_configs)
      /\ first_layer_i' = first_layer_i + 1 /\ second_layer_i' = 1
      /\ rows' = Append(rows, <<>>)
      /\ UNCHANGED <<group, direction, conf, unique_next_layers, layer_configs>>
      /\ UNCHANGED <<history, answer>>
  BY DEF NextFirstLayer
<1>2. /\ KeptApart(layer_configs, group)
      /\ AllKept(layer_configs, group, HEX_CONFIG_COUNT)
      /\ PairsListed(layer_configs, rows, group, direction, first_layer_i, second_layer_i)
      /\ \A map \in Maps : map \in unique_next_layers <=>
           IsListed(layer_configs, rows, direction, first_layer_i, map)
      /\ group \in Groups /\ direction \in Directions
  BY <1>1 DEF PrecomputeInv, PairsInv, CallIsTyped
<1>3. /\ group \in Nat /\ layer_configs \in Seq(Configs)
      /\ first_layer_i \in 0 .. Len(layer_configs) - 1
  <2>1. first_layer_i \in 0 .. Len(layer_configs)
    BY <1>2 DEF PairsListed, RowsAreTyped
  <2>2. layer_configs \in Seq(Configs) /\ Len(layer_configs) \in Nat
    BY <1>2, LenProperties DEF KeptApart
  <2> QED
    BY <1>1, <1>2, <2>1, <2>2, NAssumption
<1> DEFINE longer == Append(rows, <<>>)
<1>4. /\ PairsListed(layer_configs, longer, group, direction, first_layer_i + 1, 1)
      /\ \A map : IsListed(layer_configs, longer, direction, first_layer_i + 1, map) <=>
                  IsListed(layer_configs, rows, direction, first_layer_i, map)
  BY <1>1, <1>2, <1>3, RowAdded
<1> HIDE DEF longer
<1>5. PairsInv'
  BY <1>1, <1>2, <1>4 DEF PairsInv, longer
<1>6. CallIsTyped' /\ IdleInv' /\ ConfigsInv'
  BY <1>1, <1>2 DEF CallIsTyped, IdleInv, ConfigsInv
<1> QED
  BY <1>1, <1>5, <1>6, HistoryKept DEF PrecomputeInv

LEMMA FinishStep ==
  ASSUME Groups \subseteq 1 .. N, PrecomputeInv, Finish
  PROVE  PrecomputeInv'
<1> DEFINE table == Assemble(layer_configs, rows)
           n == Len(layer_configs)
<1>1. /\ pc = "pairs" /\ second_layer_i > n /\ first_layer_i = n
      /\ history' = [history EXCEPT ![history_index(group, direction)] = table]
      /\ answer' = [group |-> group, direction |-> direction, table |-> table]
      /\ pc' = "idle" /\ conf' = 0
      /\ unique_next_layers' = {identity} /\ layer_configs' = <<>>
  BY DEF Finish
<1>2. /\ KeptApart(layer_configs, group)
      /\ AllKept(layer_configs, group, HEX_CONFIG_COUNT)
      /\ PairsListed(layer_configs, rows, group, direction, first_layer_i, second_layer_i)
      /\ group \in Groups /\ direction \in Directions
  BY <1>1 DEF PrecomputeInv, PairsInv, CallIsTyped
<1>3. second_layer_i = n + 1 /\ rows \in Seq(Seq(1 .. n)) /\ layer_configs \in Seq(Configs)
  <2>1. /\ second_layer_i \in 1 .. n + 1 /\ rows \in Seq(Seq(1 .. n))
        /\ layer_configs \in Seq(Configs)
    BY <1>2 DEF PairsListed, RowsAreTyped, RowsAreShort, KeptApart
  <2>2. n \in Nat
    BY <2>1, LenProperties
  <2> HIDE DEF n
  <2> QED
    BY <1>1, <2>1, <2>2
<1>4. IsHexTable(table, group, direction)
  <2>1. IsMadeFrom(table, layer_configs, rows, group, direction)
    BY <1>1, <1>2, <1>3 DEF IsMadeFrom
  <2> HIDE DEF table
  <2> QED
    BY <1>3, <2>1 DEF IsHexTable
<1> HIDE DEF table, n
<1>5. HistoryInv'
  <2>1. DOMAIN history = 0 .. 2 * N - 1
    BY DEF PrecomputeInv, HistoryInv
  <2>2. history_index(group, direction) \in 0 .. 2 * N - 1
    BY <1>2, HistoryIndexType
  <2>3. DOMAIN history' = 0 .. 2 * N - 1
    BY <1>1, <2>1
  <2>4. ASSUME NEW g \in Groups, NEW d \in Directions, history'[history_index(g, d)] # none
        PROVE  IsHexTable(history'[history_index(g, d)], g, d)
    <3>1. CASE g = group /\ d = direction
      BY <1>1, <1>4, <2>1, <2>2, <3>1
    <3>2. CASE ~ (g = group /\ d = direction)
      <4>1. history_index(g, d) # history_index(group, direction)
        BY <1>2, <3>2, HistoryIndexType
      <4>2. history'[history_index(g, d)] = history[history_index(g, d)]
        <5>1. history_index(g, d) \in 0 .. 2 * N - 1
          BY HistoryIndexType
        <5> QED
          BY <1>1, <2>1, <4>1, <5>1
      <4> QED
        BY <2>4, <4>2 DEF PrecomputeInv, HistoryInv
    <3> QED
      BY <3>1, <3>2
  <2>5. /\ answer'.group \in Groups /\ answer'.direction \in Directions
        /\ IsHexTable(answer'.table, answer'.group, answer'.direction)
    BY <1>1, <1>2, <1>4
  <2> QED
    BY <2>3, <2>4, <2>5 DEF HistoryInv
<1>6. CallIsTyped' /\ IdleInv' /\ ConfigsInv' /\ PairsInv'
  BY <1>1 DEF CallIsTyped, IdleInv, ConfigsInv, PairsInv
<1> QED
  BY <1>5, <1>6 DEF PrecomputeInv

\* While tables are built, the kept configs and the listed pairs are what the
\* loops have tried so far: all there is to keep, and nothing twice; and every
\* table saved or returned was made from such loops run to their ends, for
\* the group and direction it is saved under.  Callers ask for groups
\* between 1 and the number of signal strengths.
THEOREM TablesAreMade ==
  ASSUME Groups \subseteq 1 .. N
  PROVE  Spec => []PrecomputeInv
<1>1. Init => PrecomputeInv
  BY InitInv
<1>2. ASSUME PrecomputeInv, [Next]_vars
      PROVE  PrecomputeInv'
  <2>1. CASE UNCHANGED vars
    BY <1>2, <2>1 DEF vars, PrecomputeInv, CallIsTyped, IdleInv, ConfigsInv,
                      PairsInv, HistoryInv
  <2>2. ASSUME NEW g \in Groups, NEW d \in Directions, CallKnown(g, d)
        PROVE  PrecomputeInv'
    BY <1>2, <2>2, CallKnownStep
  <2>3. ASSUME NEW g \in Groups, NEW d \in Directions, CallNew(g, d)
        PROVE  PrecomputeInv'
    BY <1>2, <2>3, CallNewStep
  <2>4. CASE TryConfig
    BY <1>2, <2>4, TryConfigStep
  <2>5. CASE StartPairs
    BY <1>2, <2>5, StartPairsStep
  <2>6. CASE TryPair
    BY <1>2, <2>6, TryPairStep
  <2>7. CASE NextFirstLayer
    BY <1>2, <2>7, NextFirstLayerStep
  <2>8. CASE Finish
    BY <1>2, <2>8, FinishStep
  <2> QED
    BY <1>2, <2>1, <2>2, <2>3, <2>4, <2>5, <2>6, <2>7, <2>8 DEF Next
<1> QED
  BY <1>1, <1>2, PTL DEF Spec

-----------------------------------------------------------------------------
(* What callers and searches rely on.                                      *)

\* What the invariant says of a returned table.
LEMMA ReturnedIsAnswer ==
  ASSUME Groups \subseteq 1 .. N, PrecomputeInv, Returned
  PROVE  \E configs, rows_ : IsAnswer(configs, rows_)
<1>1. HistoryInv
  BY DEF PrecomputeInv
<1>2. /\ answer.group \in 1 .. N /\ answer.direction \in Directions
      /\ \E configs \in Seq(Configs) : \E rows_ \in Seq(Seq(1 .. Len(configs))) :
           IsMadeFrom(answer.table, configs, rows_, answer.group, answer.direction)
  BY <1>1, AnswerFacts
<1> QED
  BY <1>2 DEF IsAnswer

LEMMA InvIdentityRow ==
  ASSUME NEW configs, NEW rows_, IsAnswer(configs, rows_)
  PROVE  IdentityRowIsLongest
<1>1. DOMAIN Layers = 0 .. Len(configs) /\ 0 \in 0 .. Len(configs)
  BY MadeFacts DEF IsAnswer, IsLaidOut, Layers
<1>2. Layers[0].next_layer_count = Len(configs)
  <2>1. Layers[0].next_layer_count = Len(rows_[0 + 1])
    BY <1>1, AnswerLayers
  <2>2. Len(rows_[0 + 1]) = Len(configs)
    BY MadeFacts DEF IsAnswer
  <2> QED
    BY <2>1, <2>2
<1>3. ASSUME NEW i \in 0 .. Len(configs)
      PROVE  Layers[i].next_layer_count <= Len(configs)
  <2>1. Layers[i].next_layer_count = Len(rows_[i + 1])
    BY AnswerLayers
  <2>2. Len(rows_[i + 1]) <= Len(configs)
    BY MadeFacts DEF IsAnswer
  <2> QED
    BY <2>1, <2>2
<1> QED
  BY <1>1, <1>2, <1>3 DEF IdentityRowIsLongest

LEMMA InvVectors ==
  ASSUME NEW configs, NEW rows_, IsAnswer(configs, rows_)
  PROVE  VectorsStayInRow
<1> DEFINE b == MAP_ARRAY_ALIGNMENT
           maps == answer.table.next_map_array
<1>1. IsLaidOut(answer.table, configs, rows_) /\ DOMAIN Layers = 0 .. Len(configs)
  BY MadeFacts DEF IsAnswer, IsLaidOut, Layers
<1>2. SUFFICES ASSUME NEW i \in 0 .. Len(configs),
                      NEW k \in 0 .. CDiv(Layers[i].next_layer_count - 1, b) * b + b - 1
               PROVE  /\ Layers[i].next_layer_luts + k + 1 <= Len(maps)
                      /\ maps[Layers[i].next_layer_luts + k + 1] =
                           IF k < Layers[i].next_layer_count
                           THEN Layers[RowAfter(i)[k + 1]].map ELSE zero_map
  BY <1>1 DEF VectorsStayInRow
<1> DEFINE count == Layers[i].next_layer_count
           luts == Layers[i].next_layer_luts
           lanes == round_up(count, b)
<1>3. /\ rows_[i + 1] \in Seq(1 .. Len(configs)) /\ count = Len(rows_[i + 1])
      /\ count \in Nat /\ RowAfter(i) = rows_[i + 1]
  BY AnswerLayers, MadeFacts DEF IsAnswer
<1>4. /\ luts \in Nat /\ luts + lanes <= Len(maps)
      /\ \A l \in 0 .. lanes - 1 : maps[luts + l + 1] =
           IF l < count THEN LayerOf(configs, rows_[i + 1][l + 1]) ELSE zero_map
  BY <1>1, <1>3 DEF IsLaidOut, HasRow, MapOf, Layers
<1>5. CDiv(count - 1, b) * b + b = lanes /\ lanes \in Nat
  BY <1>3, RoundUpFacts
<1> HIDE DEF count, luts, lanes
<1>6. k \in 0 .. lanes - 1
  <2> DEFINE whole == CDiv(count - 1, b) * b
  <2>1. k \in 0 .. whole + b - 1
    BY <1>2 DEF count
  <2>2. whole + b = lanes
    BY <1>5
  <2>3. whole \in Int
    <3>1. CDiv(count - 1, b) \in Int
      BY <1>3, AlignmentAssumption DEF CDiv
    <3> HIDE DEF whole
    <3> QED
      BY <3>1, AlignmentAssumption DEF whole
  <2>4. b \in Nat
    BY AlignmentAssumption
  <2> HIDE DEF whole, b
  <2> QED
    BY <1>5, <2>1, <2>2, <2>3, <2>4
<1>7. Len(maps) \in Nat => luts + k + 1 <= Len(maps)
  BY <1>4, <1>5, <1>6
<1>8. k < count => Layers[RowAfter(i)[k + 1]].map = LayerOf(configs, rows_[i + 1][k + 1])
  <2> SUFFICES ASSUME k < count
               PROVE  Layers[RowAfter(i)[k + 1]].map = LayerOf(configs, rows_[i + 1][k + 1])
    OBVIOUS
  <2>1. k + 1 \in 1 .. Len(rows_[i + 1])
    BY <1>3, <1>6
  <2>2. rows_[i + 1][k + 1] \in 1 .. Len(configs)
    BY <1>3, <2>1, ElementOfSeq
  <2>3. rows_[i + 1][k + 1] \in 0 .. Len(configs)
    BY <2>2
  <2> QED
    BY <1>3, <2>3, AnswerLayers
<1> QED
  BY <1>4, <1>6, <1>7, <1>8 DEF count, luts

\* Two listed pairs compute different maps.
LEMMA InvRows ==
  ASSUME NEW configs, NEW rows_, IsAnswer(configs, rows_)
  PROVE  RowsLoseNoMap
<1> DEFINE n == Len(configs)
           d == answer.direction
           pairs == UNION {{<<i, j>> : j \in {RowAfter(i)[p] : p \in DOMAIN RowAfter(i)}} :
                             i \in DOMAIN Layers}
           Made(q) == compose(d, Layers[q[1]].map, Layers[q[2]].map)
           made == {Made(q) : q \in pairs}
<1>1. DOMAIN Layers = 0 .. n /\ n \in Nat
  BY MadeFacts DEF IsAnswer, IsLaidOut, Layers
<1>2. ASSUME NEW q \in pairs
      PROVE  /\ q \in (0 .. n) \X (1 .. n) /\ Listed(rows_, q[1], q[2])
             /\ Made(q) = Product(configs, d, q[1], q[2])
  <2>1. PICK i \in 0 .. n : q \in {<<i, j>> : j \in {RowAfter(i)[p] : p \in DOMAIN RowAfter(i)}}
    BY <1>1
  <2>2. PICK p \in DOMAIN RowAfter(i) : q = <<i, RowAfter(i)[p]>>
    BY <2>1
  <2>3. RowAfter(i)[p] \in 1 .. n /\ Listed(rows_, i, RowAfter(i)[p])
    BY AnswerLayers
  <2>4. RowAfter(i)[p] \in 0 .. n
    BY <1>1, <2>3
  <2> HIDE DEF n
  <2>5. Layers[i].map = LayerOf(configs, i)
    BY AnswerLayers DEF n
  <2>6. Layers[RowAfter(i)[p]].map = LayerOf(configs, RowAfter(i)[p])
    BY <2>4, AnswerLayers DEF n
  <2> QED
    BY <2>2, <2>3, <2>5, <2>6 DEF Product
<1>3. ListedApart(configs, rows_, d, n)
  BY DEF IsAnswer, IsMadeFrom, PairsListed
<1> HIDE DEF pairs, Made, n, d
<1>4. \A q \in pairs : Made(q) # identity
  <2> SUFFICES ASSUME NEW q \in pairs PROVE Made(q) # identity
    OBVIOUS
  <2>1. q[1] \in 0 .. n /\ q[2] \in 1 .. n
    BY <1>2
  <2> QED
    BY <1>2, <1>3, <2>1 DEF ListedApart, n
<1>5. \A q, r \in pairs : Made(q) = Made(r) => q = r
  <2> SUFFICES ASSUME NEW q \in pairs, NEW r \in pairs, Made(q) = Made(r) PROVE q = r
    OBVIOUS
  <2>1. q[1] \in 0 .. n /\ q[2] \in 1 .. n /\ r[1] \in 0 .. n /\ r[2] \in 1 .. n
    BY <1>2
  <2>2. /\ Listed(rows_, q[1], q[2]) /\ Listed(rows_, r[1], r[2])
        /\ Product(configs, d, q[1], q[2]) = Product(configs, d, r[1], r[2])
    BY <1>2
  <2>3. q[1] = r[1] /\ q[2] = r[2]
    BY <1>3, <2>1, <2>2 DEF ListedApart, n
  <2>4. q = <<q[1], q[2]>> /\ r = <<r[1], r[2]>>
    BY <1>2
  <2> QED
    BY <2>3, <2>4
<1>6. Cardinality(made \ {identity}) = Cardinality(pairs)
  <2> DEFINE f == [q \in pairs |-> Made(q)]
  <2>1. made \ {identity} = made
    BY <1>4
  <2>2. IsFiniteSet(pairs)
    <3>1. pairs \subseteq (0 .. n) \X (1 .. n)
      BY <1>2
    <3>2. IsFiniteSet((0 .. n) \X (1 .. n))
      <4>1. IsFiniteSet(0 .. n) /\ IsFiniteSet(1 .. n)
        BY <1>1, FS_Interval
      <4> QED
        BY <4>1, FS_Product
    <3> QED
      BY <3>1, <3>2, FS_Subset
  <2>3. f \in Bijection(pairs, made)
    BY <1>5 DEF Bijection, Injection, Surjection, IsInjective
  <2> HIDE DEF f, made
  <2>4. ExistsBijection(pairs, made)
    BY <2>3 DEF ExistsBijection
  <2> QED
    BY <2>1, <2>2, <2>4, FS_Bijection
<1>7. \A k \in 2 .. 3 : Reachable(k) = ReachableAlongRows(k)
  <2> SUFFICES ASSUME NEW k \in 2 .. 3
               PROVE  Reachable(k) = ReachableAlongRows(k)
    OBVIOUS
  <2>1. k \in Nat
    OBVIOUS
  <2>2. ReachableAlongRows(k) \subseteq Reachable(k)
    BY <2>1, RowsReachNoMore
  <2>3. Reachable(k) \subseteq ReachableAlongRows(k)
    BY <2>1, RowsReachAll
  <2> QED
    BY <2>2, <2>3
<1> QED
  BY <1>6, <1>7 DEF RowsLoseNoMap, pairs, Made, d

LEMMA InvTable ==
  ASSUME NEW configs, NEW rows_, IsAnswer(configs, rows_)
  PROVE  IsTable(answer.table)
<1> DEFINE table == answer.table
           n == Len(configs)
<1>1. /\ IsLaidOut(table, configs, rows_) /\ configs \in Seq(Configs)
      /\ DOMAIN table.layers = 0 .. n /\ n \in Nat /\ n > 0 /\ 0 \in 0 .. n
  BY MadeFacts DEF IsAnswer, IsLaidOut
<1>2. ASSUME NEW i \in 0 .. n
      PROVE  /\ rows_[i + 1] \in Seq(1 .. n) /\ Len(rows_[i + 1]) \in Nat
             /\ Len(rows_[i + 1]) <= n
             /\ HasRow(table, configs, rows_, i)
             /\ table.layers[i].map = LayerOf(configs, i)
             /\ table.layers[i].config = IF i = 0 THEN 0 ELSE configs[i]
  BY <1>1, MadeFacts DEF IsAnswer, IsLaidOut
<1>3. ASSUME NEW i \in 0 .. n
      PROVE  IsLayer(table.layers[i])
  <2> DEFINE layer == table.layers[i]
  <2>1. layer.config \in Configs /\ layer.map = LayerMap(layer.config)
    <3>1. CASE i = 0
      BY <1>2, <3>1, FirstLayer DEF LayerOf
    <3>2. CASE i # 0
      <4>1. configs[i] \in Configs
        <5>1. i \in 1 .. n
          BY <1>1, <3>2
        <5> QED
          BY <1>1, <5>1, ElementOfSeq
      <4> QED
        BY <1>2, <3>2, <4>1 DEF LayerOf
    <3> QED
      BY <3>1, <3>2
  <2>2. /\ layer.next_layer_count \in Nat
        /\ layer.next_layers \in Nat /\ layer.next_layer_luts \in Nat
    BY <1>2 DEF HasRow
  <2> QED
    BY <2>1, <2>2 DEF IsLayer
<1>4. ASSUME NEW i \in 0 .. n
      PROVE  IsRow(table, table.layers[i])
  <2> DEFINE layer == table.layers[i]
             row == rows_[i + 1]
             array == table.next_layer_array
  <2>1. /\ layer.next_layer_count = Len(row)
        /\ layer.next_layers \in Nat
        /\ layer.next_layers + Len(row) <= Len(array)
        /\ \A k \in 1 .. Len(row) : array[layer.next_layers + k] = row[k]
        /\ \A k \in 0 .. round_up(Len(row), MAP_ARRAY_ALIGNMENT) - 1 :
             MapOf(table, layer, k) =
               IF k < Len(row) THEN LayerOf(configs, row[k + 1]) ELSE zero_map
    BY <1>2 DEF HasRow
  <2>2. row \in Seq(1 .. n) /\ Len(row) \in Nat
        /\ round_up(Len(row), MAP_ARRAY_ALIGNMENT) \in Nat
    BY <1>2, RoundUpFacts
  <2> HIDE DEF layer, row, array
  <2>3. ASSUME NEW lane \in Lanes(layer)
        PROVE  MapOf(table, layer, lane) =
                 IF lane < layer.next_layer_count
                 THEN table.layers[array[layer.next_layers + lane + 1]].map
                 ELSE zero_map
    <3>1. /\ lane \in 0 .. round_up(Len(row), MAP_ARRAY_ALIGNMENT) - 1
          /\ lane \in Nat
      BY <2>1, <2>2 DEF Lanes
    <3>2. CASE lane < Len(row)
      <4>1. lane + 1 \in 1 .. Len(row)
        BY <2>2, <3>1, <3>2
      <4>2. row[lane + 1] \in 1 .. n
        BY <2>2, <4>1, ElementOfSeq
      <4>3. array[layer.next_layers + (lane + 1)] = row[lane + 1]
        BY <2>1, <4>1
      <4>4. layer.next_layers + (lane + 1) = layer.next_layers + lane + 1
        <5> DEFINE s == layer.next_layers
        <5>1. s \in Nat
          BY <2>1
        <5> HIDE DEF s
        <5>2. s + (lane + 1) = s + lane + 1
          BY <3>1, <5>1
        <5> QED
          BY <5>2 DEF s
      <4>5. table.layers[row[lane + 1]].map = LayerOf(configs, row[lane + 1])
        <5>1. row[lane + 1] \in 0 .. n
          BY <1>1, <4>2
        <5> QED
          BY <1>2, <5>1
      <4> QED
        BY <2>1, <3>1, <3>2, <4>3, <4>4, <4>5
    <3>3. CASE ~ lane < Len(row)
      BY <2>1, <3>1, <3>3
    <3> QED
      BY <3>2, <3>3
  <2> QED
    BY <2>1, <2>3 DEF IsRow, layer, array
<1>5. table.layers[0].map = identity
  BY <1>1, <1>2 DEF LayerOf
<1>6. /\ table.layers[0].next_layer_count > 0
      /\ \A i \in 0 .. n :
           table.layers[i].next_layer_count <= table.layers[0].next_layer_count
  <2>1. Len(rows_[1]) = n
    BY MadeFacts DEF IsAnswer
  <2>2. table.layers[0].next_layer_count = n
    <3>1. HasRow(table, configs, rows_, 0) /\ 0 + 1 = 1
      BY <1>1, <1>2
    <3> QED
      BY <2>1, <3>1 DEF HasRow
  <2>3. ASSUME NEW i \in 0 .. n PROVE table.layers[i].next_layer_count <= n
    <3>1. table.layers[i].next_layer_count = Len(rows_[i + 1])
      BY <1>2 DEF HasRow
    <3> QED
      BY <1>2, <3>1
  <2> QED
    BY <1>1, <2>2, <2>3
<1>7. table.next_layer_array \in Seq(DOMAIN table.layers)
  <2>1. table.next_layer_array \in Seq(1 .. n)
    BY <1>1 DEF IsLaidOut
  <2>2. 1 .. n \subseteq 0 .. n
    BY <1>1
  <2> HIDE DEF table, n
  <2> QED
    BY <1>1, <2>1, <2>2, SeqMonotonic
<1> QED
  BY <1>1, <1>3, <1>4, <1>5, <1>6, <1>7 DEF IsTable

\* The table a call returns is one the searches can run on: the identity
\* first, with a row that is not empty, since some layer keeps enough outputs
\* for every group; every entry of a row a layer; every lane of a row's
\* vectors the map of the entry it stands for, or 0 behind the row's end.
THEOREM TablesAreSound ==
  ASSUME Groups \subseteq 1 .. N
  PROVE  Spec => [](Returned => IsTable(answer.table))
<1>1. PrecomputeInv => (Returned => IsTable(answer.table))
  BY ReturnedIsAnswer, InvTable
<1> QED
  BY <1>1, TablesAreMade, PTL

\* The staging buffer, one row of the identity for every depth, is never too
\* short for the row of another layer.
THEOREM IdentityRowAlwaysLongest ==
  ASSUME Groups \subseteq 1 .. N
  PROVE  Spec => []IdentityRowIsLongest
<1>1. PrecomputeInv => IdentityRowIsLongest
  BY ReturnedIsAnswer, InvIdentityRow DEF IdentityRowIsLongest
<1> QED
  BY <1>1, TablesAreMade, PTL

\* Vectors of a row, the last one padded and the one of an empty row too, lie
\* inside the array of maps and hold the row's maps, then zero maps.
THEOREM VectorsAlwaysInRow ==
  ASSUME Groups \subseteq 1 .. N
  PROVE  Spec => []VectorsStayInRow
<1>1. PrecomputeInv => VectorsStayInRow
  BY ReturnedIsAnswer, InvVectors DEF VectorsStayInRow
<1> QED
  BY <1>1, TablesAreMade, PTL

\* Following the rows loses no map of a chain of two or three layers, in
\* either direction, and no two pairs of a table compute the same map.  Of
\* all chains that compute a map with enough outputs, the lexicographically
\* first one follows the rows: a pair that is not listed could be replaced
\* by a listed one tried before it.
THEOREM RowsNeverLoseAMap ==
  ASSUME Groups \subseteq 1 .. N
  PROVE  Spec => []RowsLoseNoMap
<1>1. PrecomputeInv => RowsLoseNoMap
  BY ReturnedIsAnswer, InvRows DEF RowsLoseNoMap
<1> QED
  BY <1>1, TablesAreMade, PTL


\* The same for chains of every length: what any number of layers computes
\* with enough outputs, as many layers of the table compute that follow its
\* rows, and nothing else.
THEOREM ChainsOfAnyLength ==
  ASSUME Groups \subseteq 1 .. N
  PROVE  Spec => [](Returned => \A k \in Nat : Reachable(k) = ReachableAlongRows(k))
<1>1. ASSUME NEW configs, NEW rows_, IsAnswer(configs, rows_)
      PROVE  \A k \in Nat : Reachable(k) = ReachableAlongRows(k)
  BY <1>1, RowsReachAll, RowsReachNoMore
<1>2. PrecomputeInv
        => (Returned => \A k \in Nat : Reachable(k) = ReachableAlongRows(k))
  BY <1>1, ReturnedIsAnswer
<1> QED
  BY <1>2, TablesAreMade, PTL

-----------------------------------------------------------------------------
(* Tables of functions with a single output.                               *)

\* What the arrays of a table say of an entry of a row.
LEMMA RowEntry ==
  ASSUME NEW configs, NEW rows_, IsAnswer(configs, rows_),
         NEW i \in 0 .. Len(configs), NEW p \in 1 .. Len(rows_[i + 1])
  PROVE  LET table == answer.table
             layer == table.layers[i]
         IN  /\ layer.next_layer_count = Len(rows_[i + 1])
             /\ p - 1 \in 0 .. layer.next_layer_count - 1
             /\ rows_[i + 1][p] \in 1 .. Len(configs)
             /\ table.next_layer_array[layer.next_layers + (p - 1) + 1] = rows_[i + 1][p]
             /\ MapOf(table, layer, p - 1) = LayerOf(configs, rows_[i + 1][p])
<1> DEFINE table == answer.table
           layer == table.layers[i]
           row == rows_[i + 1]
           n == Len(configs)
<1>1. /\ row \in Seq(1 .. n) /\ Len(row) \in Nat
      /\ HasRow(table, configs, rows_, i)
  BY MadeFacts DEF IsAnswer, IsLaidOut
<1>2. /\ layer.next_layer_count = Len(row) /\ layer.next_layers \in Nat
      /\ \A k \in 1 .. Len(row) : table.next_layer_array[layer.next_layers + k] = row[k]
      /\ \A k \in 0 .. round_up(Len(row), MAP_ARRAY_ALIGNMENT) - 1 :
           MapOf(table, layer, k) =
             IF k < Len(row) THEN LayerOf(configs, row[k + 1]) ELSE zero_map
  BY <1>1 DEF HasRow
<1>3. /\ round_up(Len(row), MAP_ARRAY_ALIGNMENT) \in Nat
      /\ Len(row) <= round_up(Len(row), MAP_ARRAY_ALIGNMENT)
  BY <1>1, RoundUpFacts
<1>4. row[p] \in 1 .. n
  BY <1>1, ElementOfSeq
<1> DEFINE start == layer.next_layers
           lanes == round_up(Len(row), MAP_ARRAY_ALIGNMENT)
           size == Len(row)
<1>5. p \in 1 .. size /\ size \in Nat /\ lanes \in Nat /\ size <= lanes /\ start \in Nat
  BY <1>1, <1>2, <1>3
<1> HIDE DEF start, lanes, size
<1>6. /\ p - 1 \in 0 .. size - 1 /\ p - 1 \in 0 .. lanes - 1
      /\ p - 1 < size /\ p - 1 + 1 = p /\ start + (p - 1) + 1 = start + p
  BY <1>5
<1>7. p - 1 \in 0 .. layer.next_layer_count - 1
  BY <1>2, <1>6 DEF size
<1>8. table.next_layer_array[layer.next_layers + (p - 1) + 1] = row[p]
  BY <1>2, <1>5, <1>6 DEF start, size
<1>9. MapOf(table, layer, p - 1) = LayerOf(configs, row[p])
  BY <1>2, <1>6 DEF lanes, size
<1> QED
  BY <1>2, <1>4, <1>7, <1>8, <1>9

\* What two layers compute with enough outputs, two layers compute that may
\* follow each other.
LEMMA PairMayFollow ==
  ASSUME NEW configs, NEW rows_, IsAnswer(configs, rows_),
         NEW i \in 0 .. Len(configs), NEW j \in 0 .. Len(configs),
         get_group(Product(configs, answer.direction, i, j)) >= answer.group
  PROVE  \E k, l \in 0 .. Len(configs) :
           /\ MayFollow(rows_, k, l)
           /\ Product(configs, answer.direction, k, l) =
              Product(configs, answer.direction, i, j)
<1> DEFINE n == Len(configs)
           b == n + 1
           P(k, l) == Product(configs, answer.direction, k, l)
           Same == {pair \in (0 .. n) \X (0 .. n) : P(pair[1], pair[2]) = P(i, j)}
           Ranks == {pair[1] * b + pair[2] : pair \in Same}
<1>1. n \in Nat /\ b \in Nat /\ \A l \in 0 .. n : l \in 0 .. b - 1
  BY LenProperties DEF IsAnswer
<1>2. <<i, j>> \in Same
  OBVIOUS
<1>3. Ranks # {}
  <2> HIDE DEF Same
  <2> QED
    BY <1>2
<1>4. Ranks \in SUBSET Nat
  <2> SUFFICES ASSUME NEW pair \in Same PROVE pair[1] * b + pair[2] \in Nat
    OBVIOUS
  <2>1. pair[1] \in Nat /\ pair[2] \in Nat
    BY <1>1
  <2> HIDE DEF b
  <2> QED
    BY <1>1, <2>1
<1>5. PICK r \in Ranks : \A s \in Ranks : r <= s
  <2> HIDE DEF Ranks
  <2> QED
    BY <1>3, <1>4, LeastMember
<1>6. PICK pair \in Same : r = pair[1] * b + pair[2]
  BY <1>5
<1>7. pair[1] \in 0 .. n /\ pair[2] \in 0 .. n /\ P(pair[1], pair[2]) = P(i, j)
  BY <1>6
<1> HIDE DEF n, b, P
<1>8. ASSUME NEW k \in 0 .. n, NEW l \in 0 .. n, P(k, l) = P(i, j),
             Before(k, l, pair[1], pair[2])
      PROVE  FALSE
  <2> DEFINE other == <<k, l>>
  <2>1. other \in Same /\ other[1] = k /\ other[2] = l
    BY <1>8
  <2> HIDE DEF other, Same
  <2>2. k * b + l \in Ranks
    BY <2>1
  <2>3. pair[1] * b + pair[2] <= k * b + l
    BY <1>5, <1>6, <2>2
  <2>4. k * b + l < pair[1] * b + pair[2]
    <3> DEFINE x == pair[1]
               y == pair[2]
    <3>1. /\ k \in Nat /\ l \in 0 .. b - 1 /\ x \in Nat /\ y \in 0 .. b - 1
          /\ Before(k, l, x, y)
      BY <1>1, <1>7, <1>8
    <3> HIDE DEF x, y
    <3>2. k * b + l < x * b + y
      BY <1>1, <3>1, RankOrder
    <3> QED
      BY <3>2 DEF x, y
  <2>5. k * b + l \in Int /\ pair[1] * b + pair[2] \in Int
    BY <1>1, <1>7
  <2> QED
    BY <2>3, <2>4, <2>5
<1>9. MayFollow(rows_, pair[1], pair[2])
  BY <1>7, <1>8, PairIsListed DEF P, n
<1> QED
  BY <1>7, <1>9 DEF P, n

\* The layer 0x00c outputs c for the input 0.
LEMMA ConstantLayer ==
  ASSUME NEW c \in Values
  PROVE  c \in Configs /\ LayerMap(c)[0] = c
<1>1. N \in Nat /\ N >= 2 /\ N * N \in Nat /\ N * N >= N /\ c \in 0 .. N - 1
  BY NAssumption DEF Values
<1>2. c \in Configs /\ 0 \in Values
  BY <1>1 DEF Configs, HEX_CONFIG_COUNT, Values
<1>3. c \div (N * N) = 0 /\ (c \div N) % N = 0 /\ c % N = c
  <2>1. c = 0 * N + c /\ c = 0 * (N * N) + c /\ c \in 0 .. N * N - 1
    BY <1>1
  <2>2. c \div N = 0 /\ c % N = c
    BY <1>1, <2>1, Division
  <2>3. c \div (N * N) = 0
    BY <1>1, <2>1, Division
  <2>4. 0 = 0 * N + 0 /\ 0 \in 0 .. N - 1
    BY <1>1
  <2>5. 0 % N = 0
    BY <1>1, <2>4, Division
  <2> QED
    BY <2>2, <2>3, <2>5
<1>4. hex_layer(0, c) = c
  <2>1. Comparator(0, 0, FALSE) = 0 /\ Comparator(c, 0, FALSE) = c /\ Larger(0, c) = c
    BY <1>1 DEF Comparator, Larger
  <2>2. ModeBits(0) = 0
    BY DEF ModeBits
  <2>3. ((0 \div 2) % 2 = 1) = FALSE /\ (0 % 2 = 1) = FALSE /\ (0 >= 4) = FALSE
    OBVIOUS
  <2>4. hex_layer(0, c) = Larger(Comparator(0, 0, FALSE), Comparator(c, 0, FALSE))
    BY <1>3, <2>2, <2>3, Zenon DEF hex_layer
  <2> QED
    BY <2>1, <2>4
<1> QED
  BY <1>2, <1>4 DEF LayerMap

LEMMA ConstantGroup ==
  ASSUME NEW c \in Values, NEW map \in Maps, \A v \in Values : map[v] = c
  PROVE  get_group(map) = 1 /\ map # identity
<1>1. 0 \in Values /\ 1 \in Values
  BY NAssumption DEF Values
<1>2. Image(map) = {c}
  BY <1>1 DEF Image
<1>3. identity[0] = 0 /\ identity[1] = 1
  BY <1>1 DEF identity
<1> QED
  BY <1>1, <1>2, <1>3, FS_Singleton DEF get_group

\* The layer that outputs 0, and a layer that makes a value of it.
LEMMA ConstantPair ==
  ASSUME NEW configs, NEW rows_, IsAnswer(configs, rows_),
         answer.group = 1, answer.direction = 1, NEW c \in Values
  PROVE  \E i, j \in 0 .. Len(configs) :
           /\ MayFollow(rows_, i, j)
           /\ \A v \in Values : apply_mapping(LayerOf(configs, i), LayerOf(configs, j))[v] = c
           /\ i # 0 \/ j # 0
<1> DEFINE n == Len(configs)
           zero == Config(2, N - 1, 0)
           map == apply_mapping(zero_map, LayerMap(c))
           P(i, j) == Product(configs, answer.direction, i, j)
<1>1. c \in Configs /\ LayerMap(c)[0] = c /\ LayerMap(c) \in Maps
  BY ConstantLayer, LayerMapType
<1>2. zero \in Configs /\ LayerMap(zero) = zero_map /\ zero_map \in Maps
  BY ZeroLayer, IdentityType
<1> HIDE DEF zero
<1>3. 0 \in Values /\ \A v \in Values : zero_map[v] = 0
  BY NAssumption DEF zero_map, Values
<1>4. map \in Maps /\ \A v \in Values : map[v] = c
  <2>1. map \in Maps
    BY <1>1, <1>2, ApplyType
  <2>2. \A v \in Values : map[v] = LayerMap(c)[zero_map[v]]
    BY DEF apply_mapping
  <2> QED
    BY <1>1, <1>3, <2>1, <2>2
<1>5. get_group(map) = 1 /\ map # identity /\ get_group(zero_map) = 1
  BY <1>2, <1>3, <1>4, ConstantGroup
<1>6. get_group(LayerMap(c)) >= 1
  <2>1. get_group(map) <= get_group(LayerMap(c))
    BY <1>1, <1>2, CompositionAddsNoOutputs
  <2>2. get_group(LayerMap(c)) \in Nat
    BY <1>1, GroupType
  <2> QED
    BY <1>5, <2>1, <2>2
<1>7. PICK i \in 0 .. n : LayerOf(configs, i) = zero_map
  BY <1>2, <1>5, EveryLayerIsThere
<1>8. PICK j \in 0 .. n : LayerOf(configs, j) = LayerMap(c)
  BY <1>1, <1>6, EveryLayerIsThere
<1>9. \A k, l \in 0 .. n : P(k, l) = apply_mapping(LayerOf(configs, k), LayerOf(configs, l))
  BY DEF Product, compose
<1>10. P(i, j) = map
  BY <1>7, <1>8, <1>9
<1> HIDE DEF P, map
<1>11. PICK k \in 0 .. n, l \in 0 .. n : MayFollow(rows_, k, l) /\ P(k, l) = map
  BY <1>5, <1>10, PairMayFollow DEF P
<1>12. k # 0 \/ l # 0
  <2> SUFFICES ASSUME k = 0, l = 0 PROVE FALSE
    OBVIOUS
  <2>1. P(0, 0) = apply_mapping(identity, identity)
    BY <1>9, <1>11 DEF LayerOf
  <2>2. apply_mapping(identity, identity) = identity
    BY DEF apply_mapping, identity
  <2> QED
    BY <1>5, <1>11, <2>1, <2>2
<1> QED
  BY <1>4, <1>9, <1>11, <1>12

LEMMA InvConstants ==
  ASSUME NEW configs, NEW rows_, IsAnswer(configs, rows_),
         answer.group = 1, answer.direction = 1
  PROVE  ReachesConstants(answer.table)
<1> DEFINE n == Len(configs)
           table == answer.table
           first == table.layers[0]
           lanes == 0 .. first.next_layer_count - 1
           Row(lane) == table.layers[table.next_layer_array[first.next_layers + lane + 1]]
           Constant(map, value) == \A v \in Values : map[v] = value
<1>1. /\ n \in Nat /\ 0 \in 0 .. n /\ configs \in Seq(Configs)
      /\ Len(rows_[0 + 1]) = n /\ \A p \in 1 .. n : rows_[0 + 1][p] = p
  BY MadeFacts DEF IsAnswer
<1>2. ASSUME NEW p \in 1 .. n
      PROVE  /\ p - 1 \in lanes /\ MapOf(table, first, p - 1) = LayerOf(configs, p)
             /\ Row(p - 1) = table.layers[p]
  <2>1. p \in 1 .. Len(rows_[0 + 1]) /\ rows_[0 + 1][p] = p
    BY <1>1
  <2>2. /\ p - 1 \in lanes
        /\ table.next_layer_array[first.next_layers + (p - 1) + 1] = rows_[0 + 1][p]
        /\ MapOf(table, first, p - 1) = LayerOf(configs, rows_[0 + 1][p])
    BY <1>1, <2>1, RowEntry
  <2> HIDE DEF lanes, first, table
  <2> QED
    BY <2>1, <2>2
<1>3. lanes = 0 .. n - 1
  <2>1. HasRow(table, configs, rows_, 0)
    BY <1>1, MadeFacts DEF IsAnswer, IsLaidOut
  <2>2. first.next_layer_count = Len(rows_[0 + 1])
    BY <2>1 DEF HasRow
  <2>3. first.next_layer_count = n
    BY <1>1, <2>2
  <2> QED
    BY <2>3
<1>4. ASSUME NEW j \in lanes, NEW k \in lanes, MapOf(table, first, j) = MapOf(table, first, k)
      PROVE  j = k
  <2> DEFINE p == j + 1
             q == k + 1
  <2>1. p \in 1 .. n /\ q \in 1 .. n /\ p - 1 = j /\ q - 1 = k /\ p # 0 /\ q # 0
    <3> HIDE DEF n, lanes
    <3> QED
      BY <1>1, <1>3, <1>4
  <2> HIDE DEF p, q
  <2>2. LayerOf(configs, p) = LayerOf(configs, q)
    BY <1>2, <1>4, <2>1
  <2>3. LayerMap(configs[p]) = LayerMap(configs[q])
    BY <2>1, <2>2 DEF LayerOf
  <2>4. p = q
    BY <2>1, <2>3 DEF IsAnswer, IsMadeFrom, KeptApart
  <2> QED
    BY <2>1, <2>4
<1>5. ASSUME NEW value \in Values \ {0}
      PROVE  \E j \in lanes :
               LET map == MapOf(table, first, j)
               IN  \/ Constant(map, value)
                   \/ \E k \in 0 .. Row(j).next_layer_count - 1 :
                        Constant(apply_mapping(map, MapOf(table, Row(j), k)), value)
  <2>1. PICK i \in 0 .. n, j \in 0 .. n :
          /\ MayFollow(rows_, i, j)
          /\ Constant(apply_mapping(LayerOf(configs, i), LayerOf(configs, j)), value)
          /\ i # 0 \/ j # 0
    BY ConstantPair
  <2>2. Listed(rows_, i, j)
    BY <2>1 DEF MayFollow
  <2>3. PICK p \in 1 .. Len(rows_[i + 1]) : rows_[i + 1][p] = j
    BY <2>2 DEF Listed
  <2>4. /\ p - 1 \in 0 .. table.layers[i].next_layer_count - 1 /\ j \in 1 .. n
        /\ MapOf(table, table.layers[i], p - 1) = LayerOf(configs, j)
    BY <2>3, RowEntry
  <2> HIDE DEF n, lanes, first, table, Row, Constant
  <2>5. CASE i = 0
    <3>1. apply_mapping(LayerOf(configs, i), LayerOf(configs, j)) = LayerOf(configs, j)
      <4>1. LayerOf(configs, j) \in Maps
        BY <1>1, LayerOfType DEF n
      <4> QED
        BY <2>5, <4>1 DEF LayerOf, apply_mapping, identity, Maps
    <3>2. Constant(MapOf(table, first, j - 1), value) /\ j - 1 \in lanes
      BY <1>2, <2>1, <2>4, <3>1
    <3> QED
      BY <3>2
  <2>6. CASE i # 0
    <3>1. i \in 1 .. n
      BY <1>1, <2>6
    <3>2. /\ i - 1 \in lanes /\ MapOf(table, first, i - 1) = LayerOf(configs, i)
          /\ Row(i - 1) = table.layers[i]
      BY <1>2, <3>1
    <3>3. Constant(apply_mapping(MapOf(table, first, i - 1),
                                 MapOf(table, Row(i - 1), p - 1)), value)
      BY <2>1, <2>4, <3>2
    <3> QED
      BY <2>4, <3>2, <3>3
  <2> QED
    BY <2>5, <2>6
<1> QED
  BY <1>4, <1>5, Zenon DEF ReachesConstants

\* A table for functions with a single output, as the hex solver asks for it,
\* leads to every constant within two layers, and its layers differ: a search
\* for a constant meets one before it comes to the padding of a row.
THEOREM ConstantsAreReached ==
  ASSUME Groups \subseteq 1 .. N
  PROVE  Spec => [](Returned /\ answer.group = 1 /\ answer.direction = 1
                      => ReachesConstants(answer.table))
<1>1. PrecomputeInv
        => (Returned /\ answer.group = 1 /\ answer.direction = 1
              => ReachesConstants(answer.table))
  BY ReturnedIsAnswer, InvConstants
<1> QED
  BY <1>1, TablesAreMade, PTL

-----------------------------------------------------------------------------
(* Tables for functions of several outputs.                                *)

\* A row as the arrays of the table hold it.
TableRow(table, i) ==
  [k \in 1 .. table.layers[i].next_layer_count |->
     table.next_layer_array[table.layers[i].next_layers + k]]

LEMMA RowFromArray ==
  ASSUME NEW configs, NEW rows_, IsAnswer(configs, rows_),
         NEW i \in 0 .. Len(configs)
  PROVE  /\ DOMAIN TableRow(answer.table, i) = 1 .. Len(rows_[i + 1])
         /\ \A p \in DOMAIN TableRow(answer.table, i) :
              /\ TableRow(answer.table, i)[p] = rows_[i + 1][p]
              /\ TableRow(answer.table, i)[p] \in 1 .. Len(configs)
<1>1. Len(rows_[i + 1]) \in Nat /\ rows_[i + 1] \in Seq(1 .. Len(configs))
      /\ HasRow(answer.table, configs, rows_, i)
  BY MadeFacts DEF IsAnswer, IsLaidOut
<1>2. /\ answer.table.layers[i].next_layer_count = Len(rows_[i + 1])
      /\ \A k \in 1 .. Len(rows_[i + 1]) :
           answer.table.next_layer_array[answer.table.layers[i].next_layers + k]
             = rows_[i + 1][k]
  BY <1>1 DEF HasRow
<1>3. \A p \in 1 .. Len(rows_[i + 1]) : rows_[i + 1][p] \in 1 .. Len(configs)
  BY <1>1, ElementOfSeq
<1>4. DOMAIN TableRow(answer.table, i) = 1 .. Len(rows_[i + 1])
  BY <1>2 DEF TableRow
<1>5. \A p \in 1 .. Len(rows_[i + 1]) : TableRow(answer.table, i)[p] = rows_[i + 1][p]
  BY <1>2 DEF TableRow
<1> QED
  BY <1>3, <1>4, <1>5

LEMMA InvFirstPairs ==
  ASSUME NEW configs, NEW rows_, IsAnswer(configs, rows_), answer.direction = 1
  PROVE  ListsFirstPairs(answer.table, answer.group)
<1> DEFINE n == Len(configs)
           table == answer.table
           g == answer.group
           Row(i) == TableRow(table, i)
           P(i, j) == apply_mapping(table.layers[i].map, table.layers[j].map)
<1>1. /\ n \in Nat /\ configs \in Seq(Configs)
      /\ DOMAIN table.layers = 0 .. n
      /\ \A i \in 0 .. n : table.layers[i].map = LayerOf(configs, i)
  <2>1. IsLaidOut(table, configs, rows_) /\ n \in Nat /\ configs \in Seq(Configs)
    BY MadeFacts DEF IsAnswer
  <2> HIDE DEF table
  <2> QED
    BY <2>1 DEF IsLaidOut
<1>2. \A i, j \in 0 .. n : P(i, j) = Product(configs, 1, i, j)
  <2> HIDE DEF n, table
  <2> QED
    BY <1>1 DEF Product, compose
<1>3. \A i \in 0 .. n :
        /\ DOMAIN Row(i) = 1 .. Len(rows_[i + 1])
        /\ \A p \in DOMAIN Row(i) : Row(i)[p] = rows_[i + 1][p] /\ Row(i)[p] \in 1 .. n
  BY RowFromArray
<1>4. /\ TriedIsMade(configs, rows_, g, 1, n, n + 1)
      /\ RowsAscend(rows_, n)
  BY DEF IsAnswer, IsMadeFrom, PairsListed
<1>5. \A c \in Configs : get_group(LayerMap(c)) >= g =>
        \E i \in 0 .. n : table.layers[i].map = LayerMap(c)
  <2> SUFFICES ASSUME NEW c \in Configs, get_group(LayerMap(c)) >= g
               PROVE  \E i \in 0 .. n : table.layers[i].map = LayerMap(c)
    OBVIOUS
  <2>1. PICK i \in 0 .. n : LayerOf(configs, i) = LayerMap(c)
    BY EveryLayerIsThere
  <2> QED
    BY <1>1, <2>1
<1>6. \A h \in 0 .. n : \A l : Listed(rows_, h, l) => \E k \in DOMAIN Row(h) : Row(h)[k] = l
  <2> HIDE DEF Row, n
  <2> QED
    BY <1>3 DEF Listed
<1>7. \A i \in 0 .. n : \A k, l \in DOMAIN Row(i) : k < l => Row(i)[k] < Row(i)[l]
  <2> HIDE DEF Row, n
  <2> QED
    BY <1>3, <1>4 DEF RowsAscend
<1>8. ASSUME NEW i \in 0 .. n, NEW j \in 0 .. n, get_group(P(i, j)) >= g,
             P(i, j) # identity
      PROVE  \E h \in 0 .. n : \E k \in DOMAIN Row(h) :
               /\ h < i \/ (h = i /\ Row(h)[k] <= j)
               /\ P(h, Row(h)[k]) = P(i, j)
  <2>1. \E h \in 0 .. n, l \in 1 .. n :
          /\ Listed(rows_, h, l)
          /\ h < i \/ (h = i /\ l <= j)
          /\ Product(configs, 1, h, l) = Product(configs, 1, i, j)
    <3>1. \A k \in 0 .. n : /\ Product(configs, 1, 0, k) = LayerOf(configs, k)
                            /\ Product(configs, 1, k, 0) = LayerOf(configs, k)
      BY <1>1, ProductWithIdentity DEF Directions
    <3>2. Product(configs, 1, i, j) # identity /\ get_group(Product(configs, 1, i, j)) >= g
      <4> HIDE DEF n, P
      <4> QED
        BY <1>2, <1>8
    <3>3. CASE j = 0
      <4>1. i # 0
        <5> HIDE DEF n
        <5> QED
          BY <3>1, <3>2, <3>3 DEF LayerOf
      <4>2. MayFollow(rows_, 0, i)
        BY IdentityIsFollowed
      <4>3. Listed(rows_, 0, i)
        BY <4>1, <4>2 DEF MayFollow
      <4> HIDE DEF n
      <4>4. 0 \in 0 .. n /\ i \in 1 .. n /\ 0 < i
        BY <1>1, <4>1
      <4> QED
        BY <3>1, <3>3, <4>3, <4>4
    <3>4. CASE j # 0
      <4> HIDE DEF n
      <4>1. j \in 1 .. n /\ Before(i, j, n, n + 1)
        BY <1>1, <3>4 DEF Before
      <4>2. IsMade(configs, rows_, 1, n, i, j)
        BY <1>4, <3>2, <4>1 DEF TriedIsMade, n
      <4>3. PICK h \in 0 .. n, l \in 1 .. n :
              /\ Listed(rows_, h, l) /\ ~ Before(i, j, h, l)
              /\ Product(configs, 1, h, l) = Product(configs, 1, i, j)
        BY <4>2 DEF IsMade, n
      <4>4. h < i \/ (h = i /\ l <= j)
        BY <1>1, <4>3 DEF Before
      <4> QED
        BY <4>3, <4>4
    <3> QED
      BY <3>3, <3>4
  <2>2. PICK h \in 0 .. n, l \in 1 .. n :
          /\ Listed(rows_, h, l)
          /\ h < i \/ (h = i /\ l <= j)
          /\ Product(configs, 1, h, l) = Product(configs, 1, i, j)
    BY <2>1
  <2> HIDE DEF Row, P, n
  <2>3. PICK k \in DOMAIN Row(h) : Row(h)[k] = l
    BY <1>6, <2>2
  <2>4. l \in 0 .. n
    BY <1>1
  <2>5. P(h, l) = P(i, j)
    BY <1>2, <2>2, <2>4
  <2> QED
    BY <2>2, <2>3, <2>5
<1>9. \A i, j \in 0 .. n : get_group(P(i, j)) >= g =>
        \/ P(i, j) = identity
        \/ \E h \in 0 .. n : \E k \in DOMAIN Row(h) :
             /\ h < i \/ (h = i /\ Row(h)[k] <= j)
             /\ P(h, Row(h)[k]) = P(i, j)
  BY <1>8
<1> DEFINE ids == DOMAIN table.layers
           pairs == [i \in ids |-> [j \in ids |-> P(i, j)]]
<1>10. ids = 0 .. n /\ ids \subseteq Nat
  <2> HIDE DEF n, table
  <2> QED
    BY <1>1
<1>11. \A i, j \in ids : pairs[i][j] = P(i, j)
  OBVIOUS
<1>12. \A i, j \in ids : get_group(pairs[i][j]) >= g =>
         \/ pairs[i][j] = identity
         \/ \E h \in ids : \E k \in DOMAIN Row(h) :
              /\ h < i \/ (h = i /\ Row(h)[k] <= j)
              /\ pairs[h][Row(h)[k]] = pairs[i][j]
  <2>1. \A h \in ids : \A k \in DOMAIN Row(h) : Row(h)[k] \in ids
    <3> HIDE DEF n, Row, ids
    <3>1. \A l \in 1 .. n : l \in ids
      BY <1>1, <1>10
    <3> QED
      BY <1>3, <1>10, <3>1
  <2> HIDE DEF n, Row, ids, pairs, P
  <2>2. \A h \in ids : \A k \in DOMAIN Row(h) : pairs[h][Row(h)[k]] = P(h, Row(h)[k])
    BY <1>11, <2>1
  <2> QED
    BY <1>9, <1>10, <1>11, <2>2
<1> HIDE DEF n
<1>13. /\ ids \subseteq Nat
       /\ \A c \in Configs : get_group(LayerMap(c)) >= g =>
            \E i \in ids : table.layers[i].map = LayerMap(c)
       /\ \A i \in ids : \A k, l \in DOMAIN Row(i) : k < l => Row(i)[k] < Row(i)[l]
  <2> HIDE DEF Row, ids, table, g
  <2> QED
    BY <1>5, <1>7, <1>10
<1> QED
  BY <1>12, <1>13, Zenon DEF ListsFirstPairs, TableRow

\* Every table of direction 1 that is returned, new or saved, is one that the
\* search for a shortest chain may follow: rows ascend, and what two layers
\* compute, a pair of the rows computes that is not behind them.
THEOREM TablesListFirstPairs ==
  ASSUME Groups \subseteq 1 .. N
  PROVE  Spec => [](Returned /\ answer.direction = 1
                      => ListsFirstPairs(answer.table, answer.group))
<1>1. PrecomputeInv
        => (Returned /\ answer.direction = 1
              => ListsFirstPairs(answer.table, answer.group))
  BY ReturnedIsAnswer, InvFirstPairs
<1> QED
  BY <1>1, TablesAreMade, PTL

=============================================================================
