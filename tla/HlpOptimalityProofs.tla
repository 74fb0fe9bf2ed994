------------------------- MODULE HlpOptimalityProofs -------------------------
(***************************************************************************)
(* For every number of signal strengths, every cache and every request: a  *)
(* search that is not the reduced one returns the length of a shortest     *)
(* chain, unless the distance check drops one.  Of the shortest chains     *)
(* that the table's layers make, the first one in lexical order follows    *)
(* the rows of the table, and the search comes to chains in that order.    *)
(* Up to there, the cache knows maps that chains before it reached: none   *)
(* on this chain in as few layers, or it would not be the first one.       *)
(***************************************************************************)
EXTENDS HlpOptimality, HlpSearchProofs

-----------------------------------------------------------------------------
(* What chains of layers compute.                                          *)

LEMMA ApplyIsAssociative ==
  ASSUME NEW a \in Maps, NEW b \in Maps, NEW c \in Maps
  PROVE  apply_mapping(apply_mapping(a, b), c) = apply_mapping(a, apply_mapping(b, c))
<1>1. \A v \in Values : a[v] \in Values
  BY DEF Maps
<1> QED
  BY <1>1 DEF apply_mapping

LEMMA ApplyIdentity ==
  ASSUME NEW a \in Maps
  PROVE  apply_mapping(identity, a) = a /\ apply_mapping(a, identity) = a
<1>1. \A v \in Values : a[v] \in Values
  BY DEF Maps
<1> QED
  BY <1>1 DEF apply_mapping, identity, Maps

\* Each set of maps is made from the one for a chain shorter by a layer.
LEMMA MapsOfChainsStep ==
  /\ MapsOfChains[0] = {identity}
  /\ \A k \in 1 .. MaxChain :
       MapsOfChains[k] = {apply_mapping(map, layer) :
                            map \in MapsOfChains[k - 1], layer \in LayerMaps}
  /\ \A k \in 0 .. MaxChain : MapsOfChains[k] \subseteq Maps
<1> DEFINE Longer(maps) == {apply_mapping(map, layer) : map \in maps, layer \in LayerMaps}
           step == [k \in 1 .. MaxChain |-> [maps \in SUBSET Maps |-> Longer(maps)]]
           Chains(g) == [k \in 0 .. MaxChain |->
                           IF k = 0 THEN {identity}
                           ELSE {apply_mapping(map, layer) :
                                   map \in g[k - 1], layer \in LayerMaps}]
<1>1. MaxChain \in Nat
  BY SearchAssumption
<1>2. ASSUME NEW maps \in SUBSET Maps PROVE Longer(maps) \in SUBSET Maps
  <2>1. \A map \in maps, layer \in LayerMaps : apply_mapping(map, layer) \in Maps
    BY ApplyType, LayerMapType DEF LayerMaps
  <2> QED
    BY <2>1
<1>3. StaysIn(step, MaxChain, SUBSET Maps)
  <2> HIDE DEF Longer
  <2> QED
    BY <1>2 DEF StaysIn
<1>4. {identity} \in SUBSET Maps
  BY IdentityType
<1>5. PICK f : Follows(f, {identity}, step, MaxChain, SUBSET Maps)
  <2> HIDE DEF step
  <2> QED
    BY <1>1, <1>3, <1>4, StepsExist
<1>6. /\ f \in [0 .. MaxChain -> SUBSET Maps]
      /\ f[0] = {identity}
      /\ \A k \in 1 .. MaxChain : f[k] = Longer(f[k - 1])
  <2>1. /\ f \in [0 .. MaxChain -> SUBSET Maps]
        /\ f[0] = {identity}
        /\ \A k \in 1 .. MaxChain : f[k] = step[k][f[k - 1]]
    <3> HIDE DEF step
    <3> QED
      BY <1>5 DEF Follows
  <2>2. ASSUME NEW k \in 1 .. MaxChain PROVE f[k] = Longer(f[k - 1])
    <3>1. f[k - 1] \in SUBSET Maps
      BY <1>1, <2>1
    <3> HIDE DEF Longer
    <3> QED
      BY <2>1, <3>1
  <2> QED
    BY <2>1, <2>2
<1>7. f = Chains(f)
  <2>1. f = [k \in 0 .. MaxChain |-> f[k]]
    BY <1>6
  <2>2. ASSUME NEW k \in 0 .. MaxChain
        PROVE  f[k] = IF k = 0 THEN {identity} ELSE Longer(f[k - 1])
    <3>1. k # 0 => k \in 1 .. MaxChain
      BY <1>1
    <3> HIDE DEF Longer
    <3> QED
      BY <1>6, <3>1
  <2>3. Chains(f) = [k \in 0 .. MaxChain |-> IF k = 0 THEN {identity} ELSE Longer(f[k - 1])]
    OBVIOUS
  <2> HIDE DEF Chains, Longer
  <2> QED
    BY <2>1, <2>2, <2>3
<1>8. PICK chains : /\ chains = Chains(chains)
                    /\ MapsOfChains = [k \in 0 .. MaxChain |-> chains[k]]
  <2> DEFINE c == CHOOSE g : g = Chains(g)
  <2>1. MapsOfChains = [k \in 0 .. MaxChain |-> c[k]]
    BY DEF MapsOfChains
  <2>2. c = Chains(c)
    <3> HIDE DEF Chains
    <3> QED
      BY <1>7
  <2> HIDE DEF Chains, c
  <2> QED
    BY <2>1, <2>2
<1>9. /\ MapsOfChains[0] = {identity}
      /\ \A k \in 1 .. MaxChain : MapsOfChains[k] = Longer(MapsOfChains[k - 1])
  <2>1. Chains(chains)[0] = {identity}
    BY <1>1
  <2>2. ASSUME NEW k \in 1 .. MaxChain PROVE Chains(chains)[k] = Longer(chains[k - 1])
    BY <1>1
  <2>3. \A k \in 1 .. MaxChain : k \in 0 .. MaxChain /\ k - 1 \in 0 .. MaxChain
    BY <1>1
  <2> HIDE DEF Chains, Longer
  <2> QED
    BY <1>1, <1>8, <2>1, <2>2, <2>3
<1>10. \A k \in 0 .. MaxChain : MapsOfChains[k] \subseteq Maps
  <2> DEFINE Good == {k \in 0 .. MaxChain : MapsOfChains[k] \in SUBSET Maps}
  <2>1. 0 \in Good
    BY <1>1, <1>4, <1>9
  <2>2. ASSUME NEW k \in 1 .. MaxChain, k - 1 \in Good PROVE k \in Good
    <3> HIDE DEF Longer
    <3> QED
      BY <1>1, <1>2, <1>9, <2>2
  <2> HIDE DEF Good
  <2>3. 0 .. MaxChain \subseteq Good
    BY <1>1, <2>1, <2>2, InductionTo
  <2> QED
    BY <2>3 DEF Good
<1> QED
  BY <1>9, <1>10

-----------------------------------------------------------------------------
(* Paths: layers of a table and the maps along them.                       *)

IsPath(table, n, q, m) ==
  /\ q \in [1 .. n -> DOMAIN table.layers] /\ m \in [0 .. n -> Maps]
  /\ m[0] = identity
  /\ \A k \in 1 .. n : m[k] = apply_mapping(m[k - 1], table.layers[q[k]].map)

\* A layer is in the row of another one.
Lists(table, h, e) ==
  \E k \in 1 .. table.layers[h].next_layer_count :
    table.next_layer_array[table.layers[h].next_layers + k] = e

LEMMA LayerFacts ==
  ASSUME NEW table, IsTable(table), NEW i \in DOMAIN table.layers
  PROVE  table.layers[i].map \in Maps /\ table.layers[i].map \in LayerMaps
<1>1. IsLayer(table.layers[i])
  BY DEF IsTable
<1> QED
  BY <1>1, LayerMapType DEF IsLayer, LayerMaps

LEMMA GroupIsNat ==
  ASSUME NEW map \in Maps
  PROVE  get_group(map) \in Nat
BY ImageIsFinite, FS_CardinalityType DEF get_group

LEMMA NumberedLayers ==
  ASSUME NEW table, NEW g, ListsFirstPairs(table, g)
  PROVE  DOMAIN table.layers \subseteq Nat
BY DEF ListsFirstPairs

LEMMA LayerIsThere ==
  ASSUME NEW table, NEW g, ListsFirstPairs(table, g),
         NEW c \in Configs, get_group(LayerMap(c)) >= g
  PROVE  \E i \in DOMAIN table.layers : table.layers[i].map = LayerMap(c)
BY DEF ListsFirstPairs

\* What two layers compute is the identity or listed no later.
LEMMA PairIsFirst ==
  ASSUME NEW table, NEW g, ListsFirstPairs(table, g), IsTable(table),
         NEW i \in DOMAIN table.layers, NEW j \in DOMAIN table.layers,
         get_group(apply_mapping(table.layers[i].map, table.layers[j].map)) >= g
  PROVE  \/ apply_mapping(table.layers[i].map, table.layers[j].map) = identity
         \/ \E h, e \in DOMAIN table.layers :
              /\ Lists(table, h, e)
              /\ h < i \/ (h = i /\ e <= j)
              /\ apply_mapping(table.layers[h].map, table.layers[e].map) =
                   apply_mapping(table.layers[i].map, table.layers[j].map)
<1> DEFINE ids == DOMAIN table.layers
           Row(h) == [k \in 1 .. table.layers[h].next_layer_count |->
                        table.next_layer_array[table.layers[h].next_layers + k]]
           pairs == [h \in ids |-> [e \in ids |->
                       apply_mapping(table.layers[h].map, table.layers[e].map)]]
<1>1. get_group(pairs[i][j]) >= g =>
        \/ pairs[i][j] = identity
        \/ \E h \in ids : \E k \in DOMAIN Row(h) :
             /\ h < i \/ (h = i /\ Row(h)[k] <= j)
             /\ pairs[h][Row(h)[k]] = pairs[i][j]
  BY DEF ListsFirstPairs
<1>2. \A h, e \in ids : pairs[h][e] = apply_mapping(table.layers[h].map, table.layers[e].map)
  OBVIOUS
<1>3. ASSUME NEW h \in ids, NEW k \in DOMAIN Row(h)
      PROVE  Row(h)[k] \in ids /\ Lists(table, h, Row(h)[k])
  <2>1. k \in 1 .. table.layers[h].next_layer_count
    OBVIOUS
  <2>2. Row(h)[k] = table.next_layer_array[table.layers[h].next_layers + k]
    BY <2>1
  <2>3. /\ table.next_layer_array \in Seq(ids) /\ IsLayer(table.layers[h])
        /\ IsRow(table, table.layers[h])
    BY DEF IsTable
  <2>4. table.layers[h].next_layers + k \in 1 .. Len(table.next_layer_array)
    BY <2>1, <2>3 DEF IsLayer, IsRow
  <2> HIDE DEF Row
  <2> QED
    BY <2>1, <2>2, <2>3, <2>4 DEF Lists
<1> HIDE DEF pairs, Row
<1> QED
  BY <1>1, <1>2, <1>3

\* The maps along a path are ones that chains compute.
LEMMA PathIsInChains ==
  ASSUME NEW table, IsTable(table), NEW n \in 0 .. MaxChain, NEW q, NEW m,
         IsPath(table, n, q, m), NEW i \in 0 .. n
  PROVE  \A j \in i .. n : \E rest \in MapsOfChains[j - i] :
            m[j] = apply_mapping(m[i], rest)
<1> DEFINE Good == {k \in 0 .. n - i : \E rest \in MapsOfChains[k] :
                                          m[i + k] = apply_mapping(m[i], rest)}
<1>1. MaxChain \in Nat /\ n \in Nat /\ i \in Nat /\ n - i \in Nat
  BY SearchAssumption
<1>2. \A k \in 0 .. n : m[k] \in Maps
  BY DEF IsPath
<1>3. 0 \in Good
  <2>1. identity \in MapsOfChains[0] /\ m[i + 0] = apply_mapping(m[i], identity)
    BY <1>1, <1>2, MapsOfChainsStep, ApplyIdentity
  <2> QED
    BY <1>1, <2>1
<1>4. ASSUME NEW k \in 1 .. n - i, k - 1 \in Good PROVE k \in Good
  <2>1. /\ i + k \in 1 .. n /\ (i + k) - 1 = i + (k - 1) /\ k \in 1 .. MaxChain
        /\ k - 1 \in 0 .. MaxChain /\ k \in 0 .. n - i
    BY <1>1
  <2>2. PICK rest \in MapsOfChains[k - 1] : m[i + (k - 1)] = apply_mapping(m[i], rest)
    BY <1>4
  <2> DEFINE layer == table.layers[q[i + k]].map
  <2>3. layer \in Maps /\ layer \in LayerMaps /\ m[i + k] = apply_mapping(m[i + (k - 1)], layer)
    <3>1. q[i + k] \in DOMAIN table.layers
      BY <2>1 DEF IsPath
    <3> QED
      BY <2>1, <3>1, LayerFacts DEF IsPath
  <2> HIDE DEF layer
  <2>4. rest \in Maps
    BY <2>1, <2>2, MapsOfChainsStep
  <2>5. apply_mapping(rest, layer) \in MapsOfChains[k]
    BY <2>1, <2>2, <2>3, MapsOfChainsStep
  <2>6. m[i + k] = apply_mapping(m[i], apply_mapping(rest, layer))
    BY <1>1, <1>2, <2>2, <2>3, <2>4, ApplyIsAssociative
  <2> QED
    BY <2>1, <2>5, <2>6
<1>5. 0 .. n - i \subseteq Good
  <2> HIDE DEF Good
  <2> QED
    BY <1>1, <1>3, <1>4, InductionTo
<1> SUFFICES ASSUME NEW j \in i .. n
             PROVE  \E rest \in MapsOfChains[j - i] : m[j] = apply_mapping(m[i], rest)
  OBVIOUS
<1>6. j - i \in 0 .. n - i /\ i + (j - i) = j
  BY <1>1
<1>7. j - i \in Good
  BY <1>5, <1>6
<1> QED
  BY <1>6, <1>7

\* A path goes on with another layer.
Longer(q, n, e) == [k \in 1 .. n + 1 |-> IF k = n + 1 THEN e ELSE q[k]]
LongerMaps(m, n, map) == [k \in 0 .. n + 1 |-> IF k = n + 1 THEN map ELSE m[k]]

LEMMA PathGoesOn ==
  ASSUME NEW table, NEW n \in Nat, NEW q, NEW m, IsPath(table, n, q, m),
         NEW e \in DOMAIN table.layers,
         NEW map \in Maps, map = apply_mapping(m[n], table.layers[e].map)
  PROVE  /\ IsPath(table, n + 1, Longer(q, n, e), LongerMaps(m, n, map))
         /\ LongerMaps(m, n, map)[n + 1] = map
<1> DEFINE p == Longer(q, n, e)
           l == LongerMaps(m, n, map)
<1>1. p \in [1 .. n + 1 -> DOMAIN table.layers] /\ l \in [0 .. n + 1 -> Maps]
  BY DEF IsPath, Longer, LongerMaps
<1>2. l[0] = identity /\ l[n + 1] = map
  BY DEF IsPath, LongerMaps
<1>3. ASSUME NEW i \in 1 .. n + 1
      PROVE  l[i] = apply_mapping(l[i - 1], table.layers[p[i]].map)
  <2>1. CASE i = n + 1
    BY <2>1 DEF Longer, LongerMaps
  <2>2. CASE i # n + 1
    <3>1. l[i] = m[i] /\ l[i - 1] = m[i - 1] /\ p[i] = q[i] /\ i \in 1 .. n
      BY <2>2 DEF Longer, LongerMaps
    <3> HIDE DEF l, p
    <3> QED
      BY <3>1 DEF IsPath
  <2> QED
    BY <2>1, <2>2
<1> HIDE DEF l, p
<1>4. IsPath(table, n + 1, p, l) /\ l[n + 1] = map
  BY <1>1, <1>2, <1>3 DEF IsPath
<1> QED
  BY <1>4 DEF l, p

\* The beginning of a path is one.
LEMMA PathBegins ==
  ASSUME NEW table, NEW n \in Nat, NEW q, NEW m, IsPath(table, n, q, m), NEW k \in 0 .. n
  PROVE  IsPath(table, k, [i \in 1 .. k |-> q[i]], [i \in 0 .. k |-> m[i]])
<1> DEFINE p == [i \in 1 .. k |-> q[i]]
           l == [i \in 0 .. k |-> m[i]]
<1>1. p \in [1 .. k -> DOMAIN table.layers] /\ l \in [0 .. k -> Maps] /\ l[0] = identity
  BY DEF IsPath
<1>2. ASSUME NEW i \in 1 .. k
      PROVE  l[i] = apply_mapping(l[i - 1], table.layers[p[i]].map)
  <2>1. l[i] = m[i] /\ l[i - 1] = m[i - 1] /\ p[i] = q[i] /\ i \in 1 .. n
    OBVIOUS
  <2> HIDE DEF l, p
  <2> QED
    BY <2>1 DEF IsPath
<1> HIDE DEF l, p
<1>3. IsPath(table, k, p, l)
  BY <1>1, <1>2 DEF IsPath
<1> QED
  BY <1>3 DEF l, p

\* A chain for a map with enough outputs is a path of the table.
LEMMA ChainHasPath ==
  ASSUME NEW table, NEW g \in Nat, IsTable(table), ListsFirstPairs(table, g),
         NEW n \in 0 .. MaxChain, NEW map \in MapsOfChains[n], get_group(map) >= g
  PROVE  \E q, m : IsPath(table, n, q, m) /\ m[n] = map
<1> DEFINE Good == {k \in 0 .. n : \A f \in MapsOfChains[k] : get_group(f) >= g =>
                      \E q, m : IsPath(table, k, q, m) /\ m[k] = f}
<1>1. MaxChain \in Nat /\ n \in Nat
  BY SearchAssumption
<1>2. 0 \in Good
  <2> DEFINE q == [k \in 1 .. 0 |-> 0]
             m == [k \in 0 .. 0 |-> identity]
  <2>1. q \in [1 .. 0 -> DOMAIN table.layers] /\ m \in [0 .. 0 -> Maps] /\ m[0] = identity
    BY IdentityType
  <2>2. IsPath(table, 0, q, m)
    <3> HIDE DEF q, m
    <3> QED
      BY <2>1 DEF IsPath
  <2> HIDE DEF q, m
  <2> QED
    BY <1>1, <2>1, <2>2, MapsOfChainsStep
<1>3. ASSUME NEW k \in 1 .. n, k - 1 \in Good PROVE k \in Good
  <2>1. SUFFICES ASSUME NEW f \in MapsOfChains[k], get_group(f) >= g
                 PROVE  \E q, m : IsPath(table, k, q, m) /\ m[k] = f
    OBVIOUS
  <2>2. PICK first \in MapsOfChains[k - 1], c \in Configs : f = apply_mapping(first, LayerMap(c))
    BY <1>1, MapsOfChainsStep DEF LayerMaps
  <2>3. first \in Maps /\ LayerMap(c) \in Maps /\ f \in Maps
    BY <1>1, <2>2, MapsOfChainsStep, LayerMapType
  <2>4. get_group(first) >= g /\ get_group(LayerMap(c)) >= g
    BY <2>1, <2>2, <2>3, CompositionAddsNoOutputs, GroupIsNat
  <2>5. PICK q, m : IsPath(table, k - 1, q, m) /\ m[k - 1] = first
    BY <1>3, <2>4
  <2>6. PICK e \in DOMAIN table.layers : table.layers[e].map = LayerMap(c)
    BY <2>4, LayerIsThere
  <2>7. PICK b \in Nat : b = k - 1 /\ b + 1 = k
    BY <1>1
  <2>8. IsPath(table, b, q, m) /\ f = apply_mapping(m[b], table.layers[e].map)
    BY <2>2, <2>5, <2>6, <2>7
  <2>9. /\ IsPath(table, b + 1, Longer(q, b, e), LongerMaps(m, b, f))
        /\ LongerMaps(m, b, f)[b + 1] = f
    BY <2>3, <2>8, PathGoesOn
  <2> QED
    BY <2>7, <2>9
<1>4. n \in Good
  <2>1. n \in 0 .. n
    BY <1>1
  <2> HIDE DEF Good
  <2> QED
    BY <1>1, <1>2, <1>3, <2>1, InductionTo
<1> QED
  BY <1>4

-----------------------------------------------------------------------------
(* The first one of several lists of numbers.                              *)

ComesBefore(p, q, n) ==
  \E i \in 1 .. n : (\A k \in 1 .. i - 1 : p[k] = q[k]) /\ p[i] < q[i]

LEMMA FirstOfLists ==
  ASSUME NEW n \in Nat, NEW A, A \subseteq [1 .. n -> Nat], A # {}
  PROVE  \E c \in A : \A d \in A : ~ ComesBefore(d, c, n)
<1> DEFINE Alike(c, d, k) == \A i \in 1 .. k : c[i] = d[i]
           Good == {k \in 0 .. n : \E c \in A : \A d \in A :
                      Alike(c, d, k) \/ ComesBefore(c, d, k)}
<1>1. 0 \in Good
  OBVIOUS
<1>2. ASSUME NEW k \in 1 .. n, k - 1 \in Good PROVE k \in Good
  <2>1. PICK b \in A : \A d \in A : Alike(b, d, k - 1) \/ ComesBefore(b, d, k - 1)
    BY <1>2
  <2> DEFINE nexts == {d[k] : d \in {a \in A : Alike(b, a, k - 1)}}
  <2>2. nexts \in SUBSET Nat /\ nexts # {}
    OBVIOUS
  <2>3. PICK least \in nexts : \A x \in nexts : least <= x
    <3> HIDE DEF nexts
    <3> QED
      BY <2>2, LeastMember
  <2>4. PICK c \in A : Alike(b, c, k - 1) /\ c[k] = least
    BY <2>3
  <2>5. ASSUME NEW d \in A PROVE Alike(c, d, k) \/ ComesBefore(c, d, k)
    <3>1. c \in [1 .. n -> Nat] /\ d \in [1 .. n -> Nat]
      OBVIOUS
    <3>2. CASE ComesBefore(b, d, k - 1)
      <4>1. PICK i \in 1 .. k - 1 : (\A j \in 1 .. i - 1 : b[j] = d[j]) /\ b[i] < d[i]
        BY <3>2 DEF ComesBefore
      <4>2. (\A j \in 1 .. i - 1 : c[j] = d[j]) /\ c[i] < d[i] /\ i \in 1 .. k
        BY <2>4, <4>1
      <4> QED
        BY <4>2 DEF ComesBefore
    <3>3. CASE Alike(b, d, k - 1)
      <4>1. c[k] <= d[k]
        <5>1. d[k] \in nexts
          BY <3>3
        <5> QED
          BY <2>3, <2>4, <5>1
      <4>2. Alike(c, d, k - 1)
        BY <2>4, <3>3
      <4>3. CASE c[k] = d[k]
        <5>1. \A i \in 1 .. k : i = k \/ i \in 1 .. k - 1
          OBVIOUS
        <5> QED
          BY <4>2, <4>3, <5>1
      <4>4. CASE c[k] # d[k]
        <5>1. c[k] < d[k] /\ k \in 1 .. k
          BY <3>1, <4>1, <4>4
        <5> QED
          BY <4>2, <5>1 DEF ComesBefore
      <4> QED
        BY <4>3, <4>4
    <3> QED
      BY <2>1, <3>2, <3>3
  <2> HIDE DEF Alike
  <2> QED
    BY <2>5
<1>3. n \in Good
  <2>1. n \in 0 .. n
    OBVIOUS
  <2> HIDE DEF Good
  <2> QED
    BY <1>1, <1>2, <2>1, InductionTo
<1>4. PICK c \in A : \A d \in A : Alike(c, d, n) \/ ComesBefore(c, d, n)
  BY <1>3
<1>5. ASSUME NEW d \in A, ComesBefore(d, c, n) PROVE FALSE
  <2>1. c \in [1 .. n -> Nat] /\ d \in [1 .. n -> Nat]
    OBVIOUS
  <2>2. PICK i \in 1 .. n : (\A k \in 1 .. i - 1 : d[k] = c[k]) /\ d[i] < c[i]
    BY <1>5 DEF ComesBefore
  <2>3. ~ Alike(c, d, n)
    BY <2>1, <2>2
  <2>4. PICK j \in 1 .. n : (\A k \in 1 .. j - 1 : c[k] = d[k]) /\ c[j] < d[j]
    BY <1>4, <2>3 DEF ComesBefore
  <2>5. c[i] \in Nat /\ d[i] \in Nat /\ c[j] \in Nat /\ d[j] \in Nat
    BY <2>1
  <2>6. i < j \/ i = j \/ j < i
    OBVIOUS
  <2> QED
    BY <2>2, <2>4, <2>5, <2>6
<1> QED
  BY <1>4, <1>5

-----------------------------------------------------------------------------
(* The shortest chains for a request, and the first one of them.           *)

TableOf(r) == Table[GroupOf(r)]

IsShortest(r, K) == K \in LengthsFor(r.goal) /\ \A n \in LengthsFor(r.goal) : K <= n

Solves(r, K, q, m) == IsPath(TableOf(r), K, q, m) /\ test_map(r.goal, m[K])

IsFirst(r, K, c, m) ==
  /\ Solves(r, K, c, m)
  /\ \A q, l : Solves(r, K, q, l) => ~ ComesBefore(q, c, K)

LEMMA TablesOfRequests ==
  ASSUME NEW r \in Requests
  PROVE  IsTable(TableOf(r)) /\ ListsFirstPairs(TableOf(r), GroupOf(r))
BY SearchAssumption, ShortestAssumption DEF TableOf

\* A map for the goal has the outputs the request's table is made for.
LEMMA GoalHasOutputs ==
  ASSUME NEW r \in Requests, IsUsual(r), NEW map \in Maps, test_map(r.goal, map)
  PROVE  GroupOf(r) \in Nat /\ get_group(map) >= GroupOf(r)
<1>1. r.goal \in Goals
  BY RequestFacts DEF IsRequest
<1>2. CASE r.solve_type = "exact"
  <2>1. \A v \in Values : r.goal[v] # Wild /\ map[v] = r.goal[v]
    BY <1>1, <1>2 DEF IsUsual, Determined, test_map, Goals
  <2>2. mins(r.goal) = map
    BY <2>1 DEF mins, Maps
  <2> QED
    BY <1>2, <2>2, GroupIsNat DEF GroupOf
<1>3. CASE r.solve_type # "exact"
  <2> DEFINE asked == {r.goal[v] : v \in Determined(r.goal)}
  <2>1. GroupOf(r) = IF Cardinality(asked) = 0 THEN 1 ELSE Cardinality(asked)
    BY <1>3 DEF GroupOf, get_min_group
  <2>2. asked \subseteq Image(map)
    BY <1>1 DEF Goals, Determined, test_map, Image
  <2>3. IsFiniteSet(Image(map))
    BY ImageIsFinite
  <2> HIDE DEF asked
  <2>4. Cardinality(asked) \in Nat /\ Cardinality(asked) <= Cardinality(Image(map))
    BY <2>2, <2>3, FS_Subset, FS_CardinalityType
  <2>5. Cardinality(Image(map)) \in Nat /\ Cardinality(Image(map)) # 0
    <3>1. map[0] \in Image(map)
      BY NAssumption DEF Image, Values
    <3> QED
      BY <2>3, <3>1, FS_CardinalityType, FS_EmptySet
  <2> QED
    BY <2>1, <2>4, <2>5 DEF get_group
<1> QED
  BY <1>2, <1>3

\* No path that meets the goal is shorter.
LEMMA NoneIsShorter ==
  ASSUME NEW r \in Requests, NEW K, IsShortest(r, K), NEW n \in 0 .. MaxChain,
         NEW q, NEW m, Solves(r, n, q, m)
  PROVE  K <= n
<1>1. n \in Nat /\ 0 \in 0 .. n /\ n \in 0 .. n /\ n - 0 = n
  BY SearchAssumption
<1>2. PICK rest \in MapsOfChains[n] : m[n] = apply_mapping(m[0], rest)
  <2>1. \E rest \in MapsOfChains[n - 0] : m[n] = apply_mapping(m[0], rest)
    BY <1>1, TablesOfRequests, PathIsInChains DEF Solves
  <2> QED
    BY <1>1, <2>1
<1>3. m[n] = rest
  <2>1. m[0] = identity /\ rest \in Maps
    BY <1>2, MapsOfChainsStep DEF Solves, IsPath
  <2> QED
    BY <1>2, <2>1, ApplyIdentity
<1>4. n \in LengthsFor(r.goal)
  BY <1>2, <1>3 DEF LengthsFor, Solves
<1> QED
  BY <1>4 DEF IsShortest

LEMMA FirstExists ==
  ASSUME NEW r \in Requests, IsUsual(r), NEW K, IsShortest(r, K)
  PROVE  K \in 0 .. MaxChain /\ \E c, m : IsFirst(r, K, c, m)
<1> DEFINE All == {q \in [1 .. K -> DOMAIN TableOf(r).layers] : \E m : Solves(r, K, q, m)}
<1>1. K \in 0 .. MaxChain /\ K \in Nat
  BY SearchAssumption DEF IsShortest, LengthsFor
<1>2. PICK map \in MapsOfChains[K] : test_map(r.goal, map)
  BY DEF IsShortest, LengthsFor
<1>3. map \in Maps
  BY <1>1, <1>2, MapsOfChainsStep
<1>4. PICK q, m : IsPath(TableOf(r), K, q, m) /\ m[K] = map
  BY <1>1, <1>2, <1>3, GoalHasOutputs, TablesOfRequests, ChainHasPath
<1>5. q \in All
  BY <1>2, <1>4 DEF IsPath, Solves
<1>6. All \subseteq [1 .. K -> Nat]
  BY TablesOfRequests, NumberedLayers
<1>7. PICK c \in All : \A d \in All : ~ ComesBefore(d, c, K)
  <2> HIDE DEF All
  <2> QED
    BY <1>1, <1>5, <1>6, FirstOfLists
<1>8. \A d, l : Solves(r, K, d, l) => d \in All
  BY DEF Solves, IsPath
<1>9. PICK l : Solves(r, K, c, l)
  BY <1>7
<1>10. IsFirst(r, K, c, l)
  <2> HIDE DEF All
  <2> QED
    BY <1>7, <1>8, <1>9 DEF IsFirst
<1> QED
  BY <1>1, <1>10

\* A path to a map on the first of the shortest chains is not shorter than
\* its part that leads there, and does not come before it.
LEMMA NoneIsBefore ==
  ASSUME NEW r \in Requests, NEW K, IsShortest(r, K), NEW c, NEW m, IsFirst(r, K, c, m),
         NEW i \in 0 .. K, NEW d \in 0 .. i, NEW q, NEW l,
         IsPath(TableOf(r), d, q, l), l[d] = m[i]
  PROVE  d = i /\ ~ ComesBefore(q, c, i)
<1> DEFINE n == d + (K - i)
           p == [k \in 1 .. n |-> IF k <= d THEN q[k] ELSE c[k - d + i]]
           o == [k \in 0 .. n |-> IF k <= d THEN l[k] ELSE m[k - d + i]]
           table == TableOf(r)
<1>1. /\ K \in 0 .. MaxChain /\ K \in Nat /\ i \in Nat /\ d \in Nat /\ n \in Nat
      /\ n <= K /\ n \in 0 .. MaxChain /\ MaxChain \in Nat
  BY SearchAssumption DEF IsShortest, LengthsFor
<1>2. /\ c \in [1 .. K -> DOMAIN table.layers] /\ m \in [0 .. K -> Maps]
      /\ \A k \in 1 .. K : m[k] = apply_mapping(m[k - 1], table.layers[c[k]].map)
      /\ test_map(r.goal, m[K])
  BY DEF IsFirst, Solves, IsPath
<1>3. /\ q \in [1 .. d -> DOMAIN table.layers] /\ l \in [0 .. d -> Maps] /\ l[0] = identity
      /\ \A k \in 1 .. d : l[k] = apply_mapping(l[k - 1], table.layers[q[k]].map)
  BY DEF IsPath
<1> HIDE DEF table
<1>4. p \in [1 .. n -> DOMAIN table.layers]
  BY <1>1, <1>2, <1>3
<1>5. o \in [0 .. n -> Maps] /\ o[0] = identity
  BY <1>1, <1>2, <1>3
<1>6. ASSUME NEW k \in 1 .. n
      PROVE  o[k] = apply_mapping(o[k - 1], table.layers[p[k]].map)
  <2>1. CASE k <= d
    <3>1. o[k] = l[k] /\ o[k - 1] = l[k - 1] /\ p[k] = q[k] /\ k \in 1 .. d
      BY <1>1, <2>1
    <3> HIDE DEF o, p
    <3> QED
      BY <1>3, <3>1
  <2>2. CASE ~ k <= d
    <3> DEFINE j == k - d + i
    <3>1. j \in 1 .. K /\ j - 1 = (k - 1) - d + i
      BY <1>1, <2>2
    <3>2. o[k] = m[j] /\ p[k] = c[j]
      BY <1>1, <2>2
    <3>3. o[k - 1] = m[j - 1]
      <4>1. CASE k - 1 <= d
        <5>1. k - 1 = d /\ j - 1 = i
          BY <1>1, <2>2, <4>1
        <5> QED
          BY <1>1, <5>1
      <4>2. CASE ~ k - 1 <= d
        BY <1>1, <3>1, <4>2
      <4> QED
        BY <4>1, <4>2
    <3> HIDE DEF o, p, j
    <3> QED
      BY <1>2, <3>1, <3>2, <3>3
  <2> QED
    BY <2>1, <2>2
<1>7. o[n] = m[K]
  <2>1. CASE n <= d
    <3>1. n = d /\ i = K
      BY <1>1, <2>1
    <3> QED
      BY <1>1, <3>1
  <2>2. CASE ~ n <= d
    BY <1>1, <2>2
  <2> QED
    BY <2>1, <2>2
<1>8. Solves(r, n, p, o)
  <2> HIDE DEF o, p, n
  <2> QED
    BY <1>2, <1>4, <1>5, <1>6, <1>7 DEF Solves, IsPath, table
<1>9. n = K /\ d = i
  <2>1. K <= n
    <3> HIDE DEF o, p, n
    <3> QED
      BY <1>1, <1>8, NoneIsShorter
  <2> QED
    BY <1>1, <2>1
<1>10. ASSUME ComesBefore(q, c, i) PROVE FALSE
  <2>1. PICK j \in 1 .. i : (\A k \in 1 .. j - 1 : q[k] = c[k]) /\ q[j] < c[j]
    BY <1>10 DEF ComesBefore
  <2>2. (\A k \in 1 .. j - 1 : p[k] = c[k]) /\ p[j] < c[j] /\ j \in 1 .. K
    BY <1>1, <1>9, <2>1
  <2>3. ComesBefore(p, c, K)
    <3> HIDE DEF p
    <3> QED
      BY <2>2 DEF ComesBefore
  <2> HIDE DEF o, p, n
  <2> QED
    BY <1>8, <1>9, <2>3 DEF IsFirst
<1> QED
  BY <1>9, <1>10

\* The maps of a path come from what chains compute, the last one from each
\* of the others too.
LEMMA RestOfPath ==
  ASSUME NEW r \in Requests, NEW K \in 0 .. MaxChain, NEW c, NEW m,
         IsPath(TableOf(r), K, c, m), NEW i \in 0 .. K
  PROVE  /\ K - i \in 0 .. MaxChain /\ i \in 0 .. MaxChain
         /\ m[i] \in MapsOfChains[i]
         /\ \E rest \in MapsOfChains[K - i] : rest \in Maps /\ m[K] = apply_mapping(m[i], rest)
<1>1. /\ MaxChain \in Nat /\ K \in Nat /\ i \in Nat /\ K - i \in 0 .. MaxChain
      /\ i \in 0 .. MaxChain /\ 0 \in 0 .. K /\ i \in 0 .. K /\ K \in i .. K /\ i - 0 = i
  BY SearchAssumption
<1>2. IsTable(TableOf(r))
  BY TablesOfRequests
<1>3. \A k \in 0 .. K : \A j \in k .. K :
        \E rest \in MapsOfChains[j - k] : m[j] = apply_mapping(m[k], rest)
  BY <1>2, PathIsInChains
<1>4. PICK first \in MapsOfChains[i - 0] : m[i] = apply_mapping(m[0], first)
  BY <1>1, <1>3
<1>5. m[i] \in MapsOfChains[i]
  <2>1. first \in MapsOfChains[i] /\ first \in Maps /\ m[0] = identity
    BY <1>1, <1>4, MapsOfChainsStep DEF IsPath
  <2> QED
    BY <1>4, <2>1, ApplyIdentity
<1>6. PICK rest \in MapsOfChains[K - i] : m[K] = apply_mapping(m[i], rest)
  BY <1>1, <1>3
<1>7. rest \in Maps
  BY <1>1, <1>6, MapsOfChainsStep
<1> QED
  BY <1>1, <1>5, <1>6, <1>7

\* What has enough outputs is made of what has.
LEMMA PartsHaveOutputs ==
  ASSUME NEW a \in Maps, NEW b \in Maps, NEW g \in Nat, get_group(apply_mapping(a, b)) >= g
  PROVE  get_group(a) >= g /\ get_group(b) >= g
<1>1. /\ get_group(apply_mapping(a, b)) <= get_group(a)
      /\ get_group(apply_mapping(a, b)) <= get_group(b)
  BY CompositionAddsNoOutputs
<1>2. get_group(a) \in Nat /\ get_group(b) \in Nat /\ get_group(apply_mapping(a, b)) \in Nat
  BY GroupIsNat, ApplyType
<1> QED
  BY <1>1, <1>2

\* The layers of the first shortest chain have the outputs of the goal, alone
\* and in pairs.
LEMMA FirstHasOutputs ==
  ASSUME NEW r \in Requests, IsUsual(r), NEW K, IsShortest(r, K), NEW c, NEW m,
         IsFirst(r, K, c, m), NEW i \in 1 .. K
  PROVE  /\ get_group(TableOf(r).layers[c[i]].map) >= GroupOf(r)
         /\ i > 1 => get_group(apply_mapping(TableOf(r).layers[c[i - 1]].map,
                                             TableOf(r).layers[c[i]].map)) >= GroupOf(r)
<1> DEFINE table == TableOf(r)
           Map(k) == table.layers[c[k]].map
<1>1. K \in 0 .. MaxChain /\ K \in Nat /\ MaxChain \in Nat
  BY SearchAssumption DEF IsShortest, LengthsFor
<1>2. /\ IsPath(table, K, c, m) /\ test_map(r.goal, m[K])
      /\ c \in [1 .. K -> DOMAIN table.layers] /\ m \in [0 .. K -> Maps]
      /\ \A k \in 1 .. K : m[k] = apply_mapping(m[k - 1], Map(k))
  BY DEF IsFirst, Solves, IsPath
<1>3. \A k \in 1 .. K : Map(k) \in Maps
  BY <1>2, TablesOfRequests, LayerFacts
<1> HIDE DEF table, Map
<1>4. get_group(m[K]) >= GroupOf(r) /\ GroupOf(r) \in Nat
  BY <1>1, <1>2, GoalHasOutputs
<1>5. get_group(m[i]) >= GroupOf(r)
  <2>1. i \in 0 .. K /\ m[i] \in Maps
    BY <1>1, <1>2
  <2>2. PICK rest \in Maps : m[K] = apply_mapping(m[i], rest)
    BY <1>1, <1>2, <2>1, RestOfPath DEF table
  <2> QED
    BY <1>4, <2>1, <2>2, PartsHaveOutputs
<1>6. get_group(Map(i)) >= GroupOf(r)
  <2>1. m[i] = apply_mapping(m[i - 1], Map(i)) /\ m[i - 1] \in Maps /\ Map(i) \in Maps
    BY <1>1, <1>2, <1>3
  <2> QED
    BY <1>4, <1>5, <2>1, PartsHaveOutputs
<1>7. ASSUME i > 1 PROVE get_group(apply_mapping(Map(i - 1), Map(i))) >= GroupOf(r)
  <2>1. /\ i - 1 \in 1 .. K /\ (i - 1) - 1 \in 0 .. K
    BY <1>1, <1>7
  <2> DEFINE first == m[(i - 1) - 1]
             pair == apply_mapping(Map(i - 1), Map(i))
  <2>2. /\ first \in Maps /\ Map(i - 1) \in Maps /\ Map(i) \in Maps
        /\ m[i] = apply_mapping(apply_mapping(first, Map(i - 1)), Map(i))
    BY <1>2, <1>3, <2>1
  <2> HIDE DEF first
  <2>3. m[i] = apply_mapping(first, pair) /\ pair \in Maps
    BY <2>2, ApplyIsAssociative, ApplyType
  <2> HIDE DEF pair
  <2>4. get_group(pair) >= GroupOf(r)
    BY <1>4, <1>5, <2>2, <2>3, PartsHaveOutputs
  <2> QED
    BY <2>4 DEF pair
<1> QED
  BY <1>6, <1>7 DEF table, Map

\* The first of the shortest chains follows the rows of the table: the pair
\* that a row leaves out is computed by one listed before, with which the
\* chain would come before this one.
LEMMA FirstFollowsRows ==
  ASSUME NEW r \in Requests, IsUsual(r), NEW K, IsShortest(r, K), NEW c, NEW m,
         IsFirst(r, K, c, m), NEW i \in 1 .. K
  PROVE  Lists(TableOf(r), IF i = 1 THEN 0 ELSE c[i - 1], c[i])
<1> DEFINE table == TableOf(r)
           ids == DOMAIN table.layers
           Map(k) == table.layers[k].map
           before == IF i = 1 THEN 0 ELSE c[i - 1]
<1>1. K \in 0 .. MaxChain /\ K \in Nat /\ MaxChain \in Nat
  BY SearchAssumption DEF IsShortest, LengthsFor
<1>2. /\ IsPath(table, K, c, m)
      /\ c \in [1 .. K -> ids] /\ m \in [0 .. K -> Maps] /\ m[0] = identity
      /\ \A k \in 1 .. K : m[k] = apply_mapping(m[k - 1], Map(c[k]))
  BY DEF IsFirst, Solves, IsPath
<1>3. /\ IsTable(table) /\ ListsFirstPairs(table, GroupOf(r)) /\ ids \subseteq Nat
      /\ 0 \in ids /\ Map(0) = identity
      /\ \A k \in ids : Map(k) \in Maps
  <2>1. IsTable(table) /\ ListsFirstPairs(table, GroupOf(r))
    BY TablesOfRequests
  <2>2. \A k \in ids : Map(k) \in Maps
    BY <2>1, LayerFacts
  <2> QED
    BY <2>1, <2>2, NumberedLayers DEF IsTable
<1>4. before \in ids /\ c[i] \in ids
  <2>1. i # 1 => i - 1 \in 1 .. K
    BY <1>1
  <2> HIDE DEF ids, Map
  <2> QED
    BY <1>2, <1>3, <2>1
<1> DEFINE start == IF i = 1 THEN 0 ELSE i - 2   \* where the pair begins
<1>5. start \in 0 .. K /\ start < i /\ start \in Nat /\ m[start] \in Maps
  BY <1>1, <1>2
<1>6. m[i] = apply_mapping(m[start], apply_mapping(Map(before), Map(c[i])))
  <2>1. CASE i = 1
    <3>1. m[i] = apply_mapping(m[0], Map(c[i])) /\ start = 0 /\ before = 0
      BY <1>1, <1>2, <2>1
    <3> QED
      BY <1>3, <1>4, <3>1, ApplyIdentity
  <2>2. CASE i # 1
    <3>1. /\ i - 1 \in 1 .. K /\ (i - 1) - 1 = start /\ before = c[i - 1]
      BY <1>1, <2>2
    <3>2. m[i] = apply_mapping(m[i - 1], Map(c[i])) /\ m[i - 1] = apply_mapping(m[start], Map(before))
      BY <1>2, <3>1
    <3> HIDE DEF start, before, Map, ids
    <3>3. Map(before) \in Maps /\ Map(c[i]) \in Maps
      BY <1>3, <1>4
    <3> QED
      BY <1>5, <3>2, <3>3, ApplyIsAssociative
  <2> QED
    BY <2>1, <2>2
<1>7. get_group(apply_mapping(Map(before), Map(c[i]))) >= GroupOf(r)
  <2>1. CASE i = 1
    BY <1>3, <1>4, <2>1, ApplyIdentity, FirstHasOutputs
  <2>2. CASE i # 1
    BY <1>1, <2>2, FirstHasOutputs
  <2> QED
    BY <2>1, <2>2
<1> HIDE DEF table, ids, Map, before, start
<1>8. IsPath(table, start, [k \in 1 .. start |-> c[k]], [k \in 0 .. start |-> m[k]])
  BY <1>1, <1>2, <1>5, PathBegins
<1>9. apply_mapping(Map(before), Map(c[i])) # identity
  <2> SUFFICES ASSUME apply_mapping(Map(before), Map(c[i])) = identity PROVE FALSE
    OBVIOUS
  <2> DEFINE l == [k \in 0 .. start |-> m[k]]
  <2>1. m[i] = m[start] /\ l[start] = m[start]
    BY <1>5, <1>6, ApplyIdentity
  <2> HIDE DEF l
  <2>2. IsPath(table, start, [k \in 1 .. start |-> c[k]], l) /\ l[start] = m[i]
    BY <1>8, <2>1 DEF l
  <2>3. start \in 0 .. i /\ i \in 0 .. K
    BY <1>1, <1>5
  <2> QED
    BY <1>5, <2>2, <2>3, NoneIsBefore DEF table
<1>10. PICK h, e \in ids :
         /\ Lists(table, h, e)
         /\ h < before \/ (h = before /\ e <= c[i])
         /\ apply_mapping(Map(h), Map(e)) = apply_mapping(Map(before), Map(c[i]))
  BY <1>3, <1>4, <1>7, <1>9, PairIsFirst DEF Map, ids
<1>11. h = before /\ e = c[i]
  <2> SUFFICES ASSUME ~ (h = before /\ e = c[i]) PROVE FALSE
    OBVIOUS
  <2>1. h < before \/ (h = before /\ e < c[i])
    <3>1. h \in Nat /\ e \in Nat /\ before \in Nat /\ c[i] \in Nat
      BY <1>3, <1>4
    <3> QED
      BY <1>10, <3>1
  <2>2. CASE i = 1
    <3>1. before = 0 /\ start = 0
      BY <2>2 DEF before, start
    <3>2. h = 0 /\ e < c[i]
      BY <1>3, <2>1, <3>1
    <3> DEFINE q == [k \in 1 .. 1 |-> e]
               l == [k \in 0 .. 1 |-> IF k = 0 THEN identity ELSE Map(e)]
    <3>3. q \in [1 .. 1 -> ids] /\ l \in [0 .. 1 -> Maps] /\ l[0] = identity
      BY <1>3, IdentityType
    <3>4. \A k \in 1 .. 1 : l[k] = apply_mapping(l[k - 1], Map(q[k]))
      BY <1>3, ApplyIdentity
    <3>5. l[1] = m[1]
      BY <1>2, <1>3, <1>4, <1>6, <1>10, <2>2, <3>1, <3>2, ApplyIdentity
    <3>6. ComesBefore(q, c, 1)
      BY <2>2, <3>2 DEF ComesBefore
    <3> HIDE DEF q, l
    <3>7. IsPath(table, 1, q, l)
      BY <3>3, <3>4 DEF IsPath, ids, Map
    <3>8. 1 \in 0 .. 1 /\ 1 \in 0 .. K
      BY <1>1, <2>2
    <3> QED
      BY <3>5, <3>6, <3>7, <3>8, NoneIsBefore DEF table
  <2>3. CASE i # 1
    <3>1. start = i - 2 /\ before = c[i - 1]
      BY <2>3 DEF start, before
    <3> DEFINE mid == apply_mapping(m[start], Map(h))
               p == [k \in 1 .. start |-> c[k]]
               o == [k \in 0 .. start |-> m[k]]
               p1 == Longer(p, start, h)
               o1 == LongerMaps(o, start, mid)
               p2 == Longer(p1, start + 1, e)
               o2 == LongerMaps(o1, start + 1, m[i])
    <3>2. mid \in Maps /\ m[i] \in Maps
      BY <1>1, <1>2, <1>3, <1>5, ApplyType
    <3>3. o[start] = m[start]
      BY <1>5
    <3>4. mid = apply_mapping(o[start], table.layers[h].map)
      BY <3>3 DEF Map
    <3>5. m[i] = apply_mapping(mid, table.layers[e].map)
      <4>1. mid = apply_mapping(m[start], Map(h))
        OBVIOUS
      <4> HIDE DEF mid
      <4>2. m[i] = apply_mapping(mid, Map(e))
        BY <1>3, <1>5, <1>6, <1>10, <4>1, ApplyIsAssociative
      <4> QED
        BY <4>2 DEF Map
    <3>6. IsPath(table, start, p, o)
      BY <1>8
    <3>7. /\ \A k \in 1 .. start : p2[k] = c[k]
          /\ p2[start + 1] = h /\ p2[start + 2] = e
      BY <1>5 DEF Longer
    <3> HIDE DEF p, o, mid
    <3>8. IsPath(table, start + 1, p1, o1) /\ o1[start + 1] = mid
      BY <1>5, <1>10, <3>2, <3>4, <3>6, PathGoesOn DEF ids
    <3> HIDE DEF p1, o1
    <3>9. IsPath(table, (start + 1) + 1, p2, o2) /\ o2[(start + 1) + 1] = m[i]
      <4>1. start + 1 \in Nat
        BY <1>5
      <4>2. m[i] = apply_mapping(o1[start + 1], table.layers[e].map)
        BY <3>5, <3>8
      <4> QED
        BY <1>10, <3>2, <3>8, <4>1, <4>2, PathGoesOn DEF ids
    <3> HIDE DEF p2, o2
    <3>10. (start + 1) + 1 = i /\ start + 2 = i /\ start + 1 = i - 1 /\ i - 1 \in 1 .. i
           /\ i \in 0 .. i /\ i \in 0 .. K /\ i \in 1 .. i
      BY <1>1, <1>5, <2>3, <3>1
    <3>11. IsPath(table, i, p2, o2) /\ o2[i] = m[i]
      BY <3>9, <3>10
    <3>12. ComesBefore(p2, c, i)
      <4>1. \A k \in 1 .. (i - 1) - 1 : p2[k] = c[k]
        <5>1. (i - 1) - 1 = start
          BY <1>5, <3>1
        <5> QED
          BY <3>7, <5>1
      <4>2. p2[i - 1] = h /\ p2[i] = e
        BY <3>7, <3>10
      <4>3. CASE h < before
        BY <3>1, <3>10, <4>1, <4>2, <4>3 DEF ComesBefore
      <4>4. CASE h = before /\ e < c[i]
        <5>1. \A k \in 1 .. i - 1 : k = i - 1 \/ k \in 1 .. (i - 1) - 1
          BY <3>10
        <5>2. \A k \in 1 .. i - 1 : p2[k] = c[k]
          BY <3>1, <4>1, <4>2, <4>4, <5>1
        <5> QED
          BY <3>10, <4>2, <4>4, <5>2 DEF ComesBefore
      <4> QED
        BY <2>1, <4>3, <4>4
    <3> QED
      BY <3>10, <3>11, <3>12, NoneIsBefore DEF table
  <2> QED
    BY <2>2, <2>3
<1> QED
  BY <1>10, <1>11 DEF table, before

LEMMA RestOfFirst ==
  ASSUME NEW r \in Requests, NEW K \in 0 .. MaxChain, NEW c, NEW m,
         IsFirst(r, K, c, m), NEW i \in 0 .. K
  PROVE  \E rest \in MapsOfChains[K - i] : rest \in Maps /\ m[K] = apply_mapping(m[i], rest)
<1>1. IsPath(TableOf(r), K, c, m)
  BY DEF IsFirst, Solves
<1> QED
  BY <1>1, RestOfPath

\* The distance check passes the maps along it, if it drops none.
LEMMA FirstIsLegal ==
  ASSUME NEW r \in Requests, IsUsual(r), NoneIsDropped(r), NEW K, IsShortest(r, K),
         NEW c, NEW m, IsFirst(r, K, c, m), NEW i \in 1 .. K - 1
  PROVE  legal_dist(r.goal, m[i], get_dist_threshold(r.accuracy, GroupOf(r), K - i))
<1>1. K \in 0 .. MaxChain /\ K \in Nat /\ MaxChain \in Nat
  BY SearchAssumption DEF IsShortest, LengthsFor
<1>2. IsPath(TableOf(r), K, c, m) /\ m \in [0 .. K -> Maps] /\ m[0] = identity
      /\ test_map(r.goal, m[K])
  BY DEF IsFirst, Solves, IsPath
<1>3. /\ i \in 0 .. K /\ i \in 1 .. MaxChain /\ K - i \in 1 .. MaxChain /\ i + (K - i) = K
  BY <1>1
<1>4. m[i] \in MapsOfChains[i]
  BY <1>1, <1>2, <1>3, RestOfPath
<1>5. PICK rest \in MapsOfChains[K - i] : rest \in Maps /\ m[K] = apply_mapping(m[i], rest)
  <2>1. i \in 0 .. K /\ K \in 0 .. MaxChain
    BY <1>1, <1>3
  <2> QED
    BY <2>1, RestOfFirst
<1>6. LeadsTo(r.goal, m[i], K - i)
  <2>1. test_map(r.goal, apply_mapping(m[i], rest))
    BY <1>2, <1>5
  <2>2. ASSUME NEW v \in Determined(r.goal), NEW w \in Determined(r.goal), m[i][v] = m[i][w]
        PROVE  r.goal[v] = r.goal[w]
    <3>1. v \in Values /\ w \in Values
      BY RequestFacts DEF IsRequest, Determined, Goals
    <3>2. r.goal[v] = rest[m[i][v]] /\ r.goal[w] = rest[m[i][w]]
      BY <2>1, <3>1 DEF test_map, apply_mapping
    <3> QED
      BY <2>2, <3>2
  <2> QED
    BY <1>5, <2>1, <2>2 DEF LeadsTo
<1>7. i + (K - i) \in LengthsFor(r.goal) /\ \A n \in LengthsFor(r.goal) : i + (K - i) <= n
  BY <1>3 DEF IsShortest
<1> QED
  BY <1>3, <1>4, <1>6, <1>7 DEF NoneIsDropped

-----------------------------------------------------------------------------
(* The search for it.                                                      *)

\* The layer e is in a lane of layer i's row.
IsLaneOf(i, lane, e) ==
  /\ lane \in 0 .. Tab.layers[i].next_layer_count - 1
  /\ Tab.next_layer_array[Tab.layers[i].next_layers + lane + 1] = e

\* The chain that the search must not lose.
MustFind(K, c, m) ==
  /\ IsUsual(request) /\ NoneIsDropped(request)
  /\ IsShortest(request, K) /\ IsFirst(request, K, c, m)

\* It may still be found: the calls up to some height go along it, and there
\* the search is about to look for the next layer, or has staged it and went
\* on with layers before it only.  No map further on the chain is known to the
\* cache so that it would be skipped.
IsAhead(K, c, m, j) ==
  /\ j <= Depth
  /\ \A k \in 1 .. j : stack[k + 1].layer = c[k]
  /\ \/ pc = "visit" /\ j = Depth
     \/ \E lane \in stack[j + 1].staged :
          /\ IsLaneOf(stack[j + 1].layer, lane, c[j + 1])
          /\ j < Depth => stack[j + 2].layer < c[j + 1]
  /\ \A i \in j + 1 .. K - 1 : ~ MainCache!Hit(m[i], i - 1)

FirstIsAhead ==
  \A K, c, m :
    MustFind(K, c, m) /\ pc \in {"visit", "expand"} /\ ~ InPresearch /\ bfs_depth = K =>
      \E j \in 0 .. K - 1 : IsAhead(K, c, m, j)

\* The main search runs with the accuracy asked for.
MainIsAccurate ==
  pc \in {"iterate", "visit", "expand", "returned"} /\ ~ InPresearch =>
    accuracy = request.accuracy

LEMMA LaneFacts ==
  ASSUME request \in Requests, NEW i \in LayerIds, NEW lane, NEW e, IsLaneOf(i, lane, e)
  PROVE  /\ NextLayers(Tab.layers[i], lane) = {e} /\ e \in LayerIds
         /\ LaneMap(Tab.layers[i], lane) = Tab.layers[e].map
         /\ lane \in Lanes(Tab.layers[i]) /\ lane \in Nat
<1> DEFINE layer == Tab.layers[i]
<1>1. /\ IsRow(Tab, layer) /\ layer.next_layers \in Nat /\ layer.next_layer_count \in Nat
      /\ Tab.next_layer_array \in Seq(LayerIds)
  BY TableFacts
<1>2. /\ lane \in 0 .. layer.next_layer_count - 1
      /\ Tab.next_layer_array[layer.next_layers + lane + 1] = e
  BY DEF IsLaneOf
<1> HIDE DEF layer
<1>3. lane \in Lanes(layer) /\ lane \in Nat
  <2> DEFINE n == layer.next_layer_count
  <2>1. n <= round_up(n, MAP_ARRAY_ALIGNMENT) /\ round_up(n, MAP_ARRAY_ALIGNMENT) \in Nat
    BY <1>1, RoundedUp, AlignmentAssumption
  <2> QED
    BY <1>1, <1>2, <2>1 DEF Lanes
<1>4. LaneMap(layer, lane) = Tab.layers[e].map
  BY <1>1, <1>2, <1>3 DEF IsRow, LaneMap, MapOf
<1>5. layer.next_layers + lane + 1 \in 1 .. Len(Tab.next_layer_array) /\ InsideArray(layer, lane)
  BY <1>1, <1>2 DEF IsRow, InsideArray
<1> QED
  BY <1>1, <1>2, <1>3, <1>4, <1>5 DEF NextLayers, layer

\* The lanes before it hold layers before it.
LEMMA EarlierLane ==
  ASSUME request \in Requests, NEW i \in LayerIds, NEW lane, NEW e, IsLaneOf(i, lane, e),
         NEW l \in Nat, l < lane, NEW next \in NextLayers(Tab.layers[i], l)
  PROVE  next < e
<1> DEFINE layer == Tab.layers[i]
           Row == [k \in 1 .. layer.next_layer_count |->
                     Tab.next_layer_array[layer.next_layers + k]]
<1>1. layer.next_layers \in Nat /\ layer.next_layer_count \in Nat
  BY TableFacts
<1>2. \A k, n \in DOMAIN Row : k < n => Row[k] < Row[n]
  BY TablesOfRequests DEF ListsFirstPairs, TableOf, Tab, LayerIds
<1>3. /\ lane \in 0 .. layer.next_layer_count - 1
      /\ Tab.next_layer_array[layer.next_layers + lane + 1] = e
  BY DEF IsLaneOf
<1>4. IsLaneOf(i, l, next)
  <2>1. l \in 0 .. layer.next_layer_count - 1
    BY <1>1, <1>3
  <2>2. IsLaneOf(i, l, Tab.next_layer_array[layer.next_layers + l + 1])
    BY <2>1 DEF IsLaneOf
  <2> QED
    BY <2>2, LaneFacts
<1>5. Tab.next_layer_array[layer.next_layers + l + 1] = next
  BY <1>4 DEF IsLaneOf
<1> HIDE DEF layer
<1>6. l + 1 \in 1 .. layer.next_layer_count /\ lane + 1 \in 1 .. layer.next_layer_count
      /\ l + 1 < lane + 1
  BY <1>1, <1>3
<1>7. Row[l + 1] = next /\ Row[lane + 1] = e
  <2>1. /\ layer.next_layers + (l + 1) = layer.next_layers + l + 1
        /\ layer.next_layers + (lane + 1) = layer.next_layers + lane + 1
    BY <1>1, <1>3
  <2> QED
    BY <1>3, <1>5, <1>6, <2>1
<1> QED
  BY <1>2, <1>6, <1>7

\* What is known of the chain that must be found.
LEMMA MustFindFacts ==
  ASSUME request \in Requests, NEW K, NEW c, NEW m, MustFind(K, c, m)
  PROVE  /\ K \in Nat /\ K \in 0 .. MaxChain /\ LayerIds \subseteq Nat
         /\ c \in [1 .. K -> LayerIds] /\ m \in [0 .. K -> Maps] /\ m[0] = identity
         /\ \A k \in 1 .. K : m[k] = apply_mapping(m[k - 1], Tab.layers[c[k]].map)
         /\ test_map(request.goal, m[K])
         /\ \A k \in 1 .. K : \E lane : IsLaneOf(IF k = 1 THEN 0 ELSE c[k - 1], lane, c[k])
<1>1. K \in Nat /\ K \in 0 .. MaxChain
  BY SearchAssumption DEF MustFind, IsShortest, LengthsFor
<1>2. LayerIds \subseteq Nat
  BY TablesOfRequests, NumberedLayers DEF LayerIds, TableOf, Tab
<1>3. /\ c \in [1 .. K -> LayerIds] /\ m \in [0 .. K -> Maps] /\ m[0] = identity
      /\ \A k \in 1 .. K : m[k] = apply_mapping(m[k - 1], Tab.layers[c[k]].map)
      /\ test_map(request.goal, m[K])
  BY DEF MustFind, IsFirst, Solves, IsPath, TableOf, Tab, LayerIds
<1>4. ASSUME NEW k \in 1 .. K
      PROVE  \E lane : IsLaneOf(IF k = 1 THEN 0 ELSE c[k - 1], lane, c[k])
  <2> DEFINE before == IF k = 1 THEN 0 ELSE c[k - 1]
  <2>1. Lists(Tab, before, c[k])
    BY FirstFollowsRows DEF MustFind, TableOf, Tab
  <2>2. before \in LayerIds
    <3>1. k # 1 => k - 1 \in 1 .. K
      BY <1>1
    <3> QED
      BY <1>3, <3>1, TableFacts
  <2> HIDE DEF before
  <2>3. Tab.layers[before].next_layer_count \in Nat /\ Tab.layers[before].next_layers \in Nat
    BY <2>2, TableFacts
  <2>4. PICK l \in 1 .. Tab.layers[before].next_layer_count :
          Tab.next_layer_array[Tab.layers[before].next_layers + l] = c[k]
    BY <2>1 DEF Lists
  <2>5. /\ l - 1 \in 0 .. Tab.layers[before].next_layer_count - 1
        /\ Tab.layers[before].next_layers + (l - 1) + 1 = Tab.layers[before].next_layers + l
    BY <2>3
  <2>6. IsLaneOf(before, l - 1, c[k])
    BY <2>4, <2>5 DEF IsLaneOf
  <2> QED
    BY <2>6 DEF before
<1> QED
  BY <1>1, <1>2, <1>3, <1>4

\* The calls of dfs are a path.
PathLayers == [k \in 1 .. Depth |-> stack[k + 1].layer]
PathTo == [k \in 0 .. Depth |-> stack[k + 1].map]

LEMMA StackIsPath ==
  ASSUME SearchInv, pc \in {"visit", "expand"}
  PROVE  /\ IsPath(Tab, Depth, PathLayers, PathTo) /\ Depth \in Nat
         /\ PathTo[Depth] = Top.map
<1>1. /\ stack \in Seq(Frames) /\ Len(stack) \in Nat /\ Len(stack) >= 1
      /\ Depth \in Nat /\ Depth + 1 = Len(stack)
  BY StackFacts DEF Depth
<1>2. \A k \in 1 .. Len(stack) : stack[k].map \in Maps /\ stack[k].layer \in LayerIds
  <2>1. \A k \in 1 .. Len(stack) : stack[k] \in Frames
    BY <1>1
  <2> QED
    BY <2>1 DEF Frames
<1>3. PathLayers \in [1 .. Depth -> LayerIds] /\ PathTo \in [0 .. Depth -> Maps]
  <2>1. \A k \in 0 .. Depth : k + 1 \in 1 .. Len(stack)
    BY <1>1
  <2> HIDE DEF Depth
  <2> QED
    BY <1>1, <1>2, <2>1 DEF PathLayers, PathTo
<1>4. PathTo[0] = identity /\ PathTo[Depth] = Top.map
  <2>1. stack[1].map = identity
    BY <1>1 DEF SearchInv, StackIsChain
  <2>2. 0 \in 0 .. Depth /\ Depth \in 0 .. Depth
    BY <1>1
  <2>3. PathTo[0] = stack[0 + 1].map /\ PathTo[Depth] = stack[Depth + 1].map
    <3> HIDE DEF Depth
    <3> QED
      BY <2>2 DEF PathTo
  <2> QED
    BY <1>1, <2>1, <2>3 DEF Top
<1>5. ASSUME NEW k \in 1 .. Depth
      PROVE  PathTo[k] = apply_mapping(PathTo[k - 1], Tab.layers[PathLayers[k]].map)
  <2>1. k \in 1 .. Len(stack) - 1 /\ k \in 0 .. Depth /\ k - 1 \in 0 .. Depth /\ (k - 1) + 1 = k
    BY <1>1
  <2>2. stack[k + 1].map = apply_mapping(stack[k].map, Tab.layers[stack[k + 1].layer].map)
    BY <1>1, <2>1 DEF SearchInv, StackIsChain
  <2>3. PathTo[k] = stack[k + 1].map /\ PathTo[k - 1] = stack[k].map
        /\ PathLayers[k] = stack[k + 1].layer
    BY <2>1 DEF PathTo, PathLayers
  <2> QED
    BY <2>2, <2>3
<1> QED
  BY <1>1, <1>3, <1>4, <1>5 DEF IsPath, LayerIds

\* Calls that go along the chain have its maps.
LEMMA MapsAlong ==
  ASSUME SearchInv, pc \in {"visit", "expand"}, StagedIsInRow, NEW K, NEW c, NEW m,
         MustFind(K, c, m), NEW j \in 0 .. K, j <= Depth,
         \A k \in 1 .. j : stack[k + 1].layer = c[k]
  PROVE  /\ stack[j + 1].map = m[j]
         /\ stack[j + 1].layer = IF j = 0 THEN 0 ELSE c[j]
         /\ j < K => \E lane : IsLaneOf(stack[j + 1].layer, lane, c[j + 1])
<1>1. /\ stack \in Seq(Frames) /\ Len(stack) \in Nat /\ Len(stack) >= 1
      /\ Depth \in Nat /\ Depth + 1 = Len(stack) /\ request \in Requests
  BY StackFacts DEF Depth
<1>2. /\ K \in Nat /\ m[0] = identity
      /\ \A k \in 1 .. K : m[k] = apply_mapping(m[k - 1], Tab.layers[c[k]].map)
      /\ \A k \in 1 .. K : \E lane : IsLaneOf(IF k = 1 THEN 0 ELSE c[k - 1], lane, c[k])
  BY <1>1, MustFindFacts
<1>3. stack[1].map = identity /\ stack[1].layer = 0
  BY <1>1 DEF SearchInv, StackIsChain, StagedIsInRow
<1> DEFINE Same == {k \in 0 .. j : stack[k + 1].map = m[k]}
<1>4. 0 \in Same
  BY <1>2, <1>3
<1>5. ASSUME NEW k \in 1 .. j, k - 1 \in Same PROVE k \in Same
  <2>1. k \in 1 .. Len(stack) - 1 /\ k \in 1 .. K /\ (k - 1) + 1 = k /\ k \in 0 .. j
    BY <1>1, <1>2
  <2>2. stack[k + 1].map = apply_mapping(stack[k].map, Tab.layers[stack[k + 1].layer].map)
    BY <1>1, <2>1 DEF SearchInv, StackIsChain
  <2>3. stack[k].map = m[k - 1]
    BY <1>5, <2>1
  <2> QED
    BY <1>2, <2>1, <2>2, <2>3
<1>6. stack[j + 1].map = m[j]
  <2>1. j \in Nat /\ j \in 0 .. j
    BY <1>2
  <2> HIDE DEF Same
  <2>2. j \in Same
    BY <1>4, <1>5, <2>1, InductionTo
  <2> QED
    BY <2>2 DEF Same
<1>7. stack[j + 1].layer = IF j = 0 THEN 0 ELSE c[j]
  BY <1>2, <1>3
<1>8. ASSUME j < K PROVE \E lane : IsLaneOf(stack[j + 1].layer, lane, c[j + 1])
  <2>1. j + 1 \in 1 .. K /\ (j + 1) - 1 = j /\ (j + 1 = 1 <=> j = 0)
    BY <1>2, <1>8
  <2>2. \E lane : IsLaneOf(IF j + 1 = 1 THEN 0 ELSE c[(j + 1) - 1], lane, c[j + 1])
    BY <1>2, <2>1
  <2> QED
    BY <1>7, <2>1, <2>2
<1> QED
  BY <1>6, <1>7, <1>8

-----------------------------------------------------------------------------
(* The steps of dfs in the iteration that is as long as the chain.         *)

Going(K, c, m, j) ==
  /\ SearchInv /\ StagedIsInRow /\ MainIsAccurate
  /\ MustFind(K, c, m) /\ pc \in {"visit", "expand"} /\ ~ InPresearch /\ bfs_depth = K
  /\ j \in 0 .. K - 1 /\ IsAhead(K, c, m, j)

LEMMA GoingFacts ==
  ASSUME NEW K, NEW c, NEW m, NEW j, Going(K, c, m, j)
  PROVE  /\ K \in Nat /\ j \in Nat /\ j <= Depth /\ Depth < K /\ Depth \in Nat
         /\ stack \in Seq(Frames) /\ Len(stack) = Depth + 1 /\ Top = stack[Depth + 1]
         /\ request \in Requests /\ accuracy = request.accuracy
         /\ stack[j + 1].map = m[j] /\ m[j] \in Maps /\ stack[j + 1].layer \in LayerIds
         /\ \E lane : IsLaneOf(stack[j + 1].layer, lane, c[j + 1])
         /\ c[j + 1] \in LayerIds
         /\ m[j + 1] = apply_mapping(m[j], Tab.layers[c[j + 1]].map)
<1>1. /\ SearchInv /\ pc \in {"visit", "expand"} /\ MustFind(K, c, m) /\ StagedIsInRow
      /\ j \in 0 .. K - 1 /\ IsAhead(K, c, m, j)
  BY DEF Going
<1>2. /\ stack \in Seq(Frames) /\ Len(stack) \in Nat /\ Len(stack) >= 1
      /\ Len(stack) = Depth + 1 /\ Depth \in Nat /\ Top = stack[Depth + 1]
      /\ Len(stack) <= bfs_depth /\ request \in Requests
  BY <1>1, StackFacts DEF Depth, Top
<1>3. /\ K \in Nat /\ c \in [1 .. K -> LayerIds] /\ m \in [0 .. K -> Maps]
      /\ \A k \in 1 .. K : m[k] = apply_mapping(m[k - 1], Tab.layers[c[k]].map)
  BY <1>1, <1>2, MustFindFacts
<1>4. j \in Nat /\ j \in 0 .. K /\ j < K /\ j + 1 \in 1 .. K /\ (j + 1) - 1 = j
  BY <1>1, <1>3
<1>5. j <= Depth /\ \A k \in 1 .. j : stack[k + 1].layer = c[k]
  BY <1>1 DEF IsAhead
<1>6. /\ stack[j + 1].map = m[j]
      /\ \E lane : IsLaneOf(stack[j + 1].layer, lane, c[j + 1])
  BY <1>1, <1>4, <1>5, MapsAlong
<1>7. stack[j + 1].layer \in LayerIds
  <2>1. j + 1 \in 1 .. Len(stack)
    BY <1>2, <1>4, <1>5
  <2>2. stack[j + 1] \in Frames
    BY <1>2, <2>1
  <2> QED
    BY <2>2 DEF Frames
<1>8. Depth < K
  <2>1. Depth + 1 <= K
    BY <1>1, <1>2 DEF Going
  <2> QED
    BY <1>2, <1>3, <2>1
<1>9. accuracy = request.accuracy
  BY <1>1 DEF Going, MainIsAccurate
<1>10. m[j] \in Maps /\ c[j + 1] \in LayerIds
       /\ m[j + 1] = apply_mapping(m[j], Tab.layers[c[j + 1]].map)
  BY <1>3, <1>4
<1> QED
  BY <1>2, <1>3, <1>4, <1>5, <1>6, <1>7, <1>8, <1>9, <1>10

\* A step after which the next layer of the chain is still staged.
LEMMA StillStaged ==
  ASSUME NEW K, NEW c, NEW m, NEW j, Going(K, c, m, j), UNCHANGED request,
         j <= Depth', \A k \in 1 .. j + 1 : stack'[k].layer = stack[k].layer,
         NEW lane \in stack'[j + 1].staged, IsLaneOf(stack[j + 1].layer, lane, c[j + 1]),
         j < Depth' => stack'[j + 2].layer < c[j + 1],
         \A i \in j + 1 .. K - 1 : ~ MainCache!Hit(m[i], i - 1)'
  PROVE  IsAhead(K, c, m, j)'
<1>1. j \in Nat
  BY GoingFacts
<1>2. \A k \in 1 .. j : stack'[k + 1].layer = c[k]
  <2>1. \A k \in 1 .. j : k + 1 \in 1 .. j + 1
    BY <1>1
  <2> QED
    BY <2>1 DEF Going, IsAhead
<1>3. IsLaneOf(stack[j + 1].layer, lane, c[j + 1])' /\ stack'[j + 1].layer = stack[j + 1].layer
  <2>1. Tab' = Tab /\ stack'[j + 1].layer = stack[j + 1].layer
    BY <1>1 DEF Tab
  <2> QED
    BY <2>1 DEF IsLaneOf
<1> QED
  BY <1>2, <1>3 DEF IsAhead

\* Where the cache does not change, it does not come to know a map.
LEMMA StillUnknown ==
  ASSUME NEW K, NEW c, NEW m, NEW j, IsAhead(K, c, m, j), UNCHANGED <<array, global_trial>>
  PROVE  \A i \in j + 1 .. K - 1 : ~ MainCache!Hit(m[i], i - 1)'
BY DEF IsAhead, MainCache!Hit

\* The last layer is found where the chain needs it.
LEMMA MissLastKeeps ==
  ASSUME NEW K, NEW c, NEW m, NEW j, Going(K, c, m, j), MissLast
  PROVE  IsAhead(K, c, m, j)'
<1>1. /\ pc = "visit" /\ pc' = "expand" /\ ~ test_map(request.goal, Top.map)
      /\ Depth = bfs_depth - 1 /\ FinishingLanes = {}
      /\ UNCHANGED <<request, stack, array, global_trial>>
  BY DEF MissLast, searchVars, cacheVars
<1>2. Depth' = Depth
  BY <1>1 DEF Depth
<1>3. j # Depth
  <2> SUFFICES ASSUME j = Depth PROVE FALSE
    OBVIOUS
  <2>1. PICK lane : IsLaneOf(stack[j + 1].layer, lane, c[j + 1])
    BY GoingFacts
  <2>2. /\ TopLayer = Tab.layers[stack[j + 1].layer] /\ Top.map = m[j] /\ j + 1 = K
    BY <1>1, GoingFacts DEF Going, TopLayer
  <2>3. lane \in Lanes(TopLayer) /\ LaneMap(TopLayer, lane) = Tab.layers[c[j + 1]].map
    BY <2>1, <2>2, GoingFacts, LaneFacts
  <2>4. apply_mapping(Top.map, LaneMap(TopLayer, lane)) = m[K]
    BY <2>2, <2>3, GoingFacts
  <2>5. test_map(request.goal, m[K])
    BY GoingFacts, MustFindFacts DEF Going
  <2>6. lane \in FinishingLanes
    BY <2>3, <2>4, <2>5 DEF FinishingLanes
  <2> QED
    BY <1>1, <2>6
<1>4. PICK lane \in stack[j + 1].staged :
        /\ IsLaneOf(stack[j + 1].layer, lane, c[j + 1])
        /\ j < Depth => stack[j + 2].layer < c[j + 1]
  BY <1>3 DEF Going, IsAhead
<1>5. j <= Depth
  BY GoingFacts
<1>6. \A i \in j + 1 .. K - 1 : ~ MainCache!Hit(m[i], i - 1)'
  BY <1>1, StillUnknown DEF Going
<1> QED
  BY <1>1, <1>2, <1>4, <1>5, <1>6, StillStaged

\* The distance check passes the chain's next map.
LEMMA StageKeeps ==
  ASSUME NEW K, NEW c, NEW m, NEW j, Going(K, c, m, j), Stage
  PROVE  IsAhead(K, c, m, j)'
<1>1. /\ pc = "visit" /\ pc' = "expand" /\ Depth < bfs_depth - 1
      /\ stack' = [stack EXCEPT ![Len(stack)].staged = StagedLanes]
      /\ UNCHANGED <<request, array, global_trial>>
      /\ bfs_depth = K
  BY DEF Stage, searchVars, cacheVars, Going
<1>2. /\ Depth' = Depth
      /\ \A k \in 1 .. Depth + 1 : /\ stack'[k].layer = stack[k].layer
           /\ stack'[k].staged = IF k = Depth + 1 THEN StagedLanes ELSE stack[k].staged
  <2>1. stack \in Seq(Frames) /\ Len(stack) = Depth + 1 /\ Depth \in Nat
    BY GoingFacts
  <2> DEFINE n == Len(stack)
             lanes == StagedLanes
  <2>2. /\ stack \in Seq(Frames) /\ n \in Nat /\ n = Len(stack)
        /\ stack' = [stack EXCEPT ![n].staged = lanes]
    BY <1>1, <2>1
  <2> HIDE DEF n, lanes
  <2>3. Len(stack') = n
    BY <2>2
  <2>4. ASSUME NEW k \in 1 .. n
        PROVE  /\ stack'[k].layer = stack[k].layer
               /\ stack'[k].staged = IF k = n THEN lanes ELSE stack[k].staged
    <3>1. stack[k] \in Frames
      BY <2>2
    <3>2. stack'[k] = IF k = n THEN [stack[k] EXCEPT !.staged = lanes] ELSE stack[k]
      BY <2>2
    <3> QED
      BY <3>1, <3>2 DEF Frames
  <2>5. n = Depth + 1
    BY <2>1 DEF n
  <2> QED
    BY <2>2, <2>3, <2>4, <2>5 DEF Depth, lanes
<1>3. /\ j \in Nat /\ K \in Nat /\ Depth \in Nat /\ j <= Depth /\ j + 1 \in 1 .. Depth + 1
  BY GoingFacts
<1>4. \A i \in j + 1 .. K - 1 : ~ MainCache!Hit(m[i], i - 1)'
  BY <1>1, StillUnknown DEF Going
<1>5. \A k \in 1 .. j + 1 : stack'[k].layer = stack[k].layer
  <2>1. \A k \in 1 .. j + 1 : k \in 1 .. Depth + 1
    BY <1>3
  <2> QED
    BY <1>2, <2>1
<1>6. CASE j = Depth
  <2>1. PICK lane : IsLaneOf(stack[j + 1].layer, lane, c[j + 1])
    BY GoingFacts
  <2>2. TopLayer = Tab.layers[stack[j + 1].layer] /\ Top.map = m[j]
    BY <1>6, GoingFacts DEF TopLayer
  <2>3. lane \in Lanes(TopLayer) /\ LaneMap(TopLayer, lane) = Tab.layers[c[j + 1]].map
    BY <2>1, <2>2, GoingFacts, LaneFacts
  <2>4. apply_mapping(Top.map, LaneMap(TopLayer, lane)) = m[j + 1]
    BY <2>2, <2>3, GoingFacts
  <2>5. legal_dist(request.goal, m[j + 1],
                   get_dist_threshold(accuracy, GroupOf(request), bfs_depth - Depth - 1))
    <3>1. j + 1 \in 1 .. K - 1 /\ bfs_depth - Depth - 1 = K - (j + 1)
      BY <1>1, <1>3, <1>6
    <3>2. accuracy = request.accuracy /\ request \in Requests
      BY GoingFacts
    <3>3. legal_dist(request.goal, m[j + 1],
                     get_dist_threshold(request.accuracy, GroupOf(request), K - (j + 1)))
      BY <3>1, <3>2, FirstIsLegal DEF Going, MustFind
    <3> QED
      BY <3>1, <3>2, <3>3
  <2>6. lane \in StagedLanes
    BY <2>3, <2>4, <2>5 DEF StagedLanes
  <2>7. lane \in stack'[j + 1].staged
    BY <1>2, <1>3, <1>6, <2>6
  <2>8. j <= Depth' /\ ~ j < Depth'
    BY <1>2, <1>3, <1>6
  <2> QED
    BY <1>1, <1>4, <1>5, <2>1, <2>7, <2>8, StillStaged
<1>7. CASE j # Depth
  <2>1. PICK lane \in stack[j + 1].staged :
          /\ IsLaneOf(stack[j + 1].layer, lane, c[j + 1])
          /\ j < Depth => stack[j + 2].layer < c[j + 1]
    BY <1>7 DEF Going, IsAhead
  <2>2. /\ stack'[j + 1].staged = stack[j + 1].staged
        /\ stack'[j + 2].layer = stack[j + 2].layer
    <3>1. j + 1 # Depth + 1 /\ j + 2 \in 1 .. Depth + 1
      BY <1>3, <1>7
    <3> QED
      BY <1>2, <1>3, <3>1
  <2> QED
    BY <1>1, <1>2, <1>3, <1>4, <1>5, <2>1, <2>2, StillStaged
<1> QED
  BY <1>6, <1>7

\* A return leaves the calls below as they are; the call at which the chain
\* goes on has its next layer staged.
LEMMA Return0Keeps ==
  ASSUME NEW K, NEW c, NEW m, NEW j, Going(K, c, m, j), Return0
  PROVE  IsAhead(K, c, m, j)'
<1>1. /\ pc = "expand" /\ Len(stack) > 1 /\ Top.staged = {}
      /\ stack' = SubSeq(stack, 1, Len(stack) - 1)
      /\ UNCHANGED <<request, array, global_trial>>
  BY DEF Return0, searchVars, cacheVars
<1>2. /\ stack \in Seq(Frames) /\ Len(stack) = Depth + 1 /\ Depth \in Nat
      /\ Top = stack[Depth + 1] /\ j \in Nat /\ j <= Depth
  BY GoingFacts
<1>3. /\ Depth' = Depth - 1
      /\ \A k \in 1 .. Depth : stack'[k] = stack[k]
  <2> DEFINE n == Len(stack)
  <2>1. /\ stack \in Seq(Frames) /\ n \in Nat /\ n > 1 /\ n = Len(stack)
        /\ stack' = SubSeq(stack, 1, n - 1)
    BY <1>1, <1>2
  <2> HIDE DEF n
  <2>2. Len(stack') = n - 1 /\ \A k \in 1 .. n - 1 : stack'[k] = stack[k]
    BY <2>1
  <2>3. n - 1 = Depth
    BY <2>1 DEF Depth
  <2> QED
    BY <2>2, <2>3 DEF Depth
<1>4. PICK lane \in stack[j + 1].staged :
        /\ IsLaneOf(stack[j + 1].layer, lane, c[j + 1])
        /\ j < Depth => stack[j + 2].layer < c[j + 1]
  BY <1>1 DEF Going, IsAhead
<1>5. j < Depth
  BY <1>1, <1>2, <1>4
<1>6. /\ \A k \in 1 .. j + 1 : stack'[k] = stack[k]
      /\ j <= Depth' /\ (j < Depth' => stack'[j + 2] = stack[j + 2]) /\ j + 1 \in 1 .. j + 1
  BY <1>2, <1>3, <1>5
<1>7. \A i \in j + 1 .. K - 1 : ~ MainCache!Hit(m[i], i - 1)'
  BY <1>1, StillUnknown DEF Going
<1> QED
  BY <1>1, <1>4, <1>5, <1>6, <1>7, StillStaged

\* A lane is skipped for a map the cache knows, which the chain's is not.
LEMMA SkipKeeps ==
  ASSUME NEW K, NEW c, NEW m, NEW j, Going(K, c, m, j), Skip
  PROVE  IsAhead(K, c, m, j)'
<1>1. PICK s \in Top.staged :
        /\ pc = "expand" /\ IsNextLane(s)
        /\ \E next \in NextLayers(TopLayer, s) :
             MainCache!Hit(apply_mapping(Top.map, Tab.layers[next].map), Depth)
        /\ stack' = Unstage(s) /\ UNCHANGED <<request, array, global_trial>>
  BY DEF Skip, MainCache!cache_check_hit, MainCache!cacheVars, searchVars
<1>2. /\ Len(stack) = Depth + 1 /\ Depth \in Nat /\ Top = stack[Depth + 1]
      /\ j \in Nat /\ j <= Depth /\ K \in Nat
  BY GoingFacts
<1>3. /\ Depth' = Depth
      /\ \A k \in 1 .. Depth + 1 : /\ stack'[k].layer = stack[k].layer
           /\ stack'[k].staged = IF k = Depth + 1 THEN stack[k].staged \ {s}
                                 ELSE stack[k].staged
  <2>1. SearchInv
    BY DEF Going
  <2> QED
    BY <1>1, <1>2, <2>1, Unstaged DEF Depth
<1>4. PICK lane \in stack[j + 1].staged :
        /\ IsLaneOf(stack[j + 1].layer, lane, c[j + 1])
        /\ j < Depth => stack[j + 2].layer < c[j + 1]
  BY <1>1 DEF Going, IsAhead
<1>5. ASSUME j = Depth PROVE lane # s
  <2> SUFFICES ASSUME lane = s PROVE FALSE
    OBVIOUS
  <2>1. NextLayers(TopLayer, s) = {c[j + 1]} /\ Top.map = m[j]
    <3>1. /\ IsLaneOf(stack[j + 1].layer, s, c[j + 1]) /\ stack[j + 1].layer \in LayerIds
          /\ TopLayer = Tab.layers[stack[j + 1].layer] /\ request \in Requests
          /\ Top.map = m[j]
      BY <1>2, <1>4, <1>5, GoingFacts DEF TopLayer
    <3> QED
      BY <3>1, LaneFacts
  <2>2. MainCache!Hit(m[j + 1], Depth)
    BY <1>1, <2>1, GoingFacts
  <2>3. j + 1 \in j + 1 .. K - 1 /\ (j + 1) - 1 = Depth
    <3>1. Len(stack) < bfs_depth /\ bfs_depth = K
      BY <1>1, <1>2 DEF Going, SearchInv, StackIsBounded
    <3> QED
      BY <1>2, <1>5, <3>1
  <2> QED
    BY <2>2, <2>3 DEF Going, IsAhead
<1>6. lane \in stack'[j + 1].staged
  <2>1. j + 1 \in 1 .. Depth + 1 /\ (j + 1 = Depth + 1 <=> j = Depth)
    BY <1>2
  <2> QED
    BY <1>3, <1>4, <1>5, <2>1
<1>7. \A k \in 1 .. j + 1 : stack'[k].layer = stack[k].layer
  <2>1. \A k \in 1 .. j + 1 : k \in 1 .. Depth + 1
    BY <1>2
  <2> QED
    BY <1>3, <2>1
<1>8. j < Depth' => stack'[j + 2].layer < c[j + 1]
  <2>1. j < Depth => j + 2 \in 1 .. Depth + 1
    BY <1>2
  <2> QED
    BY <1>3, <1>4, <2>1
<1>9. \A i \in j + 1 .. K - 1 : ~ MainCache!Hit(m[i], i - 1)'
  BY <1>1, StillUnknown DEF Going
<1> QED
  BY <1>1, <1>2, <1>3, <1>4, <1>6, <1>7, <1>8, <1>9, StillStaged

\* What the cache comes to know is reached by the calls and the next layer.
LEMMA DescendStores ==
  ASSUME NEW K, NEW c, NEW m, NEW j, Going(K, c, m, j), NEW next \in LayerIds,
         MainCache!Store(apply_mapping(Top.map, Tab.layers[next].map), Depth),
         NEW i \in j + 1 .. K - 1, MainCache!Hit(m[i], i - 1)'
  PROVE  i = Depth + 1 /\ ~ ComesBefore(Longer(PathLayers, Depth, next), c, i)
<1> DEFINE output == apply_mapping(Top.map, Tab.layers[next].map)
           q == Longer(PathLayers, Depth, next)
           l == LongerMaps(PathTo, Depth, output)
<1>1. /\ SearchInv /\ pc \in {"visit", "expand"} /\ MustFind(K, c, m)
      /\ ~ MainCache!Hit(m[i], i - 1)
  BY DEF Going, IsAhead
<1>2. /\ K \in Nat /\ j \in Nat /\ Depth \in Nat /\ request \in Requests
      /\ i \in 0 .. K /\ i \in Nat
  BY GoingFacts
<1>3. m[i] \in Maps
  <2>1. m \in [0 .. K -> Maps]
    BY <1>1, <1>2, MustFindFacts
  <2> QED
    BY <1>2, <2>1
<1>4. Top.map \in Maps /\ Tab.layers[next].map \in Maps
  BY <1>1, <1>2, StackFacts, TableFacts
<1>5. output \in Maps
  BY <1>4, ApplyType
<1>6. /\ Slot(m[i]) \in Slots /\ Slot(output) \in Slots
      /\ array \in [Slots -> MainCache!Entries]
  BY <1>1, <1>3, <1>5, ShortestAssumption DEF SearchInv, TypeOK
<1> HIDE DEF output
<1>7. /\ array' = [array EXCEPT ![Slot(output)] =
                     [value |-> output, depth |-> Depth, trial |-> global_trial]]
      /\ global_trial' = global_trial
  BY DEF MainCache!Store, output
<1>8. output = m[i] /\ Depth <= i - 1
  <2>1. CASE Slot(m[i]) = Slot(output)
    <3>1. array'[Slot(m[i])] = [value |-> output, depth |-> Depth, trial |-> global_trial]
      BY <1>6, <1>7, <2>1
    <3>2. array'[Slot(m[i])].value = m[i] /\ array'[Slot(m[i])].depth <= i - 1
      BY DEF MainCache!Hit
    <3> QED
      BY <3>1, <3>2
  <2>2. CASE Slot(m[i]) # Slot(output)
    <3>1. array'[Slot(m[i])] = array[Slot(m[i])]
      BY <1>6, <1>7, <2>2
    <3>2. MainCache!Hit(m[i], i - 1)
      BY <1>7, <3>1 DEF MainCache!Hit
    <3> QED
      BY <1>1, <3>2
  <2> QED
    BY <2>1, <2>2
<1>9. IsPath(Tab, Depth, PathLayers, PathTo) /\ PathTo[Depth] = Top.map
  BY <1>1, StackIsPath
<1>10. output = apply_mapping(PathTo[Depth], Tab.layers[next].map)
  BY <1>9 DEF output
<1>11. IsPath(Tab, Depth + 1, q, l) /\ l[Depth + 1] = output
  BY <1>2, <1>5, <1>9, <1>10, PathGoesOn DEF LayerIds
<1> HIDE DEF q, l
<1>12. IsPath(TableOf(request), Depth + 1, q, l) /\ l[Depth + 1] = m[i]
  BY <1>8, <1>11 DEF TableOf, Tab
<1>13. Depth + 1 \in 0 .. i
  BY <1>2, <1>8
<1>14. IsShortest(request, K) /\ IsFirst(request, K, c, m)
  BY <1>1 DEF MustFind
<1>15. Depth + 1 = i /\ ~ ComesBefore(q, c, i)
  BY <1>2, <1>12, <1>13, <1>14, NoneIsBefore
<1> QED
  BY <1>15 DEF q

\* dfs goes on along the chain, or comes to know only what is not on it or
\* is reached there by the chain itself.
LEMMA DescendKeeps ==
  ASSUME NEW K, NEW c, NEW m, NEW j, Going(K, c, m, j), Descend
  PROVE  \E k \in 0 .. K - 1 : IsAhead(K, c, m, k)'
<1>1. PICK s \in Top.staged :
        /\ pc = "expand" /\ pc' = "visit" /\ IsNextLane(s) /\ UNCHANGED request
        /\ \E next \in NextLayers(TopLayer, s) :
             /\ MainCache!Store(apply_mapping(Top.map, Tab.layers[next].map), Depth)
             /\ stack' = Append(Unstage(s),
                           Frame(apply_mapping(Top.map, Tab.layers[next].map), next))
  BY DEF Descend, MainCache!cache_check_miss, searchVars
<1>2. PICK next \in NextLayers(TopLayer, s) :
        /\ MainCache!Store(apply_mapping(Top.map, Tab.layers[next].map), Depth)
        /\ stack' = Append(Unstage(s),
                      Frame(apply_mapping(Top.map, Tab.layers[next].map), next))
  BY <1>1
<1> DEFINE q == Longer(PathLayers, Depth, next)
<1>3. /\ Len(stack) = Depth + 1 /\ Depth \in Nat /\ Top = stack[Depth + 1]
      /\ j \in Nat /\ j <= Depth /\ K \in Nat /\ request \in Requests /\ SearchInv
      /\ MustFind(K, c, m)
  BY GoingFacts DEF Going
<1>4. Top.layer \in LayerIds /\ s \in Nat /\ next \in LayerIds
  <2>1. Top.layer \in LayerIds /\ s \in Nat
    BY <1>1, <1>3, StackFacts
  <2> QED
    BY <1>2, <1>3, <2>1, NextIsLayer DEF TopLayer
<1>5. /\ Depth' = Depth + 1
      /\ \A k \in 1 .. Depth + 1 : /\ stack'[k].layer = stack[k].layer
           /\ stack'[k].staged = IF k = Depth + 1 THEN stack[k].staged \ {s}
                                 ELSE stack[k].staged
      /\ stack'[Depth + 2].layer = next
  <2> DEFINE below == Unstage(s)
             frame == Frame(apply_mapping(Top.map, Tab.layers[next].map), next)
  <2>1. /\ below \in Seq(Frames) /\ Len(below) = Depth + 1
        /\ \A k \in 1 .. Depth + 1 : /\ below[k].layer = stack[k].layer
             /\ below[k].staged = IF k = Depth + 1 THEN stack[k].staged \ {s}
                                  ELSE stack[k].staged
    BY <1>1, <1>3, Unstaged
  <2>2. frame.layer = next
    BY DEF Frame
  <2> HIDE DEF below, frame
  <2>3. stack' = Append(below, frame)
    BY <1>2 DEF below, frame
  <2>4. /\ Len(stack') = Depth + 2 /\ stack'[Depth + 2] = frame
        /\ \A k \in 1 .. Depth + 1 : stack'[k] = below[k]
    BY <1>3, <2>1, <2>3
  <2>5. Depth' = Depth + 1
    BY <1>3, <2>4 DEF Depth
  <2> HIDE DEF Depth
  <2>6. stack'[Depth + 2].layer = next
    BY <2>2, <2>4
  <2>7. ASSUME NEW k \in 1 .. Depth + 1
        PROVE  /\ stack'[k].layer = stack[k].layer
               /\ stack'[k].staged = IF k = Depth + 1 THEN stack[k].staged \ {s}
                                     ELSE stack[k].staged
    BY <2>1, <2>4
  <2> QED
    BY <2>5, <2>6, <2>7
<1>6. PICK lane \in stack[j + 1].staged :
        /\ IsLaneOf(stack[j + 1].layer, lane, c[j + 1])
        /\ j < Depth => stack[j + 2].layer < c[j + 1]
  BY <1>1 DEF Going, IsAhead
<1>7. \A k \in 1 .. j : stack[k + 1].layer = c[k]
  BY DEF Going, IsAhead
<1>8. /\ \A k \in 1 .. Depth : q[k] = stack[k + 1].layer
      /\ q[Depth + 1] = next
  BY <1>3 DEF Longer, PathLayers
<1>9. \A i \in j + 1 .. K - 1 : MainCache!Hit(m[i], i - 1)' =>
        i = Depth + 1 /\ ~ ComesBefore(q, c, i)
  BY <1>2, <1>4, DescendStores
<1> HIDE DEF q
<1>10. /\ stack[j + 1].layer \in LayerIds
       /\ j = Depth => TopLayer = Tab.layers[stack[j + 1].layer]
  BY <1>3, GoingFacts DEF TopLayer
<1>11. CASE j = Depth /\ s = lane
  <2>1. next = c[j + 1]
    <3>1. NextLayers(Tab.layers[stack[j + 1].layer], lane) = {c[j + 1]}
      BY <1>3, <1>6, <1>10, LaneFacts
    <3> QED
      BY <1>2, <1>10, <1>11, <3>1
  <2>2. j + 1 \in 0 .. K - 1
    <3>1. Len(stack) < bfs_depth /\ bfs_depth = K
      BY <1>1, <1>3 DEF Going, SearchInv, StackIsBounded
    <3> QED
      BY <1>3, <1>11, <3>1
  <2>3. \A k \in 1 .. j + 1 : stack'[k + 1].layer = c[k]
    <3>1. ASSUME NEW k \in 1 .. j + 1, k # j + 1 PROVE stack'[k + 1].layer = c[k]
      <4>1. k \in 1 .. j /\ k + 1 \in 1 .. Depth + 1
        BY <1>3, <3>1
      <4> QED
        BY <1>5, <1>7, <4>1
    <3>2. stack'[(j + 1) + 1].layer = c[j + 1]
      <4>1. (j + 1) + 1 = Depth + 2
        BY <1>3, <1>11
      <4> QED
        BY <1>5, <2>1, <4>1
    <3> QED
      BY <3>1, <3>2
  <2>4. \A i \in (j + 1) + 1 .. K - 1 : ~ MainCache!Hit(m[i], i - 1)'
    <3>1. \A i \in (j + 1) + 1 .. K - 1 : i \in j + 1 .. K - 1 /\ i # Depth + 1
      BY <1>3, <1>11
    <3> QED
      BY <1>9, <3>1
  <2>5. IsAhead(K, c, m, j + 1)'
    <3>1. j + 1 <= Depth' /\ j + 1 = Depth' /\ pc' = "visit"
      BY <1>1, <1>3, <1>5, <1>11
    <3> QED
      BY <2>3, <2>4, <3>1 DEF IsAhead
  <2> QED
    BY <2>2, <2>5
<1>12. CASE ~ (j = Depth /\ s = lane)
  <2>1. j = Depth => next < c[j + 1]
    <3> SUFFICES ASSUME j = Depth PROVE next < c[j + 1]
      OBVIOUS
    <3>1. lane \in Nat /\ s < lane
      <4>1. lane \in Nat
        BY <1>6, <1>10, <1>3, LaneFacts
      <4>2. s <= lane /\ s # lane
        BY <1>1, <1>3, <1>6, <1>12 DEF IsNextLane
      <4> QED
        BY <1>4, <4>1, <4>2
    <3>2. next \in NextLayers(Tab.layers[stack[j + 1].layer], s)
      BY <1>2, <1>10
    <3> QED
      BY <1>3, <1>4, <1>6, <1>10, <3>1, <3>2, EarlierLane
  <2>2. stack'[j + 2].layer < c[j + 1] /\ q[j + 1] < c[j + 1]
    <3>1. CASE j = Depth
      BY <1>3, <1>5, <1>8, <2>1, <3>1
    <3>2. CASE j # Depth
      <4>1. j < Depth /\ j + 2 \in 1 .. Depth + 1 /\ j + 1 \in 1 .. Depth /\ (j + 1) + 1 = j + 2
        BY <1>3, <3>2
      <4>2. stack'[j + 2].layer = stack[j + 2].layer /\ stack[j + 2].layer < c[j + 1]
        BY <1>5, <1>6, <4>1
      <4>3. q[j + 1] = stack[j + 2].layer
        BY <1>8, <4>1
      <4> QED
        BY <4>2, <4>3
    <3> QED
      BY <3>1, <3>2
  <2>3. \A i \in j + 1 .. K - 1 : ~ MainCache!Hit(m[i], i - 1)'
    <3> SUFFICES ASSUME NEW i \in j + 1 .. K - 1, ~ ComesBefore(q, c, i)
                 PROVE  FALSE
      BY <1>9
    <3>1. j + 1 \in 1 .. i
      BY <1>3
    <3>2. \A k \in 1 .. (j + 1) - 1 : q[k] = c[k]
      <4>1. \A k \in 1 .. (j + 1) - 1 : k \in 1 .. j /\ k \in 1 .. Depth
        BY <1>3
      <4> QED
        BY <1>7, <1>8, <4>1
    <3> QED
      BY <2>2, <3>1, <3>2 DEF ComesBefore
  <2>4. lane \in stack'[j + 1].staged
    <3>1. j + 1 \in 1 .. Depth + 1 /\ (j + 1 = Depth + 1 <=> j = Depth)
      BY <1>3
    <3> QED
      BY <1>5, <1>6, <1>12, <3>1
  <2>5. \A k \in 1 .. j + 1 : stack'[k].layer = stack[k].layer
    <3>1. \A k \in 1 .. j + 1 : k \in 1 .. Depth + 1
      BY <1>3
    <3> QED
      BY <1>5, <3>1
  <2>6. j <= Depth'
    BY <1>3, <1>5
  <2>7. IsAhead(K, c, m, j)'
    BY <1>1, <1>6, <2>2, <2>3, <2>4, <2>5, <2>6, StillStaged
  <2> QED
    BY <2>7 DEF Going
<1> QED
  BY <1>11, <1>12

-----------------------------------------------------------------------------
(* The invariants that the search keeps.                                   *)

\* An iteration that starts is about to look for the chain's first layer,
\* and the cache knows nothing in it.
LEMMA StartIsAhead ==
  ASSUME SearchInv, EntriesAreOld, StartIteration
  PROVE  FirstIsAhead'
<1>1. /\ pc = "iterate" /\ pc' = "visit" /\ stack' = <<Frame(identity, 0)>>
      /\ UNCHANGED <<request, bfs_depth, array, global_trial>>
  BY DEF StartIteration, searchVars, cacheVars
<1> SUFFICES ASSUME NEW K, NEW c, NEW m, MustFind(K, c, m)', bfs_depth' = K
             PROVE  \E j \in 0 .. K - 1 : IsAhead(K, c, m, j)'
  BY DEF FirstIsAhead
<1>2. bfs_depth = K /\ K \in Nat /\ K >= 1 /\ request \in Requests
  BY <1>1, TrialFacts DEF SearchInv, BoundIsJustified, TypeOK
<1>3. MustFind(K, c, m)
  BY <1>1 DEF MustFind
<1>4. ASSUME NEW i \in 1 .. K - 1 PROVE ~ MainCache!Hit(m[i], i - 1)'
  <2>1. m[i] \in Maps
    <3>1. m \in [0 .. K -> Maps] /\ i \in 0 .. K
      BY <1>2, <1>3, MustFindFacts
    <3> QED
      BY <3>1
  <2>2. Slot(m[i]) \in Slots
    BY <2>1, ShortestAssumption
  <2>3. bfs_depth > 1
    BY <1>2
  <2>4. array[Slot(m[i])].trial < global_trial
    BY <1>1, <2>2, <2>3 DEF EntriesAreOld
  <2>5. array[Slot(m[i])].trial # global_trial
    BY <2>2, <2>4, TrialFacts
  <2> QED
    BY <1>1, <2>5 DEF MainCache!Hit
<1>5. Depth' = 0
  BY <1>1 DEF Depth
<1>6. IsAhead(K, c, m, 0)'
  <2>1. 0 <= Depth' /\ \A k \in 1 .. 0 : stack'[k + 1].layer = c[k]
    BY <1>5
  <2>2. \A i \in 0 + 1 .. K - 1 : ~ MainCache!Hit(m[i], i - 1)'
    BY <1>4
  <2> QED
    BY <1>1, <1>5, <2>1, <2>2 DEF IsAhead
<1> QED
  BY <1>2, <1>6

LEMMA AheadStays ==
  ASSUME SearchInv, EntriesAreOld, StagedIsInRow, MainIsAccurate, FirstIsAhead, [Next]_vars
  PROVE  FirstIsAhead'
<1>1. ASSUME pc' \notin {"visit", "expand"} PROVE FirstIsAhead'
  BY <1>1 DEF FirstIsAhead
<1>2. ASSUME MissLast \/ Stage \/ Skip \/ Descend \/ Return0 PROVE FirstIsAhead'
  <2>1. /\ pc \in {"visit", "expand"}
        /\ UNCHANGED <<request, accuracy, bfs_depth>>
    BY <1>2 DEF MissLast, Stage, Skip, Descend, Return0, searchVars
  <2> SUFFICES ASSUME NEW K, NEW c, NEW m, MustFind(K, c, m)', ~ InPresearch', bfs_depth' = K
               PROVE  \E j \in 0 .. K - 1 : IsAhead(K, c, m, j)'
    BY DEF FirstIsAhead
  <2>2. MustFind(K, c, m) /\ ~ InPresearch /\ bfs_depth = K
    BY <2>1 DEF MustFind, InPresearch
  <2>3. PICK j \in 0 .. K - 1 : IsAhead(K, c, m, j)
    BY <2>1, <2>2 DEF FirstIsAhead
  <2>4. Going(K, c, m, j)
    BY <2>1, <2>2, <2>3 DEF Going
  <2> QED
    BY <1>2, <2>4, MissLastKeeps, StageKeeps, SkipKeeps, DescendKeeps, Return0Keeps
<1>3. CASE SolveStep
  <2>1. CASE RefuseType \/ AnswerZero \/ StartPresearch \/ GiveUp \/ FailIteration
    BY <1>1, <2>1 DEF RefuseType, AnswerZero, StartPresearch, GiveUp, FailIteration
  <2>2. CASE FindHere \/ FindLast
    BY <1>1, <2>2 DEF FindHere, FindLast, Found
  <2>3. CASE StartMainSearch \/ ReturnPresearch \/ ReturnMainSearch
    BY <1>1, <2>3 DEF StartMainSearch, ReturnPresearch, ReturnMainSearch
  <2> QED
    BY <1>2, <1>3, <2>1, <2>2, <2>3, StartIsAhead DEF SolveStep
<1>4. CASE \E r \in Requests : NewRequest(r)
  BY <1>1, <1>4 DEF NewRequest
<1>5. CASE UNCHANGED vars
  <2>1. UNCHANGED <<pc, request, accuracy, bfs_depth, stack, array, global_trial>>
    BY <1>5 DEF vars, searchVars, cacheVars
  <2>2. \A K, c, m : MustFind(K, c, m)' <=> MustFind(K, c, m)
    BY <2>1 DEF MustFind
  <2>3. \A K, c, m : \A j \in 0 .. K - 1 : IsAhead(K, c, m, j) => IsAhead(K, c, m, j)'
    <3>1. Depth' = Depth /\ Tab' = Tab
      BY <2>1 DEF Depth, Tab
    <3>2. \A i, lane, e : IsLaneOf(i, lane, e)' <=> IsLaneOf(i, lane, e)
      BY <3>1 DEF IsLaneOf
    <3>3. \A map, d : MainCache!Hit(map, d)' <=> MainCache!Hit(map, d)
      BY <2>1 DEF MainCache!Hit
    <3> QED
      BY <2>1, <3>1, <3>2, <3>3 DEF IsAhead
  <2> QED
    BY <2>1, <2>2, <2>3 DEF FirstIsAhead, InPresearch
<1> QED
  BY <1>3, <1>4, <1>5 DEF Next

LEMMA AccurateStays ==
  ASSUME MainIsAccurate, [Next]_vars
  PROVE  MainIsAccurate'
<1> USE DEF MainIsAccurate, InPresearch
<1>1. CASE RefuseType \/ AnswerZero \/ StartPresearch \/ ReturnPresearch \/ ReturnMainSearch
  BY <1>1 DEF RefuseType, AnswerZero, StartPresearch, ReturnPresearch, ReturnMainSearch
<1>2. CASE StartIteration \/ GiveUp \/ FailIteration
  BY <1>2 DEF StartIteration, GiveUp, FailIteration, searchVars
<1>3. CASE FindHere \/ FindLast \/ MissLast \/ Stage
  BY <1>3 DEF FindHere, FindLast, Found, MissLast, Stage, searchVars
<1>4. CASE Skip \/ Descend \/ Return0 \/ StartMainSearch
  BY <1>4 DEF Skip, Descend, Return0, StartMainSearch, searchVars
<1>5. CASE \E r \in Requests : NewRequest(r)
  BY <1>5 DEF NewRequest
<1>6. CASE UNCHANGED vars
  BY <1>6 DEF vars, searchVars
<1> QED
  BY <1>1, <1>2, <1>3, <1>4, <1>5, <1>6 DEF Next, SolveStep

\* A goal the identity meets is found at once, and nothing is shorter.
IdentityIsFound ==
  test_map(request.goal, identity) /\ request.max_depth # 0 =>
    /\ pc = "iterate" => IF InPresearch THEN bfs_depth = 1 /\ max_depth >= 1
                                        ELSE max_depth = -1
    /\ pc \in {"visit", "expand"} => pc = "visit" /\ InPresearch /\ Len(stack) = 1
    /\ pc = "returned" => length = 0

LEMMA IdentityStaysFound ==
  ASSUME SearchInv, IdentityIsFound, [Next]_vars
  PROVE  IdentityIsFound'
<1> USE DEF IdentityIsFound
<1> SUFFICES ASSUME test_map(request'.goal, identity), request'.max_depth # 0
             PROVE  IdentityIsFound'
  OBVIOUS
<1>1. CASE RefuseType \/ AnswerZero \/ ReturnPresearch \/ ReturnMainSearch
  BY <1>1 DEF RefuseType, AnswerZero, ReturnPresearch, ReturnMainSearch
<1>2. CASE StartPresearch
  <2>1. Capped(request.max_depth) >= 1
    <3>1. request.max_depth \in Int /\ MaxChain \in Nat /\ MaxChain >= 1
      BY RequestFacts, SearchAssumption DEF SearchInv, TypeOK
    <3> QED
      BY <1>2, <3>1 DEF StartPresearch, Capped
  <2> QED
    BY <1>2, <2>1 DEF StartPresearch, InPresearch
<1>3. CASE StartIteration
  <2>1. bfs_depth >= 1 /\ bfs_depth \in Nat
    BY <1>3, TrialFacts DEF StartIteration, SearchInv, BoundIsJustified
  <2>2. /\ pc = "iterate" /\ bfs_depth <= max_depth /\ pc' = "visit" /\ Len(stack') = 1
        /\ UNCHANGED <<request, accuracy>>
    BY <1>3 DEF StartIteration, searchVars
  <2> QED
    BY <2>1, <2>2 DEF InPresearch
<1>4. CASE GiveUp
  <2>1. bfs_depth > max_depth /\ pc = "iterate" /\ length' = max_depth + 1 /\ pc' = "returned"
        /\ UNCHANGED request
    BY <1>4 DEF GiveUp, searchVars
  <2>2. bfs_depth \in Int /\ max_depth \in Int
    BY SearchAssumption DEF SearchInv, TypeOK
  <2> QED
    BY <2>1, <2>2
<1>5. CASE FindHere
  <2>1. /\ pc = "visit" /\ pc' = "returned" /\ length' = Len(PathConfigs) /\ UNCHANGED request
    BY <1>5 DEF FindHere, Found, searchVars
  <2>2. Len(stack) = 1
    BY <2>1
  <2> QED
    BY <2>1, <2>2 DEF PathConfigs
<1>6. CASE FindLast \/ MissLast \/ Stage
  <2>1. /\ pc = "visit" /\ ~ test_map(request.goal, Top.map) /\ UNCHANGED request
    BY <1>6 DEF FindLast, MissLast, Stage, searchVars
  <2>2. Len(stack) = 1
    BY <2>1
  <2>3. Top.map = identity
    BY <2>2 DEF Top, SearchInv, StackIsChain
  <2> QED
    BY <2>1, <2>3
<1>7. CASE Skip \/ Descend \/ Return0 \/ FailIteration
  <2>1. pc = "expand" /\ UNCHANGED request
    BY <1>7 DEF Skip, Descend, Return0, FailIteration, searchVars
  <2> QED
    BY <2>1
<1>8. CASE StartMainSearch
  <2>1. /\ pc = "returned" /\ max_depth' = length - 1 /\ UNCHANGED request
        /\ pc' = "iterate" /\ accuracy' = request.accuracy /\ request.accuracy # REDUCED
    BY <1>8 DEF StartMainSearch
  <2> QED
    BY <2>1 DEF InPresearch
<1>9. CASE \E r \in Requests : NewRequest(r)
  BY <1>9 DEF NewRequest
<1>10. CASE UNCHANGED vars
  BY <1>10 DEF vars, searchVars, answerVars, InPresearch
<1> QED
  BY <1>1, <1>2, <1>3, <1>4, <1>5, <1>6, <1>7, <1>8, <1>9, <1>10 DEF Next, SolveStep

\* The length of the shortest chains, if the search must find one.
MustReturn(K) ==
  /\ IsUsual(request) /\ NoneIsDropped(request) /\ IsShortest(request, K) /\ K # 0

\* The main search does not go on to longer chains,
NotTooLate ==
  pc \in {"iterate", "visit", "expand"} /\ ~ InPresearch =>
    \A K : MustReturn(K) /\ K <= max_depth => bfs_depth <= K

\* and returns no greater length.
ReturnsInTime ==
  pc = "returned" /\ ~ InPresearch => \A K : MustReturn(K) => length <= K

LEMMA ShortestIsNat ==
  ASSUME NEW r, NEW K, IsShortest(r, K)
  PROVE  K \in 0 .. MaxChain /\ K \in Nat
BY SearchAssumption DEF IsShortest, LengthsFor

\* An iteration that fails was shorter than the chain.
LEMMA FailsBefore ==
  ASSUME SearchInv, MainIsAccurate, FirstIsAhead, NotTooLate, FailIteration, ~ InPresearch,
         NEW K, MustReturn(K), K <= max_depth
  PROVE  bfs_depth < K
<1>1. /\ pc = "expand" /\ Len(stack) = 1 /\ Top.staged = {}
  BY DEF FailIteration
<1>2. bfs_depth <= K /\ bfs_depth \in Nat /\ K \in Nat /\ request \in Requests
  BY <1>1, TrialFacts, ShortestIsNat DEF NotTooLate, MustReturn, SearchInv, TypeOK
<1> SUFFICES ASSUME bfs_depth = K PROVE FALSE
  BY <1>2
<1>3. PICK c, m : IsFirst(request, K, c, m)
  BY <1>2, FirstExists DEF MustReturn
<1>4. MustFind(K, c, m)
  BY <1>3 DEF MustFind, MustReturn
<1>5. PICK j \in 0 .. K - 1 : IsAhead(K, c, m, j)
  BY <1>1, <1>4 DEF FirstIsAhead
<1>6. j = 0 /\ Depth = 0
  BY <1>1, <1>2, <1>5 DEF IsAhead, Depth
<1>7. stack[j + 1].staged = {}
  BY <1>1, <1>6 DEF Top
<1> QED
  BY <1>1, <1>5, <1>7 DEF IsAhead

LEMMA StaysInTime ==
  ASSUME SearchInv, MainIsAccurate, FirstIsAhead, NotTooLate, [Next]_vars
  PROVE  NotTooLate'
<1> USE DEF NotTooLate
<1>1. CASE RefuseType \/ AnswerZero \/ GiveUp \/ ReturnPresearch \/ ReturnMainSearch
  BY <1>1 DEF RefuseType, AnswerZero, GiveUp, ReturnPresearch, ReturnMainSearch
<1>2. CASE FindHere \/ FindLast
  BY <1>2 DEF FindHere, FindLast, Found
<1>3. CASE StartPresearch
  BY <1>3 DEF StartPresearch, InPresearch
<1>4. CASE StartIteration \/ MissLast \/ Stage \/ Skip \/ Descend \/ Return0
  <2>1. /\ pc \in {"iterate", "visit", "expand"}
        /\ UNCHANGED <<request, accuracy, max_depth, bfs_depth>>
    BY <1>4 DEF StartIteration, MissLast, Stage, Skip, Descend, Return0, searchVars
  <2>2. \A K : MustReturn(K)' <=> MustReturn(K)
    BY <2>1 DEF MustReturn
  <2> QED
    BY <2>1, <2>2 DEF InPresearch
<1>5. CASE FailIteration
  <2>1. UNCHANGED <<request, accuracy, max_depth>> /\ bfs_depth' = bfs_depth + 1
    BY <1>5 DEF FailIteration, searchVars
  <2> SUFFICES ASSUME ~ InPresearch', NEW K, MustReturn(K)', K <= max_depth'
               PROVE  bfs_depth' <= K
    OBVIOUS
  <2>2. MustReturn(K) /\ ~ InPresearch /\ K <= max_depth
    BY <2>1 DEF MustReturn, InPresearch
  <2>3. K \in Nat /\ bfs_depth \in Nat
    BY <2>2, ShortestIsNat, TrialFacts DEF MustReturn
  <2>4. bfs_depth < K
    BY <1>5, <2>2, FailsBefore
  <2> QED
    BY <2>1, <2>3, <2>4
<1>6. CASE StartMainSearch
  <2> SUFFICES ASSUME NEW K, MustReturn(K)' PROVE bfs_depth' <= K
    OBVIOUS
  <2>1. K \in Nat /\ K # 0
    BY ShortestIsNat DEF MustReturn
  <2>2. bfs_depth' = 1
    BY <1>6 DEF StartMainSearch
  <2> QED
    BY <2>1, <2>2
<1>7. CASE \E r \in Requests : NewRequest(r)
  BY <1>7 DEF NewRequest
<1>8. CASE UNCHANGED vars
  <2>1. UNCHANGED <<pc, request, accuracy, max_depth, bfs_depth>>
    BY <1>8 DEF vars, searchVars
  <2>2. \A K : MustReturn(K)' <=> MustReturn(K)
    BY <2>1 DEF MustReturn
  <2> QED
    BY <2>1, <2>2 DEF InPresearch
<1> QED
  BY <1>1, <1>2, <1>3, <1>4, <1>5, <1>6, <1>7, <1>8 DEF Next, SolveStep

LEMMA ReturnStaysInTime ==
  ASSUME SearchInv, NotTooLate, ReturnsInTime, [Next]_vars
  PROVE  ReturnsInTime'
<1> USE DEF ReturnsInTime
<1>1. ASSUME pc' # "returned" PROVE ReturnsInTime'
  BY <1>1
<1>2. ASSUME FindHere \/ FindLast PROVE ReturnsInTime'
  <2>1. /\ pc = "visit" /\ UNCHANGED <<request, accuracy>>
    BY <1>2 DEF FindHere, FindLast, searchVars
  <2> SUFFICES ASSUME ~ InPresearch', NEW K, MustReturn(K)' PROVE length' <= K
    OBVIOUS
  <2>2. MustReturn(K) /\ ~ InPresearch
    BY <2>1 DEF MustReturn, InPresearch
  <2>3. /\ K \in Nat /\ bfs_depth \in Nat /\ max_depth \in Int /\ Len(stack) \in Nat
        /\ Len(stack) >= 1 /\ Len(stack) <= bfs_depth /\ bfs_depth <= max_depth
    BY <2>1, <2>2, ShortestIsNat, StackFacts DEF MustReturn
  <2>4. length' <= Len(stack)
    <3>1. PathConfigs \in Seq({Tab.layers[i].config : i \in LayerIds}) /\ Len(PathConfigs) = Len(stack) - 1
      <4>1. IsChain(PathMaps, PathConfigs) /\ Len(PathConfigs) = Len(stack) - 1
        BY <2>1, PathIsChain
      <4>2. \A k \in 1 .. Len(stack) - 1 : stack[k + 1].layer \in LayerIds
        <5>1. stack \in Seq(Frames)
          BY <2>1, StackFacts
        <5>2. \A k \in 1 .. Len(stack) - 1 : stack[k + 1] \in Frames
          BY <2>3, <5>1
        <5> QED
          BY <5>2 DEF Frames
      <4> QED
        BY <2>3, <4>1, <4>2 DEF PathConfigs
    <3>2. CASE FindHere
      BY <2>3, <3>1, <3>2 DEF FindHere, Found
    <3>3. CASE FindLast
      <4>1. PICK config : length' = Len(Append(PathConfigs, config))
        BY <3>3 DEF FindLast, Found
      <4> QED
        BY <2>3, <3>1, <4>1
    <3> QED
      BY <1>2, <3>2, <3>3
  <2>5. length' \in Nat
    BY <1>2, FindHereInv, FindLastInv, SearchAssumption DEF SearchInv, TypeOK
  <2>6. K <= max_depth => bfs_depth <= K
    BY <2>1, <2>2 DEF NotTooLate
  <2> QED
    BY <2>3, <2>4, <2>5, <2>6
<1>3. ASSUME GiveUp PROVE ReturnsInTime'
  <2>1. /\ pc = "iterate" /\ UNCHANGED <<request, accuracy>>
        /\ bfs_depth > max_depth /\ length' = max_depth + 1
    BY <1>3 DEF GiveUp, searchVars
  <2> SUFFICES ASSUME ~ InPresearch', NEW K, MustReturn(K)' PROVE length' <= K
    OBVIOUS
  <2>2. MustReturn(K) /\ ~ InPresearch
    BY <2>1 DEF MustReturn, InPresearch
  <2>3. K \in Nat /\ bfs_depth \in Nat /\ max_depth \in Int
    BY <2>2, ShortestIsNat, TrialFacts, SearchAssumption DEF MustReturn, SearchInv, TypeOK
  <2>4. K <= max_depth => bfs_depth <= K
    BY <2>1, <2>2 DEF NotTooLate
  <2> QED
    BY <2>1, <2>3, <2>4
<1>4. CASE SolveStep
  <2>1. CASE RefuseType \/ AnswerZero \/ StartPresearch \/ StartIteration \/ FailIteration
    BY <1>1, <2>1 DEF RefuseType, AnswerZero, StartPresearch, StartIteration, FailIteration
  <2>2. CASE MissLast \/ Stage \/ Skip \/ Descend \/ Return0
    BY <1>1, <2>2 DEF MissLast, Stage, Skip, Descend, Return0
  <2>3. CASE StartMainSearch \/ ReturnPresearch \/ ReturnMainSearch
    BY <1>1, <2>3 DEF StartMainSearch, ReturnPresearch, ReturnMainSearch
  <2> QED
    BY <1>2, <1>3, <1>4, <2>1, <2>2, <2>3 DEF SolveStep
<1>5. CASE \E r \in Requests : NewRequest(r)
  BY <1>1, <1>5 DEF NewRequest
<1>6. CASE UNCHANGED vars
  <2>1. UNCHANGED <<pc, request, accuracy, length>>
    BY <1>6 DEF vars, searchVars, answerVars
  <2>2. \A K : MustReturn(K)' <=> MustReturn(K)
    BY <2>1 DEF MustReturn
  <2> QED
    BY <2>1, <2>2 DEF InPresearch
<1> QED
  BY <1>4, <1>5, <1>6 DEF Next

-----------------------------------------------------------------------------
(* What solve() returns.                                                   *)

\* The length of a chain that meets the goal is one of those for it.
LEMMA MeetsIsLength ==
  ASSUME SearchInv, NEW n \in 0 .. MaxChain, ChainMeets(request.goal, chain, trail, n)
  PROVE  n \in LengthsFor(request.goal)
<1> DEFINE Good == {d \in 0 .. n : trail[d + 1] \in MapsOfChains[d]}
<1>1. MaxChain \in Nat /\ n \in Nat
  BY SearchAssumption
<1>2. /\ trail[1] = identity /\ test_map(request.goal, trail[n + 1])
      /\ \A d \in 0 .. n - 1 :
           /\ chain[d] \in Configs
           /\ trail[d + 2] = apply_mapping(trail[d + 1], LayerMap(chain[d]))
  BY DEF ChainMeets
<1>3. 0 \in Good
  BY <1>1, <1>2, MapsOfChainsStep
<1>4. ASSUME NEW d \in 1 .. n, d - 1 \in Good PROVE d \in Good
  <2>1. /\ d - 1 \in 0 .. n - 1 /\ (d - 1) + 2 = d + 1 /\ (d - 1) + 1 = d
        /\ d \in 1 .. MaxChain /\ d \in 0 .. n
    BY <1>1
  <2>2. /\ chain[d - 1] \in Configs /\ trail[d] \in MapsOfChains[d - 1]
        /\ trail[d + 1] = apply_mapping(trail[d], LayerMap(chain[d - 1]))
    BY <1>2, <1>4, <2>1
  <2>3. LayerMap(chain[d - 1]) \in LayerMaps
    BY <2>2 DEF LayerMaps
  <2>4. trail[d + 1] \in MapsOfChains[d]
    BY <2>1, <2>2, <2>3, MapsOfChainsStep
  <2> QED
    BY <2>1, <2>4
<1>5. n \in Good
  <2>1. n \in 0 .. n
    BY <1>1
  <2> HIDE DEF Good
  <2> QED
    BY <1>1, <1>3, <1>4, <2>1, InductionTo
<1> QED
  BY <1>2, <1>5 DEF LengthsFor

\* The end of a search that did not lose a chain.
LEMMA MainSearchEnds ==
  ASSUME SearchInv, IdentityIsFound, ReturnsInTime, ReturnMainSearch,
         IsUsual(request), NoneIsDropped(request), request.max_depth # 0
  PROVE  AnswersShortest'
<1> DEFINE lengths == LengthsFor(request.goal)
           cap == Capped(request.max_depth)
           wanted == {k \in lengths : k <= cap}
<1>1. /\ pc = "returned" /\ ~ InPresearch /\ UNCHANGED request
      /\ result' = IF length > cap THEN request.max_depth + 1 ELSE length
  BY DEF ReturnMainSearch, searchVars
<1>2. /\ MaxChain \in Nat /\ request \in Requests /\ length \in Nat
      /\ cap \in 0 .. MaxChain /\ lengths \in SUBSET Nat
      /\ lengths \subseteq 0 .. MaxChain
  BY SearchAssumption, RequestFacts, CappedFacts DEF SearchInv, TypeOK, LengthsFor
<1>3. AnswersShortest' <=>
        result' = IF wanted = {} THEN request.max_depth + 1 ELSE Min(wanted)
  BY <1>1 DEF AnswersShortest, Wanted
<1>4. length <= cap => length \in wanted
  <2> SUFFICES ASSUME length <= cap PROVE length \in lengths
    OBVIOUS
  <2>1. ChainMeets(request.goal, chain, trail, length)
    BY <1>1 DEF SearchInv, ReturnIsJustified
  <2>2. length \in 0 .. MaxChain
    BY <1>2
  <2> QED
    BY <2>1, <2>2, MeetsIsLength
<1> HIDE DEF cap, lengths
<1>5. CASE wanted = {}
  <2>1. length > cap
    BY <1>2, <1>4, <1>5
  <2> QED
    BY <1>1, <1>3, <1>5, <2>1
<1>6. CASE wanted # {}
  <2>1. wanted \in SUBSET Nat
    BY <1>2
  <2>2. PICK K \in wanted : \A k \in wanted : K <= k
    <3> HIDE DEF wanted
    <3> QED
      BY <1>6, <2>1, LeastMember
  <2>3. K \in Nat /\ K \in lengths /\ K <= cap
    BY <1>2, <2>2
  <2>4. IsShortest(request, K)
    <3>1. \A n \in lengths : K <= n
      BY <1>2, <2>2, <2>3
    <3> QED
      BY <2>3, <3>1 DEF IsShortest, lengths
  <2>5. length <= K
    <3>1. CASE K = 0
      <4>1. \E map \in {identity} : test_map(request.goal, map)
        BY <2>3, <3>1, MapsOfChainsStep DEF lengths, LengthsFor
      <4>2. length = 0
        BY <1>1, <4>1 DEF IdentityIsFound
      <4> QED
        BY <3>1, <4>2
    <3>2. CASE K # 0
      BY <1>1, <2>4, <3>2 DEF ReturnsInTime, MustReturn
    <3> QED
      BY <3>1, <3>2
  <2>6. length <= cap
    BY <1>2, <2>3, <2>5
  <2>7. length = K
    BY <1>2, <1>4, <2>2, <2>3, <2>5, <2>6
  <2>8. Min(wanted) = K
    <3>1. \A x \in wanted : (\A y \in wanted : x <= y) => x = K
      BY <2>1, <2>2
    <3> HIDE DEF wanted
    <3> QED
      BY <2>2, <3>1 DEF Min
  <2>9. ~ length > cap
    BY <1>2, <2>6
  <2> QED
    BY <1>1, <1>3, <1>6, <2>7, <2>8, <2>9
<1> QED
  BY <1>5, <1>6

\* All that is known of a search.
ShortestInv ==
  /\ SearchInv /\ EntriesAreOld /\ StagedIsInRow
  /\ MainIsAccurate /\ IdentityIsFound
  /\ FirstIsAhead /\ NotTooLate /\ ReturnsInTime
  /\ OnlyDistanceLosesChains

LEMMA InitShortest == Init => ShortestInv
<1> SUFFICES ASSUME Init PROVE ShortestInv
  OBVIOUS
<1>1. pc = "idle" /\ stack = <<>>
  BY DEF Init
<1>2. StagedIsInRow
  BY <1>1 DEF StagedIsInRow
<1>3. MainIsAccurate /\ IdentityIsFound /\ FirstIsAhead /\ NotTooLate /\ ReturnsInTime
  BY <1>1 DEF MainIsAccurate, IdentityIsFound, FirstIsAhead, NotTooLate, ReturnsInTime
<1>4. OnlyDistanceLosesChains
  BY <1>1 DEF OnlyDistanceLosesChains, Searched
<1> QED
  BY <1>2, <1>3, <1>4, InitInv, InitOld DEF ShortestInv

LEMMA OnlyDistanceStays ==
  ASSUME ShortestInv, [Next]_vars
  PROVE  OnlyDistanceLosesChains'
<1> USE DEF ShortestInv, OnlyDistanceLosesChains
<1>1. ASSUME pc' # "done" PROVE OnlyDistanceLosesChains'
  BY <1>1 DEF Searched
<1>2. CASE SolveStep
  <2>1. CASE StartPresearch \/ StartIteration \/ GiveUp \/ FailIteration
    BY <1>1, <2>1 DEF StartPresearch, StartIteration, GiveUp, FailIteration
  <2>2. CASE FindHere \/ FindLast \/ MissLast \/ Stage
    BY <1>1, <2>2 DEF FindHere, FindLast, Found, MissLast, Stage
  <2>3. CASE Skip \/ Descend \/ Return0 \/ StartMainSearch
    <3>1. pc' # "done"
      BY <2>3 DEF Skip, Descend, Return0, StartMainSearch
    <3> QED
      BY <1>1, <3>1
  <2>4. CASE RefuseType \/ AnswerZero
    BY <2>4 DEF RefuseType, AnswerZero, Searched, searchVars
  <2>5. CASE ReturnPresearch
    BY <2>5 DEF ReturnPresearch, searchVars
  <2>6. CASE ReturnMainSearch
    <3>1. UNCHANGED request
      BY <2>6 DEF ReturnMainSearch, searchVars
    <3> SUFFICES ASSUME Searched', NoneIsDropped(request) PROVE AnswersShortest'
      BY <3>1
    <3>2. IsUsual(request) /\ request.max_depth # 0
      BY <3>1 DEF Searched
    <3> QED
      BY <2>6, <3>2, MainSearchEnds
  <2> QED
    BY <1>2, <2>1, <2>2, <2>3, <2>4, <2>5, <2>6 DEF SolveStep
<1>3. CASE \E r \in Requests : NewRequest(r)
  BY <1>1, <1>3 DEF NewRequest
<1>4. CASE UNCHANGED vars
  <2>1. UNCHANGED <<pc, request, result>>
    BY <1>4 DEF vars, searchVars, answerVars
  <2> QED
    BY <2>1 DEF Searched, AnswersShortest, Wanted
<1> QED
  BY <1>2, <1>3, <1>4 DEF Next

\* In every search that is not the reduced one, for a goal that is not
\* answered at once: if the distance check passes the maps on every shortest
\* chain, then solve() returns the length of a shortest chain, or one more
\* than the bound when there is none within it.  So the pairs that the table
\* leaves out, the cache with its slots and trials, the padding of the rows
\* and the bound that the presearch gives lose nothing.
THEOREM ShortestUnlessDropped == Spec => []OnlyDistanceLosesChains
<1>1. Init => ShortestInv
  BY InitShortest
<1>2. ShortestInv /\ [Next]_vars => ShortestInv'
  BY NextInv, NextOld, StagedStays, AccurateStays, IdentityStaysFound, AheadStays,
     StaysInTime, ReturnStaysInTime, OnlyDistanceStays DEF ShortestInv
<1>3. ShortestInv => OnlyDistanceLosesChains
  BY DEF ShortestInv
<1> QED
  BY <1>1, <1>2, <1>3, PTL DEF Spec

=============================================================================
