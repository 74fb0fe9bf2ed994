--------------------------- MODULE LuaScriptProofs ---------------------------
(***************************************************************************)
(* Proofs about the objects of scripts, for every number of signal         *)
(* strengths: what dividing and inverting a function set leaves, and that  *)
(* it holds of the objects of every script; that translating and           *)
(* normalizing the chains of a script keeps what they mean; and that its   *)
(* iterators hand out each wanted layer once.                              *)
(***************************************************************************)
EXTENDS LuaScript, RedstoneProofs, SequenceTheorems

-----------------------------------------------------------------------------
(* The layers of scripts: why an iterator hands out each layer once, and   *)
(* all of them, however its filters call iterators.                        *)

\* The table is a sequence of the functions of the layers so far, each with
\* its layers.
DataRecords == [fn : Maps, configs : Seq(HexLayers), config_count : Nat, space : Nat]

DataIsTyped ==
  next_layer \in 0 .. HEX_LAYER_COUNT /\ HEX_LAYER_DATA \in Seq(DataRecords)

\* Every layer so far is in the table, in one place, with its function.
DataIsComplete ==
  /\ \A id \in DOMAIN HEX_LAYER_DATA :
       LET configs == HEX_LAYER_DATA[id].configs
       IN  /\ \A j \in DOMAIN configs :
                /\ configs[j] < next_layer
                /\ hex_layer_output(configs[j]) = HEX_LAYER_DATA[id].fn
           /\ \A i, j \in DOMAIN configs : configs[i] = configs[j] => i = j
  /\ \A id, jd \in DOMAIN HEX_LAYER_DATA :
       HEX_LAYER_DATA[id].fn = HEX_LAYER_DATA[jd].fn => id = jd
  /\ \A layer \in 0 .. next_layer - 1 :
       \E id \in DOMAIN HEX_LAYER_DATA :
         \E j \in DOMAIN HEX_LAYER_DATA[id].configs :
           HEX_LAYER_DATA[id].configs[j] = layer

\* The layers of a function are counted and have space, which is a power of
\* two and so grows when it is used up.  No more are counted than were loaded.
Fits(data) ==
  /\ data.config_count = Len(data.configs) /\ data.config_count <= data.space
  /\ data.space >= 8 /\ IsPowerOfTwo(data.space)

DataFits ==
  /\ Len(HEX_LAYER_DATA) <= next_layer
  /\ \A id \in DOMAIN HEX_LAYER_DATA :
       Fits(HEX_LAYER_DATA[id]) /\ HEX_LAYER_DATA[id].config_count <= next_layer

\* Iterators and calls are there once the table is.
LoadedFirst == ~ Loaded => iterators = <<>> /\ calls = <<>>

-----------------------------------------------------------------------------
\* The layers an iterator tries with the index i, and how many indexes it has.
Turn(table, iter, i) ==
  CASE iter.type = "all" -> <<i>>
    [] iter.type = "unique" -> table[i + 1].configs
    [] iter.type = "list" -> IF iter.list[i + 1] = iter.exclude THEN <<>>
                                                               ELSE <<iter.list[i + 1]>>

Limit(table, iter) ==
  CASE iter.type = "all" -> HEX_LAYER_COUNT
    [] iter.type = "unique" -> Len(table)
    [] iter.type = "list" -> Len(iter.list)

Tries(table, iter, i, layer) ==
  \E j \in DOMAIN Turn(table, iter, i) : Turn(table, iter, i)[j] = layer

\* What is fixed of an iterator when it is made.
IteratorIsMade(table, iter) ==
  /\ iter.type = "list" =>
       /\ iter.self \in HexLayers
       /\ \E id \in DOMAIN table :
            /\ iter.list = table[id].configs
            /\ table[id].fn = hex_layer_output(iter.self)
  /\ iter.type # "list" => iter.exclude = HEX_LAYER_COUNT

IteratorRecords ==
  [type : {"all", "unique", "list"}, filter : Filters \cup {no_filter},
   index : Nat, list : Seq(HexLayers), self : Nat, exclude : Nat,
   handed : SUBSET HexLayers, repeated : BOOLEAN, failed : BOOLEAN]

IteratorsAreTyped ==
  /\ iterators \in Seq(IteratorRecords)
  /\ \A k \in DOMAIN iterators :
       /\ IteratorIsMade(HEX_LAYER_DATA, iterators[k])
       /\ iterators[k].index <= Limit(HEX_LAYER_DATA, iterators[k])

\* A call works on an index that its iterator has left behind, and it asks
\* a filter while other calls run above it.
CallRecords(numbers) ==
  [iterator : numbers, index : Nat \cup {no_index}, next : Nat \ {0}, asking : BOOLEAN]

CallIsTyped(table, iter, call) ==
  /\ call.index # no_index =>
       iter.index <= call.index /\ call.index < Limit(table, iter)
  /\ call.asking =>
       /\ call.index # no_index
       /\ call.next <= Len(Turn(table, iter, call.index))
       /\ iter.filter # no_filter

CallsAreTyped ==
  /\ calls \in Seq(CallRecords(DOMAIN iterators))
  /\ \A d \in DOMAIN calls :
       /\ CallIsTyped(HEX_LAYER_DATA, iterators[calls[d].iterator], calls[d])
       /\ d < Len(calls) => calls[d].asking

\* No index is worked on by two calls.
TakenOnce ==
  \A d, e \in DOMAIN calls :
    /\ calls[d].iterator = calls[e].iterator
    /\ calls[d].index = calls[e].index /\ calls[d].index # no_index
    => d = e

\* Of a turn that is to come or under way nothing was handed out.
HandedAfterwards ==
  \A k \in DOMAIN iterators :
    \A layer \in iterators[k].handed, i \in 0 .. Limit(HEX_LAYER_DATA, iterators[k]) - 1 :
      Tries(HEX_LAYER_DATA, iterators[k], i, layer) =>
        /\ iterators[k].index <= i
        /\ \A d \in DOMAIN calls : calls[d].iterator = k => calls[d].index # i

\* What was handed out is wanted, and never twice.
WellHanded(iter) ==
  /\ ~ iter.repeated
  /\ iter.handed \subseteq Wanted(iter) /\ iter.exclude \notin iter.handed
  /\ iter.type = "unique" =>
       \A l, m \in iter.handed : hex_layer_output(l) = hex_layer_output(m) => l = m

HandedWell == \A k \in DOMAIN iterators : WellHanded(iterators[k])

\* What is wanted was handed out, is to come, or is to be tried by a call.
Satisfied(iter, layer) ==
  IF iter.type = "unique" THEN hex_layer_output(layer) \in Outputs(iter.handed)
                          ELSE layer \in iter.handed

ToCome(table, iter, layer) == \E i \in 0 .. iter.index - 1 : Tries(table, iter, i, layer)

ToTry(table, iter, call, layer) ==
  /\ call.index # no_index
  /\ \E j \in DOMAIN Turn(table, iter, call.index) :
       call.next <= j /\ Turn(table, iter, call.index)[j] = layer

NothingIsLost ==
  \A k \in DOMAIN iterators :
    ~ iterators[k].failed =>
      \A layer \in Wanted(iterators[k]) \ {iterators[k].exclude} :
        \/ Satisfied(iterators[k], layer)
        \/ ToCome(HEX_LAYER_DATA, iterators[k], layer)
        \/ \E d \in DOMAIN calls :
             /\ calls[d].iterator = k
             /\ ToTry(HEX_LAYER_DATA, iterators[k], calls[d], layer)

LayersInv ==
  /\ DataIsTyped /\ DataIsComplete /\ DataFits /\ LoadedFirst
  /\ IteratorsAreTyped /\ CallsAreTyped
  /\ TakenOnce /\ HandedAfterwards /\ HandedWell /\ NothingIsLost

-----------------------------------------------------------------------------
(* The table.                                                              *)
LEMMA CountsAreNumbers ==
  N \in Nat /\ N >= 2 /\ HALF_COUNT \in Nat /\ HEX_LAYER_COUNT \in Nat
    /\ HexLayers \subseteq Nat
<1>1. N \in Nat /\ N >= 2
  BY NAssumption
<1>2. HALF_COUNT \in Nat
  BY <1>1 DEF HALF_COUNT
<1>3. HEX_LAYER_COUNT \in Nat
  BY <1>2 DEF HEX_LAYER_COUNT
<1> QED
  BY <1>1, <1>2, <1>3 DEF HexLayers

LEMMA OutputIsAMap ==
  ASSUME NEW layer \in Int
  PROVE  hex_layer_output(layer) \in Maps
<1>1. N \in Nat /\ N >= 2 /\ HALF_COUNT \in Nat /\ HALF_COUNT > 0
  BY NAssumption DEF HALF_COUNT
<1>2. \A mask \in Int : comparator_fn(mask) \in Maps
  <2> SUFFICES ASSUME NEW mask \in Int
               PROVE  comparator_fn(mask) \in Maps
    OBVIOUS
  <2>1. mask % N \in Values
    BY BarrelType
  <2>2. \A back, side \in Values : \A sub \in BOOLEAN : comparator(back, side, sub) \in Values
    BY <1>1 DEF comparator, Values
  <2> QED
    BY <2>1, <2>2 DEF comparator_fn, Maps
<1>3. Half(layer, 0) \in Int /\ Half(layer, 1) \in Int
  BY <1>1 DEF Half
<1>4. comparator_fn(Half(layer, 0)) \in Maps /\ comparator_fn(Half(layer, 1)) \in Maps
  BY <1>2, <1>3
<1>5. \A x, y \in Values : Larger(x, y) \in Values
  BY DEF Larger
<1> QED
  BY <1>4, <1>5 DEF hex_layer_output, Maps

LEMMA WithConfigParts ==
  ASSUME NEW data \in DataRecords, NEW layer \in HexLayers
  PROVE  /\ WithConfig(data, layer) \in DataRecords
         /\ WithConfig(data, layer).fn = data.fn
         /\ WithConfig(data, layer).configs = Append(data.configs, layer)
         /\ WithConfig(data, layer).config_count = data.config_count + 1
         /\ WithConfig(data, layer).space = Growing(data).space
<1> DEFINE grown == Growing(data)
<1>1. /\ grown \in DataRecords /\ grown.fn = data.fn /\ grown.configs = data.configs
      /\ grown.config_count = data.config_count
  BY DEF Growing, DataRecords
<1>2. Append(grown.configs, layer) \in Seq(HexLayers)
  <2>1. data.configs \in Seq(HexLayers)
    BY DEF DataRecords
  <2> QED
    BY <1>1, <2>1, AppendProperties
<1> DEFINE new == [grown EXCEPT !.configs = Append(@, layer), !.config_count = @ + 1]
<1>3. WithConfig(data, layer) = new
  BY DEF WithConfig
<1> HIDE DEF grown
<1>4. /\ new.fn = grown.fn /\ new.space = grown.space
      /\ new.configs = Append(grown.configs, layer)
      /\ new.config_count = grown.config_count + 1
  BY <1>1 DEF DataRecords
<1>5. new \in DataRecords
  <2>1. grown.config_count + 1 \in Nat
    BY <1>1 DEF DataRecords
  <2> QED
    BY <1>1, <1>2, <2>1 DEF DataRecords
<1> HIDE DEF new
<1> QED
  BY <1>1, <1>3, <1>4, <1>5 DEF grown

LEMMA TableTypes ==
  ASSUME DataIsTyped
  PROVE  /\ unique_count \in Nat /\ DOMAIN HEX_LAYER_DATA = 1 .. unique_count
         /\ \A id \in DOMAIN HEX_LAYER_DATA :
              /\ HEX_LAYER_DATA[id] \in DataRecords
              /\ HEX_LAYER_DATA[id].configs \in Seq(HexLayers)
              /\ \A j \in DOMAIN HEX_LAYER_DATA[id].configs :
                   /\ HEX_LAYER_DATA[id].configs[j] \in HexLayers
                   /\ HEX_LAYER_DATA[id].configs[j] \in Nat
<1>1. /\ unique_count \in Nat /\ DOMAIN HEX_LAYER_DATA = 1 .. unique_count
      /\ \A id \in DOMAIN HEX_LAYER_DATA : HEX_LAYER_DATA[id] \in DataRecords
  BY DEF DataIsTyped, unique_count
<1> SUFFICES ASSUME NEW id \in DOMAIN HEX_LAYER_DATA
             PROVE  /\ HEX_LAYER_DATA[id].configs \in Seq(HexLayers)
                    /\ \A j \in DOMAIN HEX_LAYER_DATA[id].configs :
                         /\ HEX_LAYER_DATA[id].configs[j] \in HexLayers
                         /\ HEX_LAYER_DATA[id].configs[j] \in Nat
  BY <1>1
<1> DEFINE configs == HEX_LAYER_DATA[id].configs
<1>2. configs \in Seq(HexLayers)
  BY <1>1 DEF DataRecords
<1> HIDE DEF configs
<1>3. \A j \in DOMAIN configs : configs[j] \in HexLayers
  BY <1>2
<1> QED
  BY <1>2, <1>3, CountsAreNumbers DEF configs

\* One entry gets the next layer, a new one if there is none with its function.
LoadsInto(id0, old) ==
  LET output == hex_layer_output(next_layer)
      D == HEX_LAYER_DATA
  IN  /\ HEX_LAYER_DATA' \in Seq(DataRecords)
      /\ id0 \in DOMAIN HEX_LAYER_DATA' /\ DOMAIN D \subseteq DOMAIN HEX_LAYER_DATA'
      /\ \A id \in DOMAIN HEX_LAYER_DATA' \ {id0} :
           id \in DOMAIN D /\ HEX_LAYER_DATA'[id] = D[id] /\ D[id].fn # output
      /\ HEX_LAYER_DATA'[id0].fn = output
      /\ old \in Seq(HexLayers)
      /\ HEX_LAYER_DATA'[id0].configs = Append(old, next_layer)
      /\ IF id0 \in DOMAIN D THEN D[id0].fn = output /\ D[id0].configs = old
                             ELSE old = <<>>

LEMMA LoadedLayer ==
  ASSUME DataIsTyped, DataIsComplete, LoadLayer
  PROVE  \E id0, old : LoadsInto(id0, old)
<1> DEFINE output == hex_layer_output(next_layer)
           blank == [fn |-> output, configs |-> <<>>, config_count |-> 0, space |-> 8]
           D == HEX_LAYER_DATA
           new == next_layer
<1>1. new \in HexLayers
  BY CountsAreNumbers DEF LoadLayer, DataIsTyped, Loaded, HexLayers
<1>2. output \in Maps
  BY <1>1, OutputIsAMap DEF HexLayers
<1>3. /\ Len(D) \in Nat /\ DOMAIN D = 1 .. Len(D)
      /\ \A id \in DOMAIN D : D[id] \in DataRecords
  BY DEF DataIsTyped
<1>4. CASE EntryOf(output) = {}
  <2> DEFINE entry == WithConfig(blank, new)
             id0 == Len(D) + 1
  <2>1. blank \in DataRecords
    BY <1>2 DEF DataRecords
  <2>2. entry \in DataRecords /\ entry.fn = output /\ entry.configs = Append(<<>>, new)
    <3>1. blank.fn = output /\ blank.configs = <<>>
      OBVIOUS
    <3> HIDE DEF blank
    <3> QED
      BY <1>1, <2>1, <3>1, WithConfigParts
  <2>3. HEX_LAYER_DATA' = Append(D, entry)
    BY <1>4 DEF LoadLayer
  <2> HIDE DEF entry
  <2>4. /\ HEX_LAYER_DATA' \in Seq(DataRecords)
        /\ DOMAIN HEX_LAYER_DATA' = 1 .. id0
        /\ \A id \in DOMAIN D : HEX_LAYER_DATA'[id] = D[id]
        /\ HEX_LAYER_DATA'[id0] = entry
    BY <1>3, <2>2, <2>3, AppendProperties DEF DataIsTyped
  <2>5. \A id \in DOMAIN D : D[id].fn # output
    BY <1>4 DEF EntryOf
  <2> HIDE DEF output, blank
  <2>6. LoadsInto(id0, <<>>)
    BY <1>3, <2>2, <2>4, <2>5 DEF LoadsInto, output
  <2> QED
    BY <2>6
<1>5. CASE EntryOf(output) # {}
  <2>1. PICK id0 \in DOMAIN D : EntryOf(output) = {id0} /\ D[id0].fn = output
    BY <1>5 DEF EntryOf, DataIsComplete
  <2>2. HEX_LAYER_DATA' = [id \in DOMAIN D |-> IF id \in EntryOf(output)
                                               THEN WithConfig(D[id], new) ELSE D[id]]
    BY <1>5 DEF LoadLayer
  <2>3. /\ DOMAIN HEX_LAYER_DATA' = DOMAIN D
        /\ HEX_LAYER_DATA'[id0] = WithConfig(D[id0], new)
        /\ \A id \in DOMAIN D \ {id0} : HEX_LAYER_DATA'[id] = D[id]
    BY <2>1, <2>2
  <2>4. /\ WithConfig(D[id0], new) \in DataRecords
        /\ WithConfig(D[id0], new).fn = output
        /\ WithConfig(D[id0], new).configs = Append(D[id0].configs, new)
    BY <1>1, <1>3, <2>1, WithConfigParts
  <2>5. HEX_LAYER_DATA' \in Seq(DataRecords)
    BY <1>3, <2>1, <2>2, <2>4, SeqDef
  <2>6. D[id0].configs \in Seq(HexLayers)
    BY <1>3 DEF DataRecords
  <2>7. \A id \in DOMAIN D \ {id0} : D[id].fn # output
    BY <2>1 DEF EntryOf
  <2> HIDE DEF output, blank
  <2>8. LoadsInto(id0, D[id0].configs)
    BY <2>1, <2>3, <2>4, <2>5, <2>6, <2>7 DEF LoadsInto, output
  <2> QED
    BY <2>8
<1> QED
  BY <1>4, <1>5

LEMMA TableStays ==
  ASSUME DataIsTyped, DataIsComplete, LoadLayer
  PROVE  DataIsTyped' /\ DataIsComplete'
<1> DEFINE output == hex_layer_output(next_layer)
           D == HEX_LAYER_DATA
           E == HEX_LAYER_DATA'
           new == next_layer
<1>1. /\ new \in HexLayers /\ new \in Nat /\ next_layer' = new + 1
      /\ next_layer' \in 0 .. HEX_LAYER_COUNT
  BY CountsAreNumbers DEF LoadLayer, DataIsTyped, Loaded, HexLayers
<1>2. PICK id0, old : LoadsInto(id0, old)
  BY LoadedLayer
<1> DEFINE last == Len(old) + 1
<1>3. /\ DOMAIN E[id0].configs = 1 .. last /\ E[id0].configs[last] = new
      /\ DOMAIN old = 1 .. Len(old) /\ Len(old) \in Nat
      /\ \A j \in 1 .. Len(old) : E[id0].configs[j] = old[j]
  BY <1>1, <1>2, AppendProperties DEF LoadsInto
<1>4. \A j \in DOMAIN old : old[j] < new /\ hex_layer_output(old[j]) = output
  BY <1>2, <1>3 DEF LoadsInto, DataIsComplete
<1>5. \A i, j \in DOMAIN old : old[i] = old[j] => i = j
  <2>1. CASE id0 \in DOMAIN D
    <3>1. D[id0].configs = old
      BY <1>2, <2>1 DEF LoadsInto
    <3> QED
      BY <2>1, <3>1 DEF DataIsComplete
  <2>2. CASE id0 \notin DOMAIN D
    <3>1. old = <<>>
      BY <1>2, <2>2 DEF LoadsInto
    <3> QED
      BY <3>1
  <2> QED
    BY <2>1, <2>2
<1>6. \A id \in DOMAIN E \ {id0} : id \in DOMAIN D /\ E[id] = D[id] /\ D[id].fn # output
  BY <1>2 DEF LoadsInto
<1>7. /\ id0 \in DOMAIN E /\ DOMAIN D \subseteq DOMAIN E /\ E[id0].fn = output
      /\ id0 \in DOMAIN D => D[id0].configs = old
  BY <1>2 DEF LoadsInto
<1>8. \A id \in DOMAIN D : \A j \in DOMAIN D[id].configs : D[id].configs[j] \in Nat
  BY TableTypes
<1> HIDE DEF output
<1>9. ASSUME NEW id \in DOMAIN E
      PROVE  /\ \A j \in DOMAIN E[id].configs :
                  /\ E[id].configs[j] < new + 1
                  /\ hex_layer_output(E[id].configs[j]) = E[id].fn
             /\ \A i, j \in DOMAIN E[id].configs :
                  E[id].configs[i] = E[id].configs[j] => i = j
  <2>1. CASE id = id0
    <3>1. \A j \in 1 .. last : j \in DOMAIN old \/ j = last
      BY <1>3
    <3>2. \A j \in DOMAIN old : E[id0].configs[j] < new
      BY <1>3, <1>4
    <3>3. hex_layer_output(new) = output
      BY DEF output
    <3>4. \A j \in 1 .. last : /\ E[id0].configs[j] < new + 1
                               /\ hex_layer_output(E[id0].configs[j]) = output
      <4> SUFFICES ASSUME NEW j \in 1 .. last
                   PROVE  /\ E[id0].configs[j] < new + 1
                          /\ hex_layer_output(E[id0].configs[j]) = output
        OBVIOUS
      <4>1. CASE j = last
        BY <1>1, <1>3, <3>3, <4>1
      <4>2. CASE j # last
        <5>1. j \in DOMAIN old /\ E[id0].configs[j] = old[j] /\ old[j] < new
          BY <1>3, <1>4, <3>1, <4>2
        <5>2. old[j] \in Nat
          <6>1. old[j] \in HexLayers
            BY <1>2, <5>1 DEF LoadsInto
          <6> QED
            BY <6>1, CountsAreNumbers
        <5> QED
          BY <1>1, <1>4, <5>1, <5>2
      <4> QED
        BY <4>1, <4>2
    <3>5. \A i, j \in 1 .. last : E[id0].configs[i] = E[id0].configs[j] => i = j
      BY <1>1, <1>3, <1>5, <3>1, <3>2
    <3> QED
      BY <1>3, <1>7, <2>1, <3>4, <3>5
  <2>2. CASE id # id0
    <3>1. id \in DOMAIN D /\ E[id] = D[id]
      BY <1>6, <2>2
    <3> QED
      BY <1>1, <1>8, <3>1 DEF DataIsComplete
  <2> QED
    BY <2>1, <2>2
<1>10. \A id, jd \in DOMAIN E : E[id].fn = E[jd].fn => id = jd
  BY <1>6, <1>7 DEF DataIsComplete
<1>11. ASSUME NEW layer \in 0 .. new
       PROVE  \E id \in DOMAIN E : \E j \in DOMAIN E[id].configs : E[id].configs[j] = layer
  <2>1. CASE layer = new
    BY <1>3, <1>7, <2>1
  <2>2. CASE layer # new
    <3>1. PICK id \in DOMAIN D : \E j \in DOMAIN D[id].configs : D[id].configs[j] = layer
      BY <1>1, <2>2 DEF DataIsComplete
    <3> QED
      BY <1>3, <1>6, <1>7, <3>1
  <2> QED
    BY <2>1, <2>2
<1>12. DataIsComplete'
  <2>1. 0 .. next_layer' - 1 = 0 .. new
    BY <1>1
  <2> QED
    BY <1>1, <1>9, <1>10, <1>11, <2>1 DEF DataIsComplete
<1> QED
  BY <1>1, <1>2, <1>12 DEF DataIsTyped, LoadsInto

-----------------------------------------------------------------------------
(* Turns of an iterator, once the table is complete.                       *)
LEMMA TurnTypes ==
  ASSUME DataIsTyped, NEW iter \in IteratorRecords, IteratorIsMade(HEX_LAYER_DATA, iter)
  PROVE  /\ Limit(HEX_LAYER_DATA, iter) \in Nat
         /\ \A i \in 0 .. Limit(HEX_LAYER_DATA, iter) - 1 :
              Turn(HEX_LAYER_DATA, iter, i) \in Seq(HexLayers)
<1> DEFINE D == HEX_LAYER_DATA
<1>1. /\ unique_count \in Nat /\ DOMAIN D = 1 .. unique_count
      /\ \A id \in DOMAIN D : D[id].configs \in Seq(HexLayers)
  BY TableTypes
<1>2. CASE iter.type = "all"
  <2>1. Limit(D, iter) = HEX_LAYER_COUNT
    BY <1>2 DEF Limit
  <2>2. \A i : Turn(D, iter, i) = <<i>>
    BY <1>2 DEF Turn
  <2>3. \A i \in 0 .. Limit(D, iter) - 1 : <<i>> \in Seq(HexLayers)
    BY <2>1 DEF HexLayers
  <2> QED
    BY <2>1, <2>2, <2>3, CountsAreNumbers
<1>3. CASE iter.type = "unique"
  <2>1. Limit(D, iter) = unique_count
    BY <1>3 DEF Limit, unique_count
  <2>2. \A i : Turn(D, iter, i) = D[i + 1].configs
    BY <1>3 DEF Turn
  <2> QED
    BY <1>1, <2>1, <2>2
<1>4. CASE iter.type = "list"
  <2>1. iter.list \in Seq(HexLayers)
    BY DEF IteratorRecords
  <2>2. Limit(D, iter) = Len(iter.list)
    BY <1>4 DEF Limit
  <2>3. \A i : Turn(D, iter, i) = IF iter.list[i + 1] = iter.exclude
                                  THEN <<>> ELSE <<iter.list[i + 1]>>
    BY <1>4 DEF Turn
  <2>4. \A i \in 0 .. Len(iter.list) - 1 : iter.list[i + 1] \in HexLayers
    BY <2>1
  <2>5. <<>> \in Seq(HexLayers) /\ \A l \in HexLayers : <<l>> \in Seq(HexLayers)
    OBVIOUS
  <2>6. Len(iter.list) \in Nat
    BY <2>1
  <2>7. ASSUME NEW i \in 0 .. Len(iter.list) - 1
        PROVE  Turn(D, iter, i) \in Seq(HexLayers)
    BY <2>3, <2>4, <2>5
  <2> QED
    BY <2>2, <2>6, <2>7
<1> QED
  BY <1>2, <1>3, <1>4 DEF IteratorRecords

LEMMA TurnsAreApart ==
  ASSUME DataIsTyped, DataIsComplete,
         NEW iter \in IteratorRecords, IteratorIsMade(HEX_LAYER_DATA, iter),
         NEW i \in 0 .. Limit(HEX_LAYER_DATA, iter) - 1,
         NEW j \in 0 .. Limit(HEX_LAYER_DATA, iter) - 1,
         NEW layer, Tries(HEX_LAYER_DATA, iter, i, layer),
         Tries(HEX_LAYER_DATA, iter, j, layer)
  PROVE  i = j
<1> DEFINE D == HEX_LAYER_DATA
<1>1. unique_count \in Nat /\ DOMAIN D = 1 .. unique_count
  BY TableTypes
<1>2. CASE iter.type = "all"
  BY <1>2 DEF Tries, Turn
<1>3. CASE iter.type = "unique"
  <2>1. i + 1 \in DOMAIN D /\ j + 1 \in DOMAIN D
    BY <1>1, <1>3 DEF Limit, unique_count
  <2>2. /\ hex_layer_output(layer) = D[i + 1].fn
        /\ hex_layer_output(layer) = D[j + 1].fn
    BY <1>3, <2>1 DEF Tries, Turn, DataIsComplete
  <2>3. i + 1 = j + 1
    BY <2>1, <2>2 DEF DataIsComplete
  <2> QED
    BY <2>3
<1>4. CASE iter.type = "list"
  <2>1. PICK id \in DOMAIN D : iter.list = D[id].configs
    BY <1>4 DEF IteratorIsMade
  <2>2. iter.list \in Seq(HexLayers)
    BY DEF IteratorRecords
  <2>3. iter.list[i + 1] = layer /\ iter.list[j + 1] = layer
    BY <1>4 DEF Tries, Turn
  <2>4. i + 1 \in DOMAIN iter.list /\ j + 1 \in DOMAIN iter.list
    BY <1>4, <2>2 DEF Limit
  <2>5. i + 1 = j + 1
    BY <2>1, <2>3, <2>4 DEF DataIsComplete
  <2> QED
    BY <2>5
<1> QED
  BY <1>2, <1>3, <1>4 DEF IteratorRecords

LEMMA FunctionsAreTogether ==
  ASSUME DataIsTyped, DataIsComplete, Loaded, NEW iter, iter.type = "unique",
         NEW i \in 0 .. Limit(HEX_LAYER_DATA, iter) - 1,
         NEW l, Tries(HEX_LAYER_DATA, iter, i, l),
         NEW m \in HexLayers, hex_layer_output(m) = hex_layer_output(l)
  PROVE  Tries(HEX_LAYER_DATA, iter, i, m)
<1> DEFINE D == HEX_LAYER_DATA
<1>1. unique_count \in Nat /\ DOMAIN D = 1 .. unique_count
  BY TableTypes
<1>2. i + 1 \in DOMAIN D
  BY <1>1 DEF Limit, unique_count
<1>3. hex_layer_output(l) = D[i + 1].fn
  BY <1>2 DEF Tries, Turn, DataIsComplete
<1>4. PICK id \in DOMAIN D : \E j \in DOMAIN D[id].configs : D[id].configs[j] = m
  BY DEF DataIsComplete, Loaded, HexLayers
<1>5. hex_layer_output(m) = D[id].fn
  BY <1>4 DEF DataIsComplete
<1>6. id = i + 1
  BY <1>2, <1>3, <1>5 DEF DataIsComplete
<1> QED
  BY <1>4, <1>6 DEF Tries, Turn

LEMMA EveryWantedIsTried ==
  ASSUME DataIsTyped, DataIsComplete, Loaded,
         NEW iter \in IteratorRecords, IteratorIsMade(HEX_LAYER_DATA, iter),
         NEW layer \in Wanted(iter), layer # iter.exclude
  PROVE  \E i \in 0 .. Limit(HEX_LAYER_DATA, iter) - 1 :
           Tries(HEX_LAYER_DATA, iter, i, layer)
<1> DEFINE D == HEX_LAYER_DATA
<1>1. unique_count \in Nat /\ DOMAIN D = 1 .. unique_count
  BY TableTypes
<1>2. layer \in HexLayers
  BY DEF Wanted
<1>3. PICK id \in DOMAIN D : \E j \in DOMAIN D[id].configs : D[id].configs[j] = layer
  BY <1>2 DEF DataIsComplete, Loaded, HexLayers
<1>4. PICK j \in DOMAIN D[id].configs : D[id].configs[j] = layer
  BY <1>3
<1>5. hex_layer_output(layer) = D[id].fn
  BY <1>4 DEF DataIsComplete
<1>6. CASE iter.type = "all"
  <2>1. Turn(D, iter, layer) = <<layer>> /\ Limit(D, iter) = HEX_LAYER_COUNT
    BY <1>6 DEF Turn, Limit
  <2>2. layer \in 0 .. HEX_LAYER_COUNT - 1
    BY <1>2 DEF HexLayers
  <2> QED
    BY <2>1, <2>2 DEF Tries
<1>7. CASE iter.type = "unique"
  <2>1. id - 1 \in 0 .. Limit(D, iter) - 1 /\ (id - 1) + 1 = id
    BY <1>1, <1>7 DEF Limit, unique_count
  <2>2. Turn(D, iter, id - 1) = D[id].configs
    BY <1>7, <2>1 DEF Turn
  <2> QED
    BY <1>4, <2>1, <2>2 DEF Tries
<1>8. CASE iter.type = "list"
  <2>1. PICK self \in DOMAIN D : /\ iter.list = D[self].configs
                                 /\ D[self].fn = hex_layer_output(iter.self)
    BY <1>8 DEF IteratorIsMade
  <2>2. hex_layer_output(layer) = hex_layer_output(iter.self)
    BY <1>8 DEF Wanted
  <2>3. id = self
    BY <1>5, <2>1, <2>2 DEF DataIsComplete
  <2>4. iter.list \in Seq(HexLayers)
    BY DEF IteratorRecords
  <2>5. j \in 1 .. Len(iter.list) /\ iter.list[j] = layer
    BY <1>4, <2>1, <2>3, <2>4
  <2>6. j - 1 \in 0 .. Limit(D, iter) - 1 /\ (j - 1) + 1 = j
    BY <1>8, <2>4, <2>5 DEF Limit
  <2>7. Turn(D, iter, j - 1) = <<layer>>
    BY <1>8, <2>5, <2>6 DEF Turn
  <2> QED
    BY <2>6, <2>7 DEF Tries
<1> QED
  BY <1>6, <1>7, <1>8 DEF IteratorRecords

LEMMA WhatIsTriedIsWanted ==
  ASSUME DataIsTyped, DataIsComplete,
         NEW iter \in IteratorRecords, IteratorIsMade(HEX_LAYER_DATA, iter),
         NEW i \in 0 .. Limit(HEX_LAYER_DATA, iter) - 1,
         NEW layer, Tries(HEX_LAYER_DATA, iter, i, layer),
         iter.filter = no_filter \/ layer \in iter.filter
  PROVE  layer \in Wanted(iter)
<1> DEFINE D == HEX_LAYER_DATA
<1>1. layer \in HexLayers
  <2>1. Turn(D, iter, i) \in Seq(HexLayers)
    BY TurnTypes
  <2> QED
    BY <2>1 DEF Tries
<1>2. CASE iter.type = "list"
  <2>1. PICK id \in DOMAIN D : /\ iter.list = D[id].configs
                               /\ D[id].fn = hex_layer_output(iter.self)
    BY <1>2 DEF IteratorIsMade
  <2>2. iter.list \in Seq(HexLayers)
    BY DEF IteratorRecords
  <2>3. iter.list[i + 1] = layer /\ layer # iter.exclude
    BY <1>2 DEF Tries, Turn
  <2>4. i + 1 \in DOMAIN iter.list
    BY <1>2, <2>2 DEF Limit
  <2>5. hex_layer_output(layer) = hex_layer_output(iter.self)
    BY <2>1, <2>3, <2>4 DEF DataIsComplete
  <2> QED
    BY <1>1, <1>2, <2>3, <2>5 DEF Wanted
<1>3. CASE iter.type # "list"
  BY <1>1, <1>3 DEF Wanted
<1> QED
  BY <1>2, <1>3

-----------------------------------------------------------------------------
(* Steps.                                                                  *)

\* What is fixed of two iterators is the same.
SameParts(a, b) ==
  /\ a.type = b.type /\ a.filter = b.filter /\ a.list = b.list
  /\ a.self = b.self /\ a.exclude = b.exclude

LEMMA SamePartsSameTurns ==
  ASSUME NEW a, NEW b, SameParts(a, b), NEW table
  PROVE  /\ \A i : Turn(table, a, i) = Turn(table, b, i)
         /\ Limit(table, a) = Limit(table, b)
         /\ \A i, layer : Tries(table, a, i, layer) = Tries(table, b, i, layer)
         /\ IteratorIsMade(table, a) = IteratorIsMade(table, b)
         /\ Wanted(a) = Wanted(b)
<1>1. \A i : Turn(table, a, i) = Turn(table, b, i)
  BY DEF SameParts, Turn
<1>2. Limit(table, a) = Limit(table, b)
  BY DEF SameParts, Limit
<1>3. \A i, layer : Tries(table, a, i, layer) = Tries(table, b, i, layer)
  BY <1>1 DEF Tries
<1>4. IteratorIsMade(table, a) = IteratorIsMade(table, b)
  BY DEF SameParts, IteratorIsMade
<1>5. Wanted(a) = Wanted(b)
  BY DEF SameParts, Wanted
<1> QED
  BY <1>1, <1>2, <1>3, <1>4, <1>5

\* The iterators stay as they are, but for calls of them that an error ended.
IteratorsAreLeft ==
  /\ iterators' \in Seq(IteratorRecords) /\ DOMAIN iterators' = DOMAIN iterators
  /\ \A k \in DOMAIN iterators :
       /\ SameParts(iterators'[k], iterators[k])
       /\ iterators'[k].index = iterators[k].index
       /\ iterators'[k].handed = iterators[k].handed
       /\ iterators'[k].repeated = iterators[k].repeated

\* No call takes up an index.
NoIndexIsTaken ==
  \A d \in DOMAIN calls' :
    calls'[d].index # no_index =>
      /\ d \in DOMAIN calls
      /\ calls'[d].iterator = calls[d].iterator /\ calls'[d].index = calls[d].index

LEMMA IteratorTypes ==
  ASSUME DataIsTyped, IteratorsAreTyped, NEW k \in DOMAIN iterators
  PROVE  /\ iterators[k] \in IteratorRecords
         /\ IteratorIsMade(HEX_LAYER_DATA, iterators[k])
         /\ iterators[k].index \in Nat
         /\ Limit(HEX_LAYER_DATA, iterators[k]) \in Nat
         /\ iterators[k].index <= Limit(HEX_LAYER_DATA, iterators[k])
         /\ iterators[k].handed \subseteq HexLayers
<1>1. iterators[k] \in IteratorRecords
  BY DEF IteratorsAreTyped
<1>2. iterators[k].index \in Nat /\ iterators[k].handed \subseteq HexLayers
  BY <1>1 DEF IteratorRecords
<1> QED
  BY <1>1, <1>2, TurnTypes DEF IteratorsAreTyped

LEMMA QuietSteps ==
  ASSUME LayersInv, HEX_LAYER_DATA' = HEX_LAYER_DATA, IteratorsAreLeft, NoIndexIsTaken
  PROVE  IteratorsAreTyped' /\ TakenOnce' /\ HandedAfterwards' /\ HandedWell'
<1>1. DataIsTyped /\ IteratorsAreTyped /\ TakenOnce /\ HandedAfterwards /\ HandedWell
  BY DEF LayersInv
<1>2. IteratorsAreTyped'
  BY <1>1, SamePartsSameTurns DEF IteratorsAreTyped, IteratorsAreLeft
<1>3. TakenOnce'
  BY <1>1 DEF TakenOnce, NoIndexIsTaken
<1>4. HandedAfterwards'
  <2> SUFFICES ASSUME NEW k \in DOMAIN iterators, NEW layer \in iterators[k].handed,
                      NEW i \in 0 .. Limit(HEX_LAYER_DATA, iterators[k]) - 1,
                      Tries(HEX_LAYER_DATA, iterators[k], i, layer)
               PROVE  /\ iterators[k].index <= i
                      /\ \A d \in DOMAIN calls' :
                           calls'[d].iterator = k => calls'[d].index # i
    BY SamePartsSameTurns DEF HandedAfterwards, IteratorsAreLeft
  <2>1. /\ iterators[k].index <= i
        /\ \A d \in DOMAIN calls : calls[d].iterator = k => calls[d].index # i
    BY <1>1 DEF HandedAfterwards
  <2>2. i # no_index
    <3>1. i \in Nat
      BY <1>1, IteratorTypes
    <3> QED
      BY <3>1, LuaAssumption
  <2> QED
    BY <2>1, <2>2 DEF NoIndexIsTaken
<1>5. HandedWell'
  BY <1>1, SamePartsSameTurns
     DEF HandedWell, WellHanded, IteratorsAreLeft, SameParts
<1> QED
  BY <1>2, <1>3, <1>4, <1>5

\* What calls were to try is tried by calls still, but for ended iterations.
NothingIsDropped ==
  \A k \in DOMAIN iterators :
    ~ iterators'[k].failed =>
      /\ ~ iterators[k].failed
      /\ \A d \in DOMAIN calls, layer \in Wanted(iterators[k]) :
           calls[d].iterator = k /\ ToTry(HEX_LAYER_DATA, iterators[k], calls[d], layer) =>
             \E e \in DOMAIN calls' :
               /\ calls'[e].iterator = k
               /\ ToTry(HEX_LAYER_DATA, iterators[k], calls'[e], layer)

\* The calls after a quiet step are typed.
CallsStayTyped ==
  /\ calls' \in Seq(CallRecords(DOMAIN iterators))
  /\ \A d \in DOMAIN calls' :
       /\ CallIsTyped(HEX_LAYER_DATA, iterators[calls'[d].iterator], calls'[d])
       /\ d < Len(calls') => calls'[d].asking

LEMMA CallsStay ==
  ASSUME LayersInv, HEX_LAYER_DATA' = HEX_LAYER_DATA, IteratorsAreLeft, CallsStayTyped
  PROVE  CallsAreTyped'
<1>1. DOMAIN iterators' = DOMAIN iterators
  BY DEF IteratorsAreLeft
<1> SUFFICES ASSUME NEW d \in DOMAIN calls'
             PROVE  CallIsTyped(HEX_LAYER_DATA, iterators'[calls'[d].iterator], calls'[d])
  BY <1>1 DEF CallsAreTyped, CallsStayTyped
<1> DEFINE k == calls'[d].iterator
<1>2. k \in DOMAIN iterators
  <2>1. calls'[d] \in CallRecords(DOMAIN iterators)
    BY DEF CallsStayTyped
  <2> QED
    BY <2>1 DEF CallRecords
<1>3. CallIsTyped(HEX_LAYER_DATA, iterators[k], calls'[d])
  BY DEF CallsStayTyped
<1>4. SameParts(iterators'[k], iterators[k]) /\ iterators'[k].index = iterators[k].index
  BY <1>2 DEF IteratorsAreLeft
<1>5. /\ \A i : Turn(HEX_LAYER_DATA, iterators'[k], i) = Turn(HEX_LAYER_DATA, iterators[k], i)
      /\ Limit(HEX_LAYER_DATA, iterators'[k]) = Limit(HEX_LAYER_DATA, iterators[k])
  BY <1>4, SamePartsSameTurns
<1>6. iterators'[k].filter = iterators[k].filter
  BY <1>4 DEF SameParts
<1> HIDE DEF k
<1>7. CallIsTyped(HEX_LAYER_DATA, iterators'[k], calls'[d])
  BY <1>3, <1>4, <1>5, <1>6 DEF CallIsTyped
<1> QED
  BY <1>7 DEF k

LEMMA NothingIsLostQuietly ==
  ASSUME LayersInv, HEX_LAYER_DATA' = HEX_LAYER_DATA, IteratorsAreLeft, NothingIsDropped
  PROVE  NothingIsLost'
<1> SUFFICES ASSUME NEW k \in DOMAIN iterators, ~ iterators'[k].failed,
                    NEW layer \in Wanted(iterators'[k]) \ {iterators'[k].exclude}
             PROVE  \/ Satisfied(iterators'[k], layer)
                    \/ ToCome(HEX_LAYER_DATA, iterators'[k], layer)
                    \/ \E d \in DOMAIN calls' :
                         /\ calls'[d].iterator = k
                         /\ ToTry(HEX_LAYER_DATA, iterators'[k], calls'[d], layer)
  BY DEF NothingIsLost, IteratorsAreLeft
<1>1. /\ SameParts(iterators'[k], iterators[k])
      /\ iterators'[k].index = iterators[k].index
      /\ iterators'[k].handed = iterators[k].handed
  BY DEF IteratorsAreLeft
<1>2. /\ \A i : Turn(HEX_LAYER_DATA, iterators'[k], i) = Turn(HEX_LAYER_DATA, iterators[k], i)
      /\ \A i, l : Tries(HEX_LAYER_DATA, iterators'[k], i, l)
                     = Tries(HEX_LAYER_DATA, iterators[k], i, l)
      /\ Wanted(iterators'[k]) = Wanted(iterators[k])
  BY <1>1, SamePartsSameTurns
<1>3. layer \in Wanted(iterators[k]) \ {iterators[k].exclude}
  BY <1>1, <1>2 DEF SameParts
<1>4. /\ Satisfied(iterators'[k], layer) = Satisfied(iterators[k], layer)
      /\ ToCome(HEX_LAYER_DATA, iterators'[k], layer)
           = ToCome(HEX_LAYER_DATA, iterators[k], layer)
      /\ \A call : ToTry(HEX_LAYER_DATA, iterators'[k], call, layer)
                     = ToTry(HEX_LAYER_DATA, iterators[k], call, layer)
  BY <1>1, <1>2 DEF SameParts, Satisfied, ToCome, ToTry
<1>5. ~ iterators[k].failed
  BY DEF NothingIsDropped
<1>6. \/ Satisfied(iterators[k], layer)
      \/ ToCome(HEX_LAYER_DATA, iterators[k], layer)
      \/ \E d \in DOMAIN calls :
           /\ calls[d].iterator = k
           /\ ToTry(HEX_LAYER_DATA, iterators[k], calls[d], layer)
  BY <1>3, <1>5 DEF LayersInv, NothingIsLost
<1>7. ASSUME NEW d \in DOMAIN calls, calls[d].iterator = k,
             ToTry(HEX_LAYER_DATA, iterators[k], calls[d], layer)
      PROVE  \E e \in DOMAIN calls' :
               /\ calls'[e].iterator = k
               /\ ToTry(HEX_LAYER_DATA, iterators[k], calls'[e], layer)
  BY <1>3, <1>7 DEF NothingIsDropped
<1> QED
  BY <1>4, <1>6, <1>7

\* Steps that leave the table and hand nothing out.
LEMMA QuietStepsKeepAll ==
  ASSUME LayersInv, HEX_LAYER_DATA' = HEX_LAYER_DATA, next_layer' = next_layer, Loaded,
         IteratorsAreLeft, NoIndexIsTaken, NothingIsDropped, CallsStayTyped
  PROVE  LayersInv'
<1>1. DataIsTyped' /\ DataIsComplete' /\ DataFits'
  BY DEF LayersInv, DataIsTyped, DataIsComplete, DataFits
<1>2. LoadedFirst'
  BY DEF LoadedFirst, Loaded
<1> QED
  BY <1>1, <1>2, QuietSteps, CallsStay, NothingIsLostQuietly DEF LayersInv

\* The innermost call.
LEMMA CallFacts ==
  ASSUME LayersInv, calls # <<>>
  PROVE  /\ Loaded
         /\ Len(calls) \in Nat /\ Len(calls) >= 1 /\ DOMAIN calls = 1 .. Len(calls)
         /\ C = calls[Len(calls)] /\ C \in CallRecords(DOMAIN iterators)
         /\ C.iterator \in DOMAIN iterators /\ C.next \in Nat \ {0}
         /\ CallIsTyped(HEX_LAYER_DATA, Iter, C)
         /\ Candidates = Turn(HEX_LAYER_DATA, Iter, C.index)
         /\ C.index # no_index =>
              /\ C.index \in Nat /\ C.index \in 0 .. Limit(HEX_LAYER_DATA, Iter) - 1
              /\ Candidates \in Seq(HexLayers)
<1>1. Loaded
  BY DEF LayersInv, LoadedFirst
<1>2. calls \in Seq(CallRecords(DOMAIN iterators))
  BY DEF LayersInv, CallsAreTyped
<1>3. /\ Len(calls) \in Nat /\ Len(calls) >= 1 /\ DOMAIN calls = 1 .. Len(calls)
      /\ C = calls[Len(calls)] /\ C \in CallRecords(DOMAIN iterators)
  BY <1>2, EmptySeq, LenProperties DEF C, Last
<1>4. C.iterator \in DOMAIN iterators /\ C.next \in Nat \ {0}
      /\ C.index \in Nat \cup {no_index}
  BY <1>3 DEF CallRecords
<1>5. CallIsTyped(HEX_LAYER_DATA, Iter, C)
  BY <1>3 DEF LayersInv, CallsAreTyped, Iter
<1>6. Candidates = Turn(HEX_LAYER_DATA, Iter, C.index)
  BY DEF Candidates, Turn
<1>7. /\ Iter \in IteratorRecords /\ IteratorIsMade(HEX_LAYER_DATA, Iter)
      /\ Limit(HEX_LAYER_DATA, Iter) \in Nat
  BY <1>4, IteratorTypes DEF LayersInv, Iter
<1>8. ASSUME C.index # no_index
      PROVE  /\ C.index \in Nat /\ C.index \in 0 .. Limit(HEX_LAYER_DATA, Iter) - 1
             /\ Candidates \in Seq(HexLayers)
  <2>1. C.index \in Nat /\ C.index \in 0 .. Limit(HEX_LAYER_DATA, Iter) - 1
    BY <1>4, <1>5, <1>7, <1>8 DEF CallIsTyped
  <2>2. Turn(HEX_LAYER_DATA, Iter, C.index) \in Seq(HexLayers)
    BY <1>7, <2>1, TurnTypes DEF LayersInv
  <2> QED
    BY <1>6, <2>1, <2>2
<1> QED
  BY <1>1, <1>3, <1>4, <1>5, <1>6, <1>8

LEMMA TopChanges ==
  ASSUME LayersInv, calls # <<>>, NEW call \in CallRecords(DOMAIN iterators),
         calls' = WithTop(call)
  PROVE  /\ calls' \in Seq(CallRecords(DOMAIN iterators))
         /\ Len(calls') = Len(calls) /\ DOMAIN calls' = DOMAIN calls
         /\ calls'[Len(calls)] = call
         /\ \A d \in DOMAIN calls \ {Len(calls)} : calls'[d] = calls[d]
<1>1. calls \in Seq(CallRecords(DOMAIN iterators))
  BY DEF LayersInv, CallsAreTyped
<1> QED
  BY <1>1, CallFacts, ExceptSeq DEF WithTop

LEMMA CallsAreCut ==
  ASSUME LayersInv, NEW n \in 0 .. Len(calls), calls' = SubSeq(calls, 1, n)
  PROVE  /\ calls' \in Seq(CallRecords(DOMAIN iterators))
         /\ Len(calls') = n /\ DOMAIN calls' = 1 .. n
         /\ \A d \in 1 .. n : d \in DOMAIN calls /\ calls'[d] = calls[d]
<1>1. calls \in Seq(CallRecords(DOMAIN iterators))
  BY DEF LayersInv, CallsAreTyped
<1>2. Len(calls) \in Nat /\ DOMAIN calls = 1 .. Len(calls)
  BY <1>1
<1>3. \A i \in 1 .. n : calls[i] \in CallRecords(DOMAIN iterators)
  BY <1>1, <1>2
<1>4. /\ calls' \in Seq(CallRecords(DOMAIN iterators))
      /\ Len(calls') = IF 1 <= n THEN n - 1 + 1 ELSE 0
      /\ \A i \in 1 .. n - 1 + 1 : calls'[i] = calls[1 + i - 1]
  BY <1>2, <1>3, SubSeqProperties
<1>5. Len(calls') = n /\ DOMAIN calls' = 1 .. n
  BY <1>2, <1>4
<1>6. \A d \in 1 .. n : d \in DOMAIN calls /\ calls'[d] = calls[d]
  BY <1>2, <1>4
<1> QED
  BY <1>4, <1>5, <1>6

LEMMA SameIterators ==
  ASSUME LayersInv, iterators' = iterators
  PROVE  IteratorsAreLeft
BY DEF LayersInv, IteratorsAreTyped, IteratorsAreLeft, SameParts

\* The innermost call changes, and it neither takes an index nor gives a layer
\* up that it was to try.
LEMMA TopStaysQuiet ==
  ASSUME LayersInv, calls # <<>>, UNCHANGED <<next_layer, HEX_LAYER_DATA, iterators>>,
         NEW call \in CallRecords(DOMAIN iterators), calls' = WithTop(call),
         call.iterator = C.iterator, CallIsTyped(HEX_LAYER_DATA, Iter, call),
         call.index # no_index => call.index = C.index,
         \A layer \in Wanted(Iter) : ToTry(HEX_LAYER_DATA, Iter, C, layer) =>
                                       ToTry(HEX_LAYER_DATA, Iter, call, layer)
  PROVE  LayersInv'
<1> DEFINE top == Len(calls)
<1>1. /\ calls' \in Seq(CallRecords(DOMAIN iterators))
      /\ Len(calls') = top /\ DOMAIN calls' = DOMAIN calls /\ calls'[top] = call
      /\ \A d \in DOMAIN calls \ {top} : calls'[d] = calls[d]
  BY TopChanges
<1>2. /\ Loaded /\ top \in DOMAIN calls /\ C = calls[top] /\ C.iterator \in DOMAIN iterators
      /\ top \in Nat
  BY CallFacts
<1>3. IteratorsAreLeft
  BY SameIterators
<1>4. NoIndexIsTaken
  BY <1>1, <1>2 DEF NoIndexIsTaken
<1>5. NothingIsDropped
  <2> SUFFICES ASSUME NEW d \in DOMAIN calls, NEW k \in DOMAIN iterators,
                      NEW layer \in Wanted(iterators[k]), calls[d].iterator = k,
                      ToTry(HEX_LAYER_DATA, iterators[k], calls[d], layer)
               PROVE  /\ calls'[d].iterator = k
                      /\ ToTry(HEX_LAYER_DATA, iterators[k], calls'[d], layer)
    BY <1>1 DEF NothingIsDropped
  <2>1. CASE d = top
    BY <1>1, <1>2, <2>1 DEF Iter
  <2>2. CASE d # top
    BY <1>1, <2>2
  <2> QED
    BY <2>1, <2>2
<1>6. CallsStayTyped
  <2> SUFFICES ASSUME NEW d \in DOMAIN calls
               PROVE  /\ CallIsTyped(HEX_LAYER_DATA, iterators[calls'[d].iterator], calls'[d])
                      /\ d < top => calls'[d].asking
    BY <1>1 DEF CallsStayTyped
  <2>1. CASE d = top
    BY <1>1, <1>2, <2>1 DEF Iter
  <2>2. CASE d # top
    BY <1>1, <2>2 DEF LayersInv, CallsAreTyped
  <2> QED
    BY <2>1, <2>2
<1> QED
  BY <1>2, <1>3, <1>4, <1>5, <1>6, QuietStepsKeepAll

LEMMA AskingQuietly ==
  ASSUME LayersInv, TryLayer, Iter.filter # no_filter
  PROVE  LayersInv'
<1> DEFINE call == [C EXCEPT !.asking = TRUE]
<1>1. /\ calls # <<>> /\ C.index # no_index /\ C.next <= Len(Candidates)
      /\ calls' = WithTop(call) /\ UNCHANGED <<next_layer, HEX_LAYER_DATA, iterators>>
  BY DEF TryLayer, InLoop, InC
<1>2. /\ C \in CallRecords(DOMAIN iterators) /\ CallIsTyped(HEX_LAYER_DATA, Iter, C)
      /\ Candidates = Turn(HEX_LAYER_DATA, Iter, C.index)
  BY <1>1, CallFacts
<1>3. /\ call \in CallRecords(DOMAIN iterators) /\ call.iterator = C.iterator
      /\ call.index = C.index /\ call.next = C.next /\ call.asking
  BY <1>2 DEF CallRecords
<1> HIDE DEF call
<1>4. CallIsTyped(HEX_LAYER_DATA, Iter, call)
  BY <1>1, <1>2, <1>3 DEF CallIsTyped
<1>5. \A layer : ToTry(HEX_LAYER_DATA, Iter, C, layer) =>
                   ToTry(HEX_LAYER_DATA, Iter, call, layer)
  BY <1>3 DEF ToTry
<1> QED
  BY <1>1, <1>3, <1>4, <1>5, TopStaysQuiet

LEMMA NextIndexQuietly ==
  ASSUME LayersInv, NextIndex
  PROVE  LayersInv'
<1> DEFINE call == [C EXCEPT !.index = no_index]
<1>1. /\ calls # <<>> /\ ~ C.asking /\ C.index # no_index /\ C.next > Len(Candidates)
      /\ calls' = WithTop(call) /\ UNCHANGED <<next_layer, HEX_LAYER_DATA, iterators>>
  BY DEF NextIndex, InLoop, InC
<1>2. /\ C \in CallRecords(DOMAIN iterators) /\ CallIsTyped(HEX_LAYER_DATA, Iter, C)
      /\ Candidates = Turn(HEX_LAYER_DATA, Iter, C.index)
      /\ Candidates \in Seq(HexLayers) /\ C.next \in Nat
  BY <1>1, CallFacts
<1>3. /\ call \in CallRecords(DOMAIN iterators) /\ call.iterator = C.iterator
      /\ call.index = no_index /\ call.asking = C.asking
  BY <1>2 DEF CallRecords
<1> HIDE DEF call
<1>4. CallIsTyped(HEX_LAYER_DATA, Iter, call)
  BY <1>1, <1>3 DEF CallIsTyped
<1>5. \A layer : ~ ToTry(HEX_LAYER_DATA, Iter, C, layer)
  <2>1. DOMAIN Candidates = 1 .. Len(Candidates) /\ Len(Candidates) \in Nat
    BY <1>2
  <2>2. \A j \in DOMAIN Candidates : ~ C.next <= j
    BY <1>1, <1>2, <2>1
  <2> QED
    BY <1>2, <2>2 DEF ToTry
<1> QED
  BY <1>1, <1>3, <1>4, <1>5, TopStaysQuiet

LEMMA RejectQuietly ==
  ASSUME LayersInv, Reject
  PROVE  LayersInv'
<1> DEFINE call == [C EXCEPT !.next = @ + 1, !.asking = FALSE]
<1>1. /\ calls # <<>> /\ C.asking /\ Candidate \notin Iter.filter
      /\ calls' = WithTop(call) /\ UNCHANGED <<next_layer, HEX_LAYER_DATA, iterators>>
  BY DEF Reject, Asking
<1>2. /\ C \in CallRecords(DOMAIN iterators) /\ CallIsTyped(HEX_LAYER_DATA, Iter, C)
      /\ Candidates = Turn(HEX_LAYER_DATA, Iter, C.index) /\ C.next \in Nat \ {0}
  BY <1>1, CallFacts
<1>3. C.index # no_index /\ Iter.filter # no_filter /\ Candidates \in Seq(HexLayers)
  BY <1>1, <1>2, CallFacts DEF CallIsTyped
<1>4. /\ call \in CallRecords(DOMAIN iterators) /\ call.iterator = C.iterator
      /\ call.index = C.index /\ ~ call.asking /\ call.next = C.next + 1
  <2>1. C.next + 1 \in Nat \ {0}
    BY <1>2
  <2> DEFINE number == C.next + 1
  <2>2. call = [C EXCEPT !.next = number, !.asking = FALSE] /\ number \in Nat \ {0}
    BY <2>1
  <2> HIDE DEF call, number
  <2>3. /\ call \in CallRecords(DOMAIN iterators) /\ call.iterator = C.iterator
        /\ call.index = C.index /\ ~ call.asking /\ call.next = number
    BY <1>2, <2>2 DEF CallRecords
  <2> QED
    BY <2>3 DEF number
<1> HIDE DEF call
<1>5. CallIsTyped(HEX_LAYER_DATA, Iter, call)
  BY <1>2, <1>4 DEF CallIsTyped
<1>6. ASSUME NEW layer \in Wanted(Iter), ToTry(HEX_LAYER_DATA, Iter, C, layer)
      PROVE  ToTry(HEX_LAYER_DATA, Iter, call, layer)
  <2>1. PICK j \in DOMAIN Candidates : C.next <= j /\ Candidates[j] = layer
    BY <1>2, <1>6 DEF ToTry
  <2>2. layer \in Iter.filter
    BY <1>3 DEF Wanted
  <2>3. j # C.next
    BY <1>1, <2>1, <2>2 DEF Candidate
  <2>4. j \in Nat
    BY <1>3, <2>1
  <2>5. call.next <= j
    BY <1>2, <1>4, <2>1, <2>3, <2>4
  <2> QED
    BY <1>2, <1>3, <1>4, <2>1, <2>5 DEF ToTry
<1> QED
  BY <1>1, <1>4, <1>5, <1>6, TopStaysQuiet

LEMMA CallQuietly ==
  ASSUME LayersInv, NEW k \in DOMAIN iterators, Call(k)
  PROVE  LayersInv'
<1> DEFINE call == [iterator |-> k, index |-> no_index, next |-> 1, asking |-> FALSE]
           top == Len(calls)
<1>1. /\ calls' = Append(calls, call) /\ UNCHANGED <<next_layer, HEX_LAYER_DATA, iterators>>
      /\ InScript \/ FilterIsBusy
  BY DEF Call
<1>2. calls \in Seq(CallRecords(DOMAIN iterators)) /\ top \in Nat /\ DOMAIN calls = 1 .. top
  BY DEF LayersInv, CallsAreTyped
<1>3. call \in CallRecords(DOMAIN iterators)
  BY DEF CallRecords
<1>4. /\ calls' \in Seq(CallRecords(DOMAIN iterators)) /\ Len(calls') = top + 1
      /\ DOMAIN calls' = 1 .. top + 1
      /\ \A d \in 1 .. top : calls'[d] = calls[d]
      /\ calls'[top + 1] = call
  BY <1>1, <1>2, <1>3, AppendProperties
<1>5. call.iterator = k /\ call.index = no_index /\ ~ call.asking
  OBVIOUS
<1> HIDE DEF call
<1>6. Loaded
  BY <1>1, CallFacts DEF InScript, FilterIsBusy, Asking
<1>7. IteratorsAreLeft
  BY <1>1, SameIterators
<1>8. \A d \in 1 .. top + 1 : d \in 1 .. top \/ d = top + 1
  BY <1>2
<1>9. NoIndexIsTaken
  BY <1>2, <1>4, <1>5, <1>8 DEF NoIndexIsTaken
<1>10. NothingIsDropped
  <2> SUFFICES ASSUME NEW i \in DOMAIN iterators, NEW d \in DOMAIN calls,
                      NEW layer \in Wanted(iterators[i]), calls[d].iterator = i,
                      ToTry(HEX_LAYER_DATA, iterators[i], calls[d], layer)
               PROVE  /\ d \in DOMAIN calls' /\ calls'[d].iterator = i
                      /\ ToTry(HEX_LAYER_DATA, iterators[i], calls'[d], layer)
    BY <1>1 DEF NothingIsDropped
  <2>1. d \in DOMAIN calls' /\ calls'[d] = calls[d]
    BY <1>2, <1>4
  <2> QED
    BY <2>1
<1>11. CallsStayTyped
  <2> SUFFICES ASSUME NEW d \in 1 .. top + 1
               PROVE  /\ CallIsTyped(HEX_LAYER_DATA, iterators[calls'[d].iterator], calls'[d])
                      /\ d < top + 1 => calls'[d].asking
    BY <1>4 DEF CallsStayTyped
  <2>1. CASE d = top + 1
    <3>1. CallIsTyped(HEX_LAYER_DATA, iterators[call.iterator], call)
      BY <1>5 DEF CallIsTyped
    <3> QED
      BY <1>2, <1>4, <2>1, <3>1
  <2>2. CASE d # top + 1
    <3>1. d \in DOMAIN calls /\ calls'[d] = calls[d]
      BY <1>2, <1>4, <1>8, <2>2
    <3>2. CallIsTyped(HEX_LAYER_DATA, iterators[calls[d].iterator], calls[d])
      BY <3>1 DEF LayersInv, CallsAreTyped
    <3>3. calls[d].asking
      <4>1. CASE d = top
        <5>1. calls # <<>>
          BY <1>2, <3>1
        <5> QED
          BY <1>1, <4>1, <5>1, CallFacts DEF InScript, FilterIsBusy, Asking
      <4>2. CASE d # top
        <5>1. d < top
          BY <1>2, <3>1, <4>2
        <5> QED
          BY <3>1, <5>1 DEF LayersInv, CallsAreTyped
      <4> QED
        BY <4>1, <4>2
    <3> QED
      BY <3>1, <3>2, <3>3
  <2> QED
    BY <2>1, <2>2
<1> QED
  BY <1>1, <1>6, <1>7, <1>9, <1>10, <1>11, QuietStepsKeepAll

\* Calls end, and what they were to try is given up only with their iterators.
LEMMA CutQuietly ==
  ASSUME LayersInv, calls # <<>>, UNCHANGED <<next_layer, HEX_LAYER_DATA>>, IteratorsAreLeft,
         NEW n \in 0 .. Len(calls), calls' = SubSeq(calls, 1, n),
         \A k \in DOMAIN iterators : ~ iterators'[k].failed => ~ iterators[k].failed,
         \A d \in n + 1 .. Len(calls) :
           iterators'[calls[d].iterator].failed \/ calls[d].index = no_index
  PROVE  LayersInv'
<1>1. /\ Loaded /\ Len(calls) \in Nat /\ DOMAIN calls = 1 .. Len(calls)
  BY CallFacts
<1>2. /\ calls' \in Seq(CallRecords(DOMAIN iterators))
      /\ Len(calls') = n /\ DOMAIN calls' = 1 .. n
      /\ \A d \in 1 .. n : d \in DOMAIN calls /\ calls'[d] = calls[d]
  BY CallsAreCut
<1>3. NoIndexIsTaken
  BY <1>2 DEF NoIndexIsTaken
<1>4. NothingIsDropped
  <2> SUFFICES ASSUME NEW k \in DOMAIN iterators, ~ iterators'[k].failed,
                      NEW d \in DOMAIN calls,
                      NEW layer \in Wanted(iterators[k]), calls[d].iterator = k,
                      ToTry(HEX_LAYER_DATA, iterators[k], calls[d], layer)
               PROVE  /\ d \in DOMAIN calls' /\ calls'[d].iterator = k
                      /\ ToTry(HEX_LAYER_DATA, iterators[k], calls'[d], layer)
    BY DEF NothingIsDropped
  <2>1. calls[d].index # no_index
    BY DEF ToTry
  <2>2. ~ d \in n + 1 .. Len(calls)
    BY <2>1
  <2>3. d \in 1 .. n
    BY <1>1, <2>2
  <2> QED
    BY <1>2, <2>3
<1>5. CallsStayTyped
  <2> SUFFICES ASSUME NEW d \in 1 .. n
               PROVE  /\ CallIsTyped(HEX_LAYER_DATA, iterators[calls'[d].iterator], calls'[d])
                      /\ d < n => calls'[d].asking
    BY <1>2 DEF CallsStayTyped
  <2>1. d \in DOMAIN calls /\ calls'[d] = calls[d] /\ (d < n => d < Len(calls))
    BY <1>1, <1>2
  <2> QED
    BY <2>1 DEF LayersInv, CallsAreTyped
<1> QED
  BY <1>1, <1>3, <1>4, <1>5, QuietStepsKeepAll

LEMMA ReturnNothingQuietly ==
  ASSUME LayersInv, ReturnNothing
  PROVE  LayersInv'
<1>1. /\ calls # <<>> /\ C.index = no_index /\ calls' = SubSeq(calls, 1, Len(calls) - 1)
      /\ UNCHANGED <<next_layer, HEX_LAYER_DATA, iterators>>
  BY DEF ReturnNothing, InC, Returned
<1>2. Len(calls) \in Nat /\ Len(calls) >= 1 /\ C = calls[Len(calls)]
  BY <1>1, CallFacts
<1>3. IteratorsAreLeft
  BY <1>1, SameIterators
<1>4. \A d \in Len(calls) - 1 + 1 .. Len(calls) : calls[d].index = no_index
  BY <1>1, <1>2
<1>5. Len(calls) - 1 \in 0 .. Len(calls)
  BY <1>2
<1> QED
  BY <1>1, <1>3, <1>4, <1>5, CutQuietly

LEMMA RaiseErrorQuietly ==
  ASSUME LayersInv, RaiseError
  PROVE  LayersInv'
<1>1. calls # <<>> /\ UNCHANGED <<next_layer, HEX_LAYER_DATA>>
  BY DEF RaiseError, FilterIsBusy, Asking
<1>2. PICK caught \in 0 .. Len(calls) - 1 :
        /\ calls' = SubSeq(calls, 1, caught)
        /\ iterators' =
             [k \in DOMAIN iterators |->
                IF \E d \in caught + 1 .. Len(calls) : calls[d].iterator = k
                THEN [iterators[k] EXCEPT !.failed = TRUE] ELSE iterators[k]]
  BY DEF RaiseError
<1>3. /\ Len(calls) \in Nat /\ Len(calls) >= 1 /\ DOMAIN calls = 1 .. Len(calls)
  BY <1>1, CallFacts
<1>4. iterators \in Seq(IteratorRecords)
  BY DEF LayersInv, IteratorsAreTyped
<1>5. \A k \in DOMAIN iterators : [iterators[k] EXCEPT !.failed = TRUE] \in IteratorRecords
  <2>1. \A iter \in IteratorRecords : [iter EXCEPT !.failed = TRUE] \in IteratorRecords
    BY DEF IteratorRecords
  <2> QED
    BY <1>4, <2>1
<1>6. IteratorsAreLeft
  <2>1. DOMAIN iterators' = DOMAIN iterators
    BY <1>2
  <2>2. iterators' \in Seq(IteratorRecords)
    <3>1. Len(iterators) \in Nat /\ DOMAIN iterators = 1 .. Len(iterators)
      BY <1>4
    <3>2. iterators' \in [1 .. Len(iterators) -> IteratorRecords]
      BY <1>2, <1>4, <1>5, <3>1
    <3> QED
      BY <3>1, <3>2, SeqDef
  <2>3. ASSUME NEW k \in DOMAIN iterators
        PROVE  /\ SameParts(iterators'[k], iterators[k])
               /\ iterators'[k].index = iterators[k].index
               /\ iterators'[k].handed = iterators[k].handed
               /\ iterators'[k].repeated = iterators[k].repeated
    <3>1. iterators[k] \in IteratorRecords
      BY <1>4
    <3>2. \/ iterators'[k] = [iterators[k] EXCEPT !.failed = TRUE]
          \/ iterators'[k] = iterators[k]
      BY <1>2
    <3> QED
      BY <3>1, <3>2 DEF SameParts, IteratorRecords
  <2> QED
    BY <2>1, <2>2, <2>3 DEF IteratorsAreLeft
<1>7. \A k \in DOMAIN iterators : ~ iterators'[k].failed => ~ iterators[k].failed
  <2> SUFFICES ASSUME NEW k \in DOMAIN iterators, iterators[k].failed
               PROVE  iterators'[k].failed
    OBVIOUS
  <2>1. \/ iterators'[k] = [iterators[k] EXCEPT !.failed = TRUE]
        \/ iterators'[k] = iterators[k]
    BY <1>2
  <2>2. iterators[k] \in IteratorRecords
    BY <1>4
  <2> QED
    BY <2>1, <2>2 DEF IteratorRecords
<1>8. \A d \in caught + 1 .. Len(calls) : iterators'[calls[d].iterator].failed
  <2> SUFFICES ASSUME NEW d \in caught + 1 .. Len(calls)
               PROVE  iterators'[calls[d].iterator].failed
    OBVIOUS
  <2>1. d \in DOMAIN calls
    BY <1>3
  <2>2. calls[d] \in CallRecords(DOMAIN iterators)
    BY <2>1 DEF LayersInv, CallsAreTyped
  <2> DEFINE k == calls[d].iterator
  <2>3. k \in DOMAIN iterators
    BY <2>2 DEF CallRecords
  <2>4. iterators'[k] = [iterators[k] EXCEPT !.failed = TRUE]
    BY <1>2, <2>3
  <2>5. iterators[k] \in IteratorRecords
    BY <1>4, <2>3
  <2> QED
    BY <2>4, <2>5 DEF IteratorRecords
<1>9. caught \in 0 .. Len(calls)
  BY <1>3
<1> QED
  BY <1>1, <1>2, <1>6, <1>7, <1>8, <1>9, CutQuietly

\* Iterators move on, if they change.
IteratorsGoOn ==
  /\ iterators' \in Seq(IteratorRecords) /\ DOMAIN iterators' = DOMAIN iterators
  /\ \A k \in DOMAIN iterators :
       /\ SameParts(iterators'[k], iterators[k])
       /\ iterators'[k].index <= iterators[k].index

LEMMA IteratorsStayTyped ==
  ASSUME LayersInv, HEX_LAYER_DATA' = HEX_LAYER_DATA, IteratorsGoOn
  PROVE  IteratorsAreTyped'
<1> SUFFICES ASSUME NEW k \in DOMAIN iterators
             PROVE  /\ IteratorIsMade(HEX_LAYER_DATA, iterators'[k])
                    /\ iterators'[k].index <= Limit(HEX_LAYER_DATA, iterators'[k])
  BY DEF IteratorsAreTyped, IteratorsGoOn
<1>1. /\ IteratorIsMade(HEX_LAYER_DATA, iterators[k])
      /\ iterators[k].index <= Limit(HEX_LAYER_DATA, iterators[k])
      /\ iterators[k].index \in Nat /\ Limit(HEX_LAYER_DATA, iterators[k]) \in Nat
  BY IteratorTypes DEF LayersInv
<1>2. /\ SameParts(iterators'[k], iterators[k])
      /\ iterators'[k].index <= iterators[k].index
  BY DEF IteratorsGoOn
<1>3. iterators'[k].index \in Nat
  <2>1. iterators'[k] \in IteratorRecords
    BY DEF IteratorsGoOn
  <2> QED
    BY <2>1 DEF IteratorRecords
<1>4. /\ IteratorIsMade(HEX_LAYER_DATA, iterators'[k])
      /\ Limit(HEX_LAYER_DATA, iterators'[k]) = Limit(HEX_LAYER_DATA, iterators[k])
  BY <1>1, <1>2, SamePartsSameTurns
<1> QED
  BY <1>1, <1>2, <1>3, <1>4

LEMMA CallStaysTyped ==
  ASSUME NEW a \in IteratorRecords, NEW b \in IteratorRecords, SameParts(a, b),
         a.index <= b.index, NEW table, NEW numbers, NEW call \in CallRecords(numbers),
         CallIsTyped(table, b, call)
  PROVE  CallIsTyped(table, a, call)
<1>1. /\ \A i : Turn(table, a, i) = Turn(table, b, i)
      /\ Limit(table, a) = Limit(table, b)
  BY SamePartsSameTurns
<1>2. a.filter = b.filter
  BY DEF SameParts
<1>3. a.index \in Nat /\ b.index \in Nat
  BY DEF IteratorRecords
<1>4. call.index \in Nat \cup {no_index}
  BY DEF CallRecords
<1>5. call.index # no_index => a.index <= call.index
  <2> SUFFICES ASSUME call.index # no_index
               PROVE  a.index <= call.index
    OBVIOUS
  <2>1. call.index \in Nat /\ b.index <= call.index
    BY <1>4 DEF CallIsTyped
  <2> QED
    BY <1>3, <2>1
<1> QED
  BY <1>1, <1>2, <1>5 DEF CallIsTyped

LEMMA OneIteratorChanges ==
  ASSUME LayersInv, NEW k0 \in DOMAIN iterators, NEW new \in IteratorRecords,
         iterators' = [iterators EXCEPT ![k0] = new],
         SameParts(new, iterators[k0]), new.index <= iterators[k0].index
  PROVE  /\ IteratorsGoOn /\ DOMAIN iterators' = DOMAIN iterators /\ iterators'[k0] = new
         /\ \A k \in DOMAIN iterators \ {k0} : iterators'[k] = iterators[k]
<1>1. iterators \in Seq(IteratorRecords)
  BY DEF LayersInv, IteratorsAreTyped
<1>2. iterators' \in Seq(IteratorRecords)
  BY <1>1, ExceptSeq
<1>3. /\ DOMAIN iterators' = DOMAIN iterators /\ iterators'[k0] = new
      /\ \A k \in DOMAIN iterators \ {k0} : iterators'[k] = iterators[k]
  OBVIOUS
<1>4. ASSUME NEW k \in DOMAIN iterators
      PROVE  /\ SameParts(iterators'[k], iterators[k])
             /\ iterators'[k].index <= iterators[k].index
  <2>1. CASE k = k0
    BY <1>3, <2>1
  <2>2. CASE k # k0
    <3>1. iterators'[k] = iterators[k] /\ iterators[k].index \in Nat
      BY <1>3, <2>2, IteratorTypes DEF LayersInv
    <3> QED
      BY <3>1 DEF SameParts
  <2> QED
    BY <2>1, <2>2
<1> QED
  BY <1>2, <1>3, <1>4 DEF IteratorsGoOn

\* The table, while iterators run.
LEMMA TableIsLeft ==
  ASSUME LayersInv, UNCHANGED <<next_layer, HEX_LAYER_DATA>>, Loaded
  PROVE  DataIsTyped' /\ DataIsComplete' /\ DataFits' /\ LoadedFirst'
BY DEF LayersInv, DataIsTyped, DataIsComplete, DataFits, LoadedFirst, Loaded

\* The last index of the iterator goes to the innermost call.
LEMMA TakeIndexParts ==
  ASSUME LayersInv, TakeIndex
  PROVE  \E new \in IteratorRecords, call \in CallRecords(DOMAIN iterators) :
           /\ UNCHANGED <<next_layer, HEX_LAYER_DATA>>
           /\ calls # <<>> /\ C.index = no_index /\ ~ C.asking /\ Iter.index > 0
           /\ SameParts(new, Iter) /\ new.index = Iter.index - 1
           /\ new.handed = Iter.handed /\ new.repeated = Iter.repeated
           /\ new.failed = Iter.failed
           /\ iterators' = [iterators EXCEPT ![C.iterator] = new]
           /\ call.iterator = C.iterator /\ call.index = Iter.index - 1 /\ call.next = 1
           /\ ~ call.asking /\ calls' = WithTop(call)
<1> DEFINE index == Iter.index - 1
           new == [Iter EXCEPT !.index = index]
           call == [C EXCEPT !.index = index, !.next = 1]
<1>1. /\ UNCHANGED <<next_layer, HEX_LAYER_DATA>>
      /\ calls # <<>> /\ C.index = no_index /\ ~ C.asking /\ Iter.index > 0
      /\ calls' = WithTop(call)
      /\ iterators' = [iterators EXCEPT ![C.iterator].index = @ - 1]
  BY DEF TakeIndex, InC
<1>2. C.iterator \in DOMAIN iterators /\ C \in CallRecords(DOMAIN iterators)
  BY <1>1, CallFacts
<1>3. Iter \in IteratorRecords /\ Iter.index \in Nat
  BY <1>2, IteratorTypes DEF LayersInv, Iter
<1>4. iterators' = [iterators EXCEPT ![C.iterator] = new]
  BY <1>1 DEF Iter
<1>5. index \in Nat
  BY <1>1, <1>3
<1> HIDE DEF index
<1>6. /\ new \in IteratorRecords /\ SameParts(new, Iter) /\ new.index = index
      /\ new.handed = Iter.handed /\ new.repeated = Iter.repeated /\ new.failed = Iter.failed
  <2>1. \A iter \in IteratorRecords : [iter EXCEPT !.index = index] \in IteratorRecords
    BY <1>5 DEF IteratorRecords
  <2>2. /\ SameParts(new, Iter) /\ new.index = index
        /\ new.handed = Iter.handed /\ new.repeated = Iter.repeated
        /\ new.failed = Iter.failed
    BY <1>3 DEF SameParts, IteratorRecords
  <2> QED
    BY <1>3, <2>1, <2>2
<1>7. /\ call \in CallRecords(DOMAIN iterators) /\ call.iterator = C.iterator
      /\ call.index = index /\ call.next = 1 /\ call.asking = C.asking
  <2>1. 1 \in Nat \ {0}
    OBVIOUS
  <2>2. call \in CallRecords(DOMAIN iterators)
    <3>1. \A c \in CallRecords(DOMAIN iterators) :
            [c EXCEPT !.index = index, !.next = 1] \in CallRecords(DOMAIN iterators)
      BY <1>5, <2>1 DEF CallRecords
    <3> QED
      BY <1>2, <3>1
  <2> QED
    BY <1>2, <2>2 DEF CallRecords
<1> HIDE DEF new, call
<1>8. index = Iter.index - 1
  BY DEF index
<1> QED
  BY <1>1, <1>4, <1>6, <1>7, <1>8

LEMMA TakeIndexKeeps ==
  ASSUME LayersInv, TakeIndex
  PROVE  LayersInv'
<1>1. PICK new \in IteratorRecords, call \in CallRecords(DOMAIN iterators) :
        /\ UNCHANGED <<next_layer, HEX_LAYER_DATA>>
        /\ calls # <<>> /\ C.index = no_index /\ ~ C.asking /\ Iter.index > 0
        /\ SameParts(new, Iter) /\ new.index = Iter.index - 1
        /\ new.handed = Iter.handed /\ new.repeated = Iter.repeated
        /\ new.failed = Iter.failed
        /\ iterators' = [iterators EXCEPT ![C.iterator] = new]
        /\ call.iterator = C.iterator /\ call.index = Iter.index - 1 /\ call.next = 1
        /\ ~ call.asking /\ calls' = WithTop(call)
  BY TakeIndexParts
<1> DEFINE top == Len(calls)
           k0 == C.iterator
           D == HEX_LAYER_DATA
<1>2. /\ Loaded /\ top \in Nat /\ DOMAIN calls = 1 .. top /\ top \in DOMAIN calls
      /\ C = calls[top] /\ k0 \in DOMAIN iterators
  BY <1>1, CallFacts
<1>3. Iter = iterators[k0]
  BY DEF Iter
<1>4. /\ Iter \in IteratorRecords /\ IteratorIsMade(D, Iter) /\ Iter.index \in Nat
      /\ Limit(D, Iter) \in Nat /\ Iter.index <= Limit(D, Iter)
  BY <1>2, <1>3, IteratorTypes DEF LayersInv
<1>5. new.index \in Nat /\ new.index < Iter.index /\ new.index < Limit(D, Iter)
  BY <1>1, <1>4
<1> HIDE DEF k0
<1>6. /\ IteratorsGoOn /\ DOMAIN iterators' = DOMAIN iterators /\ iterators'[k0] = new
      /\ \A k \in DOMAIN iterators \ {k0} : iterators'[k] = iterators[k]
  <2>1. iterators' = [iterators EXCEPT ![k0] = new] /\ SameParts(new, iterators[k0])
    BY <1>1, <1>3 DEF k0
  <2>2. new.index <= iterators[k0].index
    BY <1>3, <1>4, <1>5
  <2> QED
    BY <1>2, <2>1, <2>2, OneIteratorChanges
<1>7. /\ calls' \in Seq(CallRecords(DOMAIN iterators))
      /\ Len(calls') = top /\ DOMAIN calls' = DOMAIN calls /\ calls'[top] = call
      /\ \A d \in DOMAIN calls \ {top} : calls'[d] = calls[d]
  BY <1>1, TopChanges
<1>8. /\ \A i : Turn(D, new, i) = Turn(D, Iter, i)
      /\ Limit(D, new) = Limit(D, Iter)
      /\ \A i, l : Tries(D, new, i, l) = Tries(D, Iter, i, l)
      /\ Wanted(new) = Wanted(Iter)
  <2>1. SameParts(new, Iter)
    BY <1>1
  <2> QED
    BY <2>1, SamePartsSameTurns
<1>9. /\ call.iterator = k0 /\ call.index = new.index /\ call.index # no_index
  BY <1>1, <1>5, LuaAssumption DEF k0
<1>10. ASSUME NEW d \in DOMAIN calls
       PROVE  /\ calls[d] \in CallRecords(DOMAIN iterators)
              /\ calls[d].iterator \in DOMAIN iterators
              /\ calls[d].index \in Nat \cup {no_index}
              /\ CallIsTyped(D, iterators[calls[d].iterator], calls[d])
  <2>1. calls[d] \in CallRecords(DOMAIN iterators)
    BY DEF LayersInv, CallsAreTyped
  <2>2. calls[d].iterator \in DOMAIN iterators /\ calls[d].index \in Nat \cup {no_index}
    BY <2>1 DEF CallRecords
  <2> QED
    BY <2>1, <2>2 DEF LayersInv, CallsAreTyped
\* A call of this iterator that works on an index works on a larger one.
<1>11. ASSUME NEW d \in DOMAIN calls, calls[d].iterator = k0, calls[d].index # no_index
       PROVE  calls[d].index # new.index
  <2>1. Iter.index <= calls[d].index /\ calls[d].index \in Nat
    BY <1>3, <1>10, <1>11 DEF CallIsTyped
  <2> QED
    BY <1>4, <1>5, <2>1
<1>12. IteratorsAreTyped'
  BY <1>1, <1>6, IteratorsStayTyped
<1>13. CallsAreTyped'
  <2> SUFFICES ASSUME NEW d \in DOMAIN calls
               PROVE  /\ CallIsTyped(D, iterators'[calls'[d].iterator], calls'[d])
                      /\ d < top => calls'[d].asking
    BY <1>1, <1>6, <1>7 DEF CallsAreTyped
  <2>1. CASE d = top
    <3>1. CallIsTyped(D, new, call)
      BY <1>1, <1>5, <1>8, <1>9 DEF CallIsTyped
    <3> QED
      BY <1>2, <1>6, <1>7, <1>9, <2>1, <3>1
  <2>2. CASE d # top
    <3>1. calls'[d] = calls[d]
      BY <1>7, <2>2
    <3> DEFINE k == calls[d].iterator
    <3>2. /\ k \in DOMAIN iterators /\ CallIsTyped(D, iterators[k], calls[d])
          /\ calls[d] \in CallRecords(DOMAIN iterators)
      BY <1>10
    <3>3. /\ iterators'[k] \in IteratorRecords /\ iterators[k] \in IteratorRecords
          /\ SameParts(iterators'[k], iterators[k])
          /\ iterators'[k].index <= iterators[k].index
      BY <1>6, <3>2 DEF IteratorsGoOn, LayersInv, IteratorsAreTyped
    <3> HIDE DEF k
    <3>4. CallIsTyped(D, iterators'[k], calls[d])
      BY <3>2, <3>3, CallStaysTyped
    <3> QED
      BY <2>2, <3>1, <3>4 DEF LayersInv, CallsAreTyped, k
  <2> QED
    BY <2>1, <2>2
<1>14. TakenOnce'
  <2> SUFFICES ASSUME NEW d \in DOMAIN calls, NEW e \in DOMAIN calls,
                      calls'[d].iterator = calls'[e].iterator,
                      calls'[d].index = calls'[e].index, calls'[d].index # no_index
               PROVE  d = e
    BY <1>7 DEF TakenOnce
  <2>1. CASE d = top /\ e # top
    BY <1>7, <1>9, <1>11, <2>1
  <2>2. CASE d # top /\ e = top
    BY <1>7, <1>9, <1>11, <2>2
  <2>3. CASE d # top /\ e # top
    BY <1>7, <2>3 DEF LayersInv, TakenOnce
  <2> QED
    BY <2>1, <2>2, <2>3
<1>15. HandedAfterwards'
  <2> SUFFICES ASSUME NEW k \in DOMAIN iterators, NEW layer \in iterators'[k].handed,
                      NEW i \in 0 .. Limit(D, iterators'[k]) - 1,
                      Tries(D, iterators'[k], i, layer)
               PROVE  /\ iterators'[k].index <= i
                      /\ \A d \in DOMAIN calls : calls'[d].iterator = k => calls'[d].index # i
    BY <1>1, <1>6, <1>7 DEF HandedAfterwards
  <2>1. CASE k = k0
    <3>1. layer \in Iter.handed /\ i \in 0 .. Limit(D, Iter) - 1 /\ Tries(D, Iter, i, layer)
      BY <1>1, <1>6, <1>8, <2>1
    <3>2. /\ Iter.index <= i
          /\ \A d \in DOMAIN calls : calls[d].iterator = k => calls[d].index # i
      BY <1>3, <2>1, <3>1 DEF LayersInv, HandedAfterwards
    <3>3. new.index <= i /\ new.index # i
      BY <1>4, <1>5, <3>1, <3>2
    <3>4. iterators'[k].index <= i
      BY <1>6, <2>1, <3>3
    <3>5. \A d \in DOMAIN calls : calls'[d].iterator = k => calls'[d].index # i
      BY <1>7, <1>9, <3>2, <3>3
    <3> QED
      BY <3>4, <3>5
  <2>2. CASE k # k0
    <3>1. iterators'[k] = iterators[k]
      BY <1>6, <2>2
    <3>2. /\ iterators[k].index <= i
          /\ \A d \in DOMAIN calls : calls[d].iterator = k => calls[d].index # i
      BY <3>1 DEF LayersInv, HandedAfterwards
    <3>3. \A d \in DOMAIN calls : calls'[d].iterator = k => calls'[d].index # i
      BY <1>7, <1>9, <2>2, <3>2
    <3> QED
      BY <3>1, <3>2, <3>3
  <2> QED
    BY <2>1, <2>2
<1>16. HandedWell'
  <2>1. WellHanded(Iter)
    BY <1>2, <1>3 DEF LayersInv, HandedWell
  <2>2. WellHanded(new)
    BY <1>1, <1>8, <2>1 DEF WellHanded, SameParts
  <2> QED
    BY <1>6, <2>2 DEF LayersInv, HandedWell
<1>17. NothingIsLost'
  <2> SUFFICES ASSUME NEW k \in DOMAIN iterators, ~ iterators'[k].failed,
                      NEW layer \in Wanted(iterators'[k]) \ {iterators'[k].exclude}
               PROVE  \/ Satisfied(iterators'[k], layer)
                      \/ ToCome(D, iterators'[k], layer)
                      \/ \E d \in DOMAIN calls : /\ calls'[d].iterator = k
                                                 /\ ToTry(D, iterators'[k], calls'[d], layer)
    <3>1. DOMAIN iterators' = DOMAIN iterators /\ DOMAIN calls' = DOMAIN calls
          /\ HEX_LAYER_DATA' = D
      BY <1>1, <1>6, <1>7
    <3> QED
      BY <3>1 DEF NothingIsLost
  <2>1. CASE k = k0
    <3>1. /\ ~ Iter.failed /\ layer \in Wanted(Iter) \ {Iter.exclude}
      BY <1>1, <1>6, <1>8, <2>1 DEF SameParts
    <3>2. \/ Satisfied(Iter, layer)
          \/ ToCome(D, Iter, layer)
          \/ \E d \in DOMAIN calls : calls[d].iterator = k /\ ToTry(D, Iter, calls[d], layer)
      BY <1>3, <2>1, <3>1 DEF LayersInv, NothingIsLost
    <3>3. CASE Satisfied(Iter, layer)
      <4>1. Satisfied(new, layer)
        BY <1>1, <3>3 DEF Satisfied, SameParts
      <4> QED
        BY <1>6, <2>1, <4>1
    <3>4. CASE ToCome(D, Iter, layer)
      <4>1. PICK i \in 0 .. Iter.index - 1 : Tries(D, Iter, i, layer)
        BY <3>4 DEF ToCome
      <4>2. CASE i = new.index
        <5>1. PICK j \in DOMAIN Turn(D, Iter, i) : Turn(D, Iter, i)[j] = layer
          BY <4>1 DEF Tries
        <5>2. Turn(D, Iter, i) \in Seq(HexLayers)
          BY <1>4, <1>5, <4>2, TurnTypes DEF LayersInv
        <5>3. 1 <= j
          BY <5>1, <5>2
        <5>4. ToTry(D, new, call, layer)
          BY <1>1, <1>8, <1>9, <4>2, <5>1, <5>3 DEF ToTry
        <5>5. calls'[top].iterator = k /\ ToTry(D, iterators'[k], calls'[top], layer)
          BY <1>6, <1>7, <1>9, <2>1, <5>4
        <5> QED
          BY <1>2, <5>5
      <4>3. CASE i # new.index
        <5>1. i \in 0 .. new.index - 1
          BY <1>1, <1>4, <4>3
        <5>2. ToCome(D, new, layer)
          BY <1>8, <4>1, <5>1 DEF ToCome
        <5> QED
          BY <1>6, <2>1, <5>2
      <4> QED
        BY <4>2, <4>3
    <3>5. ASSUME NEW d \in DOMAIN calls, calls[d].iterator = k,
                 ToTry(D, Iter, calls[d], layer)
          PROVE  calls'[d].iterator = k /\ ToTry(D, iterators'[k], calls'[d], layer)
      <4>1. d # top
        BY <1>1, <1>2, <3>5 DEF ToTry
      <4>2. ToTry(D, new, calls[d], layer)
        BY <1>8, <3>5 DEF ToTry
      <4> QED
        BY <1>6, <1>7, <2>1, <3>5, <4>1, <4>2
    <3> QED
      BY <3>2, <3>3, <3>4, <3>5
  <2>2. CASE k # k0
    <3>1. iterators'[k] = iterators[k]
      BY <1>6, <2>2
    <3>2. \/ Satisfied(iterators[k], layer)
          \/ ToCome(D, iterators[k], layer)
          \/ \E d \in DOMAIN calls : /\ calls[d].iterator = k
                                     /\ ToTry(D, iterators[k], calls[d], layer)
      BY <3>1 DEF LayersInv, NothingIsLost
    <3>3. \A d \in DOMAIN calls : calls[d].iterator = k => calls'[d] = calls[d]
      BY <1>2, <1>7, <2>2 DEF k0
    <3> QED
      BY <3>1, <3>2, <3>3
  <2> QED
    BY <2>1, <2>2
<1>18. DataIsTyped' /\ DataIsComplete' /\ DataFits' /\ LoadedFirst'
  BY <1>1, <1>2, TableIsLeft
<1> QED
  BY <1>12, <1>13, <1>14, <1>15, <1>16, <1>17, <1>18 DEF LayersInv

\* A layer is handed out that the iterator's turn has and its filter takes.
HandsOut ==
  /\ HandOut /\ UNCHANGED <<next_layer, HEX_LAYER_DATA>>
  /\ calls # <<>> /\ C.index # no_index /\ C.next <= Len(Candidates)
  /\ Iter.filter = no_filter \/ Candidate \in Iter.filter

\* It is wanted, and new.
LEMMA CandidateIsNew ==
  ASSUME LayersInv, HandsOut
  PROVE  /\ Tries(HEX_LAYER_DATA, Iter, C.index, Candidate)
         /\ Candidate \in HexLayers /\ Candidate \in Wanted(Iter)
         /\ Candidate \notin Iter.handed /\ Candidate # Iter.exclude
         /\ Iter.type = "unique" =>
              \A l \in Iter.handed : hex_layer_output(l) # hex_layer_output(Candidate)
<1> DEFINE D == HEX_LAYER_DATA
           top == Len(calls)
<1>1. /\ Loaded /\ top \in DOMAIN calls /\ C = calls[top] /\ C.iterator \in DOMAIN iterators
      /\ Candidates = Turn(D, Iter, C.index) /\ C.next \in Nat \ {0}
      /\ C.index \in 0 .. Limit(D, Iter) - 1 /\ Candidates \in Seq(HexLayers)
  BY CallFacts DEF HandsOut
<1>2. /\ Iter \in IteratorRecords /\ IteratorIsMade(D, Iter) /\ Iter.handed \subseteq HexLayers
      /\ DataIsTyped /\ DataIsComplete
  BY <1>1, IteratorTypes DEF LayersInv, Iter
<1>3. C.next \in DOMAIN Candidates
  BY <1>1 DEF HandsOut
<1>4. Tries(D, Iter, C.index, Candidate) /\ Candidate \in HexLayers
  BY <1>1, <1>3 DEF Tries, Candidate
<1>5. Candidate \in Wanted(Iter)
  BY <1>1, <1>2, <1>4, WhatIsTriedIsWanted DEF HandsOut
\* Whatever this turn tries was not handed out.
<1>6. ASSUME NEW l \in Iter.handed
      PROVE  ~ Tries(D, Iter, C.index, l)
  BY <1>1, <1>6 DEF LayersInv, HandedAfterwards, Iter
<1>7. ASSUME Iter.type = "unique", NEW l \in Iter.handed,
             hex_layer_output(l) = hex_layer_output(Candidate)
      PROVE  FALSE
  <2>1. l \in HexLayers
    BY <1>2
  <2>2. Tries(D, Iter, C.index, l)
    BY <1>1, <1>2, <1>4, <1>7, <2>1, FunctionsAreTogether
  <2> QED
    BY <1>6, <2>2
<1>8. Candidate # Iter.exclude
  <2>1. CASE Iter.type = "list"
    BY <1>1, <1>4, <2>1 DEF Tries, Turn
  <2>2. CASE Iter.type # "list"
    <3>1. Iter.exclude = HEX_LAYER_COUNT
      BY <1>2, <2>2 DEF IteratorIsMade
    <3> QED
      BY <1>4, <3>1, CountsAreNumbers DEF HexLayers
  <2> QED
    BY <2>1, <2>2
<1> QED
  BY <1>4, <1>5, <1>6, <1>7, <1>8

LEMMA HandOutParts ==
  ASSUME LayersInv, HandsOut
  PROVE  \E new \in IteratorRecords :
           /\ SameParts(new, Iter) /\ new.index = Iter.index
           /\ new.handed = Iter.handed \cup {Candidate}
           /\ new.repeated = (Iter.repeated \/ Candidate \in Iter.handed)
           /\ new.failed = Iter.failed
           /\ iterators' = [iterators EXCEPT ![C.iterator] = new]
<1> DEFINE layer == Candidate
           more == Iter.handed \cup {layer}
           again == Iter.repeated \/ layer \in Iter.handed
           new == [Iter EXCEPT !.handed = more, !.repeated = again]
<1>1. C.iterator \in DOMAIN iterators
  BY CallFacts DEF HandsOut
<1>2. Iter \in IteratorRecords /\ Iter.handed \subseteq HexLayers
  BY <1>1, IteratorTypes DEF LayersInv, Iter
<1>3. layer \in HexLayers
  BY CandidateIsNew
<1>4. iterators' = [iterators EXCEPT ![C.iterator] = new]
  BY DEF HandsOut, HandOut, Gave, Iter
<1>5. more \in SUBSET HexLayers /\ again \in BOOLEAN
  <2>1. Iter.repeated \in BOOLEAN
    BY <1>2 DEF IteratorRecords
  <2> QED
    BY <1>2, <1>3, <2>1
<1> DEFINE given == more
           twice == again
<1>6. /\ given \in SUBSET HexLayers /\ twice \in BOOLEAN
      /\ new = [Iter EXCEPT !.handed = given, !.repeated = twice]
  BY <1>5
<1> HIDE DEF given, twice, new
<1>7. new \in IteratorRecords
  <2>1. \A iter \in IteratorRecords :
          [iter EXCEPT !.handed = given, !.repeated = twice] \in IteratorRecords
    BY <1>6 DEF IteratorRecords
  <2> QED
    BY <1>2, <1>6, <2>1
<1>8. /\ SameParts(new, Iter) /\ new.index = Iter.index /\ new.failed = Iter.failed
      /\ new.handed = given /\ new.repeated = twice
  BY <1>2, <1>6 DEF SameParts, IteratorRecords
<1> QED
  BY <1>4, <1>7, <1>8 DEF given, twice

LEMMA HandOutKeeps ==
  ASSUME LayersInv, HandsOut
  PROVE  LayersInv'
<1> DEFINE top == Len(calls)
           k0 == C.iterator
           D == HEX_LAYER_DATA
           given == Candidate
<1>1. PICK new \in IteratorRecords :
        /\ SameParts(new, Iter) /\ new.index = Iter.index
        /\ new.handed = Iter.handed \cup {given}
        /\ new.repeated = (Iter.repeated \/ given \in Iter.handed)
        /\ new.failed = Iter.failed
        /\ iterators' = [iterators EXCEPT ![k0] = new]
  BY HandOutParts
<1>2. /\ Loaded /\ top \in Nat /\ DOMAIN calls = 1 .. top /\ top \in DOMAIN calls
      /\ C = calls[top] /\ k0 \in DOMAIN iterators /\ C.index # no_index
      /\ Candidates = Turn(D, Iter, C.index) /\ C.next \in Nat \ {0}
      /\ C.index \in 0 .. Limit(D, Iter) - 1 /\ Candidates \in Seq(HexLayers)
      /\ CallIsTyped(D, Iter, C) /\ UNCHANGED <<next_layer, HEX_LAYER_DATA>>
  BY CallFacts DEF HandsOut
<1>3. Iter = iterators[k0]
  BY DEF Iter
<1>4. /\ Iter \in IteratorRecords /\ IteratorIsMade(D, Iter) /\ Iter.index \in Nat
      /\ Limit(D, Iter) \in Nat /\ DataIsTyped /\ DataIsComplete
  BY <1>2, <1>3, IteratorTypes DEF LayersInv
<1>5. /\ Tries(D, Iter, C.index, given) /\ given \in HexLayers /\ given \in Wanted(Iter)
      /\ given \notin Iter.handed /\ given # Iter.exclude
      /\ Iter.type = "unique" =>
           \A l \in Iter.handed : hex_layer_output(l) # hex_layer_output(given)
  BY CandidateIsNew
<1>6. given = Candidates[C.next] /\ C.next \in DOMAIN Candidates
  BY <1>2 DEF Candidate, HandsOut
<1> HIDE DEF k0, given
<1>7. /\ IteratorsGoOn /\ DOMAIN iterators' = DOMAIN iterators /\ iterators'[k0] = new
      /\ \A k \in DOMAIN iterators \ {k0} : iterators'[k] = iterators[k]
  <2>1. iterators' = [iterators EXCEPT ![k0] = new] /\ SameParts(new, iterators[k0])
    BY <1>1, <1>3
  <2>2. new.index <= iterators[k0].index
    BY <1>1, <1>3, <1>4
  <2> QED
    BY <1>2, <2>1, <2>2, OneIteratorChanges
<1>8. /\ calls' \in Seq(CallRecords(DOMAIN iterators))
      /\ Len(calls') = top - 1 /\ DOMAIN calls' = 1 .. top - 1
      /\ \A d \in 1 .. top - 1 : d \in DOMAIN calls /\ d # top /\ calls'[d] = calls[d]
  <2>1. calls' = SubSeq(calls, 1, top - 1)
    BY DEF HandsOut, HandOut, Returned
  <2> DEFINE n == top - 1
  <2>2. n \in 0 .. Len(calls) /\ n \in Nat /\ \A d \in 1 .. n : d # top
    <3>1. top \in Nat /\ top >= 1
      BY <1>2
    <3>2. top = Len(calls)
      OBVIOUS
    <3> HIDE DEF top
    <3> QED
      BY <3>1, <3>2
  <2>3. calls' = SubSeq(calls, 1, n)
    BY <2>1
  <2> HIDE DEF n, top
  <2>4. /\ calls' \in Seq(CallRecords(DOMAIN iterators))
        /\ Len(calls') = n /\ DOMAIN calls' = 1 .. n
        /\ \A d \in 1 .. n : d \in DOMAIN calls /\ calls'[d] = calls[d]
    BY <2>2, <2>3, CallsAreCut
  <2> QED
    BY <2>2, <2>4 DEF n
<1>9. /\ \A i : Turn(D, new, i) = Turn(D, Iter, i)
      /\ Limit(D, new) = Limit(D, Iter)
      /\ \A i, l : Tries(D, new, i, l) = Tries(D, Iter, i, l)
      /\ Wanted(new) = Wanted(Iter)
      /\ new.type = Iter.type /\ new.exclude = Iter.exclude
  <2>1. SameParts(new, Iter)
    BY <1>1
  <2> QED
    BY <2>1, SamePartsSameTurns DEF SameParts
<1>10. IteratorsAreTyped'
  BY <1>2, <1>7, IteratorsStayTyped
<1>11. CallsAreTyped'
  <2> SUFFICES ASSUME NEW d \in 1 .. top - 1
               PROVE  /\ CallIsTyped(D, iterators'[calls'[d].iterator], calls'[d])
                      /\ calls'[d].asking
    BY <1>2, <1>7, <1>8 DEF CallsAreTyped
  <2> DEFINE k == calls[d].iterator
  <2> HIDE DEF top
  <2>1. calls'[d] = calls[d] /\ d \in DOMAIN calls /\ d < top
    <3>1. d < top
      BY <1>2
    <3> QED
      BY <1>8, <3>1
  <2>2. /\ CallIsTyped(D, iterators[k], calls[d]) /\ calls[d].asking
        /\ calls[d] \in CallRecords(DOMAIN iterators)
    BY <2>1 DEF LayersInv, CallsAreTyped, top
  <2>3. k \in DOMAIN iterators
    BY <2>2 DEF CallRecords
  <2>4. /\ iterators'[k] \in IteratorRecords /\ iterators[k] \in IteratorRecords
        /\ SameParts(iterators'[k], iterators[k])
        /\ iterators'[k].index <= iterators[k].index
    BY <1>7, <2>3 DEF IteratorsGoOn, LayersInv, IteratorsAreTyped
  <2> HIDE DEF k
  <2>5. CallIsTyped(D, iterators'[k], calls[d])
    BY <2>2, <2>4, CallStaysTyped
  <2> QED
    BY <2>1, <2>2, <2>5 DEF k
<1>12. TakenOnce'
  BY <1>8 DEF LayersInv, TakenOnce
<1>13. HandedAfterwards'
  <2> SUFFICES ASSUME NEW k \in DOMAIN iterators, NEW layer \in iterators'[k].handed,
                      NEW i \in 0 .. Limit(D, iterators'[k]) - 1,
                      Tries(D, iterators'[k], i, layer)
               PROVE  /\ iterators'[k].index <= i
                      /\ \A d \in 1 .. top - 1 : calls[d].iterator = k => calls[d].index # i
    <3>1. DOMAIN iterators' = DOMAIN iterators /\ HEX_LAYER_DATA' = D
      BY <1>2, <1>7
    <3>2. DOMAIN calls' = 1 .. top - 1 /\ \A d \in 1 .. top - 1 : calls'[d] = calls[d]
      BY <1>8
    <3> HIDE DEF top
    <3> QED
      BY <3>1, <3>2 DEF HandedAfterwards
  <2>1. ASSUME layer \in iterators[k].handed
        PROVE  /\ iterators'[k].index <= i
               /\ \A d \in 1 .. top - 1 : calls[d].iterator = k => calls[d].index # i
    <3>1. /\ i \in 0 .. Limit(D, iterators[k]) - 1 /\ Tries(D, iterators[k], i, layer)
          /\ iterators'[k].index = iterators[k].index
      BY <1>1, <1>3, <1>7, <1>9
    <3> QED
      BY <1>8, <2>1, <3>1 DEF LayersInv, HandedAfterwards
  <2>2. ASSUME layer \notin iterators[k].handed
        PROVE  /\ iterators'[k].index <= i
               /\ \A d \in 1 .. top - 1 : calls[d].iterator = k => calls[d].index # i
    <3>1. k = k0 /\ layer = given
      BY <1>1, <1>3, <1>7, <2>2
    <3>2. i \in 0 .. Limit(D, Iter) - 1 /\ Tries(D, Iter, i, given)
      BY <1>7, <1>9, <3>1
    <3>3. i = C.index
      BY <1>2, <1>4, <1>5, <3>2, TurnsAreApart
    <3>4. Iter.index <= i
      BY <1>2, <3>3 DEF CallIsTyped
    <3>5. \A d \in 1 .. top - 1 : calls[d].iterator = k => calls[d].index # i
      <4> SUFFICES ASSUME NEW d \in 1 .. top - 1, calls[d].iterator = k, calls[d].index = i
                   PROVE  FALSE
        OBVIOUS
      <4>1. /\ calls[d].iterator = calls[top].iterator /\ calls[d].index = calls[top].index
            /\ calls[d].index # no_index
        BY <1>2, <3>1, <3>3 DEF k0
      <4>2. d = top
        BY <1>2, <1>8, <4>1 DEF LayersInv, TakenOnce
      <4> QED
        BY <1>8, <4>2
    <3> QED
      BY <1>1, <1>7, <3>1, <3>4, <3>5
  <2> QED
    BY <2>1, <2>2
<1>14. HandedWell'
  <2>1. WellHanded(Iter)
    BY <1>2, <1>3 DEF LayersInv, HandedWell
  <2>2. ~ new.repeated
    BY <1>1, <1>5, <2>1 DEF WellHanded
  <2>3. new.handed \subseteq Wanted(new) /\ new.exclude \notin new.handed
    BY <1>1, <1>5, <1>9, <2>1 DEF WellHanded
  <2>4. new.type = "unique" =>
          \A l, m \in new.handed : hex_layer_output(l) = hex_layer_output(m) => l = m
    BY <1>1, <1>5, <1>9, <2>1 DEF WellHanded
  <2>5. WellHanded(new)
    BY <2>2, <2>3, <2>4 DEF WellHanded
  <2> QED
    BY <1>7, <2>5 DEF LayersInv, HandedWell
<1>15. NothingIsLost'
  <2> SUFFICES ASSUME NEW k \in DOMAIN iterators, ~ iterators'[k].failed,
                      NEW layer \in Wanted(iterators'[k]) \ {iterators'[k].exclude}
               PROVE  \/ Satisfied(iterators'[k], layer)
                      \/ ToCome(D, iterators'[k], layer)
                      \/ \E d \in 1 .. top - 1 :
                           calls'[d].iterator = k /\ ToTry(D, iterators'[k], calls'[d], layer)
    <3>1. DOMAIN iterators' = DOMAIN iterators /\ DOMAIN calls' = 1 .. top - 1
          /\ HEX_LAYER_DATA' = D
      BY <1>2, <1>7, <1>8
    <3> QED
      BY <3>1 DEF NothingIsLost
  <2>1. CASE k = k0
    <3>1. ~ Iter.failed /\ layer \in Wanted(Iter) \ {Iter.exclude}
      BY <1>1, <1>7, <1>9, <2>1
    <3>2. \/ Satisfied(Iter, layer)
          \/ ToCome(D, Iter, layer)
          \/ \E d \in DOMAIN calls : calls[d].iterator = k /\ ToTry(D, Iter, calls[d], layer)
      BY <1>3, <2>1, <3>1 DEF LayersInv, NothingIsLost
    <3>3. CASE Satisfied(Iter, layer)
      <4>1. Satisfied(new, layer)
        BY <1>1, <1>9, <3>3 DEF Satisfied, Outputs
      <4> QED
        BY <1>7, <2>1, <4>1
    <3>4. CASE ToCome(D, Iter, layer)
      <4>1. ToCome(D, new, layer)
        BY <1>1, <1>9, <3>4 DEF ToCome
      <4> QED
        BY <1>7, <2>1, <4>1
    <3>5. ASSUME NEW d \in DOMAIN calls, calls[d].iterator = k, d # top,
                 ToTry(D, Iter, calls[d], layer)
          PROVE  /\ d \in 1 .. top - 1 /\ calls'[d].iterator = k
                 /\ ToTry(D, iterators'[k], calls'[d], layer)
      <4>1. d \in 1 .. top - 1
        BY <1>2, <3>5
      <4>2. ToTry(D, new, calls[d], layer)
        BY <1>9, <3>5 DEF ToTry
      <4> QED
        BY <1>7, <1>8, <2>1, <3>5, <4>1, <4>2
    <3>6. ASSUME ToTry(D, Iter, C, layer)
          PROVE  Satisfied(new, layer)
      <4>1. PICK j \in DOMAIN Candidates : C.next <= j /\ Candidates[j] = layer
        BY <1>2, <3>6 DEF ToTry
      <4>2. CASE Iter.type = "unique"
        <5>1. Tries(D, Iter, C.index, layer)
          BY <1>2, <4>1 DEF Tries
        <5>2. C.index + 1 \in DOMAIN D
          BY <1>2, <1>4, <4>2, TableTypes DEF Limit, unique_count
        <5>3. /\ hex_layer_output(layer) = D[C.index + 1].fn
              /\ hex_layer_output(given) = D[C.index + 1].fn
          BY <1>4, <1>5, <4>2, <5>1, <5>2 DEF Tries, Turn, DataIsComplete
        <5>4. hex_layer_output(layer) \in Outputs(new.handed)
          BY <1>1, <5>3 DEF Outputs
        <5> QED
          BY <1>9, <4>2, <5>4 DEF Satisfied
      <4>3. CASE Iter.type # "unique"
        <5>1. Iter.type \in {"all", "list"}
          BY <1>4, <4>3 DEF IteratorRecords
        <5>2. \/ Candidates = <<>>
              \/ \E x : Candidates = <<x>>
          BY <1>2, <5>1 DEF Turn
        <5>3. j = 1 /\ C.next = 1
          BY <1>2, <4>1, <5>2
        <5>4. layer \in new.handed
          BY <1>1, <1>6, <4>1, <5>3
        <5> QED
          BY <1>9, <4>3, <5>4 DEF Satisfied
      <4> QED
        BY <4>2, <4>3
    <3>7. ASSUME NEW d \in DOMAIN calls, calls[d].iterator = k, d = top,
                 ToTry(D, Iter, calls[d], layer)
          PROVE  Satisfied(iterators'[k], layer)
      <4>1. ToTry(D, Iter, C, layer)
        BY <1>2, <3>7
      <4> QED
        BY <1>7, <2>1, <3>6, <4>1
    <3> QED
      BY <3>2, <3>3, <3>4, <3>5, <3>7
  <2>2. CASE k # k0
    <3>1. iterators'[k] = iterators[k]
      BY <1>7, <2>2
    <3>2. \/ Satisfied(iterators[k], layer)
          \/ ToCome(D, iterators[k], layer)
          \/ \E d \in DOMAIN calls : /\ calls[d].iterator = k
                                     /\ ToTry(D, iterators[k], calls[d], layer)
      BY <3>1 DEF LayersInv, NothingIsLost
    <3>3. \A d \in DOMAIN calls : calls[d].iterator = k =>
                                    d \in 1 .. top - 1 /\ calls'[d] = calls[d]
      <4> SUFFICES ASSUME NEW d \in DOMAIN calls, calls[d].iterator = k
                   PROVE  d \in 1 .. top - 1 /\ calls'[d] = calls[d]
        OBVIOUS
      <4>1. d # top
        BY <1>2, <2>2 DEF k0
      <4>2. d \in 1 .. top - 1
        BY <1>2, <4>1
      <4> QED
        BY <1>8, <4>2
    <3> QED
      BY <3>1, <3>2, <3>3
  <2> QED
    BY <2>1, <2>2
<1>16. DataIsTyped' /\ DataIsComplete' /\ DataFits' /\ LoadedFirst'
  BY <1>2, TableIsLeft
<1> QED
  BY <1>10, <1>11, <1>12, <1>13, <1>14, <1>15, <1>16 DEF LayersInv

-----------------------------------------------------------------------------
(* Space.                                                                  *)
LEMMA DoublePowerOfTwo ==
  ASSUME NEW n \in Nat, n >= 1, IsPowerOfTwo(n)
  PROVE  IsPowerOfTwo(2 * n)
<1> SUFFICES ASSUME NEW d \in 1 .. 2 * n, (2 * n) % d = 0, d % 2 # 0
             PROVE  d = 1
  BY DEF IsPowerOfTwo
<1> DEFINE q == (2 * n) \div d
<1>1. d \in Nat /\ d >= 1 /\ q \in Int /\ 2 * n = d * q
  OBVIOUS
<1> HIDE DEF q
<1>2. PICK e \in Int : d = 2 * e + 1
  <2>1. d = 2 * (d \div 2) + 1 /\ d \div 2 \in Int
    BY <1>1
  <2> QED
    BY <2>1
<1>3. PICK r \in Int : q = 2 * r \/ q = 2 * r + 1
  <2>1. q \div 2 \in Int /\ (q = 2 * (q \div 2) \/ q = 2 * (q \div 2) + 1)
    BY <1>1
  <2> QED
    BY <2>1
<1>4. q = 2 * r
  <2> SUFFICES ASSUME q = 2 * r + 1
               PROVE  FALSE
    BY <1>3
  <2>1. d * q = d * (2 * r) + d
    BY <1>1
  <2>2. d * (2 * r) = 2 * (d * r) /\ d * r \in Int
    BY <1>1
  <2>3. 2 * n = 2 * (d * r) + (2 * e + 1)
    BY <1>1, <1>2, <2>1, <2>2
  <2> DEFINE m == n - d * r - e
  <2>4. m \in Int
    BY <1>2, <2>2
  <2>5. 2 * m = 1
    BY <1>2, <2>2, <2>3
  <2> HIDE DEF m
  <2> QED
    BY <2>4, <2>5
<1>5. n = d * r
  <2>1. d * (2 * r) = 2 * (d * r) /\ d * r \in Int
    BY <1>1
  <2> QED
    BY <1>1, <1>4, <2>1
<1>6. r >= 1
  <2> SUFFICES ASSUME r <= 0
               PROVE  FALSE
    OBVIOUS
  <2>1. d * r <= 0
    BY <1>1
  <2> QED
    BY <1>5, <2>1
<1>7. d <= n
  BY <1>1, <1>5, <1>6
<1>8. n % d = 0
  <2>1. d \in Nat \ {0} /\ r \in Nat /\ 0 \in 0 .. d - 1
    BY <1>1, <1>6
  <2>2. (r * d + 0) % d = 0
    BY <2>1, Division
  <2>3. r * d + 0 = n
    BY <1>1, <1>5
  <2> QED
    BY <2>2, <2>3
<1> QED
  BY <1>1, <1>7, <1>8 DEF IsPowerOfTwo

LEMMA EightIsPowerOfTwo == IsPowerOfTwo(8)
BY DEF IsPowerOfTwo

LEMMA OneMoreFits ==
  ASSUME NEW data \in DataRecords, Fits(data), NEW layer \in HexLayers,
         data.config_count <= layer
  PROVE  /\ Fits(WithConfig(data, layer))
         /\ WithConfig(data, layer).config_count <= layer + 1
<1> DEFINE new == WithConfig(data, layer)
<1>1. /\ data.configs \in Seq(HexLayers) /\ data.config_count \in Nat /\ data.space \in Nat
      /\ data.config_count = Len(data.configs) /\ data.config_count <= data.space
      /\ data.space >= 8 /\ IsPowerOfTwo(data.space)
  BY DEF Fits, DataRecords
<1>2. /\ new.configs = Append(data.configs, layer)
      /\ new.config_count = data.config_count + 1 /\ new.space = Growing(data).space
  BY WithConfigParts
<1>3. Len(new.configs) = data.config_count + 1
  BY <1>1, <1>2, AppendProperties
<1>6. new.config_count <= layer + 1
  BY <1>1, <1>2, CountsAreNumbers
<1> HIDE DEF new
<1>4. CASE IsPowerOfTwo(data.config_count) /\ data.config_count >= 8
  <2>1. Growing(data).space = 2 * data.config_count
    BY <1>4 DEF Growing, DataRecords
  <2>2. IsPowerOfTwo(2 * data.config_count)
    BY <1>1, <1>4, DoublePowerOfTwo
  <2> QED
    BY <1>1, <1>2, <1>3, <1>4, <1>6, <2>1, <2>2 DEF Fits, new
<1>5. CASE ~ (IsPowerOfTwo(data.config_count) /\ data.config_count >= 8)
  <2>1. Growing(data).space = data.space
    BY <1>5 DEF Growing
  <2>2. data.config_count # data.space
    BY <1>1, <1>5
  <2>3. data.config_count + 1 <= data.space
    BY <1>1, <2>2
  <2> QED
    BY <1>1, <1>2, <1>3, <1>6, <2>1, <2>3 DEF Fits, new
<1> QED
  BY <1>4, <1>5

LEMMA SpaceStays ==
  ASSUME DataIsTyped, DataFits, LoadLayer
  PROVE  DataFits'
<1> DEFINE output == hex_layer_output(next_layer)
           blank == [fn |-> output, configs |-> <<>>, config_count |-> 0, space |-> 8]
           D == HEX_LAYER_DATA
           Good(data) == Fits(data) /\ data.config_count <= next_layer + 1
<1>1. next_layer \in HexLayers /\ next_layer \in Nat /\ next_layer' = next_layer + 1
  BY CountsAreNumbers DEF LoadLayer, DataIsTyped, Loaded, HexLayers
<1>2. /\ Len(D) \in Nat /\ DOMAIN D = 1 .. Len(D) /\ Len(D) <= next_layer
      /\ \A id \in DOMAIN D : D[id] \in DataRecords
  BY DEF DataIsTyped, DataFits
<1>3. ASSUME NEW id \in DOMAIN D
      PROVE  Good(D[id]) /\ Good(WithConfig(D[id], next_layer))
  <2>1. Fits(D[id]) /\ D[id].config_count <= next_layer /\ D[id].config_count \in Nat
    BY <1>2 DEF DataFits, DataRecords
  <2> QED
    BY <1>1, <1>2, <2>1, OneMoreFits
<1>4. CASE EntryOf(output) = {}
  <2> DEFINE entry == WithConfig(blank, next_layer)
  <2>1. output \in Maps
    BY <1>1, OutputIsAMap DEF HexLayers
  <2>2. blank \in DataRecords
    BY <2>1 DEF DataRecords
  <2>3. blank.configs = <<>> /\ blank.config_count = 0 /\ blank.space = 8
    OBVIOUS
  <2>4. HEX_LAYER_DATA' = Append(D, entry)
    BY <1>4 DEF LoadLayer
  <2> HIDE DEF blank
  <2>5. Fits(blank) /\ blank.config_count <= next_layer
    BY <1>1, <2>3, EightIsPowerOfTwo DEF Fits
  <2>6. Good(entry) /\ entry \in DataRecords
    BY <1>1, <2>2, <2>5, OneMoreFits, WithConfigParts
  <2> HIDE DEF entry
  <2>7. /\ Len(HEX_LAYER_DATA') = Len(D) + 1 /\ DOMAIN HEX_LAYER_DATA' = 1 .. Len(D) + 1
        /\ \A id \in DOMAIN D : HEX_LAYER_DATA'[id] = D[id]
        /\ HEX_LAYER_DATA'[Len(D) + 1] = entry
    BY <1>2, <2>4, <2>6, AppendProperties DEF DataIsTyped
  <2>8. \A id \in 1 .. Len(D) + 1 : id \in DOMAIN D \/ id = Len(D) + 1
    BY <1>2
  <2>9. \A id \in DOMAIN HEX_LAYER_DATA' : Good(HEX_LAYER_DATA'[id])
    BY <1>3, <2>6, <2>7, <2>8
  <2> QED
    BY <1>1, <1>2, <2>7, <2>9 DEF DataFits
<1>5. CASE EntryOf(output) # {}
  <2>1. HEX_LAYER_DATA' = [id \in DOMAIN D |-> IF id \in EntryOf(output)
                                               THEN WithConfig(D[id], next_layer) ELSE D[id]]
    BY <1>5 DEF LoadLayer
  <2>2. Len(HEX_LAYER_DATA') = Len(D)
    BY <1>2, <2>1
  <2> HIDE DEF output
  <2>3. \A id \in DOMAIN HEX_LAYER_DATA' : Good(HEX_LAYER_DATA'[id])
    BY <1>3, <2>1
  <2> QED
    BY <1>1, <1>2, <2>2, <2>3 DEF DataFits
<1> QED
  BY <1>4, <1>5

-----------------------------------------------------------------------------
(* Loading, and iterators that are made.                                   *)
LEMMA LoadLayerKeeps ==
  ASSUME LayersInv, LoadLayer
  PROVE  LayersInv'
<1>1. /\ UNCHANGED <<iterators, calls>> /\ iterators = <<>> /\ calls = <<>>
  BY DEF LayersInv, LoadedFirst, LoadLayer
<1>2. DataIsTyped' /\ DataIsComplete' /\ DataFits'
  BY TableStays, SpaceStays DEF LayersInv
<1>3. LoadedFirst'
  BY <1>1 DEF LoadedFirst
<1>4. IteratorsAreTyped' /\ CallsAreTyped'
  BY <1>1 DEF IteratorsAreTyped, CallsAreTyped
<1>5. TakenOnce' /\ HandedAfterwards' /\ HandedWell' /\ NothingIsLost'
  BY <1>1 DEF TakenOnce, HandedAfterwards, HandedWell, NothingIsLost
<1> QED
  BY <1>2, <1>3, <1>4, <1>5 DEF LayersInv

LEMMA NewIteratorKeeps ==
  ASSUME LayersInv, Loaded, calls = <<>>, UNCHANGED <<next_layer, HEX_LAYER_DATA, calls>>,
         NEW new \in IteratorRecords, IteratorIsMade(HEX_LAYER_DATA, new),
         new.index = Limit(HEX_LAYER_DATA, new), new.handed = {}, ~ new.repeated,
         iterators' = Append(iterators, new)
  PROVE  LayersInv'
<1> DEFINE n == Len(iterators)
           D == HEX_LAYER_DATA
<1>1. iterators \in Seq(IteratorRecords) /\ n \in Nat /\ DOMAIN iterators = 1 .. n
  BY DEF LayersInv, IteratorsAreTyped
<1>2. /\ iterators' \in Seq(IteratorRecords) /\ DOMAIN iterators' = 1 .. n + 1
      /\ \A k \in 1 .. n : iterators'[k] = iterators[k]
      /\ iterators'[n + 1] = new
  BY <1>1, AppendProperties
<1>3. \A k \in 1 .. n + 1 : iterators'[k] = new \/ (k \in DOMAIN iterators
                                                     /\ iterators'[k] = iterators[k])
  <2>1. \A k \in 1 .. n + 1 : k \in 1 .. n \/ k = n + 1
    BY <1>1
  <2> QED
    BY <1>1, <1>2, <2>1
<1> HIDE DEF n
<1>4. Limit(D, new) \in Nat
  BY TurnTypes DEF LayersInv
<1>5. IteratorsAreTyped'
  <2> SUFFICES ASSUME NEW k \in 1 .. n + 1
               PROVE  /\ IteratorIsMade(D, iterators'[k])
                      /\ iterators'[k].index <= Limit(D, iterators'[k])
    BY <1>2 DEF IteratorsAreTyped
  <2>1. CASE iterators'[k] = new
    BY <1>4, <2>1
  <2>2. CASE k \in DOMAIN iterators /\ iterators'[k] = iterators[k]
    BY <2>2 DEF LayersInv, IteratorsAreTyped
  <2> QED
    BY <1>3, <2>1, <2>2
<1>6. CallsAreTyped' /\ TakenOnce'
  BY DEF CallsAreTyped, TakenOnce
<1>7. HandedAfterwards'
  <2> SUFFICES ASSUME NEW k \in 1 .. n + 1, NEW layer \in iterators'[k].handed,
                      NEW i \in 0 .. Limit(D, iterators'[k]) - 1,
                      Tries(D, iterators'[k], i, layer)
               PROVE  iterators'[k].index <= i
    <3>1. DOMAIN calls' = {} /\ DOMAIN iterators' = 1 .. n + 1 /\ HEX_LAYER_DATA' = D
      BY <1>2
    <3> QED
      BY <3>1 DEF HandedAfterwards
  <2>1. k \in DOMAIN iterators /\ iterators'[k] = iterators[k]
    BY <1>3
  <2> QED
    BY <2>1 DEF LayersInv, HandedAfterwards
<1>8. HandedWell'
  <2>1. WellHanded(new)
    BY DEF WellHanded
  <2> QED
    BY <1>2, <1>3, <2>1 DEF LayersInv, HandedWell
<1>9. NothingIsLost'
  <2> SUFFICES ASSUME NEW k \in 1 .. n + 1, ~ iterators'[k].failed,
                      NEW layer \in Wanted(iterators'[k]) \ {iterators'[k].exclude}
               PROVE  Satisfied(iterators'[k], layer) \/ ToCome(D, iterators'[k], layer)
    BY <1>2 DEF NothingIsLost
  <2>1. CASE iterators'[k] = new
    <3>1. \E i \in 0 .. Limit(D, new) - 1 : Tries(D, new, i, layer)
      BY <2>1, EveryWantedIsTried DEF LayersInv
    <3> QED
      BY <2>1, <3>1 DEF ToCome
  <2>2. CASE k \in DOMAIN iterators /\ iterators'[k] = iterators[k]
    <3>1. DOMAIN calls = {}
      OBVIOUS
    <3> QED
      BY <2>2, <3>1 DEF LayersInv, NothingIsLost
  <2> QED
    BY <1>3, <2>1, <2>2
<1>10. DataIsTyped' /\ DataIsComplete' /\ DataFits' /\ LoadedFirst'
  BY TableIsLeft
<1> QED
  BY <1>5, <1>6, <1>7, <1>8, <1>9, <1>10 DEF LayersInv

LEMMA IterLayersKeeps ==
  ASSUME LayersInv, NEW type \in {"all", "unique"}, IterLayers(type)
  PROVE  LayersInv'
<1>1. Loaded /\ calls = <<>> /\ UNCHANGED <<next_layer, HEX_LAYER_DATA, calls>>
  BY DEF IterLayers, InScript
<1>2. PICK filter \in Filters \cup {no_filter} :
        iterators' = Append(iterators,
          Iterator(type, filter,
                   IF type = "unique" THEN unique_count ELSE HEX_LAYER_COUNT,
                   <<>>, 0, HEX_LAYER_COUNT))
  BY DEF IterLayers
<1> DEFINE index == IF type = "unique" THEN unique_count ELSE HEX_LAYER_COUNT
           new == Iterator(type, filter, index, <<>>, 0, HEX_LAYER_COUNT)
<1>3. unique_count \in Nat /\ HEX_LAYER_COUNT \in Nat
  BY TableTypes, CountsAreNumbers DEF LayersInv
<1>4. index \in Nat /\ <<>> \in Seq(HexLayers) /\ {} \in SUBSET HexLayers
  BY <1>3
<1>5. /\ new.type = type /\ new.index = index /\ new.handed = {} /\ ~ new.repeated
      /\ new.exclude = HEX_LAYER_COUNT
  BY DEF Iterator
<1>6. new \in IteratorRecords
  <2> HIDE DEF index
  <2> QED
    BY <1>3, <1>4 DEF IteratorRecords, Iterator
<1>7. iterators' = Append(iterators, new)
  BY <1>2
<1> HIDE DEF new
<1>8. IteratorIsMade(HEX_LAYER_DATA, new) /\ new.index = Limit(HEX_LAYER_DATA, new)
  BY <1>5 DEF IteratorIsMade, Limit, unique_count
<1> QED
  BY <1>1, <1>5, <1>6, <1>7, <1>8, NewIteratorKeeps

LEMMA GetAltsKeeps ==
  ASSUME LayersInv, GetAlts
  PROVE  LayersInv'
<1>1. Loaded /\ calls = <<>> /\ UNCHANGED <<next_layer, HEX_LAYER_DATA, calls>>
  BY DEF GetAlts, InScript
<1>2. PICK layer \in AltsOf, exclude_self \in BOOLEAN :
        iterators' = Append(iterators,
          Iterator("list", no_filter, hex_layer_get_data(layer).config_count,
                   hex_layer_get_data(layer).configs, layer,
                   IF exclude_self THEN layer ELSE unique_count))
  BY DEF GetAlts
<1> DEFINE data == hex_layer_get_data(layer)
           exclude == IF exclude_self THEN layer ELSE unique_count
           new == Iterator("list", no_filter, data.config_count, data.configs, layer, exclude)
<1>3. layer \in HexLayers /\ layer \in Nat
  BY LuaAssumption, CountsAreNumbers
<1>4. \E id \in DOMAIN HEX_LAYER_DATA : Contains(HEX_LAYER_DATA[id].configs, layer)
  <2>1. PICK id \in DOMAIN HEX_LAYER_DATA :
          \E j \in DOMAIN HEX_LAYER_DATA[id].configs : HEX_LAYER_DATA[id].configs[j] = layer
    BY <1>1, <1>3 DEF LayersInv, DataIsComplete, Loaded, HexLayers
  <2>2. HEX_LAYER_DATA[id].configs \in Seq(HexLayers)
    BY TableTypes DEF LayersInv
  <2> QED
    BY <2>1, <2>2 DEF Contains
<1> DEFINE id0 == CHOOSE id \in DOMAIN HEX_LAYER_DATA :
                    Contains(HEX_LAYER_DATA[id].configs, layer)
<1>5. id0 \in DOMAIN HEX_LAYER_DATA /\ Contains(HEX_LAYER_DATA[id0].configs, layer)
  BY <1>4
<1>6. data = HEX_LAYER_DATA[id0]
  BY DEF hex_layer_get_data
<1> HIDE DEF id0, data
<1>7. /\ data \in DataRecords /\ data.configs \in Seq(HexLayers)
      /\ data.config_count = Len(data.configs) /\ data.config_count \in Nat
  <2>1. data \in DataRecords /\ data.configs \in Seq(HexLayers)
    BY <1>5, <1>6, TableTypes DEF LayersInv
  <2>2. data.config_count = Len(data.configs)
    BY <1>5, <1>6 DEF LayersInv, DataFits, Fits
  <2> QED
    BY <2>1, <2>2
<1>8. data.fn = hex_layer_output(layer)
  BY <1>5, <1>6, <1>7 DEF LayersInv, DataIsComplete, Contains
<1>9. exclude \in Nat
  BY <1>3, TableTypes DEF LayersInv
<1>10. /\ new.type = "list" /\ new.index = data.config_count /\ new.handed = {}
       /\ ~ new.repeated /\ new.list = data.configs /\ new.self = layer
  BY DEF Iterator
<1>11. new \in IteratorRecords
  <2> HIDE DEF exclude
  <2> QED
    BY <1>3, <1>7, <1>9 DEF IteratorRecords, Iterator
<1>12. iterators' = Append(iterators, new)
  BY <1>2 DEF data
<1> HIDE DEF new
<1>13. IteratorIsMade(HEX_LAYER_DATA, new) /\ new.index = Limit(HEX_LAYER_DATA, new)
  BY <1>3, <1>5, <1>6, <1>7, <1>8, <1>10 DEF IteratorIsMade, Limit
<1> QED
  BY <1>1, <1>10, <1>11, <1>12, <1>13, NewIteratorKeeps

-----------------------------------------------------------------------------
(* The invariant, and what it is for.                                      *)
LEMMA LayersInvInit ==
  ASSUME LayersInit
  PROVE  LayersInv
<1>1. DOMAIN HEX_LAYER_DATA = {} /\ DOMAIN iterators = {} /\ DOMAIN calls = {}
  BY DEF LayersInit
<1>2. DataIsTyped
  BY CountsAreNumbers DEF LayersInit, DataIsTyped
<1>3. DataIsComplete /\ DataFits /\ LoadedFirst
  BY <1>1 DEF LayersInit, DataIsComplete, DataFits, LoadedFirst
<1>4. IteratorsAreTyped /\ CallsAreTyped
  BY <1>1 DEF LayersInit, IteratorsAreTyped, CallsAreTyped
<1>5. TakenOnce /\ HandedAfterwards /\ HandedWell /\ NothingIsLost
  BY <1>1 DEF TakenOnce, HandedAfterwards, HandedWell, NothingIsLost
<1> QED
  BY <1>2, <1>3, <1>4, <1>5 DEF LayersInv

\* Every step but that of reading the table takes place once it is read.
LEMMA LayersInvNext ==
  ASSUME LayersInv, LoadLayer \/ LayersStep \/ UNCHANGED layerVars
  PROVE  LayersInv'
<1>1. CASE LoadLayer
  BY <1>1, LoadLayerKeeps
<1>2. CASE ReturnNothing
  BY <1>2, ReturnNothingQuietly
<1>3. CASE TakeIndex
  BY <1>3, TakeIndexKeeps
<1>4. CASE TryLayer
  <2>1. CASE Iter.filter # no_filter
    BY <1>4, <2>1, AskingQuietly
  <2>2. CASE Iter.filter = no_filter
    <3>1. HandsOut
      BY <1>4, <2>2 DEF TryLayer, InLoop, InC, HandsOut
    <3> QED
      BY <3>1, HandOutKeeps
  <2> QED
    BY <2>1, <2>2
<1>5. CASE NextIndex
  BY <1>5, NextIndexQuietly
<1>6. CASE Accept
  <2>1. calls # <<>> /\ C.asking /\ Candidate \in Iter.filter
    BY <1>6 DEF Accept, Asking
  <2>2. C.index # no_index /\ C.next <= Len(Candidates)
    BY <2>1, CallFacts DEF CallIsTyped
  <2>3. HandsOut
    BY <1>6, <2>1, <2>2 DEF Accept, HandsOut
  <2> QED
    BY <2>3, HandOutKeeps
<1>7. CASE Reject
  BY <1>7, RejectQuietly
<1>8. CASE IterLayers("all") \/ IterLayers("unique")
  BY <1>8, IterLayersKeeps
<1>9. CASE GetAlts
  BY <1>9, GetAltsKeeps
<1>10. CASE \E k \in DOMAIN iterators : Call(k)
  BY <1>10, CallQuietly
<1>11. CASE RaiseError
  BY <1>11, RaiseErrorQuietly
<1>12. CASE UNCHANGED layerVars
  BY <1>12 DEF layerVars, LayersInv, DataIsTyped, DataIsComplete, DataFits, LoadedFirst,
                Loaded, IteratorsAreTyped, CallsAreTyped, TakenOnce, HandedAfterwards,
                HandedWell, NothingIsLost
<1> QED
  BY <1>1, <1>2, <1>3, <1>4, <1>5, <1>6, <1>7, <1>8, <1>9, <1>10, <1>11, <1>12
     DEF LayersStep, RunStep, Answer

LEMMA LimitsAreBounded ==
  ASSUME LayersInv, NEW k \in DOMAIN iterators
  PROVE  Limit(HEX_LAYER_DATA, iterators[k]) <= HEX_LAYER_COUNT
<1> DEFINE iter == iterators[k]
           D == HEX_LAYER_DATA
<1>1. /\ next_layer \in Nat /\ next_layer <= HEX_LAYER_COUNT /\ HEX_LAYER_COUNT \in Nat
      /\ Len(D) \in Nat
  BY CountsAreNumbers DEF LayersInv, DataIsTyped
<1>2. iter \in IteratorRecords /\ IteratorIsMade(D, iter)
  BY IteratorTypes DEF LayersInv
<1>3. CASE iter.type = "all"
  BY <1>1, <1>3 DEF Limit
<1>4. CASE iter.type = "unique"
  <2>1. Len(D) <= next_layer
    BY DEF LayersInv, DataFits
  <2> QED
    BY <1>1, <1>4, <2>1 DEF Limit
<1>5. CASE iter.type = "list"
  <2>1. PICK id \in DOMAIN D : iter.list = D[id].configs
    BY <1>2, <1>5 DEF IteratorIsMade
  <2>2. /\ Len(D[id].configs) \in Nat
        /\ D[id].config_count = Len(D[id].configs) /\ D[id].config_count <= next_layer
    BY TableTypes DEF LayersInv, DataFits, Fits
  <2> QED
    BY <1>1, <1>5, <2>1, <2>2 DEF Limit
<1> QED
  BY <1>2, <1>3, <1>4, <1>5 DEF IteratorRecords

LEMMA LayersAreTyped ==
  ASSUME LayersInv
  PROVE  LayersTypeOK
<1>1. next_layer \in 0 .. HEX_LAYER_COUNT
  BY DEF LayersInv, DataIsTyped
<1>2. \A id \in DOMAIN HEX_LAYER_DATA : HEX_LAYER_DATA[id] \in DataRecords
  BY TableTypes DEF LayersInv
<1>3. ASSUME NEW k \in DOMAIN iterators
      PROVE  /\ iterators[k].index \in 0 .. HEX_LAYER_COUNT
             /\ iterators[k].handed \subseteq HexLayers
  <2>1. /\ iterators[k].index \in Nat /\ iterators[k].handed \subseteq HexLayers
        /\ iterators[k].index <= Limit(HEX_LAYER_DATA, iterators[k])
    BY IteratorTypes DEF LayersInv
  <2>2. Limit(HEX_LAYER_DATA, iterators[k]) <= HEX_LAYER_COUNT
    BY LimitsAreBounded
  <2>3. Limit(HEX_LAYER_DATA, iterators[k]) \in Nat
    BY IteratorTypes DEF LayersInv
  <2> QED
    BY <2>1, <2>2, <2>3, CountsAreNumbers
<1>4. ASSUME NEW d \in DOMAIN calls
      PROVE  /\ calls[d].iterator \in DOMAIN iterators
             /\ calls[d].asking <=> d < Len(calls) \/ Last(calls).asking
  <2>1. calls \in Seq(CallRecords(DOMAIN iterators)) /\ (d < Len(calls) => calls[d].asking)
    BY DEF LayersInv, CallsAreTyped
  <2>2. calls[d].iterator \in DOMAIN iterators /\ calls[d].asking \in BOOLEAN
    <3>1. calls[d] \in CallRecords(DOMAIN iterators)
      BY <2>1
    <3> QED
      BY <3>1 DEF CallRecords
  <2>3. d < Len(calls) \/ d = Len(calls)
    BY <2>1
  <2>4. Len(calls) \in Nat
    BY <2>1
  <2>5. calls[d].asking <=> d < Len(calls) \/ Last(calls).asking
    <3>1. CASE d < Len(calls)
      BY <2>1, <3>1
    <3>2. CASE d = Len(calls)
      <4>1. ~ d < Len(calls)
        BY <2>4, <3>2
      <4>2. calls[d] = Last(calls)
        BY <3>2 DEF Last
      <4> QED
        BY <4>1, <4>2
    <3> QED
      BY <2>3, <3>1, <3>2
  <2> QED
    BY <2>2, <2>5
<1> QED
  BY <1>1, <1>2, <1>3, <1>4 DEF LayersTypeOK, DataRecords

LEMMA LayersHaveSpace ==
  ASSUME LayersInv
  PROVE  LayersFitTheirSpace
BY DEF LayersInv, DataFits, Fits, LayersFitTheirSpace

LEMMA LayersAreHandedOnce ==
  ASSUME LayersInv
  PROVE  HandedOnce
<1> SUFFICES ASSUME NEW k \in DOMAIN iterators
             PROVE  LET iter == iterators[k]
                    IN  /\ ~ iter.repeated
                        /\ iter.handed \subseteq Wanted(iter)
                        /\ iter.type = "unique" =>
                             Cardinality(Outputs(iter.handed)) = Cardinality(iter.handed)
  BY DEF HandedOnce
<1> DEFINE iter == iterators[k]
           f == [l \in iter.handed |-> hex_layer_output(l)]
<1>1. WellHanded(iter)
  BY DEF LayersInv, HandedWell
<1>2. IsFiniteSet(iter.handed)
  <2>1. IsFiniteSet(HexLayers)
    BY CountsAreNumbers, FS_Interval DEF HexLayers
  <2>2. iter.handed \subseteq HexLayers
    BY IteratorTypes DEF LayersInv
  <2> QED
    BY <2>1, <2>2, FS_Subset
<1>3. ASSUME iter.type = "unique"
      PROVE  Cardinality(Outputs(iter.handed)) = Cardinality(iter.handed)
  <2>1. \A l, m \in iter.handed : hex_layer_output(l) = hex_layer_output(m) => l = m
    BY <1>1, <1>3 DEF WellHanded
  <2> HIDE DEF iter
  <2>2. f \in Injection(iter.handed, Outputs(iter.handed))
    <3>1. f \in [iter.handed -> Outputs(iter.handed)]
      BY DEF Outputs
    <3> QED
      BY <2>1, <3>1 DEF Injection, IsInjective
  <2>3. f \in Surjection(iter.handed, Outputs(iter.handed))
    BY DEF Surjection, Outputs
  <2>4. f \in Bijection(iter.handed, Outputs(iter.handed))
    BY <2>2, <2>3 DEF Bijection
  <2> QED
    BY <1>2, <2>4, FS_Bijection DEF ExistsBijection
<1> QED
  BY <1>1, <1>3 DEF WellHanded

LEMMA IterationsAreComplete ==
  ASSUME LayersInv
  PROVE  IterationIsComplete
<1> SUFFICES ASSUME NEW k \in DOMAIN iterators, iterators[k].index = 0,
                    \A d \in DOMAIN calls : calls[d].iterator # k, ~ iterators[k].failed
             PROVE  LET iter == iterators[k]
                    IN  IF iter.type = "unique"
                        THEN Outputs(iter.handed) = Outputs(Wanted(iter))
                        ELSE iter.handed = Wanted(iter) \ {iter.exclude}
  BY DEF IterationIsComplete
<1> DEFINE iter == iterators[k]
<1>1. WellHanded(iter) /\ IteratorIsMade(HEX_LAYER_DATA, iter)
  BY IteratorTypes DEF LayersInv, HandedWell
<1>2. \A layer \in Wanted(iter) \ {iter.exclude} : Satisfied(iter, layer)
  BY DEF LayersInv, NothingIsLost, ToCome
<1>3. iter.handed \subseteq Wanted(iter) \ {iter.exclude}
  BY <1>1 DEF WellHanded
<1> HIDE DEF iter
<1>4. CASE iter.type = "unique"
  <2>1. iter.exclude \notin Wanted(iter)
    BY <1>1, <1>4, CountsAreNumbers DEF IteratorIsMade, Wanted, HexLayers
  <2> QED
    BY <1>2, <1>3, <1>4, <2>1 DEF Satisfied, Outputs, iter
<1>5. CASE iter.type # "unique"
  BY <1>2, <1>3, <1>5 DEF Satisfied, iter
<1> QED
  BY <1>4, <1>5 DEF iter

-----------------------------------------------------------------------------
(* The two translations of layers: a layer of a script computes the same   *)
(* once it is the program's, and the other way round.                     *)

\* A config is read back into its mode and its barrels.
LEMMA ConfigParts ==
  ASSUME NEW mode \in Modes, NEW a \in Values, NEW b \in Values
  PROVE  /\ Config(mode, a, b) \div (N * N) = mode
         /\ (Config(mode, a, b) \div N) % N = a
         /\ Config(mode, a, b) % N = b
<1> DEFINE config == Config(mode, a, b)
<1>1. N \in Nat \ {0} /\ N * N \in Nat \ {0}
  BY NAssumption
<1>2. mode \in Nat /\ a \in Nat /\ b \in Nat /\ a <= N - 1 /\ b <= N - 1
  BY <1>1 DEF Modes, Values
<1>3. a * N \in Nat /\ a * N <= (N - 1) * N
  BY <1>1, <1>2
<1>4. a * N + b \in 0 .. N * N - 1
  BY <1>1, <1>2, <1>3
<1>5. config = mode * (N * N) + (a * N + b)
  BY <1>1, <1>2 DEF Config
<1>6. config = (mode * N + a) * N + b /\ mode * N + a \in Nat
  BY <1>1, <1>2 DEF Config
<1>7. a \in 0 .. N - 1 /\ b \in 0 .. N - 1
  BY <1>1, <1>2
<1> HIDE DEF config
<1>8. config \div (N * N) = mode
  BY <1>1, <1>2, <1>4, <1>5, Division
<1>9. config \div N = mode * N + a /\ config % N = b
  BY <1>1, <1>6, <1>7, Division
<1>10. (mode * N + a) % N = a
  BY <1>1, <1>2, <1>7, Division
<1> QED
  BY <1>8, <1>9, <1>10 DEF config

\* What the six modes do, with the barrels a and b.
Output(v, mode, a, b) ==
  Larger(IF mode \in {4, 5} THEN Comparator(a, v, mode = 5)
                            ELSE Comparator(v, a, mode \in {2, 3}),
         Comparator(b, v, mode \in {1, 3, 4}))

LEMMA LayerOutput ==
  ASSUME NEW mode \in Modes, NEW a \in Values, NEW b \in Values, NEW v \in Values
  PROVE  LayerMap(Config(mode, a, b))[v] = Output(v, mode, a, b)
<1>1. LayerMap(Config(mode, a, b))[v] = hex_layer(v, Config(mode, a, b))
  BY DEF LayerMap
<1> DEFINE bits == ModeBits(mode)
<1>2. hex_layer(v, Config(mode, a, b)) =
        Larger(IF bits >= 4 THEN Comparator(a, v, (bits \div 2) % 2 = 1)
                            ELSE Comparator(v, a, (bits \div 2) % 2 = 1),
               Comparator(b, v, bits % 2 = 1))
  BY ConfigParts, Zenon DEF hex_layer
<1>3. CASE mode = 0
  <2>1. bits = 0 BY <1>3 DEF ModeBits
  <2> QED BY <1>1, <1>2, <1>3, <2>1 DEF Output, Comparator, Larger
<1>4. CASE mode = 1
  <2>1. bits = 1 BY <1>4 DEF ModeBits
  <2> QED BY <1>1, <1>2, <1>4, <2>1 DEF Output, Comparator, Larger
<1>5. CASE mode = 2
  <2>1. bits = 2 BY <1>5 DEF ModeBits
  <2> QED BY <1>1, <1>2, <1>5, <2>1 DEF Output, Comparator, Larger
<1>6. CASE mode = 3
  <2>1. bits = 3 BY <1>6 DEF ModeBits
  <2> QED BY <1>1, <1>2, <1>6, <2>1 DEF Output, Comparator, Larger
<1>7. CASE mode = 4
  <2>1. bits = 5 BY <1>7 DEF ModeBits
  <2> QED BY <1>1, <1>2, <1>7, <2>1 DEF Output, Comparator, Larger
<1>8. CASE mode = 5
  <2>1. bits = 6 BY <1>8 DEF ModeBits
  <2> QED BY <1>1, <1>2, <1>8, <2>1 DEF Output, Comparator, Larger
<1> QED
  BY <1>3, <1>4, <1>5, <1>6, <1>7, <1>8 DEF Modes

\* The tables by key, for the layers that the program can express.
LEMMA KeyedLayer ==
  ASSUME NEW first \in Halves, NEW second \in Halves, Expressible(<<first, second>>)
  PROVE  LET a == first.barrel
             b == second.barrel
             low == IF a > b THEN b ELSE a
             high == IF a > b THEN a ELSE b
             c == lua2c_layer(<<first, second>>)
         IN  \/ /\ first.side /\ second.side /\ first.sub = second.sub
                /\ c = Config(IF first.sub THEN 2 ELSE 0, low, 0)
             \/ /\ first.side /\ ~ second.side
                /\ c = Config((IF first.sub THEN 2 ELSE 0)
                                + (IF second.sub THEN 1 ELSE 0), a, b)
             \/ /\ ~ first.side /\ second.side
                /\ c = Config((IF second.sub THEN 2 ELSE 0)
                                + (IF first.sub THEN 1 ELSE 0), b, a)
             \/ /\ ~ first.side /\ ~ second.side /\ first.sub /\ second.sub
                /\ c = Config(4, 0, high)
             \/ /\ ~ first.side /\ ~ second.side /\ ~ first.sub /\ second.sub
                /\ c = Config(4, a, b)
             \/ /\ ~ first.side /\ ~ second.side /\ first.sub /\ ~ second.sub
                /\ c = Config(4, b, a)
<1> DEFINE layer == <<first, second>>
<1>1. /\ first.side \in BOOLEAN /\ first.sub \in BOOLEAN
      /\ second.side \in BOOLEAN /\ second.sub \in BOOLEAN
  BY DEF Halves
<1>2. layer[1] = first /\ layer[2] = second
  OBVIOUS
<1>3. CASE first.side /\ second.side
  <2>1. first.sub = second.sub
    BY <1>2, <1>3 DEF Expressible
  <2>2. mode_key(layer) = IF first.sub THEN 3 ELSE 0
    BY <1>1, <1>2, <1>3, <2>1 DEF mode_key
  <2> QED
    BY <1>1, <1>2, <1>3, <2>1, <2>2
       DEF lua2c_layer, modes_by_key, as_by_key, bs_by_key, Barrel
<1>4. CASE first.side /\ ~ second.side
  BY <1>1, <1>2, <1>4 DEF lua2c_layer, mode_key, modes_by_key,
                          as_by_key, bs_by_key, Barrel
<1>5. CASE ~ first.side /\ second.side
  BY <1>1, <1>2, <1>5 DEF lua2c_layer, mode_key, modes_by_key,
                          as_by_key, bs_by_key, Barrel
<1>6. CASE ~ first.side /\ ~ second.side
  BY <1>1, <1>2, <1>6 DEF Expressible, lua2c_layer, mode_key, modes_by_key,
                          as_by_key, bs_by_key, Barrel
<1> QED
  BY <1>1, <1>3, <1>4, <1>5, <1>6

\* A layer of a script that the program can express computes, translated,
\* what its two comparators do together.
THEOREM TranslationKeepsMeaning ==
  ASSUME NEW first \in Halves, NEW second \in Halves, Expressible(<<first, second>>)
  PROVE  LayerMap(lua2c_layer(<<first, second>>)) = Meaning(<<first, second>>)
<1> DEFINE layer == <<first, second>>
           a == first.barrel
           b == second.barrel
           low == IF a > b THEN b ELSE a
           high == IF a > b THEN a ELSE b
<1>1. /\ first.side \in BOOLEAN /\ first.sub \in BOOLEAN
      /\ second.side \in BOOLEAN /\ second.sub \in BOOLEAN
      /\ a \in Values /\ b \in Values
  BY DEF Halves
<1>2. /\ 0 \in Values /\ low \in Values /\ high \in Values
      /\ Values \subseteq Nat
  BY <1>1, NAssumption DEF Values
<1>3. SUFFICES ASSUME NEW v \in Values
               PROVE  LayerMap(lua2c_layer(layer))[v] = Meaning(layer)[v]
  BY DEF LayerMap, Meaning
<1>4. Meaning(layer)[v] =
        Larger(IF first.side THEN Comparator(v, a, first.sub)
                             ELSE Comparator(a, v, first.sub),
               IF second.side THEN Comparator(v, b, second.sub)
                              ELSE Comparator(b, v, second.sub))
  BY DEF Meaning, HalfMap
<1>5. a \in Nat /\ b \in Nat /\ v \in Nat
  BY <1>1, <1>2
<1>6. CASE first.side /\ second.side
  <2> DEFINE mode == IF first.sub THEN 2 ELSE 0
  <2>1. lua2c_layer(layer) = Config(mode, low, 0) /\ first.sub = second.sub
    BY <1>6, KeyedLayer
  <2>2. mode \in Modes
    BY DEF Modes
  <2>3. LayerMap(lua2c_layer(layer))[v] = Output(v, mode, low, 0)
    <3> HIDE DEF mode, low
    <3>1. LayerMap(Config(mode, low, 0))[v] = Output(v, mode, low, 0)
      BY <1>2, <2>2, LayerOutput
    <3> QED
      BY <2>1, <3>1
  <2> QED
    BY <1>1, <1>4, <1>5, <1>6, <2>1, <2>3 DEF Output, Comparator, Larger
<1>7. CASE first.side /\ ~ second.side
  <2> DEFINE mode == (IF first.sub THEN 2 ELSE 0) + (IF second.sub THEN 1 ELSE 0)
  <2>1. lua2c_layer(layer) = Config(mode, a, b)
    BY <1>7, KeyedLayer
  <2>2. mode \in Modes
    BY DEF Modes
  <2>3. LayerMap(lua2c_layer(layer))[v] = Output(v, mode, a, b)
    BY <1>1, <2>1, <2>2, LayerOutput
  <2> QED
    BY <1>1, <1>4, <1>5, <1>7, <2>3 DEF Output, Comparator, Larger
<1>8. CASE ~ first.side /\ second.side
  <2> DEFINE mode == (IF second.sub THEN 2 ELSE 0) + (IF first.sub THEN 1 ELSE 0)
  <2>1. lua2c_layer(layer) = Config(mode, b, a)
    BY <1>8, KeyedLayer
  <2>2. mode \in Modes
    BY DEF Modes
  <2>3. LayerMap(lua2c_layer(layer))[v] = Output(v, mode, b, a)
    BY <1>1, <2>1, <2>2, LayerOutput
  <2> QED
    BY <1>1, <1>4, <1>5, <1>8, <2>3 DEF Output, Comparator, Larger
<1>9. CASE ~ first.side /\ ~ second.side
  <2>1. \A x, y \in Values : LayerMap(Config(4, x, y))[v] = Output(v, 4, x, y)
    BY LayerOutput DEF Modes
  <2>2. CASE first.sub /\ second.sub
    <3>1. lua2c_layer(layer) = Config(4, 0, high)
      BY <1>9, <2>2, KeyedLayer
    <3>2. LayerMap(lua2c_layer(layer))[v] = Output(v, 4, 0, high)
      BY <1>2, <2>1, <3>1
    <3> QED
      BY <1>4, <1>5, <1>9, <2>2, <3>2 DEF Output, Comparator, Larger
  <2>3. CASE ~ first.sub /\ second.sub
    <3>1. lua2c_layer(layer) = Config(4, a, b)
      BY <1>9, <2>3, KeyedLayer
    <3>2. LayerMap(lua2c_layer(layer))[v] = Output(v, 4, a, b)
      BY <1>1, <2>1, <3>1
    <3> QED
      BY <1>4, <1>5, <1>9, <2>3, <3>2 DEF Output, Comparator, Larger
  <2>4. CASE first.sub /\ ~ second.sub
    <3>1. lua2c_layer(layer) = Config(4, b, a)
      BY <1>9, <2>4, KeyedLayer
    <3>2. LayerMap(lua2c_layer(layer))[v] = Output(v, 4, b, a)
      BY <1>1, <2>1, <3>1
    <3> QED
      BY <1>4, <1>5, <1>9, <2>4, <3>2 DEF Output, Comparator, Larger
  <2> QED
    BY <1>1, <1>9, <2>2, <2>3, <2>4 DEF Expressible
<1> QED
  BY <1>1, <1>6, <1>7, <1>8, <1>9

\* The other way round: a layer that the program prints for a script, of any
\* mode but 5, which the tables never keep, means what it computes.
THEOREM PrintedLayersKeepMeaning ==
  ASSUME NEW mode \in Modes \ {5}, NEW a \in Values, NEW b \in Values
  PROVE  /\ Meaning(c2lua_layer(Config(mode, a, b))) = LayerMap(Config(mode, a, b))
         /\ c2lua_layer(Config(mode, a, b)) \in Halves \X Halves
         /\ Expressible(c2lua_layer(Config(mode, a, b)))
<1> DEFINE first == [barrel |-> a, side |-> mode # 4, sub |-> mode \in {2, 3, 5}]
           second == [barrel |-> b, side |-> mode = 5, sub |-> mode \in {1, 3, 4}]
<1>1. c2lua_layer(Config(mode, a, b)) = <<first, second>>
  BY ConfigParts DEF c2lua_layer
<1>2. first \in Halves /\ second \in Halves
  BY DEF Halves
<1>3. Expressible(<<first, second>>)
  BY DEF Expressible, Modes
<1>4. ASSUME NEW v \in Values
      PROVE  Meaning(<<first, second>>)[v] = LayerMap(Config(mode, a, b))[v]
  <2>1. LayerMap(Config(mode, a, b))[v] = Output(v, mode, a, b)
    BY LayerOutput
  <2>2. Meaning(<<first, second>>)[v] =
          Larger(IF mode # 4 THEN Comparator(v, a, mode \in {2, 3, 5})
                             ELSE Comparator(a, v, mode \in {2, 3, 5}),
                 Comparator(b, v, mode \in {1, 3, 4}))
    BY DEF Meaning, HalfMap
  <2>3. a \in Nat /\ b \in Nat /\ v \in Nat
    BY NAssumption DEF Values
  <2> QED
    BY <2>1, <2>2, <2>3 DEF Output, Comparator, Larger
<1> QED
  BY <1>1, <1>2, <1>3, <1>4 DEF Meaning, LayerMap

\* A layer that the program can express becomes one of any mode but 5.
LEMMA TranslatedLayer ==
  ASSUME NEW first \in Halves, NEW second \in Halves, Expressible(<<first, second>>)
  PROVE  \E mode \in Modes \ {5}, a \in Values, b \in Values :
           lua2c_layer(<<first, second>>) = Config(mode, a, b)
<1> DEFINE x == first.barrel
           y == second.barrel
           low == IF x > y THEN y ELSE x
           high == IF x > y THEN x ELSE y
<1>1. /\ x \in Values /\ y \in Values /\ 0 \in Values
      /\ low \in Values /\ high \in Values
  BY NAssumption DEF Halves, Values
<1>2. /\ first.side \in BOOLEAN /\ first.sub \in BOOLEAN
      /\ second.side \in BOOLEAN /\ second.sub \in BOOLEAN
  BY DEF Halves
<1>3. PICK m \in Modes \ {5}, p \in {x, y, low, high, 0}, q \in {x, y, low, high, 0} :
        lua2c_layer(<<first, second>>) = Config(m, p, q)
  BY <1>2, KeyedLayer DEF Modes
<1> QED
  BY <1>1, <1>3

\* Hence normalize_chain keeps what each layer of a chain computes.
THEOREM NormalizingKeepsMeaning ==
  ASSUME NEW first \in Halves, NEW second \in Halves, Expressible(<<first, second>>)
  PROVE  LET normal == c2lua_layer(lua2c_layer(<<first, second>>))
         IN  /\ Meaning(normal) = Meaning(<<first, second>>)
             /\ LayerMap(lua2c_layer(normal)) = Meaning(<<first, second>>)
<1> DEFINE layer == <<first, second>>
           normal == c2lua_layer(lua2c_layer(layer))
<1>1. PICK mode \in Modes \ {5}, a \in Values, b \in Values :
        lua2c_layer(layer) = Config(mode, a, b)
  BY TranslatedLayer
<1>2. Meaning(normal) = Meaning(layer)
  BY <1>1, PrintedLayersKeepMeaning, TranslationKeepsMeaning
<1>3. PICK one \in Halves, two \in Halves : normal = <<one, two>>
  <2>1. normal \in Halves \X Halves
    BY <1>1, PrintedLayersKeepMeaning
  <2> QED
    BY <2>1
<1>4. Expressible(<<one, two>>)
  BY <1>1, <1>3, PrintedLayersKeepMeaning
<1>5. LayerMap(lua2c_layer(normal)) = Meaning(normal)
  BY <1>3, <1>4, TranslationKeepsMeaning
<1> QED
  BY <1>2, <1>5

-----------------------------------------------------------------------------
(* Whole chains.                                                           *)
ScriptChains == Seq(Halves \X Halves)

AllExpressible(script) == \A i \in DOMAIN script : Expressible(script[i])

\* A layer of the program, printed and read again, is the same.
LEMMA PrintedLayersAreReadBack ==
  ASSUME NEW mode \in Modes \ {5}, NEW a \in Values, NEW b \in Values
  PROVE  lua2c_layer(c2lua_layer(Config(mode, a, b))) = Config(mode, a, b)
<1> DEFINE first == [barrel |-> a, side |-> mode # 4, sub |-> mode \in {2, 3, 5}]
           second == [barrel |-> b, side |-> mode = 5, sub |-> mode \in {1, 3, 4}]
<1>1. c2lua_layer(Config(mode, a, b)) = <<first, second>>
  BY ConfigParts DEF c2lua_layer
<1>2. first \in Halves /\ second \in Halves
  BY DEF Halves
<1>3. Expressible(<<first, second>>)
  BY DEF Expressible, Modes
<1>4. CASE mode = 4
  BY <1>1, <1>2, <1>3, <1>4, KeyedLayer
<1>5. CASE mode # 4
  <2>1. lua2c_layer(<<first, second>>) =
          Config((IF first.sub THEN 2 ELSE 0) + (IF second.sub THEN 1 ELSE 0), a, b)
    BY <1>2, <1>3, <1>5, KeyedLayer
  <2>2. (IF first.sub THEN 2 ELSE 0) + (IF second.sub THEN 1 ELSE 0) = mode
    <3>1. (IF mode \in {2, 3, 5} THEN 2 ELSE 0) + (IF mode \in {1, 3, 4} THEN 1 ELSE 0) = mode
      BY <1>5 DEF Modes
    <3> QED
      BY <3>1, Zenon
  <2> QED
    BY <1>1, <2>1, <2>2
<1> QED
  BY <1>4, <1>5

\* What normalizing a layer leaves: a layer of a script, expressible again,
\* that normalizing does not change.
LEMMA NormalLayer ==
  ASSUME NEW layer \in Halves \X Halves, Expressible(layer)
  PROVE  LET normal == c2lua_layer(lua2c_layer(layer))
         IN  /\ normal \in Halves \X Halves /\ Expressible(normal)
             /\ Meaning(normal) = Meaning(layer)
             /\ c2lua_layer(lua2c_layer(normal)) = normal
<1>1. PICK first \in Halves, second \in Halves : layer = <<first, second>>
  OBVIOUS
<1>2. Expressible(<<first, second>>)
  BY <1>1
<1>3. PICK mode \in Modes \ {5}, a \in Values, b \in Values :
        lua2c_layer(layer) = Config(mode, a, b)
  BY <1>1, <1>2, TranslatedLayer
<1>4. Meaning(c2lua_layer(lua2c_layer(layer))) = Meaning(layer)
  BY <1>1, <1>2, NormalizingKeepsMeaning
<1> QED
  BY <1>3, <1>4, PrintedLayersKeepMeaning, PrintedLayersAreReadBack

LEMMA NormalizedChain ==
  ASSUME NEW script \in ScriptChains, AllExpressible(script)
  PROVE  /\ normalize_chain(script) \in ScriptChains
         /\ AllExpressible(normalize_chain(script))
         /\ Len(normalize_chain(script)) = Len(script)
         /\ \A i \in 1 .. Len(script) :
              Meaning(normalize_chain(script)[i]) = Meaning(script[i])
         /\ normalize_chain(normalize_chain(script)) = normalize_chain(script)
<1> DEFINE k == Len(script)
           normal == [i \in 1 .. k |-> c2lua_layer(lua2c_layer(script[i]))]
<1>1. /\ k \in Nat /\ DOMAIN script = 1 .. k
      /\ \A i \in 1 .. k : script[i] \in Halves \X Halves /\ Expressible(script[i])
  BY DEF ScriptChains, AllExpressible
<1>2. normalize_chain(script) = normal
  BY <1>1 DEF normalize_chain, c2lua_chain, lua2c_chain
<1>3. \A i \in 1 .. k :
        /\ normal[i] \in Halves \X Halves /\ Expressible(normal[i])
        /\ Meaning(normal[i]) = Meaning(script[i])
        /\ c2lua_layer(lua2c_layer(normal[i])) = normal[i]
  BY <1>1, NormalLayer
<1>4. normal \in ScriptChains /\ Len(normal) = k /\ DOMAIN normal = 1 .. k
  BY <1>1, <1>3, SeqDef DEF ScriptChains
<1>5. normalize_chain(normal) = normal
  <2> HIDE DEF normal
  <2>1. normalize_chain(normal) = [i \in 1 .. k |-> c2lua_layer(lua2c_layer(normal[i]))]
    BY <1>4 DEF normalize_chain, c2lua_chain, lua2c_chain
  <2>2. normal = [i \in 1 .. k |-> normal[i]]
    BY DEF normal
  <2> QED
    BY <1>3, <2>1, <2>2
<1> HIDE DEF normal
<1> QED
  BY <1>2, <1>3, <1>4, <1>5 DEF AllExpressible

\* hlp.eval computes, layer by layer, what the comparators do.
LEMMA EvaluationIsMeaning ==
  ASSUME NEW script \in ScriptChains, AllExpressible(script)
  PROVE  eval_chain(script, identity) = ChainMeaning(script)
<1> DEFINE k == Len(script)
           inputs == [v \in Values |-> clamp_hex(identity[v])]
           c_chain == lua2c_chain(script)
           Run(g) == [i \in 0 .. k |-> IF i = 0 THEN identity
                                       ELSE apply_mapping(g[i - 1], LayerMap(c_chain[i]))]
           Mean(g) == [i \in 0 .. k |-> IF i = 0 THEN identity
                                        ELSE apply_mapping(g[i - 1], Meaning(script[i]))]
<1>1. inputs = identity
  <2>1. \A v \in Values : clamp_hex(v) = v
    BY NAssumption DEF clamp_hex, Values
  <2> QED
    BY <2>1 DEF identity
<1>2. /\ k \in Nat /\ DOMAIN script = 1 .. k
      /\ \A i \in 1 .. k : script[i] \in Halves \X Halves /\ Expressible(script[i])
  BY DEF ScriptChains, AllExpressible
<1>3. c_chain = [i \in 1 .. k |-> lua2c_layer(script[i])] /\ Len(c_chain) = k
  BY <1>2 DEF lua2c_chain
<1>4. ASSUME NEW i \in 1 .. k
      PROVE  LayerMap(c_chain[i]) = Meaning(script[i])
  <2>1. PICK first \in Halves, second \in Halves : script[i] = <<first, second>>
    BY <1>2
  <2> QED
    BY <1>2, <1>3, <2>1, TranslationKeepsMeaning
<1>5. eval_chain(script, identity) = (CHOOSE g : g = Run(g))[k]
  <2> HIDE DEF c_chain, inputs
  <2>1. eval_chain(script, identity) = apply_hex_chain(identity, c_chain)
    BY <1>1 DEF eval_chain, inputs, c_chain
  <2> QED
    BY <1>3, <2>1 DEF apply_hex_chain
<1>6. ChainMeaning(script) = (CHOOSE g : g = Mean(g))[k]
  BY DEF ChainMeaning
<1>7. \A g : Run(g) = Mean(g)
  <2> HIDE DEF c_chain
  <2> QED
    BY <1>4
<1> HIDE DEF Run, Mean, k
<1>8. (CHOOSE g : g = Run(g)) = (CHOOSE g : g = Mean(g))
  BY <1>7
<1> QED
  BY <1>5, <1>6, <1>8

LEMMA MeaningByLayer ==
  ASSUME NEW one \in ScriptChains, NEW two \in ScriptChains, Len(one) = Len(two),
         \A i \in 1 .. Len(one) : Meaning(one[i]) = Meaning(two[i])
  PROVE  ChainMeaning(one) = ChainMeaning(two)
<1> DEFINE k == Len(one)
           One(g) == [i \in 0 .. k |-> IF i = 0 THEN identity
                                       ELSE apply_mapping(g[i - 1], Meaning(one[i]))]
           Two(g) == [i \in 0 .. k |-> IF i = 0 THEN identity
                                       ELSE apply_mapping(g[i - 1], Meaning(two[i]))]
<1>1. k \in Nat
  BY DEF ScriptChains
<1>2. ChainMeaning(one) = (CHOOSE g : g = One(g))[k]
  BY DEF ChainMeaning
<1>3. ChainMeaning(two) = (CHOOSE g : g = Two(g))[k]
  BY DEF ChainMeaning
<1>4. \A g : One(g) = Two(g)
  BY <1>1
<1> HIDE DEF One, Two, k
<1>5. (CHOOSE g : g = One(g)) = (CHOOSE g : g = Two(g))
  BY <1>4
<1> QED
  BY <1>2, <1>3, <1>5

\* Evaluating a chain computes what its comparators do, before and after it is
\* normalized, and normalizing twice is normalizing once.
THEOREM ChainsMean ==
  ASSUME NEW script \in ScriptChains, AllExpressible(script)
  PROVE  LET normal == normalize_chain(script)
         IN  /\ eval_chain(script, identity) = ChainMeaning(script)
             /\ eval_chain(normal, identity) = ChainMeaning(script)
             /\ normalize_chain(normal) = normal
<1>1. eval_chain(script, identity) = ChainMeaning(script)
  BY EvaluationIsMeaning
<1> DEFINE normal == normalize_chain(script)
<1>2. /\ normal \in ScriptChains /\ AllExpressible(normal) /\ Len(normal) = Len(script)
      /\ \A i \in 1 .. Len(script) : Meaning(normal[i]) = Meaning(script[i])
      /\ normalize_chain(normal) = normal
  BY NormalizedChain
<1> HIDE DEF normal
<1>3. eval_chain(normal, identity) = ChainMeaning(normal)
  BY <1>2, EvaluationIsMeaning
<1>4. ChainMeaning(normal) = ChainMeaning(script)
  BY <1>2, MeaningByLayer
<1> QED
  BY <1>1, <1>2, <1>3, <1>4 DEF normal

-----------------------------------------------------------------------------
(* What a script does keeps its chain one of layers of a script.           *)
LEMMA BarrelsAreValues ==
  ASSUME NEW key \in {"0", "1", "2", "min", "max"}, NEW x \in Values, NEW y \in Values
  PROVE  Barrel(key, x, y) \in Values
<1>1. 0 \in Values
  BY NAssumption DEF Values
<1> QED
  BY <1>1 DEF Barrel

LEMMA TranslationIsTyped ==
  ASSUME NEW layer \in Halves \X Halves
  PROVE  lua2c_layer(layer) \in Nat
<1> DEFINE key == mode_key(layer) + 1
           barrel(k) == Barrel(k, layer[1].barrel, layer[2].barrel)
<1>1. layer[1] \in Halves /\ layer[2] \in Halves
  OBVIOUS
<1>2. key \in 1 .. 16
  BY <1>1 DEF mode_key, Halves
<1>3. modes_by_key[key] \in Modes
  BY <1>2 DEF modes_by_key, Modes
<1>4. /\ as_by_key[key] \in {"0", "1", "2", "min", "max"}
      /\ bs_by_key[key] \in {"0", "1", "2", "min", "max"}
  BY <1>2 DEF as_by_key, bs_by_key
<1>5. layer[1].barrel \in Values /\ layer[2].barrel \in Values
  BY <1>1 DEF Halves
<1>6. barrel(as_by_key[key]) \in Values /\ barrel(bs_by_key[key]) \in Values
  BY <1>4, <1>5, BarrelsAreValues
<1>7. \A mode \in Modes, a \in Values, b \in Values : Config(mode, a, b) \in Nat
  <2> SUFFICES ASSUME NEW mode \in Modes, NEW a \in Values, NEW b \in Values
               PROVE  Config(mode, a, b) \in Nat
    OBVIOUS
  <2>1. mode \in Nat /\ a \in Nat /\ b \in Nat /\ N \in Nat
    BY NAssumption DEF Modes, Values
  <2>2. mode * N + a \in Nat
    BY <2>1
  <2> QED
    BY <2>1, <2>2 DEF Config
<1>8. lua2c_layer(layer) =
        Config(modes_by_key[key], barrel(as_by_key[key]), barrel(bs_by_key[key]))
  BY DEF lua2c_layer
<1> HIDE DEF key, barrel
<1> QED
  BY <1>3, <1>6, <1>7, <1>8

LEMMA PrintingIsTyped ==
  ASSUME NEW config \in Nat
  PROVE  c2lua_layer(config) \in Halves \X Halves
<1>1. N \in Nat /\ N >= 2
  BY NAssumption
<1>2. config \div N \in Int
  BY <1>1
<1>3. (config \div N) % N \in Values /\ config % N \in Values
  BY <1>2, BarrelType
<1> DEFINE mode == config \div (N * N)
           first == [barrel |-> (config \div N) % N, side |-> mode # 4,
                     sub |-> mode \in {2, 3, 5}]
           second == [barrel |-> config % N, side |-> mode = 5, sub |-> mode \in {1, 3, 4}]
<1>4. first \in Halves /\ second \in Halves
  BY <1>3 DEF Halves
<1> QED
  BY <1>4, Zenon DEF c2lua_layer

LEMMA ScriptChainsStay ==
  ASSUME lua_chain \in ScriptChains, [ChainsStep]_lua_chain
  PROVE  lua_chain' \in ScriptChains
<1>1. CASE AddLayer
  BY <1>1, AppendProperties DEF AddLayer, ScriptChains
<1>2. CASE SolvedChain
  <2>1. PICK config \in Configs : lua_chain' = c2lua_chain(<<config>>)
    BY <1>2 DEF SolvedChain
  <2>2. config \in Nat
    BY NAssumption DEF Configs, HEX_CONFIG_COUNT
  <2>3. lua_chain' = [i \in 1 .. 1 |-> c2lua_layer(config)]
    BY <2>1 DEF c2lua_chain
  <2> QED
    BY <2>2, <2>3, PrintingIsTyped, SeqDef DEF ScriptChains
<1>3. CASE NormalizeChain
  <2> DEFINE k == Len(lua_chain)
  <2>1. k \in Nat /\ DOMAIN lua_chain = 1 .. k /\ \A i \in 1 .. k : lua_chain[i] \in Halves \X Halves
    BY DEF ScriptChains
  <2>2. lua_chain' = [i \in 1 .. k |-> c2lua_layer(lua2c_layer(lua_chain[i]))]
    BY <1>3, <2>1 DEF NormalizeChain, normalize_chain, c2lua_chain, lua2c_chain
  <2>3. \A i \in 1 .. k : c2lua_layer(lua2c_layer(lua_chain[i])) \in Halves \X Halves
    BY <2>1, TranslationIsTyped, PrintingIsTyped
  <2> QED
    BY <2>1, <2>2, <2>3, SeqDef DEF ScriptChains
<1> QED
  BY <1>1, <1>2, <1>3 DEF ChainsStep

-----------------------------------------------------------------------------
(* A set contains the functions whose every output it allows.              *)
LEMMA ContainsEachOutput ==
  ASSUME NEW S \in FnSets, NEW g \in Maps
  PROVE  fn_set_contains_fn(S, g) <=> \A i \in Values : g[i] \in S[i]
<1>1. \A i \in Values : S[i] \cap fn_set_new_containing(g)[i] # {} <=> g[i] \in S[i]
  BY DEF FnSets, HexSets, Maps, fn_set_new_containing
<1>2. QED
  BY <1>1 DEF fn_set_contains_fn, fn_set_sat

LEMMA OperationsAreTyped ==
  ASSUME NEW S \in FnSets, NEW h \in Maps
  PROVE  /\ fn_set_pre_mul_fn(S, h) \in FnSets
         /\ fn_set_post_mul_fn(S, h) \in FnSets
         /\ fn_set_pre_div_fn(S, h) \in FnSets
         /\ fn_set_post_div_fn(S, h) \in FnSets
         /\ fn_set_inverse(S) \in FnSets
<1>1. \A i \in Values : h[i] \in Values /\ S[i] \subseteq Values /\ S[h[i]] \subseteq Values
  BY DEF FnSets, HexSets, Maps
<1>2. fn_set_pre_mul_fn(S, h) \in FnSets
  BY <1>1 DEF fn_set_pre_mul_fn, FnSets, HexSets
<1>3. fn_set_post_mul_fn(S, h) \in FnSets
  <2>1. \A i \in Values : {h[o] : o \in S[i]} \subseteq Values
    BY <1>1
  <2>2. QED
    BY <2>1 DEF fn_set_post_mul_fn, FnSets, HexSets
<1>4. fn_set_pre_div_fn(S, h) \in FnSets
  BY DEF fn_set_pre_div_fn, FnSets, HexSets
<1>5. fn_set_post_div_fn(S, h) \in FnSets
  BY DEF fn_set_post_div_fn, FnSets, HexSets
<1>6. fn_set_inverse(S) \in FnSets
  BY DEF fn_set_inverse, fn_set_get_oi, FnSets, HexSets
<1>7. QED
  BY <1>2, <1>3, <1>4, <1>5, <1>6

LEMMA CompositionIsTyped ==
  ASSUME NEW a \in Maps, NEW b \in Maps
  PROVE  hex_fn_compose(a, b) \in Maps
BY DEF hex_fn_compose, Maps

-----------------------------------------------------------------------------
\* fn_set_pre_div_fn: what is left are the functions that, behind the divisor,
\* are in the set.
THEOREM PreDivIsExact ==
  ASSUME NEW S \in FnSets, NEW h \in Maps, NEW g \in Maps
  PROVE  fn_set_contains_fn(fn_set_pre_div_fn(S, h), g)
           <=> fn_set_contains_fn(S, hex_fn_compose(g, h))
<1> DEFINE D == fn_set_pre_div_fn(S, h)
<1>1. \A v \in Values : D[v] = {o \in Values : \A i \in Values : h[i] = v => o \in S[i]}
  BY DEF fn_set_pre_div_fn
<1>2. \A v \in Values : g[v] \in D[v] <=> \A i \in Values : h[i] = v => g[v] \in S[i]
  BY <1>1 DEF Maps
<1>3. (\A v \in Values : g[v] \in D[v]) <=> \A i \in Values : g[h[i]] \in S[i]
  <2> HIDE DEF D
  <2>1. \A i \in Values : h[i] \in Values
    BY DEF Maps
  <2>2. QED
    BY <1>2, <2>1
<1>4. \A i \in Values : hex_fn_compose(g, h)[i] = g[h[i]]
  BY DEF hex_fn_compose
<1>5. QED
  BY <1>3, <1>4, OperationsAreTyped, CompositionIsTyped, ContainsEachOutput

\* fn_set_post_div_fn: what is left are the functions that, in front of the
\* divisor, are in the set.
THEOREM PostDivIsExact ==
  ASSUME NEW S \in FnSets, NEW h \in Maps, NEW g \in Maps
  PROVE  fn_set_contains_fn(fn_set_post_div_fn(S, h), g)
           <=> fn_set_contains_fn(S, hex_fn_compose(h, g))
<1>1. \A v \in Values : g[v] \in fn_set_post_div_fn(S, h)[v] <=> h[g[v]] \in S[v]
  BY DEF fn_set_post_div_fn, Maps
<1>2. \A i \in Values : hex_fn_compose(h, g)[i] = h[g[i]]
  BY DEF hex_fn_compose
<1>3. QED
  BY <1>1, <1>2, OperationsAreTyped, CompositionIsTyped, ContainsEachOutput

\* Multiplying in front and dividing in front are adjoint: a product stays in a
\* set exactly when the factor is in what the division leaves.
THEOREM PreDivIsLargest ==
  ASSUME NEW S \in FnSets, NEW T \in FnSets, NEW h \in Maps
  PROVE  fn_set_is_super(S, fn_set_pre_mul_fn(T, h))
           <=> fn_set_is_super(fn_set_pre_div_fn(S, h), T)
<1> DEFINE D == fn_set_pre_div_fn(S, h)
<1>1. \A v \in Values : D[v] = {o \in Values : \A i \in Values : h[i] = v => o \in S[i]}
  BY DEF fn_set_pre_div_fn
<1>2. \A i \in Values : h[i] \in Values /\ T[i] \subseteq Values
  BY DEF Maps, FnSets, HexSets
<1>3. \A v \in Values : T[v] \subseteq D[v]
          <=> \A i \in Values : h[i] = v => T[v] \subseteq S[i]
  BY <1>1, <1>2
<1>4. fn_set_is_super(D, T) <=> \A v \in Values : T[v] \subseteq D[v]
  BY DEF fn_set_is_super
<1>5. fn_set_is_super(S, fn_set_pre_mul_fn(T, h)) <=> \A i \in Values : T[h[i]] \subseteq S[i]
  BY DEF fn_set_is_super, fn_set_pre_mul_fn
<1>6. QED
  <2> HIDE DEF D
  <2>1. (\A v \in Values : T[v] \subseteq D[v]) <=> \A i \in Values : T[h[i]] \subseteq S[i]
    BY <1>2, <1>3
  <2>2. QED
    BY <1>4, <1>5, <2>1 DEF D

\* ... and behind, too.
THEOREM PostDivIsLargest ==
  ASSUME NEW S \in FnSets, NEW T \in FnSets, NEW h \in Maps
  PROVE  fn_set_is_super(S, fn_set_post_mul_fn(T, h))
           <=> fn_set_is_super(fn_set_post_div_fn(S, h), T)
<1>1. \A i \in Values : T[i] \subseteq Values
  BY DEF FnSets, HexSets
<1>2. \A i \in Values : {h[o] : o \in T[i]} \subseteq S[i]
                          <=> T[i] \subseteq {o \in Values : h[o] \in S[i]}
  BY <1>1
<1>3. fn_set_is_super(S, fn_set_post_mul_fn(T, h))
        <=> \A i \in Values : {h[o] : o \in T[i]} \subseteq S[i]
  BY DEF fn_set_is_super, fn_set_post_mul_fn
<1>4. fn_set_is_super(fn_set_post_div_fn(S, h), T)
        <=> \A i \in Values : T[i] \subseteq {o \in Values : h[o] \in S[i]}
  BY DEF fn_set_is_super, fn_set_post_div_fn
<1>5. QED
  BY <1>2, <1>3, <1>4

-----------------------------------------------------------------------------
LEMMA InverseTwice ==
  ASSUME NEW S \in FnSets
  PROVE  fn_set_inverse(fn_set_inverse(S)) = S
<1>1. \A i \in Values : S[i] \subseteq Values
  BY DEF FnSets, HexSets
<1>2. \A i \in Values : {o \in Values : i \in {v \in Values : o \in S[v]}} = S[i]
  BY <1>1
<1>3. fn_set_inverse(fn_set_inverse(S))
        = [i \in Values |-> {o \in Values : i \in {v \in Values : o \in S[v]}}]
  BY DEF fn_set_inverse, fn_set_get_oi
<1>4. S = [i \in Values |-> S[i]]
  BY DEF FnSets
<1>5. QED
  BY <1>2, <1>3, <1>4

LEMMA InverseOfProduct ==
  ASSUME NEW S \in FnSets, NEW h \in Maps
  PROVE  fn_set_inverse(fn_set_pre_mul_fn(S, h))
           = fn_set_post_div_fn(fn_set_inverse(S), h)
<1>1. \A i \in Values : h[i] \in Values
  BY DEF Maps
<1>2. \A o \in Values : {i \in Values : o \in S[h[i]]}
                          = {i \in Values : h[i] \in {v \in Values : o \in S[v]}}
  BY <1>1
<1>3. QED
  BY <1>2 DEF fn_set_inverse, fn_set_get_oi, fn_set_pre_mul_fn, fn_set_post_div_fn

LEMMA InverseOfColumn ==
  ASSUME NEW S \in FnSets, NEW o \in Values, NEW slice \in HexSets
  PROVE  fn_set_inverse(fn_set_with_oi(S, o, slice))
           = fn_set_with_io(fn_set_inverse(S), o, slice)
<1> DEFINE W == fn_set_with_oi(S, o, slice)
<1>1. \A i, v \in Values : v \in W[i] <=> IF v = o THEN i \in slice ELSE v \in S[i]
  BY DEF fn_set_with_oi
<1>2. {i \in Values : o \in W[i]} = slice
  <2> HIDE DEF W
  <2>1. QED
    BY <1>1 DEF HexSets
<1>3. \A v \in Values \ {o} : {i \in Values : v \in W[i]} = {i \in Values : v \in S[i]}
  <2> HIDE DEF W
  <2>1. QED
    BY <1>1
<1>4. \A v \in Values : {i \in Values : v \in W[i]}
                          = IF v = o THEN slice ELSE {i \in Values : v \in S[i]}
  BY <1>2, <1>3
<1>5. fn_set_inverse(W) = [v \in Values |-> {i \in Values : v \in W[i]}]
  BY DEF fn_set_inverse, fn_set_get_oi
<1>6. fn_set_with_io(fn_set_inverse(S), o, slice)
        = [v \in Values |-> IF v = o THEN slice ELSE {i \in Values : v \in S[i]}]
  BY DEF fn_set_inverse, fn_set_get_oi, fn_set_with_io
<1>7. fn_set_inverse(W) = fn_set_with_io(fn_set_inverse(S), o, slice)
  <2> HIDE DEF W
  <2>1. QED
    BY <1>4, <1>5, <1>6
<1>8. QED
  BY <1>7

-----------------------------------------------------------------------------
(* The objects of a script.                                                *)
LEMMA ClampedIsAValue ==
  ASSUME NEW x \in Int
  PROVE  clamp_hex(x) \in Values
BY NAssumption DEF clamp_hex, Values

LEMMA IdentityIsAMap == identity \in Maps
BY DEF identity, Maps

LEMMA ConstantIsAMap ==
  ASSUME NEW k \in Values
  PROVE  hex_fn_of_constant(k) \in Maps
BY DEF hex_fn_of_constant, Maps

\* Every method leaves a function and a function set.
LEMMA SetsStayTyped == SetsTypeOK /\ [SetsStep]_setVars => SetsTypeOK'
<1> SUFFICES ASSUME SetsTypeOK, [SetsStep]_setVars
             PROVE  SetsTypeOK'
  OBVIOUS
<1> USE DEF SetsTypeOK
<1>1. CASE Constant
  BY <1>1, ConstantIsAMap DEF Constant
<1>2. CASE SetOutput
  <2>1. PICK i \in -1 .. N, j \in -1 .. N :
          fn' = [fn EXCEPT ![clamp_hex(i)] = clamp_hex(j)] /\ UNCHANGED set
    BY <1>2 DEF SetOutput
  <2>2. i \in Int /\ j \in Int
    BY NAssumption
  <2>3. QED
    BY <2>1, <2>2, ClampedIsAValue DEF Maps
<1>3. CASE Compose
  <2>1. PICK other \in {hex_fn_of_constant(0)}
                         \cup {[identity EXCEPT ![i] = j] : i, j \in Values} :
          /\ fn' \in {hex_fn_compose(fn, other), hex_fn_compose(other, fn)}
          /\ UNCHANGED set
    BY <1>3 DEF Compose
  <2>2. hex_fn_of_constant(0) \in Maps
    BY ConstantIsAMap, NAssumption DEF Values
  <2>3. \A i, j \in Values : [identity EXCEPT ![i] = j] \in Maps
    BY IdentityIsAMap DEF Maps
  <2>4. QED
    BY <2>1, <2>2, <2>3, CompositionIsTyped
<1>4. CASE NewSet
  BY <1>4, IdentityIsAMap
     DEF NewSet, FnSets, HexSets, Maps, fn_set_new_empty, fn_set_new_full,
         fn_set_new_containing
<1>5. CASE SetBit
  <2>1. PICK i \in Values, o \in Values, value \in BOOLEAN :
          set' = fn_set_with_bit(set, i, o, value) /\ UNCHANGED fn
    BY <1>5 DEF SetBit
  <2>2. set[i] \cup {o} \in HexSets /\ set[i] \ {o} \in HexSets
    BY DEF FnSets, HexSets
  <2>3. QED
    BY <2>1, <2>2 DEF fn_set_with_bit, FnSets
<1>6. CASE SetIo
  BY <1>6 DEF SetIo, fn_set_with_io, FnSets
<1>7. CASE SetOi
  <2>1. PICK o \in Values, slice \in HexSets :
          set' = fn_set_with_oi(set, o, slice) /\ UNCHANGED fn
    BY <1>7 DEF SetOi
  <2>2. \A i \in Values : set[i] \cup {o} \in HexSets /\ set[i] \ {o} \in HexSets
    BY DEF FnSets, HexSets
  <2>3. QED
    BY <2>1, <2>2 DEF fn_set_with_oi, FnSets
<1>8. CASE Multiply
  BY <1>8, OperationsAreTyped DEF Multiply
<1>9. CASE Divide
  BY <1>9, OperationsAreTyped DEF Divide
<1>10. CASE Invert
  <2>1. PICK h \in Maps : h = fn
    OBVIOUS
  <2>2. QED
    BY <1>10, OperationsAreTyped DEF Invert
<1>11. CASE UNCHANGED setVars
  BY <1>11 DEF setVars
<1>12. QED
  BY <1>1, <1>2, <1>3, <1>4, <1>5, <1>6, <1>7, <1>8, <1>9, <1>10, <1>11 DEF SetsStep

\* The script's function and its set are a function and a set in every state.
THEOREM SetsAreTyped == Spec => []SetsTypeOK
<1>1. Init => SetsTypeOK
  BY IdentityIsAMap
     DEF Init, SetsInit, SetsTypeOK, FnSets, HexSets, fn_set_new_empty
<1>2. [Next]_vars => [SetsStep]_setVars
  BY DEF Next, Load, SetsPart, HexSetsPart, LayersPart, ChainsPart, vars
<1>3. QED
  BY <1>1, <1>2, SetsStayTyped, PTL DEF Spec

\* What dividing leaves is exact for the objects of every script, and so
\* multiplying again stays inside the set.
THEOREM DivisionIsAlwaysExact == Spec => []DivisionIsExact
<1>1. ASSUME SetsTypeOK
      PROVE  DivisionIsExact
  <2> USE <1>1 DEF SetsTypeOK
  <2>1. \A g \in Maps :
          /\ fn_set_contains_fn(fn_set_pre_div_fn(set, fn), g)
               <=> fn_set_contains_fn(set, hex_fn_compose(g, fn))
          /\ fn_set_contains_fn(fn_set_post_div_fn(set, fn), g)
               <=> fn_set_contains_fn(set, hex_fn_compose(fn, g))
    BY PreDivIsExact, PostDivIsExact
  <2>2. \A S \in FnSets : fn_set_is_super(S, S)
    BY DEF fn_set_is_super
  <2>3. /\ fn_set_pre_mul_fn(set, fn) \in FnSets
        /\ fn_set_post_mul_fn(set, fn) \in FnSets
        /\ fn_set_pre_div_fn(set, fn) \in FnSets
        /\ fn_set_post_div_fn(set, fn) \in FnSets
    BY OperationsAreTyped
  <2>4. /\ fn_set_is_super(set, fn_set_pre_mul_fn(fn_set_pre_div_fn(set, fn), fn))
        /\ fn_set_is_super(fn_set_pre_div_fn(fn_set_pre_mul_fn(set, fn), fn), set)
    BY <2>2, <2>3, PreDivIsLargest
  <2>5. /\ fn_set_is_super(set, fn_set_post_mul_fn(fn_set_post_div_fn(set, fn), fn))
        /\ fn_set_is_super(fn_set_post_div_fn(fn_set_post_mul_fn(set, fn), fn), set)
    BY <2>2, <2>3, PostDivIsLargest
  <2>6. QED
    BY <2>1, <2>4, <2>5 DEF DivisionIsExact
<1>2. QED
  BY <1>1, SetsAreTyped, PTL

\* Inverting exchanges the sides of the set of every script.
THEOREM InverseAlwaysSwapsSides == Spec => []InverseSwapsSides
<1>1. SetsTypeOK => InverseSwapsSides
  BY InverseTwice, InverseOfProduct, InverseOfColumn DEF SetsTypeOK, InverseSwapsSides
<1>2. QED
  BY <1>1, SetsAreTyped, PTL

-----------------------------------------------------------------------------
\* The script's chain is a chain of its layers in every state.
ChainTypeOK == lua_chain \in ScriptChains

LEMMA ChainIsTyped == Spec => []ChainTypeOK
<1>1. Init => ChainTypeOK
  <2>1. <<>> \in ScriptChains
    BY DEF ScriptChains
  <2> QED
    BY <2>1 DEF Init, ChainsInit, ChainTypeOK
<1>2. [Next]_vars => [ChainsStep]_lua_chain
  BY DEF Next, Load, SetsPart, HexSetsPart, LayersPart, ChainsPart, vars
<1>3. ChainTypeOK /\ [Next]_vars => ChainTypeOK'
  BY <1>2, ScriptChainsStay DEF ChainTypeOK
<1>4. QED
  BY <1>1, <1>3, PTL DEF Spec

\* In every state of every script: what hlp.eval says of the script's chain is
\* what its comparators do, also once the chain is normalized.
THEOREM ChainsAlwaysMean == Spec => []ChainsKeepTheirMeaning
<1>1. ChainTypeOK => ChainsKeepTheirMeaning
  BY ChainsMean DEF ChainTypeOK, ChainsKeepTheirMeaning, AllExpressible
<1>2. QED
  BY <1>1, ChainIsTyped, PTL

-----------------------------------------------------------------------------
\* The inductive invariant of the table of layers, its iterators and the calls
\* of them holds in every state of every script.
THEOREM LayersAreKept == Spec => []LayersInv
<1>1. Init => LayersInv
  BY LayersInvInit DEF Init
<1>2. [Next]_vars => LoadLayer \/ LayersStep \/ UNCHANGED layerVars
  BY DEF Next, Load, SetsPart, HexSetsPart, LayersPart, ChainsPart, vars
<1>3. LayersInv /\ [Next]_vars => LayersInv'
  BY <1>2, LayersInvNext
<1>4. QED
  BY <1>1, <1>3, PTL DEF Spec

\* Table, iterators and calls are of their types, whatever a script does.
THEOREM LayersAlwaysTyped == Spec => []LayersTypeOK
<1>1. LayersInv => LayersTypeOK
  BY LayersAreTyped
<1>2. QED
  BY <1>1, LayersAreKept, PTL

\* init_hex_layer_data writes no layer where it has no space, however many
\* layers share a function.
THEOREM LayersAlwaysHaveSpace == Spec => []LayersFitTheirSpace
<1>1. LayersInv => LayersFitTheirSpace
  BY LayersHaveSpace
<1>2. QED
  BY <1>1, LayersAreKept, PTL

\* However iter_calls nest and whatever their filters do, an iterator hands out
\* no layer twice, none its filter refuses, and over unique layers no function
\* twice.
THEOREM LayersAlwaysHandedOnce == Spec => []HandedOnce
<1>1. LayersInv => HandedOnce
  BY LayersAreHandedOnce
<1>2. QED
  BY <1>1, LayersAreKept, PTL

\* An iterator that is used up without an error has handed out everything that
\* was wanted of it, the calls inside its own calls included.
THEOREM IterationsAlwaysComplete == Spec => []IterationIsComplete
<1>1. LayersInv => IterationIsComplete
  BY IterationsAreComplete
<1>2. QED
  BY <1>1, LayersAreKept, PTL

-----------------------------------------------------------------------------
(* The layers of the fifth variant, and the numbered ones.                 *)

\* One free comparator.
One(v, a, sub, neg) == IF neg THEN Comparator(a, v, sub) ELSE Comparator(v, a, sub)

LEMMA FreeOutput ==
  ASSUME NEW layer \in HexLayers
  PROVE  /\ get_barrel(layer, 0) \in Values /\ get_barrel(layer, 1) \in Values
         /\ get_sub(layer, 0) \in BOOLEAN /\ get_sub(layer, 1) \in BOOLEAN
         /\ hex_layer_output(layer) =
              [v \in Values |->
                 Larger(One(v, get_barrel(layer, 0), get_sub(layer, 0), get_neg(layer, 0)),
                        One(v, get_barrel(layer, 1), get_sub(layer, 1), get_neg(layer, 1)))]
<1>1. N \in Nat /\ N >= 2 /\ HALF_COUNT \in Nat /\ HALF_COUNT > 0 /\ layer \in Int
  BY NAssumption DEF HALF_COUNT, HexLayers, HEX_LAYER_COUNT
<1>2. Half(layer, 0) \in Int /\ Half(layer, 1) \in Int
  BY <1>1 DEF Half
<1>3. get_barrel(layer, 0) \in Values /\ get_barrel(layer, 1) \in Values
  BY <1>2, BarrelType DEF get_barrel
<1>4. get_sub(layer, 0) \in BOOLEAN /\ get_sub(layer, 1) \in BOOLEAN
  BY DEF get_sub
<1>5. \A back, side \in Values : \A sub \in BOOLEAN :
        comparator(back, side, sub) = Comparator(back, side, sub)
  BY <1>1 DEF comparator, Comparator, Values
<1>6. ASSUME NEW half \in {0, 1}, NEW v \in Values
      PROVE  comparator_fn(Half(layer, half))[v] =
               One(v, get_barrel(layer, half), get_sub(layer, half), get_neg(layer, half))
  <2>1. comparator_fn(Half(layer, half))[v] =
          IF get_neg(layer, half)
          THEN comparator(get_barrel(layer, half), v, get_sub(layer, half))
          ELSE comparator(v, get_barrel(layer, half), get_sub(layer, half))
    BY Zenon DEF comparator_fn, get_barrel, get_sub, get_neg
  <2>2. get_barrel(layer, half) \in Values /\ get_sub(layer, half) \in BOOLEAN
    BY <1>3, <1>4
  <2> QED
    BY <1>5, <2>1, <2>2, Zenon DEF One
<1>7. hex_layer_output(layer) =
        [v \in Values |-> Larger(comparator_fn(Half(layer, 0))[v],
                                 comparator_fn(Half(layer, 1))[v])]
  BY DEF hex_layer_output
<1> QED
  BY <1>3, <1>4, <1>6, <1>7

\* A half is read back into what it was made of.
LEMMA HalfParts ==
  ASSUME NEW a \in Values, NEW sub \in BOOLEAN, NEW neg \in BOOLEAN
  PROVE  LET half == HalfOf(a, sub, neg)
         IN  /\ half \in 0 .. HALF_COUNT - 1
             /\ half % N = a
             /\ ((half \div N) % 2 = 1) = sub
             /\ ((half \div (2 * N)) % 2 = 1) = neg
<1> DEFINE half == HalfOf(a, sub, neg)
           s == IF sub THEN 1 ELSE 0
           n == IF neg THEN 1 ELSE 0
<1>1. /\ N \in Nat \ {0} /\ 2 * N \in Nat \ {0} /\ a \in Nat /\ a \in 0 .. N - 1 /\ a % N = a
      /\ s \in {0, 1} /\ n \in {0, 1}
  BY NAssumption DEF Values
<1>2. half = a + s * N + n * (2 * N)
  BY <1>1 DEF HalfOf
<1> HIDE DEF half
<1>3. half = (2 * n + s) * N + a /\ 2 * n + s \in Nat
  <2> HIDE DEF s, n
  <2> QED
    BY <1>1, <1>2
<1>4. half = n * (2 * N) + (s * N + a) /\ s * N + a \in 0 .. 2 * N - 1 /\ n \in Nat
  <2>1. s * N \in {0, N}
    BY <1>1
  <2> HIDE DEF s, n
  <2> QED
    BY <1>1, <1>2, <2>1
<1>5. half \div N = 2 * n + s /\ half % N = a
  BY <1>1, <1>3, Division
<1>6. half \div (2 * N) = n
  BY <1>1, <1>4, Division
<1>7. half \in 0 .. HALF_COUNT - 1
  <2>1. n * (2 * N) \in {0, 2 * N}
    BY <1>1
  <2> HIDE DEF s, n
  <2> QED
    BY <1>1, <1>4, <2>1 DEF HALF_COUNT
<1>8. ((2 * n + s) % 2 = 1) = sub /\ (n % 2 = 1) = neg
  BY <1>1
<1> QED
  BY <1>5, <1>6, <1>7, <1>8 DEF half

\* The halves of a layer.
HasHalves(layer, a, sub_a, neg_a, b, sub_b, neg_b) ==
  /\ get_barrel(layer, 0) = a /\ get_sub(layer, 0) = sub_a /\ get_neg(layer, 0) = neg_a
  /\ get_barrel(layer, 1) = b /\ get_sub(layer, 1) = sub_b /\ get_neg(layer, 1) = neg_b

\* There is a layer of any two halves.
LEMMA LayerOfHalves ==
  ASSUME NEW a \in Values, NEW sub_a \in BOOLEAN, NEW neg_a \in BOOLEAN,
         NEW b \in Values, NEW sub_b \in BOOLEAN, NEW neg_b \in BOOLEAN
  PROVE  \E layer \in HexLayers : HasHalves(layer, a, sub_a, neg_a, b, sub_b, neg_b)
<1> DEFINE low == HalfOf(a, sub_a, neg_a)
           high == HalfOf(b, sub_b, neg_b)
           layer == high * HALF_COUNT + low
<1>1. low \in 0 .. HALF_COUNT - 1 /\ high \in 0 .. HALF_COUNT - 1
  BY HalfParts
<1>2. HALF_COUNT \in Nat \ {0}
  BY NAssumption DEF HALF_COUNT
<1> HIDE DEF low, high
<1>3. layer \div HALF_COUNT = high /\ layer % HALF_COUNT = low
  BY <1>1, <1>2, Division
<1>4. layer \in HexLayers
  <2> DEFINE H == HALF_COUNT
  <2>1. H \in Nat /\ high \in Nat /\ low \in Nat /\ high <= H - 1 /\ low <= H - 1
    BY <1>1, <1>2
  <2> HIDE DEF H
  <2>2. high * H \in Nat /\ high * H <= (H - 1) * H /\ (H - 1) * H = H * H - H
    BY <2>1
  <2>3. H * H \in Nat
    BY <2>1
  <2>4. high * H + low \in 0 .. H * H - 1
    BY <2>1, <2>2, <2>3
  <2> QED
    BY <2>4 DEF H, HexLayers, HEX_LAYER_COUNT
<1>5. Half(layer, 0) = low /\ Half(layer, 1) = high
  BY <1>3 DEF Half
<1>6. HasHalves(layer, a, sub_a, neg_a, b, sub_b, neg_b)
  <2> HIDE DEF layer
  <2> QED
    BY <1>5, HalfParts DEF HasHalves, get_barrel, get_sub, get_neg, low, high
<1> QED
  BY <1>4, <1>6

\* The numbered modes are those of the fifth variant.
LEMMA ClassicIsNumbered ==
  ASSUME NEW layer \in HexLayers, hex_layer_is_classic(layer, 5)
  PROVE  \E mode \in Modes, a \in Values, b \in Values :
           hex_layer_output(layer) = LayerMap(Config(mode, a, b))
<1> DEFINE a == get_barrel(layer, 0)
           b == get_barrel(layer, 1)
           first == get_sub(layer, 0)
           second == get_sub(layer, 1)
           F == hex_layer_output(layer)
<1>1. /\ a \in Values /\ b \in Values /\ first \in BOOLEAN /\ second \in BOOLEAN
      /\ F = [v \in Values |-> Larger(One(v, a, first, get_neg(layer, 0)),
                                      One(v, b, second, get_neg(layer, 1)))]
  BY FreeOutput
<1>2. \A mode \in Modes : LayerMap(Config(mode, a, b)) = [v \in Values |-> Output(v, mode, a, b)]
  <2> SUFFICES ASSUME NEW mode \in Modes
               PROVE  LayerMap(Config(mode, a, b)) = [v \in Values |-> Output(v, mode, a, b)]
    OBVIOUS
  <2>1. \A v \in Values : LayerMap(Config(mode, a, b))[v] = Output(v, mode, a, b)
    BY <1>1, LayerOutput
  <2> QED
    BY <2>1 DEF LayerMap
<1>3. ClassicFour(layer) \/ ClassicFive(layer)
  BY DEF hex_layer_is_classic
<1> HIDE DEF a, b, first, second, F
<1>4. CASE ClassicFour(layer)
  <2> DEFINE mode == (IF first THEN 2 ELSE 0) + (IF second THEN 1 ELSE 0)
  <2>1. mode \in Modes /\ mode \notin {4, 5} /\ (mode \in {2, 3}) = first
        /\ (mode \in {1, 3, 4}) = second
    BY <1>1 DEF Modes
  <2> HIDE DEF mode
  <2>2. \A v \in Values : Output(v, mode, a, b) = Larger(Comparator(v, a, first),
                                                         Comparator(b, v, second))
    BY <2>1, Zenon DEF Output
  <2>3. \A v \in Values : /\ One(v, a, first, get_neg(layer, 0)) = Comparator(v, a, first)
                          /\ One(v, b, second, get_neg(layer, 1)) = Comparator(b, v, second)
    BY <1>4 DEF One, ClassicFour
  <2>4. F = LayerMap(Config(mode, a, b))
    BY <1>1, <1>2, <2>1, <2>2, <2>3
  <2> QED
    BY <1>1, <2>1, <2>4 DEF F
<1>5. CASE ClassicFive(layer)
  <2>1. first = FALSE /\ second = TRUE
    BY <1>1, <1>5 DEF ClassicFive, first, second
  <2>2. 4 \in Modes /\ 4 \in {4, 5} /\ (4 = 5) = FALSE /\ (4 \in {1, 3, 4}) = TRUE
    BY DEF Modes
  <2>3. \A v \in Values : Output(v, 4, a, b) = Larger(Comparator(a, v, FALSE),
                                                      Comparator(b, v, TRUE))
    BY <2>2, Zenon DEF Output
  <2>4. \A v \in Values : /\ One(v, a, first, get_neg(layer, 0)) = Comparator(a, v, FALSE)
                          /\ One(v, b, second, get_neg(layer, 1)) = Comparator(b, v, TRUE)
    BY <1>5, <2>1 DEF One, ClassicFive
  <2>5. F = LayerMap(Config(4, a, b))
    BY <1>1, <1>2, <2>2, <2>3, <2>4
  <2> QED
    BY <1>1, <2>2, <2>5 DEF F
<1> QED
  BY <1>3, <1>4, <1>5

LEMMA NumberedIsClassic ==
  ASSUME NEW mode \in Modes, NEW a \in Values, NEW b \in Values
  PROVE  \E layer \in HexLayers :
           /\ hex_layer_is_classic(layer, 5)
           /\ hex_layer_output(layer) = LayerMap(Config(mode, a, b))
<1> DEFINE M == LayerMap(Config(mode, a, b))
<1>1. M = [v \in Values |-> Output(v, mode, a, b)]
  <2>1. \A v \in Values : M[v] = Output(v, mode, a, b)
    BY LayerOutput
  <2> QED
    BY <2>1 DEF LayerMap
<1> HIDE DEF M
<1>2. CASE mode \notin {4, 5}
  <2> DEFINE first == mode \in {2, 3}
             second == mode \in {1, 3, 4}
  <2>1. PICK layer \in HexLayers : HasHalves(layer, a, first, FALSE, b, second, TRUE)
    <3>1. first \in BOOLEAN /\ second \in BOOLEAN
      OBVIOUS
    <3> HIDE DEF first, second
    <3> QED
      BY <3>1, LayerOfHalves
  <2>2. hex_layer_is_classic(layer, 5)
    BY <2>1 DEF HasHalves, hex_layer_is_classic, ClassicFour
  <2>3. hex_layer_output(layer) = [v \in Values |-> Larger(One(v, a, first, FALSE),
                                                           One(v, b, second, TRUE))]
    BY <2>1, FreeOutput DEF HasHalves
  <2>4. \A v \in Values : Output(v, mode, a, b) = Larger(One(v, a, first, FALSE),
                                                         One(v, b, second, TRUE))
    BY <1>2, Zenon DEF Output, One
  <2> QED
    BY <1>1, <2>2, <2>3, <2>4 DEF M
<1>3. CASE mode = 4
  <2>1. PICK layer \in HexLayers : HasHalves(layer, a, FALSE, TRUE, b, TRUE, TRUE)
    BY LayerOfHalves
  <2>2. hex_layer_is_classic(layer, 5)
    BY <2>1 DEF HasHalves, hex_layer_is_classic, ClassicFive
  <2>3. hex_layer_output(layer) = [v \in Values |-> Larger(One(v, a, FALSE, TRUE),
                                                           One(v, b, TRUE, TRUE))]
    BY <2>1, FreeOutput DEF HasHalves
  <2>4. mode \in {4, 5} /\ (mode = 5) = FALSE /\ (mode \in {1, 3, 4}) = TRUE
    BY <1>3
  <2>5. \A v \in Values : Output(v, mode, a, b) = Larger(One(v, a, FALSE, TRUE),
                                                         One(v, b, TRUE, TRUE))
    BY <2>4, Zenon DEF Output, One
  <2> QED
    BY <1>1, <2>2, <2>3, <2>5 DEF M
\* The sixth mode is the fifth with its comparators exchanged.
<1>4. CASE mode = 5
  <2>1. PICK layer \in HexLayers : HasHalves(layer, b, FALSE, TRUE, a, TRUE, TRUE)
    BY LayerOfHalves
  <2>2. hex_layer_is_classic(layer, 5)
    BY <2>1 DEF HasHalves, hex_layer_is_classic, ClassicFive
  <2>3. hex_layer_output(layer) = [v \in Values |-> Larger(One(v, b, FALSE, TRUE),
                                                           One(v, a, TRUE, TRUE))]
    BY <2>1, FreeOutput DEF HasHalves
  <2>4. mode \in {4, 5} /\ (mode = 5) = TRUE /\ (mode \in {1, 3, 4}) = FALSE
    BY <1>4
  <2>5. \A v \in Values : Output(v, mode, a, b) = Larger(Comparator(a, v, TRUE),
                                                         Comparator(b, v, FALSE))
    BY <2>4, Zenon DEF Output
  <2>6. \A v \in Values : /\ One(v, b, FALSE, TRUE) = Comparator(b, v, FALSE)
                          /\ One(v, a, TRUE, TRUE) = Comparator(a, v, TRUE)
    BY DEF One
  <2>7. \A v \in Values : Comparator(a, v, TRUE) \in Values /\ Comparator(b, v, FALSE) \in Values
    BY ComparatorType
  <2>8. \A x, y \in Values : Larger(x, y) = Larger(y, x)
    BY DEF Larger, Values
  <2>9. \A v \in Values : Output(v, mode, a, b) = Larger(One(v, b, FALSE, TRUE),
                                                         One(v, a, TRUE, TRUE))
    BY <2>5, <2>6, <2>7, <2>8
  <2> QED
    BY <1>1, <2>2, <2>3, <2>9 DEF M
<1> QED
  BY <1>2, <1>3, <1>4

\* A config is one of a mode and two barrels, and the other way round.
LEMMA ConfigsAreNumbered ==
  /\ \A mode \in Modes, a \in Values, b \in Values : Config(mode, a, b) \in Configs
  /\ \A config \in Configs :
       \E mode \in Modes, a \in Values, b \in Values : config = Config(mode, a, b)
<1>1. N \in Nat \ {0} /\ N * N \in Nat \ {0} /\ N >= 2
  BY NAssumption
<1>2. ASSUME NEW mode \in Modes, NEW a \in Values, NEW b \in Values
      PROVE  Config(mode, a, b) \in Configs
  <2>1. mode \in Nat /\ mode <= 5 /\ a \in Nat /\ b \in Nat /\ a <= N - 1 /\ b <= N - 1
    BY <1>1 DEF Modes, Values
  <2>2. Config(mode, a, b) = mode * (N * N) + (a * N + b)
    BY <1>1, <2>1 DEF Config
  <2>3. a * N \in Nat /\ a * N <= (N - 1) * N /\ (N - 1) * N = N * N - N
    BY <1>1, <2>1
  <2>4. mode * (N * N) \in Nat /\ mode * (N * N) <= 5 * (N * N)
    BY <1>1, <2>1
  <2>5. HEX_CONFIG_COUNT = 6 * (N * N)
    BY <1>1 DEF HEX_CONFIG_COUNT
  <2> QED
    BY <1>1, <2>1, <2>2, <2>3, <2>4, <2>5 DEF Configs
<1>3. ASSUME NEW config \in Configs
      PROVE  \E mode \in Modes, a \in Values, b \in Values : config = Config(mode, a, b)
  <2> DEFINE high == config \div N
             b == config % N
             mode == high \div N
             a == high % N
  <2>1. config \in Nat /\ config < 6 * N * N
    BY <1>1 DEF Configs, HEX_CONFIG_COUNT
  <2>2. high \in Nat /\ config = high * N + b /\ b \in Values
    BY <1>1, <2>1 DEF Values
  <2> HIDE DEF high, b
  <2>3. mode \in Nat /\ high = mode * N + a /\ a \in Values
    BY <1>1, <2>2 DEF Values
  <2> HIDE DEF mode, a
  <2>4. config = Config(mode, a, b)
    BY <2>2, <2>3 DEF Config
  <2>5. mode <= 5
    <3> SUFFICES ASSUME mode >= 6
                 PROVE  FALSE
      BY <2>3
    <3>1. a \in Nat /\ b \in Nat
      BY <2>2, <2>3 DEF Values
    <3>2. mode * N >= 6 * N
      BY <1>1, <2>3
    <3>3. high >= 6 * N
      BY <1>1, <2>3, <3>1, <3>2
    <3>4. high * N >= 6 * N * N
      BY <1>1, <2>2, <3>3
    <3> QED
      BY <1>1, <2>1, <2>2, <3>1, <3>4
  <2> QED
    BY <2>2, <2>3, <2>4, <2>5 DEF Modes
<1> QED
  BY <1>2, <1>3

\* The layers of the fifth variant that a script finds in the table are those
\* that the solver searches.
LEMMA ClassicAreSearched ==
  ASSUME LayersInv
  PROVE  ClassicLayersAreSearched
<1> DEFINE D == HEX_LAYER_DATA
           Classic(data) == \E k \in DOMAIN data.configs : hex_layer_is_classic(data.configs[k], 5)
           Found == {D[id].fn : id \in {i \in DOMAIN D : Classic(D[i])}}
<1>1. SUFFICES ASSUME Loaded
               PROVE  Found = SearchedMaps
  BY DEF ClassicLayersAreSearched
<1>2. \A id \in DOMAIN D : \A j \in DOMAIN D[id].configs :
        D[id].configs[j] \in HexLayers /\ hex_layer_output(D[id].configs[j]) = D[id].fn
  BY TableTypes DEF LayersInv, DataIsComplete
<1>3. ASSUME NEW map \in Found
      PROVE  map \in SearchedMaps
  <2>1. PICK id \in DOMAIN D : Classic(D[id]) /\ map = D[id].fn
    OBVIOUS
  <2>2. PICK k \in DOMAIN D[id].configs : hex_layer_is_classic(D[id].configs[k], 5)
    BY <2>1
  <2>3. PICK mode \in Modes, a \in Values, b \in Values :
          hex_layer_output(D[id].configs[k]) = LayerMap(Config(mode, a, b))
    BY <1>2, <2>2, ClassicIsNumbered
  <2>4. map = LayerMap(Config(mode, a, b)) /\ Config(mode, a, b) \in Configs
    BY <1>2, <2>1, <2>3, ConfigsAreNumbered
  <2> QED
    BY <2>4 DEF SearchedMaps
<1>4. ASSUME NEW map \in SearchedMaps
      PROVE  map \in Found
  <2>1. PICK config \in Configs : map = LayerMap(config)
    BY DEF SearchedMaps
  <2>2. PICK mode \in Modes, a \in Values, b \in Values : config = Config(mode, a, b)
    BY ConfigsAreNumbered
  <2>3. PICK layer \in HexLayers : hex_layer_is_classic(layer, 5) /\ hex_layer_output(layer) = map
    BY <2>1, <2>2, NumberedIsClassic
  <2>4. PICK id \in DOMAIN D : \E j \in DOMAIN D[id].configs : D[id].configs[j] = layer
    BY <1>1 DEF LayersInv, DataIsComplete, Loaded, HexLayers
  <2> QED
    BY <1>2, <2>3, <2>4
<1> QED
  BY <1>3, <1>4

\* In every state of every script, once the table is there.
THEOREM ClassicAlwaysSearched == Spec => []ClassicLayersAreSearched
<1>1. LayersInv => ClassicLayersAreSearched
  BY ClassicAreSearched
<1>2. QED
  BY <1>1, LayersAreKept, PTL

=============================================================================
