------------------------------ MODULE LuaLayers ------------------------------
(***************************************************************************)
(* The table of layers by function (hex_layer.c) and the iterators that    *)
(* hand layers to a Lua script (lua_hex_layer.c).  An iterator with a      *)
(* filter calls back into the script for every layer, and the filter is    *)
(* free to call any iterator, this one too, or to raise an error; so there *)
(* are calls inside calls, and each works on the one index of its          *)
(* iterator.                                                               *)
(***************************************************************************)
EXTENDS HexLayers

CONSTANTS Filters,        \* the filters of the script: sets of layers
          no_filter,
          AltsOf,         \* the layers it asks alternatives for
          Busy,           \* the layers for which a filter does more than answer
          MaxIterators,   \* how many iterators it makes
          MaxCalls,       \* how deep its filters call iterators
          no_index        \* a call that is not in its inner loop

ASSUME LuaAssumption ==
  /\ Filters \subseteq SUBSET HexLayers
  /\ AltsOf \subseteq HexLayers /\ Busy \subseteq HexLayers
  /\ MaxIterators \in Nat /\ MaxCalls \in Nat
  /\ no_index \notin Nat

VARIABLES
  next_layer,        \* the loop of init_hex_layer_data
  HEX_LAYER_DATA,    \* per function: fn, configs and the space they have
  iterators,         \* the script's iterators
  calls              \* iter_call within iter_call, the innermost one last

layerVars == <<next_layer, HEX_LAYER_DATA, iterators, calls>>

-----------------------------------------------------------------------------
(* init_hex_layer_data                                                     *)
LayersInit ==
  /\ next_layer = 0 /\ HEX_LAYER_DATA = <<>>
  /\ iterators = <<>> /\ calls = <<>>

Loaded == next_layer = HEX_LAYER_COUNT
unique_count == Len(HEX_LAYER_DATA)

\* n & (n - 1) = 0: no odd number but one divides n.
IsPowerOfTwo(n) == \A d \in 1 .. n : n % d = 0 => d = 1 \/ d % 2 = 0

\* Mutated form: space is made for as many as there are.
GrowingLate(data) ==
  IF IsPowerOfTwo(data.config_count) /\ data.config_count > 8
  THEN [data EXCEPT !.space = 2 * data.config_count] ELSE data

\* Space for eight configs; twice as much whenever it is used up.
Growing(data) ==
  IF IsPowerOfTwo(data.config_count) /\ data.config_count >= 8
  THEN [data EXCEPT !.space = 2 * data.config_count] ELSE data

WithConfig(data, layer) ==
  [Growing(data) EXCEPT !.configs = Append(@, layer), !.config_count = @ + 1]

EntryOf(fn) == {id \in DOMAIN HEX_LAYER_DATA : HEX_LAYER_DATA[id].fn = fn}

LoadLayer ==
  /\ ~ Loaded
  /\ \E fn \in {hex_layer_output(next_layer)} :
       HEX_LAYER_DATA' =
         IF EntryOf(fn) = {}
         THEN Append(HEX_LAYER_DATA,
                     WithConfig([fn |-> fn, configs |-> <<>>, config_count |-> 0,
                                 space |-> 8], next_layer))
         ELSE [id \in DOMAIN HEX_LAYER_DATA |->
                 IF id \in EntryOf(fn) THEN WithConfig(HEX_LAYER_DATA[id], next_layer)
                                       ELSE HEX_LAYER_DATA[id]]
  /\ next_layer' = next_layer + 1
  /\ UNCHANGED <<iterators, calls>>

hex_layer_get_data(layer) ==
  HEX_LAYER_DATA[CHOOSE id \in DOMAIN HEX_LAYER_DATA :
                   Contains(HEX_LAYER_DATA[id].configs, layer)]

-----------------------------------------------------------------------------
(* Making an iterator.  What it handed out, whether it did so twice with a *)
(* layer, and whether an error went through a call of it are history.      *)
Iterator(type, filter, index, list, self, exclude) ==
  [type |-> type, filter |-> filter, index |-> index, list |-> list,
   self |-> self, exclude |-> exclude,
   handed |-> {}, repeated |-> FALSE, failed |-> FALSE]

\* The script's own code runs.
InScript == Loaded /\ calls = <<>>

\* hex_layer.iter(unique, filter)
IterLayers(type) ==
  /\ InScript /\ Len(iterators) < MaxIterators
  /\ \E filter \in Filters \cup {no_filter} :
       iterators' = Append(iterators,
         Iterator(type, filter,
                  IF type = "unique" THEN unique_count ELSE HEX_LAYER_COUNT,
                  <<>>, 0, HEX_LAYER_COUNT))
  /\ UNCHANGED <<next_layer, HEX_LAYER_DATA, calls>>

\* layer:alts(exclude_self); what stands for "exclude nothing" is the number
\* of functions, which is a layer too.
GetAlts ==
  /\ InScript /\ Len(iterators) < MaxIterators
  /\ \E layer \in AltsOf, exclude_self \in BOOLEAN :
       LET data == hex_layer_get_data(layer)
       IN  iterators' = Append(iterators,
             Iterator("list", no_filter, data.config_count, data.configs, layer,
                      IF exclude_self THEN layer ELSE unique_count))
  /\ UNCHANGED <<next_layer, HEX_LAYER_DATA, calls>>

-----------------------------------------------------------------------------
(* iter_call                                                               *)
C == Last(calls)
Iter == iterators[C.iterator]
InC == calls # <<>> /\ ~ C.asking
Returned == SubSeq(calls, 1, Len(calls) - 1)
WithTop(call) == [calls EXCEPT ![Len(calls)] = call]

\* The layers of one turn: all of a function, or one.
Candidates ==
  CASE Iter.type = "all" -> <<C.index>>
    [] Iter.type = "unique" -> HEX_LAYER_DATA[C.index + 1].configs
    [] Iter.type = "list" ->
         IF Iter.list[C.index + 1] = Iter.exclude THEN <<>>
                                                  ELSE <<Iter.list[C.index + 1]>>

InLoop == InC /\ C.index # no_index
Candidate == Candidates[C.next]

\* A filter runs, and is asked about a layer for which it does something else
\* before it answers.
Asking == calls # <<>> /\ C.asking
FilterIsBusy == Asking /\ Candidate \in Busy

\* The script calls an iterator, or a filter does.
Call(k) ==
  /\ InScript \/ (FilterIsBusy /\ Len(calls) < MaxCalls)
  /\ calls' = Append(calls, [iterator |-> k, index |-> no_index, next |-> 1,
                             asking |-> FALSE])
  /\ UNCHANGED <<next_layer, HEX_LAYER_DATA, iterators>>

\* Nothing is left: no layer is handed out.
ReturnNothing ==
  /\ InC /\ C.index = no_index /\ Iter.index = 0
  /\ calls' = Returned
  /\ UNCHANGED <<next_layer, HEX_LAYER_DATA, iterators>>

\* Mutated form: the iterator moves on only when a layer is handed out.
TakeIndexKeepingIt ==
  /\ InC /\ C.index = no_index /\ Iter.index > 0
  /\ calls' = WithTop([C EXCEPT !.index = Iter.index - 1, !.next = 1])
  /\ UNCHANGED <<next_layer, HEX_LAYER_DATA, iterators>>

TakeIndex ==
  /\ InC /\ C.index = no_index /\ Iter.index > 0
  /\ iterators' = [iterators EXCEPT ![C.iterator].index = @ - 1]
  /\ calls' = WithTop([C EXCEPT !.index = Iter.index - 1, !.next = 1])
  /\ UNCHANGED <<next_layer, HEX_LAYER_DATA>>

Gave(iter, layer) ==
  [iter EXCEPT !.handed = @ \cup {layer},
               !.repeated = @ \/ layer \in iter.handed]

\* Mutated form: the index is put back to where this call found it.
HandOutAgain ==
  /\ iterators' = [iterators EXCEPT ![C.iterator] = [Gave(@, Candidate) EXCEPT !.index = C.index]]
  /\ calls' = Returned

HandOut ==
  /\ iterators' = [iterators EXCEPT ![C.iterator] = Gave(@, Candidate)]
  /\ calls' = Returned

TryLayer ==
  /\ InLoop /\ C.next <= Len(Candidates)
  /\ \/ Iter.filter = no_filter /\ HandOut
     \/ Iter.filter # no_filter /\ calls' = WithTop([C EXCEPT !.asking = TRUE])
                                /\ UNCHANGED iterators
  /\ UNCHANGED <<next_layer, HEX_LAYER_DATA>>

NextIndex ==
  /\ InLoop /\ C.next > Len(Candidates)
  /\ calls' = WithTop([C EXCEPT !.index = no_index])
  /\ UNCHANGED <<next_layer, HEX_LAYER_DATA, iterators>>

\* The filter returns.
Accept ==
  /\ Asking /\ Candidate \in Iter.filter
  /\ HandOut
  /\ UNCHANGED <<next_layer, HEX_LAYER_DATA>>

\* Mutated form: the other layers of the function are not tried.
RejectFunction ==
  /\ Asking /\ Candidate \notin Iter.filter
  /\ calls' = WithTop([C EXCEPT !.index = no_index, !.asking = FALSE])
  /\ UNCHANGED <<next_layer, HEX_LAYER_DATA, iterators>>

Reject ==
  /\ Asking /\ Candidate \notin Iter.filter
  /\ calls' = WithTop([C EXCEPT !.next = @ + 1, !.asking = FALSE])
  /\ UNCHANGED <<next_layer, HEX_LAYER_DATA, iterators>>

\* The filter raises an error: all calls end, up to a filter or a script that
\* catches it.
RaiseError ==
  /\ FilterIsBusy
  /\ \E caught \in 0 .. Len(calls) - 1 :
       /\ calls' = SubSeq(calls, 1, caught)
       /\ iterators' =
            [k \in DOMAIN iterators |->
               IF \E d \in caught + 1 .. Len(calls) : calls[d].iterator = k
               THEN [iterators[k] EXCEPT !.failed = TRUE] ELSE iterators[k]]
  /\ UNCHANGED <<next_layer, HEX_LAYER_DATA>>

Answer == Accept \/ Reject

\* What the program does by itself.
RunStep == ReturnNothing \/ TakeIndex \/ TryLayer \/ NextIndex

LayersStep == \/ RunStep \/ Answer
              \/ IterLayers("all") \/ IterLayers("unique") \/ GetAlts
              \/ \E k \in DOMAIN iterators : Call(k)
              \/ RaiseError

-----------------------------------------------------------------------------
LayersTypeOK ==
  /\ next_layer \in 0 .. HEX_LAYER_COUNT
  /\ \A id \in DOMAIN HEX_LAYER_DATA :
       HEX_LAYER_DATA[id] \in [fn : Maps, configs : Seq(HexLayers),
                               config_count : Nat, space : Nat]
  /\ \A k \in DOMAIN iterators :
       /\ iterators[k].index \in 0 .. HEX_LAYER_COUNT
       /\ iterators[k].handed \subseteq HexLayers
  /\ \A d \in DOMAIN calls :
       /\ calls[d].iterator \in DOMAIN iterators
       /\ calls[d].asking <=> d < Len(calls) \/ Last(calls).asking

\* No more layers are written for a function than there is space for.
LayersFitTheirSpace ==
  \A id \in DOMAIN HEX_LAYER_DATA :
    LET data == HEX_LAYER_DATA[id]
    IN  /\ data.config_count = Len(data.configs)
        /\ data.config_count <= data.space

\* The layers of the fifth variant are those the solver searches: the numbered
\* modes of redstone.c and the free comparators of hex_layer.c agree.
SearchedMaps == {LayerMap(config) : config \in Configs}

ClassicLayersAreSearched ==
  LET HasClassic(data) ==
        \E k \in DOMAIN data.configs : hex_layer_is_classic(data.configs[k], 5)
  IN  Loaded => {HEX_LAYER_DATA[id].fn :
                   id \in {i \in DOMAIN HEX_LAYER_DATA : HasClassic(HEX_LAYER_DATA[i])}}
                  = SearchedMaps

\* What an iterator may hand out, whatever it hands out in the end.
Wanted(iter) ==
  LET listed == CASE iter.type = "list" ->
                       {l \in HexLayers :
                          hex_layer_output(l) = hex_layer_output(iter.self)}
                         \ (IF iter.exclude = iter.self THEN {iter.self} ELSE {})
                  [] OTHER -> HexLayers
  IN  IF iter.filter = no_filter THEN listed ELSE listed \cap iter.filter

Outputs(layers) == {hex_layer_output(l) : l \in layers}

\* However calls nest and whatever filters do, no layer is handed out twice by
\* an iterator, none that its filter refuses, and one over unique layers gives
\* out no function twice.
HandedOnce ==
  \A k \in DOMAIN iterators :
    LET iter == iterators[k]
    IN  /\ ~ iter.repeated
        /\ iter.handed \subseteq Wanted(iter)
        /\ iter.type = "unique" =>
             Cardinality(Outputs(iter.handed)) = Cardinality(iter.handed)

\* An iterator that is used up, with no error on the way, has handed out all it
\* should: every wanted layer, or one for every function that has one.  (Asked
\* for alternatives with the layer itself it leaves out the one whose number
\* is unique_count.)
IterationIsComplete ==
  \A k \in DOMAIN iterators :
    LET iter == iterators[k]
        open == {d \in DOMAIN calls : calls[d].iterator = k}
    IN  iter.index = 0 /\ open = {} /\ ~ iter.failed =>
          IF iter.type = "unique"
          THEN Outputs(iter.handed) = Outputs(Wanted(iter))
          ELSE iter.handed = Wanted(iter) \ {iter.exclude}

\* Every call of an iterator comes to its end.
CallsEnd == []<>(calls = <<>>)

=============================================================================
