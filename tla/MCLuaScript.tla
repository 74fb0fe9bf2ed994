----------------------------- MODULE MCLuaScript -----------------------------
(* Three signal strengths: scripts that filter layers by variant of the    *)
(* game, and ask alternatives for a layer of the identity, for the layer   *)
(* unique_count, and for one between.                                      *)
EXTENDS LuaScript

MCFilters == {{l \in HexLayers : hex_layer_is_classic(l, variant)} : variant \in {4, 6}}

HalfWith(barrel, neg) == [barrel |-> barrel, sub |-> FALSE, neg |-> neg]
MCAltsOf == {0, 14, layer_of(<<HalfWith(1, FALSE), HalfWith(2, TRUE)>>)}
MCBusy == {2, 20, 21, HEX_LAYER_COUNT - 10}

=============================================================================
