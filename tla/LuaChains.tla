------------------------------ MODULE LuaChains ------------------------------
(***************************************************************************)
(* Chains of layers in a Lua script.  A script's layer is a table of two   *)
(* halves, each a comparator with a barrel, which is at its side or else   *)
(* at its back, and either subtracts or not; the program's layer is a      *)
(* config with one of six modes.  redstone.c translates both ways, and     *)
(* lua_command.c lets scripts evaluate chains and normalize them.          *)
(***************************************************************************)
EXTENDS HexFn, Sequences

CONSTANT MaxScriptChain   \* bounds the chains a script builds

VARIABLE lua_chain   \* the script's chain

Halves == [barrel : Values, side : BOOLEAN, sub : BOOLEAN]

\* What a half makes of its input.
HalfMap(half) ==
  [v \in Values |-> IF half.side THEN Comparator(v, half.barrel, half.sub)
                                 ELSE Comparator(half.barrel, v, half.sub)]

\* What the two halves make of it together.
Meaning(layer) ==
  [v \in Values |-> Larger(HalfMap(layer[1])[v], HalfMap(layer[2])[v])]

-----------------------------------------------------------------------------
(* From Lua.  The key has a bit for each side, which is inverted, and one  *)
(* for each sub; the tables give the mode and which barrels it takes.      *)
modes_by_key == <<0, 5, 5, 2, 0, 1, 2, 3, 0, 2, 1, 3, 4, 4, 4, 4>>
as_by_key == <<"min", "1", "2", "min", "1", "1", "1", "1",
               "2", "2", "2", "2", "0", "1", "2", "0">>
bs_by_key == <<"0", "2", "1", "0", "2", "2", "2", "2",
               "1", "1", "1", "1", "max", "2", "1", "max">>

mode_key(layer) ==
  (IF layer[1].side THEN 0 ELSE 8) + (IF layer[2].side THEN 0 ELSE 4)
    + (IF layer[1].sub THEN 2 ELSE 0) + (IF layer[2].sub THEN 1 ELSE 0)

\* Mutated form: of two barrels the first one, whichever is larger.
BarrelUnordered(key, barrel1, barrel2) ==
  CASE key = "0" -> 0
    [] key = "1" -> barrel1
    [] key = "2" -> barrel2
    [] key = "min" -> barrel1
    [] key = "max" -> barrel2

Barrel(key, barrel1, barrel2) ==
  CASE key = "0" -> 0
    [] key = "1" -> barrel1
    [] key = "2" -> barrel2
    [] key = "min" -> IF barrel1 > barrel2 THEN barrel2 ELSE barrel1
    [] key = "max" -> IF barrel1 > barrel2 THEN barrel1 ELSE barrel2

lua2c_layer(layer) ==
  LET key == mode_key(layer) + 1
      barrel(k) == Barrel(k, layer[1].barrel, layer[2].barrel)
  IN  Config(modes_by_key[key], barrel(as_by_key[key]), barrel(bs_by_key[key]))

lua2c_chain(chain) == [i \in DOMAIN chain |-> lua2c_layer(chain[i])]

-----------------------------------------------------------------------------
(* To Lua.                                                                 *)
c2lua_layer(config) ==
  LET mode == config \div (N * N)
  IN  <<[barrel |-> (config \div N) % N, side |-> mode # 4,
         sub |-> mode \in {2, 3, 5}],
        [barrel |-> config % N, side |-> mode = 5,
         sub |-> mode \in {1, 3, 4}]>>

c2lua_chain(chain) == [i \in DOMAIN chain |-> c2lua_layer(chain[i])]

apply_hex_chain(start, chain) ==
  LET applied[i \in 0 .. Len(chain)] ==
        IF i = 0 THEN start
        ELSE apply_mapping(applied[i - 1], LayerMap(chain[i]))
  IN  applied[Len(chain)]

\* hlp.eval: the outputs of a chain for the inputs of a table, which are
\* clamped, or for all signal strengths in order.
eval_chain(chain, initial) ==
  apply_hex_chain([v \in Values |-> clamp_hex(initial[v])], lua2c_chain(chain))

normalize_chain(chain) == c2lua_chain(lua2c_chain(chain))

-----------------------------------------------------------------------------
ChainsInit == lua_chain = <<>>

\* The script puts a layer of its own at the end of its chain.
AddLayer ==
  /\ Len(lua_chain) < MaxScriptChain
  /\ \E first, second \in Halves : lua_chain' = Append(lua_chain, <<first, second>>)

\* hlp.solve gives it a chain of the program's layers.
SolvedChain ==
  \E config \in Configs : lua_chain' = c2lua_chain(<<config>>)

NormalizeChain == lua_chain' = normalize_chain(lua_chain)

ChainsStep == AddLayer \/ SolvedChain \/ NormalizeChain

-----------------------------------------------------------------------------
\* What a layer of the program can express: all but two comparators with both
\* barrels at the side of which one subtracts, or with both at the back of
\* which none does.
Expressible(layer) ==
  IF layer[1].side = layer[2].side /\ layer[1].side
  THEN layer[1].sub = layer[2].sub
  ELSE layer[1].side \/ layer[2].side \/ layer[1].sub \/ layer[2].sub

ChainMeaning(chain) ==
  LET through[i \in 0 .. Len(chain)] ==
        IF i = 0 THEN identity
        ELSE apply_mapping(through[i - 1], Meaning(chain[i]))
  IN  through[Len(chain)]

\* A chain computes what its comparators do, before and after it is
\* normalized, whichever way round a script put the halves of its layers; and
\* a normalized chain is normal.
ChainsKeepTheirMeaning ==
  (\A i \in DOMAIN lua_chain : Expressible(lua_chain[i])) =>
    LET normal == normalize_chain(lua_chain)
    IN  /\ eval_chain(lua_chain, identity) = ChainMeaning(lua_chain)
        /\ eval_chain(normal, identity) = ChainMeaning(lua_chain)
        /\ normalize_chain(normal) = normal

=============================================================================
