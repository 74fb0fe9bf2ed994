------------------------------ MODULE LuaScript ------------------------------
(***************************************************************************)
(* A Lua script as lua_command.c runs it, after main() has made the table  *)
(* of layers.  Like the functions of test.lua, it works with function      *)
(* sets, with sets of signal strengths, with layers or with chains; they   *)
(* share nothing but the process.                                          *)
(***************************************************************************)
EXTENDS LuaLayers, LuaSets, LuaHexSets, LuaChains

VARIABLE part   \* "sets", "hex sets", "layers" or "chains"

vars == <<part, setVars, hex_set, layerVars, lua_chain>>

Init == /\ part \in {"sets", "hex sets", "layers", "chains"}
        /\ SetsInit /\ HexSetsInit /\ LayersInit /\ ChainsInit

Load == LoadLayer /\ UNCHANGED <<part, setVars, hex_set, lua_chain>>

SetsPart == /\ Loaded /\ part = "sets"
            /\ SetsStep
            /\ UNCHANGED <<part, hex_set, layerVars, lua_chain>>

HexSetsPart == /\ Loaded /\ part = "hex sets"
               /\ HexSetsStep
               /\ UNCHANGED <<part, setVars, layerVars, lua_chain>>

ChainsPart == /\ Loaded /\ part = "chains"
              /\ ChainsStep
              /\ UNCHANGED <<part, setVars, hex_set, layerVars>>

RunPart == part = "layers" /\ RunStep /\ UNCHANGED <<part, setVars, hex_set, lua_chain>>
AnswerPart == part = "layers" /\ Answer /\ UNCHANGED <<part, setVars, hex_set, lua_chain>>
LayersPart == part = "layers" /\ LayersStep /\ UNCHANGED <<part, setVars, hex_set, lua_chain>>

Next == Load \/ SetsPart \/ HexSetsPart \/ LayersPart \/ ChainsPart

\* The program goes on until it returns to the script, and a filter does not
\* call iterators for ever before it answers.  What else the script calls, and
\* whether it calls, is its affair.
Spec == /\ Init /\ [][Next]_vars
        /\ WF_vars(Load) /\ WF_vars(RunPart) /\ SF_vars(AnswerPart)

TypeOK == /\ SetsTypeOK /\ LayersTypeOK
          /\ hex_set \subseteq Bits
          /\ lua_chain \in Seq(Halves \X Halves)

=============================================================================
