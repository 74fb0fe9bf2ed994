------------------------------- MODULE Program -------------------------------
(***************************************************************************)
(* The command line program (main.c) up to its solvers: a subcommand reads *)
(* its goal or draws one.  A solver asked for a goal checks the distance   *)
(* of the maps it tries, here for the goals of LaneInputs. The subcommands *)
(* lua and search-2bin-random are those of LuaScript and DbinSearch.       *)
(***************************************************************************)
EXTENDS HexGoals

CONSTANTS Space, TypedBits, MaxTypedBits,   \* see BitGoals
          RandomN,     \* the number of signal strengths of a random goal
          LaneInputs   \* current values and goals for the distance check

\* The characters of bits are different ones.
ASSUME BitsAssumption ==
  /\ TypedBits \subseteq {0, 1, Wild, Space, Other}
  /\ Wild \notin {0, 1} /\ Space \notin {0, 1, Wild} /\ Other \notin {0, 1, Wild, Space}

ASSUME RandomNAssumption == RandomN \in Nat \ {0}

ASSUME LaneInputsAssumption ==
  LaneInputs \subseteq [0 .. 15 -> (0 .. 15) \X ((0 .. 15) \cup {Wild})]

VARIABLES subcommand,   \* or "solver", for what all of them run in the end
          bits_pc, options, zeros, ones, bit_count, typed,
          phase, want, used, result, kperm, random_map, dest,
          stage, pair, input, lanes

Bits == INSTANCE BitGoals
Draws == INSTANCE RandomGoals WITH N <- RandomN
Solver == INSTANCE DistCheck

bitVars == <<bits_pc, options, zeros, ones, bit_count, typed>>
randomVars == <<phase, want, used, result, kperm, random_map, dest>>
checkVars == <<stage, pair, input, lanes>>
programVars == <<subcommand, hexVars, checkVars, bitVars, randomVars>>

\* Arrays of zeros and ones for the sort alone.
ZerosAndOnes ==
  /\ lanes = <<>>
  /\ \E high \in SUBSET (0 .. 15) :
       Solver!SortInit([i \in 0 .. 15 |-> IF i \in high THEN 1 ELSE 0])

\* main reads the name of the subcommand (parse_opt_global), a random search
\* how many outputs its goals shall have.  A solver's check is started afresh
\* for every map it tries.
ProgramInit ==
  /\ subcommand \in {"hex", "2bin", "search-hlp-random", "solver"}
  /\ HexInit /\ Bits!BitsInit
  /\ Draws!RandomInit
  /\ want # 0 => subcommand = "search-hlp-random"
  /\ IF subcommand = "solver" THEN Solver!CheckInit \/ ZerosAndOnes
     ELSE lanes = <<>> /\ Solver!SortInit([i \in 0 .. 15 |-> 0])

HexCommand ==
  /\ subcommand = "hex" /\ HexStep
  /\ UNCHANGED <<subcommand, checkVars, bitVars, randomVars>>

DbinCommand ==
  /\ subcommand = "2bin" /\ Bits!BitsStep
  /\ UNCHANGED <<subcommand, hexVars, checkVars, randomVars>>

RandomSearch ==
  /\ subcommand = "search-hlp-random"
  /\ Draws!randomize_map \/ Draws!NextTrial
  /\ UNCHANGED <<subcommand, hexVars, checkVars, bitVars>>

Check ==
  /\ subcommand = "solver"
  /\ Solver!bitonic_sort4x16x8_inner /\ UNCHANGED lanes
  /\ UNCHANGED <<subcommand, hexVars, bitVars, randomVars>>

ProgramNext == HexCommand \/ DbinCommand \/ RandomSearch \/ Check

\* The parser runs on by itself; nobody has to type.
Parsing ==
  /\ subcommand = "hex" /\ ParseStep
  /\ UNCHANGED <<subcommand, checkVars, bitVars, randomVars>>

ProgramSpec ==
  /\ ProgramInit /\ [][ProgramNext]_programVars
  /\ WF_programVars(Parsing)

-----------------------------------------------------------------------------
\* See BitGoals: a goal of bits is refused or shown as typed.
BitsAreRead == Bits!BitsAreRead

\* See RandomGoals: a random goal has as many different outputs as asked for.
RandomGoalHasGroup == Draws!RandomGoalHasGroup

\* See BitonicSort: the network sorts, and loses no byte.
ArraysAreSorted == Solver!ArraysAreSorted

\* See DistCheck: comparing sorted neighbours is the check by distance of
\* LegalDist, on which the model of the search relies.
FilterIsLegalDist == Solver!FilterIsLegalDist

=============================================================================
