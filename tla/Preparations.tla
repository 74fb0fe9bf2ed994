---------------------------- MODULE Preparations ----------------------------
(***************************************************************************)
(* What a process prepares before its searches, call after call: the hex   *)
(* solver tables of layers, the dual binary solver endings and prune       *)
(* tables.  A subcommand uses one of the solvers, a search through random  *)
(* goals or a script many times.                                           *)
(***************************************************************************)
EXTENDS PrecomputeLayers, DbinTables

\* The tables the dual binary solver's preparations get, by group.  (TLC
\* evaluates HexTablesByGroup once.)
HexTablesByGroup == [g \in 1 .. N |-> HexTable(g, -1)]
PreparedHexLayers == HexTablesByGroup

VARIABLE solver   \* the one the subcommand uses, "hex" or "2bin"

HexStep == solver = "hex" /\ Next /\ UNCHANGED <<solver, allVars>>

DbinStep == solver = "2bin" /\ DbinNext /\ UNCHANGED <<solver, vars>>

PreparationsInit ==
  /\ solver \in {"hex", "2bin"}
  /\ Init /\ DbinInit

\* Preparations run on by themselves; nobody has to start another one.
Running == \/ solver = "hex" /\ pc # "idle"
           \/ solver = "2bin" /\ preparing # "nothing"

PreparationsSpec ==
  /\ PreparationsInit
  /\ [][HexStep \/ DbinStep]_<<solver, vars, allVars>>
  /\ WF_<<solver, vars, allVars>>(Running /\ (HexStep \/ DbinStep))

-----------------------------------------------------------------------------
\* Every preparation ends, whichever table it is for and whichever was built
\* before.
PreparationsEnd == Running ~> ~ Running

=============================================================================
