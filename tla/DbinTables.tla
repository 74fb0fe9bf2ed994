----------------------------- MODULE DbinTables -----------------------------
(***************************************************************************)
(* What dbin_solve prepares before it searches, call after call: first the *)
(* endings for the group of the goal, then the prune table.                *)
(***************************************************************************)
EXTENDS PrecomputeEndings

VARIABLES preparing,   \* "nothing", "endings" or "prune table"
          goal_group,  \* of the goal of the call
          \* those of get_prune_table
          prune_pc, prune_group, pretable, search_distance, mask_i,
          next_layer_i, found, prune_table, pregened_prune_table, returned

pruneVars == <<prune_pc, prune_group, pretable, search_distance, mask_i,
               next_layer_i, found, prune_table, pregened_prune_table, returned>>
allVars == <<endingsVars, preparing, goal_group, pruneVars>>

Prune == INSTANCE PruneTable WITH pc <- prune_pc, for_group <- prune_group

Start(g) ==
  /\ preparing = "nothing"
  /\ preparing' = "endings" /\ goal_group' = g
  /\ UNCHANGED <<endingsVars, pruneVars>>

\* A step of precompute_dbin_layers; its last one returns.
EndingsStep ==
  /\ preparing = "endings"
  /\ \/ CallKnownEndings(goal_group) \/ CallNewEndings(goal_group)
     \/ EndingsLoop
  /\ preparing' = IF endings_pc' = "idle" THEN "prune table" ELSE "endings"
  /\ UNCHANGED <<goal_group, pruneVars>>

\* A step of get_prune_table; its last one returns.
PruneStep ==
  /\ preparing = "prune table"
  /\ \/ Prune!CallKnown(goal_group) \/ Prune!CallNew(goal_group)
     \/ Prune!Loop
  /\ preparing' = IF prune_pc' = "idle" THEN "nothing" ELSE "prune table"
  /\ UNCHANGED <<goal_group, endingsVars>>

DbinInit ==
  /\ EndingsInit /\ Prune!Init
  /\ preparing = "nothing" /\ goal_group = 1

DbinNext == (\E g \in DbinGroups : Start(g)) \/ EndingsStep \/ PruneStep

-----------------------------------------------------------------------------
\* See PruneTable.
EntriesAreBest == Prune!EntriesAreBest
PruneLosesNothing == Prune!PruneLosesNothing

=============================================================================
