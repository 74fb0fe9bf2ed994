---------------------------- MODULE MCDbinSearch ----------------------------
(* Requests for the dual binary solver, with the tables and endings of the *)
(* program.                                                                *)
EXTENDS DbinSearch

GroupsUsed == {get_dbin_exact_group(goal) : goal \in Requests}

Tables == [g \in GroupsUsed |-> HexTable(g, -1)] @@ <<>>
MCTable == Tables
AllEndings == [g \in GroupsUsed |-> EndingsFrom(Tables[g])] @@ <<>>
MCEndings == AllEndings
AllDistances == [g \in GroupsUsed |-> PruneDistances(g)] @@ <<>>
MCPrune == AllDistances

MCSlot(goal) ==
  (Cardinality(goal.zeros) + 3 * Cardinality(goal.ones)
     + MapThenSumSet(LAMBDA c : c * c, goal.ones)) % Cardinality(Slots)

\* Goals for the calls of one process, exact ones as a search through random
\* goals makes them: of different groups, and they meet goals again.
Calls == {ExactGoal(cells) :
            cells \in {{0, 2, 4, 6}, {1, 3, 5, 7}, {0, 1, 3, 7, 8}}}

\* A goal with a wildcard whose search meets goals again.
LongWildcard == [zeros |-> {0, 2, 4, 6, 8, 9}, ones |-> {1, 3, 5}]

NoCalls == {}

\* A bound that one of the calls reaches, so that it gives the prune table
\* back before the next ones.
MCMaxDepth(goal) == IF goal \in Calls THEN 4 ELSE 6

\* Random exact goals, one after the other: one with all four pairs of bits
\* and one with three.
RandomGoals == {ExactGoal(cells) : cells \in {{0, 2, 4, 7}, {0, 2, 5}}}

AllExact == {ExactGoal(cells) : cells \in DbinMaps}

\* Every goal, with wildcards or without.
AllGoals == {goal \in DbinGoals : ~ Contradictory(goal)}

\* Every exact goal, and goals with up to four wildcards in some places.
ManyGoals == Calls \cup AllExact \cup {LongWildcard}
  \cup {[zeros |-> Cells \ (cells \cup {0}), ones |-> cells \ {0}] : cells \in DbinMaps}
  \cup {[zeros |-> Cells \ (cells \cup wild), ones |-> cells \ wild] :
           cells \in DbinMaps, wild \in {{2, 8}, {0, 1, 4, 5}}}

=============================================================================
