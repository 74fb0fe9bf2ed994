-------------------------- MODULE MCHlpOptimality --------------------------
(* Requests for the runs on the length of answers.                         *)
EXTENDS HlpOptimality

Tables == [group \in {GroupOf(r) : r \in Requests} |-> HexTable(group, 1)]
MCTable == Tables

MCSlot(map) == (map[0] + 3 * map[1] + 5 * map[2] + 7 * map[3]) % Cardinality(Slots)

ExactRequest(goal, accuracyOf) ==
  [goal |-> goal, solve_type |-> "exact", accuracy |-> accuracyOf,
   max_depth |-> MaxChain]

\* Every exact goal.
AllExact == {ExactRequest(goal, PERFECT) : goal \in Maps}

\* Every goal that uses all outputs or all but one.
ManyOutputs == {ExactRequest(goal, NORMAL) : goal \in
                  {map \in Maps : get_group(map) >= N - 1}}

\* Fast searches for every goal, with and without wildcards, with a bound
\* beyond the one that is searched.
Fast ==
  {[goal |-> goal, accuracy |-> REDUCED, max_depth |-> MaxChain + 3,
    solve_type |-> IF goal \in Maps THEN "exact" ELSE "partial"] :
     goal \in [Values -> Values \cup {Wild}]}

\* Perfect searches for all exact goals, normal ones for those with many
\* outputs.
ShortestRequests == AllExact \cup ManyOutputs \cup Fast

=============================================================================
