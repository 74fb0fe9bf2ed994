------------------------------ MODULE MCProgram ------------------------------
(* Three signal strengths for goals that are typed, four for random ones,  *)
(* and all sixteen inputs for the distance check.                          *)
EXTENDS Program

MCTyped == {0, 1, 2, Wild, Bracket, Dash, Other}
MCTableEntries == {nil, -1, 0, 1, 2, 3}
MCTypedBits == {0, 1, Wild, Space, Other}

\* Currents next to each other and far apart, goals that are nearer, farther,
\* the same and wildcards.
Currents == <<0, 1, 3, 15>>
GoalValues == <<0, 1, 4, 15, Wild>>
LanePairs == [k \in 1 .. 20 |->
  <<Currents[((k - 1) \div 5) + 1], GoalValues[((k - 1) % 5) + 1]>>]

\* Four pairs take turns in the inputs.  Which pair is in which input makes no
\* difference to the check.
MCLaneInputs ==
  {[i \in 0 .. 15 |-> LanePairs[l[(i % 4) + 1]]] :
     l \in {l \in [1 .. 4 -> 1 .. 20] : \A k \in 1 .. 3 : l[k] <= l[k + 1]}}

=============================================================================
