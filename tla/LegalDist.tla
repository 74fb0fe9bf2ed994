------------------------------ MODULE LegalDist ------------------------------
(***************************************************************************)
(* Goals of the hex solver and its pruning by distance.  A goal gives each *)
(* input the output it must have or Wild; a wildcard is the range mins = 0, *)
(* maxs = 15.                                                              *)
(***************************************************************************)
EXTENDS Redstone, FiniteSetsExt

CONSTANT Wild   \* a wildcard in a goal

Goals == [Values -> Values \cup {Wild}]
Determined(goal) == {v \in DOMAIN goal : goal[v] # Wild}

\* Of two inputs that the current map sends to the same value the goals must
\* agree.  Of two that are next to each other among the current values, goals
\* further apart than the current values need a layer that separates them, and
\* a layer is trusted to separate only so many.
Distance(i, j) == IF i <= j THEN j - i ELSE i - j

Separations(goal, map) ==
  LET inputs == Determined(goal)
      current == {map[v] : v \in inputs}
      final(c) == goal[CHOOSE v \in inputs : map[v] = c]
      next(c) == Min({d \in current : d > c})
  IN  {c \in current :
         c # Max(current) /\ Distance(final(c), final(next(c))) > Distance(c, next(c))}

legal_dist(goal, map, threshold) ==
  /\ \A v, w \in Determined(goal) : map[v] = map[w] => goal[v] = goal[w]
  /\ Cardinality(Separations(goal, map)) <= threshold

=============================================================================
