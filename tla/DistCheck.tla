------------------------------ MODULE DistCheck ------------------------------
(***************************************************************************)
(* The distance check as batch_apply_and_check_exact of hlp_solve.c makes  *)
(* it: every input gives a byte of its current value and its goal, the     *)
(* bytes are sorted, and neighbours are compared.  A wildcard's byte is    *)
(* 255, sorts to the end, and is covered by a copy of the last other byte. *)
(***************************************************************************)
EXTENDS BitonicSort

CONSTANTS Wild,       \* a wildcard in a goal
          LaneInputs  \* what may be checked: a current value and a goal per input

VARIABLE lanes   \* the one of them that is, of sixteen inputs

LD == INSTANCE LegalDist WITH N <- 16

Current(l) == [i \in Lanes16 |-> l[i][1]]
Goal(l) == [i \in Lanes16 |-> l[i][2]]

\* doubled_goal: the goal, with all bits set for a wildcard.
GoalByte(current, goal) == IF goal = Wild THEN 255 ELSE current * 16 + goal

CheckInit ==
  /\ lanes \in LaneInputs
  /\ SortInit([i \in Lanes16 |-> GoalByte(Current(lanes)[i], Goal(lanes)[i])])

dont_care_count == Cardinality({i \in Lanes16 : Goal(lanes)[i] = Wild})

\* Mutated form: one wildcard is left at the end.
PermOneShort(i) == IF i > 16 - dont_care_count THEN 16 - dont_care_count ELSE i

\* dont_care_post_sort_perm.  Without any goal it is -1, for which the shuffle
\* gives 0.
dont_care_post_sort_perm(i) == IF i > 15 - dont_care_count THEN 15 - dont_care_count ELSE i

sorted_byte(i) ==
  IF dont_care_post_sort_perm(i) < 0 THEN 0
  ELSE packed_array[dont_care_post_sort_perm(i)]

get_legal_dist_check_mask_partial(threshold) ==
  LET final == [i \in Lanes16 |-> sorted_byte(i) % 16]
      current == [i \in Lanes16 |-> sorted_byte(i) \div 16]
      final_delta(i) == LD!Distance(final[i + 1], final[i])
      current_delta(i) == LD!Distance(current[i + 1], current[i])
  IN  /\ \A i \in 0 .. 14 : current_delta(i) = 0 => final_delta(i) = 0
      /\ Cardinality({i \in 0 .. 14 : final_delta(i) > current_delta(i)}) <= threshold

-----------------------------------------------------------------------------
\* Comparing neighbours among the sorted bytes is the check by distance: no two
\* inputs with one value and two goals get by, separations are counted once
\* however many inputs share a value, and wildcards count for nothing.
FilterIsLegalDist ==
  stage = 0 /\ lanes # <<>> =>
    \A threshold \in 0 .. 4 :
      get_legal_dist_check_mask_partial(threshold)
        <=> LD!legal_dist(Goal(lanes), Current(lanes), threshold)

=============================================================================
