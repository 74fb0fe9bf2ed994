------------------------------- MODULE AaTree -------------------------------
(***************************************************************************)
(* The balanced tree of aa_tree.c.  A tree is NULL or a node with a level, *)
(* data and two subtrees; the rotations are written as the program's       *)
(* assignments to the nodes of a path.                                     *)
(***************************************************************************)
EXTENDS Integers, Sequences

CONSTANTS Below(_, _),   \* comp answers -1
          NULL           \* the empty tree, and the answer "not found"

Node(level, left, data, right) ==
  [level |-> level, left |-> left, data |-> data, right |-> right]

\* A left child of the same level comes up.
skew(t) ==
  IF t = NULL THEN t
  ELSE IF t.left # NULL /\ t.left.level = t.level
       THEN Node(t.left.level, t.left.left, t.left.data,
                 [t EXCEPT !.left = t.left.right])
       ELSE t

\* Mutated form: the level stays.
SplitOnOneLevel(t) ==
  IF t = NULL THEN t
  ELSE IF t.right # NULL /\ t.right.right # NULL /\ t.level = t.right.right.level
       THEN Node(t.right.level, [t EXCEPT !.right = t.right.left],
                 t.right.data, t.right.right)
       ELSE t

\* The middle one of three in a row comes up, to the next level.
split(t) ==
  IF t = NULL THEN t
  ELSE IF t.right # NULL /\ t.right.right # NULL /\ t.level = t.right.right.level
       THEN Node(t.right.level + 1, [t EXCEPT !.right = t.right.left],
                 t.right.data, t.right.right)
       ELSE t

\* A leaf for the data, and the path to it balanced on the way back.  (Data
\* that is there already ends aa_add before anything is changed.  The sets
\* make TLC evaluate each step once.)
RECURSIVE insert(_, _)
insert(t, data) ==
  IF t = NULL THEN Node(1, NULL, data, NULL)
  ELSE CHOOSE balanced \in {split(skewed) : skewed \in {skew(grown) : grown \in
                {IF Below(data, t.data) THEN [t EXCEPT !.left = insert(t.left, data)]
                 ELSE [t EXCEPT !.right = insert(t.right, data)]}}} : TRUE

RECURSIVE find(_, _)
find(t, data) ==
  IF t = NULL THEN NULL
  ELSE IF Below(data, t.data) THEN find(t.left, data)
  ELSE IF Below(t.data, data) THEN find(t.right, data)
  ELSE t.data

aa_add(t, data) == IF find(t, data) # NULL THEN t ELSE insert(t, data)

\* In order.
RECURSIVE to_array(_)
to_array(t) ==
  IF t = NULL THEN <<>> ELSE to_array(t.left) \o <<t.data>> \o to_array(t.right)

-----------------------------------------------------------------------------
LevelOf(t) == IF t = NULL THEN 0 ELSE t.level

\* The rules of AA trees: a left child is one level below its parent, a right
\* one on its level or one below, and a right grandchild is below.
RECURSIVE Balanced(_)
Balanced(t) ==
  t = NULL \/
    /\ LevelOf(t.left) = t.level - 1
    /\ LevelOf(t.right) \in {t.level - 1, t.level}
    /\ t.right # NULL => LevelOf(t.right.right) < t.level
    /\ Balanced(t.left) /\ Balanced(t.right)

RECURSIVE Height(_)
Height(t) ==
  IF t = NULL THEN 0
  ELSE LET left == Height(t.left)
           right == Height(t.right)
       IN  1 + (IF left >= right THEN left ELSE right)

=============================================================================
