---------------------------- MODULE MCHlpSearch ----------------------------
(* The tables that precompute_hex_layers builds, and requests as solve_lua *)
(* and the command line make them, for five signal strengths and one for   *)
(* sixteen.                                                                *)
EXTENDS HlpSearch

\* (TLC evaluates Tables once, but what stands for a constant at every use.)
Tables == [group \in {GroupOf(r) : r \in Requests} |-> HexTable(group, 1)]
MCTable == Tables

\* The position of a map: its packed form as a number, modulo a prime.
MCSlot(map) == (map[0] + 3 * map[1] + 5 * map[2] + 7 * map[3]) % Cardinality(Slots)

GoalOf(s) == [v \in Values |-> s[v + 1]]

RequestFor(s, type, accuracyOf, depth) ==
  [goal |-> GoalOf(s), solve_type |-> type, accuracy |-> accuracyOf, max_depth |-> depth]

\* Goals whose search goes back and forth enough to meet maps again; the
\* presearch answers some of them with a chain longer than needed, so that
\* both searches fill the cache.
LongSearches ==
  {RequestFor(s, "exact", PERFECT, MaxChain) :
     s \in {<<0, 2, 0, 3, 1>>, <<1, 4, 0, 1, 3>>, <<0, 4, 0, 4, 1>>}}
    \cup {RequestFor(s, "exact", NORMAL, MaxChain) :
            s \in {<<3, 0, 4, 2, 4>>, <<1, 0, 2, 4, 1>>, <<4, 0, 2, 0, 2>>}}
    \cup {RequestFor(<<0, 2, Wild, 3, 1>>, "partial", INCREASED, MaxChain)}

\* From the command line: a goal with wildcards is partial, the bound is
\* whatever number was given.  A goal that is 0 where it is determined, the
\* identity, goals of one and of all outputs, bounds below, inside and above
\* the program's, and a constant no single layer computes.
FromCommandLine ==
  {RequestFor(<<1, 1, 1, 1, 1>>, "exact", NORMAL, MaxChain)}
    \cup {RequestFor(<<0, 1, 2, 3, 4>>, "exact", acc, MaxChain) : acc \in {REDUCED, NORMAL}}
    \cup {RequestFor(s, "partial", NORMAL, MaxChain) :
            s \in {<<0, Wild, 0, Wild, 0>>, <<Wild, 2, 2, Wild, 2>>,
                   <<Wild, 1, 3, Wild, 0>>}}
    \cup {RequestFor(<<3, 1, 0, 2, 4>>, "exact", NORMAL, d) :
            d \in {-1, 0, 2, MaxChain + 3}}
    \cup {RequestFor(<<3, 1, 0, 2, 4>>, "exact", REDUCED, MaxChain + 3)}

\* From Lua: the accuracy is passed for the type, and the bound is more than
\* solve() searches.  A constant with a wildcard has two outputs then.
FromLua ==
  {RequestFor(<<4, Wild, 0, Wild, 1>>, "exact", NORMAL, MaxChain + 2),
   RequestFor(<<4, 4, Wild, 4, 4>>, "exact", NORMAL, MaxChain + 2),
   RequestFor(<<4, Wild, 0, Wild, 1>>, "unknown", PERFECT, MaxChain + 2)}

MCRequests == LongSearches \cup FromCommandLine \cup FromLua

-----------------------------------------------------------------------------
(* The search at the program's own size: 16 signal strengths, a goal with  *)
(* 14 outputs, and a chain of three layers that computes it.               *)

FourteenSlot(map) ==
  (map[2] + 3 * map[3] + 5 * map[12] + 7 * map[13]) % Cardinality(Slots)

\* hlpt hex -p 0204456789abcdef
FourteenGoal == [v \in Values |-> IF v \in {0, 2} THEN 0 ELSE IF v = 1 THEN 2
                                  ELSE IF v = 3 THEN 4 ELSE v]

FourteenRequests == {[goal |-> FourteenGoal, solve_type |-> "exact",
                      accuracy |-> PERFECT, max_depth |-> MaxChain]}

\* The layers 0x143, 0x104 and 0x042.
KnownChain == <<Config(1, 4, 3), Config(1, 0, 4), Config(0, 4, 2)>>

ComputesGoal(configs) ==
  test_map(request.goal,
           FoldLeft(apply_mapping, identity,
                    [k \in 1 .. Len(configs) |-> LayerMap(configs[k])]))

\* The README promises that no solution of a perfect search is longer than it
\* has to be, and get_dist_threshold that its threshold for 14 outputs is
\* always sufficient: a known chain for the goal is not beaten by the answer.
NoLongerThanKnown ==
  pc = "done" /\ request.accuracy = PERFECT /\ ComputesGoal(KnownChain) =>
    result <= Len(KnownChain)

=============================================================================
