------------------------------ MODULE HlpSolver ------------------------------
(***************************************************************************)
(* What solve() of hlp_solve.c promises its callers, without how it        *)
(* searches: every call returns, and a length the caller accepts is the    *)
(* length of a chain of layers that computes the goal.                     *)
(***************************************************************************)
EXTENDS Redstone, Sequences

CONSTANTS Requests,   \* the requests of the callers
          Wild,       \* a wildcard in a goal
          none        \* no reply yet

VARIABLES request, reply

vars == <<request, reply>>

\* What a chain of configs computes.
ChainMap(configs) ==
  LET through[k \in 0 .. Len(configs)] ==
        IF k = 0 THEN identity
                 ELSE apply_mapping(through[k - 1], LayerMap(configs[k]))
  IN  through[Len(configs)]

Computes(configs, goal) ==
  /\ \A k \in 1 .. Len(configs) : configs[k] \in Configs
  /\ \A v \in Values : goal[v] # Wild => ChainMap(configs)[v] = goal[v]

\* hlp_print_search takes a length beyond the bound it asked for as a failure,
\* and every other one as that of a chain.
Accepted(r, length) == length <= r.max_depth

\* The chain is in the array the caller handed over.
IsReply(r, rep) ==
  Accepted(r, rep.length) =>
    /\ rep.length <= Len(rep.chain)
    /\ Computes(SubSeq(rep.chain, 1, rep.length), r.goal)

Init == request \in Requests /\ reply = none

Call(r) ==
  /\ reply # none
  /\ request' = r /\ reply' = none

Return ==
  /\ reply = none
  /\ reply' # none /\ IsReply(request, reply')
  /\ UNCHANGED request

Next == Return \/ \E r \in Requests : Call(r)

Spec == Init /\ [][Next]_vars /\ []<>(reply # none)

=============================================================================
