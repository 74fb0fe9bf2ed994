------------------------------- MODULE HexFn -------------------------------
(***************************************************************************)
(* The functions and function sets of hex_fn.c.  A hex_fn maps signal      *)
(* strengths to signal strengths, a hex_set is a set of them (16 bits in   *)
(* the program), and an fn_set allows, for each input, a set of outputs:   *)
(* it stands for all functions whose every output is allowed.              *)
(***************************************************************************)
EXTENDS Redstone

HexSets == SUBSET Values
FnSets == [Values -> HexSets]

clamp_hex(x) == IF x < 0 THEN 0 ELSE IF x > N - 1 THEN N - 1 ELSE x

hex_fn_of_constant(k) == [v \in Values |-> k]

\* First b, then a.
hex_fn_compose(a, b) == [v \in Values |-> a[b[v]]]

fn_set_new_empty == [i \in Values |-> {}]
fn_set_new_full == [i \in Values |-> Values]
fn_set_new_containing(fn) == [i \in Values |-> {fn[i]}]

-----------------------------------------------------------------------------
(* The two ways to cut an fn_set: the outputs of an input, and the inputs  *)
(* of an output.                                                           *)

\* Mutated form: the bits above the output's are not cut off.
GetOiUncut(set, output) == {i \in Values : \E o \in set[i] : o >= output}

fn_set_get_oi(set, output) == {i \in Values : output \in set[i]}

fn_set_with_bit(set, input, output, value) ==
  [set EXCEPT ![input] = IF value THEN @ \cup {output} ELSE @ \ {output}]

fn_set_with_io(set, input, slice) == [set EXCEPT ![input] = slice]

fn_set_with_oi(set, output, slice) ==
  [i \in Values |-> IF i \in slice THEN set[i] \cup {output}
                                   ELSE set[i] \ {output}]

fn_set_inverse(set) == [i \in Values |-> fn_set_get_oi(set, i)]

fn_set_out_set(set) == UNION {set[i] : i \in Values}

-----------------------------------------------------------------------------
fn_set_is_super(super, sub) == \A i \in Values : sub[i] \ super[i] = {}

\* Some function is allowed.
fn_set_sat(set) == \A i \in Values : set[i] # {}

fn_set_contains_fn(set, fn) ==
  fn_set_sat([i \in Values |-> set[i] \cap fn_set_new_containing(fn)[i]])

-----------------------------------------------------------------------------
(* A function in front of (pre) or behind (post) all functions of a set,   *)
(* and the sets that are left when one is taken away again.                *)
fn_set_pre_mul_fn(set, fn) == [i \in Values |-> set[fn[i]]]

\* Mutated form: what any input with that value allows, not what all do.
PreDivAny(set, fn) ==
  [v \in Values |-> UNION {set[i] : i \in {j \in Values : fn[j] = v}}]

fn_set_pre_div_fn(set, fn) ==
  [v \in Values |-> {o \in Values : \A i \in Values : fn[i] = v => o \in set[i]}]

fn_set_post_mul_fn(set, fn) == [i \in Values |-> {fn[o] : o \in set[i]}]

fn_set_post_div_fn(set, fn) ==
  [i \in Values |-> {o \in Values : fn[o] \in set[i]}]

=============================================================================
