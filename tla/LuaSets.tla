------------------------------ MODULE LuaSets ------------------------------
(***************************************************************************)
(* What a Lua script does with a hex_fn and an fn_set (lua_hex_fn.c and    *)
(* lua_fn_set.c).  Some methods change the object they are called on, the  *)
(* others push a new one, which the script keeps in place of the old one.  *)
(***************************************************************************)
EXTENDS HexFn

VARIABLES
  fn,    \* the script's function
  set    \* its function set

setVars == <<fn, set>>

SetsInit == fn = identity /\ set = fn_set_new_empty

-----------------------------------------------------------------------------
(* Functions.  Arguments are clamped.                                      *)
Constant == \E k \in Values : fn' = hex_fn_of_constant(k) /\ UNCHANGED set

SetOutput ==
  \E i, j \in -1 .. N :
    fn' = [fn EXCEPT ![clamp_hex(i)] = clamp_hex(j)] /\ UNCHANGED set

\* fn:compose(other) and fn:and_then(other).
Compose ==
  \E other \in {hex_fn_of_constant(0)} \cup {[identity EXCEPT ![i] = j] : i, j \in Values} :
    /\ fn' \in {hex_fn_compose(fn, other), hex_fn_compose(other, fn)}
    /\ UNCHANGED set

-----------------------------------------------------------------------------
(* Function sets.                                                          *)
NewSet ==
  /\ set' \in {fn_set_new_empty, fn_set_new_full, fn_set_new_containing(identity),
               fn_set_new_containing(fn)}
  /\ UNCHANGED fn

SetBit ==
  \E i, o \in Values, value \in BOOLEAN :
    set' = fn_set_with_bit(set, i, o, value) /\ UNCHANGED fn

SetIo == \E i \in Values, slice \in HexSets :
           set' = fn_set_with_io(set, i, slice) /\ UNCHANGED fn

SetOi == \E o \in Values, slice \in HexSets :
           set' = fn_set_with_oi(set, o, slice) /\ UNCHANGED fn

Multiply ==
  set' \in {fn_set_pre_mul_fn(set, fn), fn_set_post_mul_fn(set, fn)} /\ UNCHANGED fn

Divide ==
  set' \in {fn_set_pre_div_fn(set, fn), fn_set_post_div_fn(set, fn)} /\ UNCHANGED fn

Invert == set' = fn_set_inverse(set) /\ UNCHANGED fn

SetsStep == Constant \/ SetOutput \/ Compose \/ NewSet \/ SetBit \/ SetIo \/ SetOi
              \/ Multiply \/ Divide \/ Invert

-----------------------------------------------------------------------------
SetsTypeOK == fn \in Maps /\ set \in FnSets

\* Dividing a set by a function leaves exactly the functions that, with the
\* divisor put back in front of or behind them, are in the set.  So multiplying
\* what a division left stays inside the set, and dividing what a
\* multiplication made loses nothing of it.
DivisionIsExact ==
  /\ \A g \in Maps :
       /\ fn_set_contains_fn(fn_set_pre_div_fn(set, fn), g)
            <=> fn_set_contains_fn(set, hex_fn_compose(g, fn))
       /\ fn_set_contains_fn(fn_set_post_div_fn(set, fn), g)
            <=> fn_set_contains_fn(set, hex_fn_compose(fn, g))
  /\ fn_set_is_super(set, fn_set_pre_mul_fn(fn_set_pre_div_fn(set, fn), fn))
  /\ fn_set_is_super(fn_set_pre_div_fn(fn_set_pre_mul_fn(set, fn), fn), set)
  /\ fn_set_is_super(set, fn_set_post_mul_fn(fn_set_post_div_fn(set, fn), fn))
  /\ fn_set_is_super(fn_set_post_div_fn(fn_set_post_mul_fn(set, fn), fn), set)

\* Inverting exchanges the two sides: a function put in front of a set is one
\* taken away behind its inverse, and the inputs of an output are the row of
\* the inverse, to read and to write.
InverseSwapsSides ==
  /\ fn_set_inverse(fn_set_inverse(set)) = set
  /\ fn_set_inverse(fn_set_pre_mul_fn(set, fn)) =
       fn_set_post_div_fn(fn_set_inverse(set), fn)
  /\ \A o \in Values, slice \in HexSets :
       fn_set_inverse(fn_set_with_oi(set, o, slice)) =
         fn_set_with_io(fn_set_inverse(set), o, slice)

=============================================================================
