------------------------------ MODULE HexLayers ------------------------------
(***************************************************************************)
(* The layers of hex_layer.c, the second model of a layer in the program:  *)
(* two comparators that are free to subtract and to be swapped, where      *)
(* redstone.c numbers the six combinations the solver searches.  A half is *)
(* 0nsbbbb: swapped (neg), subtracting (sub), barrel; a layer is two.      *)
(***************************************************************************)
EXTENDS Redstone, SequencesExt

HALF_COUNT == 4 * N
HEX_LAYER_COUNT == HALF_COUNT * HALF_COUNT
HexLayers == 0 .. HEX_LAYER_COUNT - 1

Half(layer, half) == IF half = 0 THEN layer % HALF_COUNT ELSE layer \div HALF_COUNT
get_barrel(layer, half) == Half(layer, half) % N
get_sub(layer, half) == (Half(layer, half) \div N) % 2 = 1
get_neg(layer, half) == (Half(layer, half) \div (2 * N)) % 2 = 1

\* A layer with one half changed, and the setters of barrel, sub and neg.
WithHalf(layer, half, new) ==
  IF half = 0 THEN Half(layer, 1) * HALF_COUNT + new
              ELSE new * HALF_COUNT + Half(layer, 0)

HalfOf(barrel, sub, neg) ==
  (barrel % N) + (IF sub THEN N ELSE 0) + (IF neg THEN 2 * N ELSE 0)

with_barrel(layer, half, barrel) ==
  WithHalf(layer, half, HalfOf(barrel, get_sub(layer, half), get_neg(layer, half)))
with_sub(layer, half, sub) ==
  WithHalf(layer, half, HalfOf(get_barrel(layer, half), sub, get_neg(layer, half)))
with_neg(layer, half, neg) ==
  WithHalf(layer, half, HalfOf(get_barrel(layer, half), get_sub(layer, half), neg))

\* hex_layer.of: from layer 0, the parts of both halves one after the other.
layer_of(halves) ==
  FoldLeft(LAMBDA layer, half :
             with_neg(with_sub(with_barrel(layer, half, halves[half + 1].barrel),
                               half, halves[half + 1].sub),
                      half, halves[half + 1].neg),
           0, <<0, 1>>)

\* Mutated form: equal signals do not pass.
StrictComparator(back, side, sub) ==
  IF back <= side THEN 0 ELSE IF sub THEN back - side ELSE back

comparator(back, side, sub) ==
  IF back < side THEN 0 ELSE IF sub THEN back - side ELSE back

comparator_fn(mask) ==
  LET value == mask % N
      sub == (mask \div N) % 2 = 1
      neg == (mask \div (2 * N)) % 2 = 1
  IN  [v \in Values |-> IF neg THEN comparator(value, v, sub)
                               ELSE comparator(v, value, sub)]

hex_layer_output(config) ==
  LET fn_a == comparator_fn(Half(config, 0))
      fn_b == comparator_fn(Half(config, 1))
  IN  [v \in Values |-> Larger(fn_a[v], fn_b[v])]

\* The combinations the variants of the game know; a variant has those of
\* the ones before it too.
ClassicFour(layer) == get_neg(layer, 1) /\ ~ get_neg(layer, 0)
ClassicFive(layer) == /\ get_neg(layer, 1) /\ get_sub(layer, 1)
                      /\ get_neg(layer, 0) /\ ~ get_sub(layer, 0)
ClassicSix(layer) == /\ ~ get_neg(layer, 1) /\ ~ get_sub(layer, 1)
                     /\ ~ get_neg(layer, 0) /\ get_sub(layer, 0)

hex_layer_is_classic(layer, variant) ==
  \/ variant \in 4 .. 6 /\ ClassicFour(layer)
  \/ variant \in 5 .. 6 /\ ClassicFive(layer)
  \/ variant = 6 /\ ClassicSix(layer)

=============================================================================
