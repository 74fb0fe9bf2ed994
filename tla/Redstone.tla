------------------------------ MODULE Redstone ------------------------------
(***************************************************************************)
(* The comparator layers of redstone.c and the maps they compute.  A map   *)
(* is a function from signal strengths to signal strengths, the value the  *)
(* program packs into 64 bits, one nibble per input.  N is the number of   *)
(* signal strengths: 16 in the program, less in the small instances.       *)
(***************************************************************************)
EXTENDS Integers, FiniteSets

CONSTANT N

ASSUME NAssumption == N \in Nat /\ N >= 2

Values == 0 .. N - 1
Maps == [Values -> Values]

identity == [v \in Values |-> v]
zero_map == [v \in Values |-> 0]

\* A config is the number 0x0mab of redstone.h: mode, first and second
\* barrel.
Modes == 0 .. 5
HEX_CONFIG_COUNT == 6 * N * N
Configs == 0 .. HEX_CONFIG_COUNT - 1
Config(mode, a, b) == (mode * N + a) * N + b

\* One comparator, in subtract or in compare mode, with a side input.
Comparator(back, side, subtract) ==
  IF side > back THEN 0 ELSE back - (IF subtract THEN side ELSE 0)

Larger(x, y) == IF x >= y THEN x ELSE y

\* hex_layer128 adds one to a rotated mode, so that its three bits become
\* independent: bit 2 swaps back and side of the first comparator, bit 1
\* and bit 0 make the first and the second one subtract.
ModeBits(mode) == IF mode >= 4 THEN mode + 1 ELSE mode

hex_layer(start, config) ==
  LET bits == ModeBits(config \div (N * N))
      a == (config \div N) % N
      b == config % N
      mode1 == (bits \div 2) % 2 = 1
      mode2 == bits % 2 = 1
      output1 == IF bits >= 4 THEN Comparator(a, start, mode1)
                              ELSE Comparator(start, a, mode1)
  IN  Larger(output1, Comparator(b, start, mode2))

LayerMap(config) == [v \in Values |-> hex_layer(v, config)]

\* Running "second" on the outputs of "first".
apply_mapping(first, second) == [v \in Values |-> second[first[v]]]

Image(map) == {map[v] : v \in Values}

\* The number of distinct outputs.  A layer never adds outputs, so no layer
\* of a chain has fewer outputs than the function the chain computes.
get_group(map) == Cardinality(Image(map))

=============================================================================
