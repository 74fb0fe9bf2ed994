--------------------------- MODULE RedstoneProofs ---------------------------
(***************************************************************************)
(* Facts about layers and maps for every number of signal strengths.       *)
(***************************************************************************)
EXTENDS Redstone, FiniteSetTheorems, WellFoundedInduction, TLAPS

\* A comparator outputs at most its larger input.
LEMMA ComparatorType ==
  ASSUME NEW back \in Values, NEW side \in Values, NEW subtract \in BOOLEAN
  PROVE  Comparator(back, side, subtract) \in Values
BY NAssumption DEF Comparator, Values

\* Barrels hold a signal strength.
LEMMA BarrelType ==
  ASSUME NEW n \in Int
  PROVE  n % N \in Values
<1>1. N \in Int /\ N > 0
  BY NAssumption
<1> QED
  BY <1>1 DEF Values

LEMMA LayerMapType ==
  ASSUME NEW config \in Configs
  PROVE  LayerMap(config) \in Maps
<1>1. config \in Int /\ N \in Int /\ N > 0
  BY NAssumption DEF Configs, HEX_CONFIG_COUNT
<1>2. config \div N \in Int
  BY <1>1
<1>3. (config \div N) % N \in Values /\ config % N \in Values
  BY <1>1, <1>2, BarrelType
<1>4. SUFFICES ASSUME NEW v \in Values PROVE hex_layer(v, config) \in Values
  BY DEF LayerMap, Maps
<1>5. \A back, side \in Values : \A subtract \in BOOLEAN :
         Comparator(back, side, subtract) \in Values
  BY ComparatorType
<1>6. \A x, y \in Values : Larger(x, y) \in Values
  BY DEF Larger
<1> QED
  BY <1>3, <1>5, <1>6 DEF hex_layer

LEMMA ApplyType ==
  ASSUME NEW first \in Maps, NEW second \in Maps
  PROVE  apply_mapping(first, second) \in Maps
BY DEF apply_mapping, Maps

LEMMA IdentityType == identity \in Maps /\ zero_map \in Maps
<1>1. 0 \in Values
  BY NAssumption DEF Values
<1> QED
  BY <1>1 DEF identity, zero_map, Maps

\* Quotient and remainder of a number written with both.
LEMMA Division ==
  ASSUME NEW b \in Nat \ {0}, NEW q \in Nat, NEW r \in 0 .. b - 1
  PROVE  (q * b + r) \div b = q /\ (q * b + r) % b = r
<1> DEFINE x == q * b + r
<1> DEFINE d == x \div b
<1>1. x \in Int /\ d \in Int /\ q * b \in Int
  OBVIOUS
<1>2. d * b <= x /\ x < (d + 1) * b
  OBVIOUS
<1>3. (d + 1) * b = d * b + b /\ (q + 1) * b = q * b + b
  BY <1>1
<1>4. ~ (d >= q + 1)
  <2> SUFFICES ASSUME d >= q + 1 PROVE FALSE
    OBVIOUS
  <2>1. d * b >= (q + 1) * b
    BY <1>1
  <2> QED
    BY <1>1, <1>2, <1>3, <2>1
<1>5. ~ (q >= d + 1)
  <2> SUFFICES ASSUME q >= d + 1 PROVE FALSE
    OBVIOUS
  <2>1. q * b >= (d + 1) * b
    BY <1>1
  <2> QED
    BY <1>1, <1>2, <1>3, <2>1
<1>6. d = q
  BY <1>1, <1>4, <1>5
<1>7. x % b = x - d * b
  BY <1>1
<1> QED
  BY <1>1, <1>6, <1>7

\* The layer 0x2f0 of the shortcut outputs nothing but 0.
LEMMA ZeroLayer ==
  /\ Config(2, N - 1, 0) \in Configs
  /\ LayerMap(Config(2, N - 1, 0)) = zero_map
<1> DEFINE config == Config(2, N - 1, 0)
<1>1. N \in Nat /\ N >= 2 /\ N * N \in Nat
  BY NAssumption
<1>2. N * N >= N /\ N * N > 0
  BY <1>1
<1>3. config = 2 * (N * N) + (N * N - N)
  BY <1>1 DEF Config
<1>4. config = (3 * N - 1) * N + 0
  BY <1>1 DEF Config
<1>5. config \div (N * N) = 2
  <2>1. N * N - N \in 0 .. N * N - 1
    BY <1>1, <1>2
  <2> HIDE DEF config
  <2> QED
    BY <1>1, <1>2, <1>3, <2>1, Division
<1>6. config \div N = 3 * N - 1 /\ config % N = 0
  <2> HIDE DEF config
  <2> QED
    BY <1>1, <1>4, Division
<1>7. (3 * N - 1) % N = N - 1
  <2>1. 3 * N - 1 = 2 * N + (N - 1)
    BY <1>1
  <2> QED
    BY <1>1, <2>1, Division
<1>8. config \in Configs
  <2>1. config >= 0 /\ config <= 6 * N * N - 1
    BY <1>1, <1>2, <1>3
  <2> QED
    BY <1>1, <1>3, <2>1 DEF Configs, HEX_CONFIG_COUNT
<1>9. ASSUME NEW v \in Values PROVE hex_layer(v, config) = 0
  <2>1. ModeBits(2) = 2
    BY DEF ModeBits
  <2>2. v \in Int /\ 0 <= v /\ v <= N - 1
    BY <1>1 DEF Values
  <2>3. Comparator(v, N - 1, TRUE) = 0 /\ Comparator(0, v, FALSE) = 0
    BY <1>1, <2>2 DEF Comparator
  <2>4. (2 \div 2) % 2 = 1 /\ 2 % 2 # 1 /\ ~ 2 >= 4
    OBVIOUS
  <2>5. Larger(0, 0) = 0
    BY DEF Larger
  <2> HIDE DEF config
  <2>6. ModeBits(config \div (N * N)) = 2
    BY <1>5, <2>1
  <2>7. (config \div N) % N = N - 1 /\ config % N = 0
    BY <1>6, <1>7
  <2>8. ((2 \div 2) % 2 = 1) = TRUE /\ (2 % 2 = 1) = FALSE /\ (2 >= 4) = FALSE
    BY <2>4
  <2>9. hex_layer(v, config) =
          Larger(Comparator(v, N - 1, TRUE), Comparator(0, v, FALSE))
    BY <2>6, <2>7, <2>8, Zenon DEF hex_layer
  <2> QED
    BY <2>3, <2>5, <2>9
<1> QED
  BY <1>8, <1>9 DEF LayerMap, zero_map

-----------------------------------------------------------------------------
(* Outputs.                                                                *)

LEMMA ValuesAreFinite == IsFiniteSet(Values) /\ Cardinality(Values) = N
<1>1. 0 \in Int /\ N - 1 \in Int /\ N - 1 >= 0
  BY NAssumption
<1>2. IsFiniteSet(0 .. N - 1) /\ Cardinality(0 .. N - 1) = (N - 1) - 0 + 1
  BY <1>1, FS_Interval
<1> QED
  BY <1>1, <1>2, NAssumption DEF Values

LEMMA ImageIsFinite ==
  ASSUME NEW map \in Maps
  PROVE  IsFiniteSet(Image(map))
<1>1. Image(map) \subseteq Values
  BY DEF Image, Maps
<1> QED
  BY <1>1, ValuesAreFinite, FS_Subset

\* A composition has no more outputs than either of its parts.  This is why
\* precompute_hex_layers may drop every layer, and every pair of layers, with
\* fewer outputs than the goal: no chain for the goal contains one.
THEOREM CompositionAddsNoOutputs ==
  ASSUME NEW first \in Maps, NEW second \in Maps
  PROVE  /\ get_group(apply_mapping(first, second)) <= get_group(first)
         /\ get_group(apply_mapping(first, second)) <= get_group(second)
<1> DEFINE both == apply_mapping(first, second)
<1>1. both \in Maps
  BY ApplyType
<1>2. Image(both) \subseteq Image(second)
  BY DEF Image, Maps, apply_mapping
<1>3. get_group(both) <= get_group(second)
  BY <1>2, ImageIsFinite, FS_Subset DEF get_group
<1>4. Image(both) = {second[x] : x \in Image(first)}
  BY DEF Image, Maps, apply_mapping
<1>5. Cardinality({second[x] : x \in Image(first)}) <= Cardinality(Image(first))
  <2> DEFINE S == Image(first)
             T == {second[x] : x \in S}
             f == [x \in S |-> second[x]]
  <2>1. IsFiniteSet(S)
    BY ImageIsFinite
  <2>2. f \in Surjection(S, T)
    BY DEF Surjection
  <2> QED
    BY <2>1, <2>2, FS_Surjection
<1> QED
  BY <1>3, <1>4, <1>5 DEF get_group

-----------------------------------------------------------------------------
(* Induction.  The induction theorems of the library take a predicate,     *)
(* which no prover here can instantiate; its theorem on minima takes a set.*)

\* A set of numbers that is not empty has a least member.
LEMMA LeastMember ==
  ASSUME NEW T \in SUBSET Nat, T # {}
  PROVE  \E m \in T : \A k \in T : m <= k
<1> DEFINE below == {pair \in Nat \X Nat : pair[1] < pair[2]}
<1>1. OpToRel(<, Nat) = below
  BY DEF OpToRel
<1>2. PICK m \in T : \A y \in T : <<y, m>> \notin OpToRel(<, Nat)
  BY NatLessThanWellFounded, WFMin, Zenon
<1> HIDE DEF below
<1>3. \A y \in T : <<y, m>> \notin below
  BY <1>1, <1>2, Zenon
<1>4. ASSUME NEW y \in T PROVE m <= y
  <2> DEFINE pair == <<y, m>>
  <2>1. pair \in Nat \X Nat /\ pair[1] = y /\ pair[2] = m
    OBVIOUS
  <2>2. pair \notin below
    BY <1>3
  <2> HIDE DEF pair
  <2>3. ~ (pair[1] < pair[2])
    BY <2>1, <2>2, Zenon DEF below
  <2> QED
    BY <2>1, <2>3
<1> QED
  BY <1>4

\* A set that 0 is in, and with each number up to k the next, has them all.
LEMMA InductionTo ==
  ASSUME NEW k \in Nat, NEW T, 0 \in T, \A n \in 1 .. k : n - 1 \in T => n \in T
  PROVE  0 .. k \subseteq T
<1> DEFINE Missing == (0 .. k) \ T
<1>1. SUFFICES ASSUME Missing # {} PROVE FALSE
  OBVIOUS
<1>2. PICK n \in Missing : \A m \in Missing : n <= m
  <2>1. Missing \in SUBSET Nat
    OBVIOUS
  <2> HIDE DEF Missing
  <2> QED
    BY <1>1, <2>1, LeastMember
<1>3. n \in 1 .. k /\ n - 1 \in 0 .. k /\ ~ (n <= n - 1)
  OBVIOUS
<1> QED
  BY <1>2, <1>3

\* Steps that stay in a set, and what they lead to from a first member.
StaysIn(step, k, S) == \A i \in 1 .. k : \A s \in S : step[i][s] \in S

Follows(f, base, step, k, S) ==
  f \in [0 .. k -> S] /\ f[0] = base /\ \A i \in 1 .. k : f[i] = step[i][f[i - 1]]

\* What begins somewhere and goes on step by step is there: a recursive
\* function over an interval is what it is defined as.
LEMMA StepsExist ==
  ASSUME NEW k \in Nat, NEW S, NEW base \in S, NEW step, StaysIn(step, k, S)
  PROVE  \E f : Follows(f, base, step, k, S)
<1> DEFINE Reached == {n \in 0 .. k : \E f : Follows(f, base, step, n, S)}
<1>1. 0 \in Reached
  <2>1. Follows([i \in 0 .. 0 |-> base], base, step, 0, S)
    BY DEF Follows
  <2> QED
    BY <2>1
<1>2. ASSUME NEW n \in 1 .. k, n - 1 \in Reached
      PROVE  n \in Reached
  <2>1. PICK f : Follows(f, base, step, n - 1, S)
    BY <1>2
  <2> DEFINE next == step[n][f[n - 1]]
             g == [i \in 0 .. n |-> IF i = n THEN next ELSE f[i]]
  <2>2. next \in S /\ f \in [0 .. n - 1 -> S]
    BY <2>1 DEF Follows, StaysIn
  <2> HIDE DEF next
  <2>3. g \in [0 .. n -> S]
    BY <2>2
  <2>4. g[0] = base
    BY <2>1 DEF Follows
  <2>5. ASSUME NEW i \in 1 .. n PROVE g[i] = step[i][g[i - 1]]
    <3>1. CASE i = n
      BY <3>1, <2>1 DEF next
    <3>2. CASE i # n
      BY <3>2, <2>1 DEF Follows
    <3> QED
      BY <3>1, <3>2
  <2>6. Follows(g, base, step, n, S)
    BY <2>3, <2>4, <2>5 DEF Follows
  <2> HIDE DEF g
  <2> QED
    BY <2>6
<1>3. k \in Reached
  <2>1. k \in 0 .. k
    OBVIOUS
  <2> HIDE DEF Reached
  <2> QED
    BY <1>1, <1>2, <2>1, InductionTo
<1> QED
  BY <1>3

\* Counts have running totals.
LEMMA RunningTotals ==
  ASSUME NEW k \in Nat, NEW count \in [1 .. k -> Nat]
  PROVE  \E f \in [0 .. k -> Nat] :
           f[0] = 0 /\ \A i \in 1 .. k : f[i] = f[i - 1] + count[i]
<1> DEFINE step == [i \in 1 .. k |-> [total \in Nat |-> total + count[i]]]
<1>1. ASSUME NEW i \in 1 .. k, NEW total \in Nat
      PROVE  step[i][total] = total + count[i] /\ total + count[i] \in Nat
  OBVIOUS
<1> HIDE DEF step
<1>2. StaysIn(step, k, Nat)
  BY <1>1 DEF StaysIn
<1>3. PICK f : Follows(f, 0, step, k, Nat)
  BY <1>2, StepsExist
<1>4. ASSUME NEW i \in 1 .. k PROVE f[i] = f[i - 1] + count[i]
  <2>1. f[i - 1] \in Nat /\ f[i] = step[i][f[i - 1]]
    BY <1>3 DEF Follows
  <2> QED
    BY <1>1, <2>1
<1> QED
  BY <1>3, <1>4 DEF Follows

=============================================================================
