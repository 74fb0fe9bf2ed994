----------------------------- MODULE RandomGoals -----------------------------
(***************************************************************************)
(* The random goals of search/hlp_random.c.  A number's digits are a       *)
(* sequence, its lowest digit first; rand() gives any value.               *)
(***************************************************************************)
EXTENDS Integers, Sequences, FiniteSets, FiniteSetsExt

CONSTANT N   \* the number of signal strengths: 16 in the program

VARIABLES phase,       \* "any", "values", "fill", "order" or "searching"
          want,        \* group; 0 for any number of outputs
          used,
          result,      \* of rand_hex_kperm so far
          kperm,
          random_map,  \* map, in randomize_map
          dest

randomVars == <<phase, want, used, result, kperm, random_map, dest>>

RandomInit ==
  /\ want \in 0 .. N
  /\ phase = IF want = 0 THEN "any" ELSE "values"
  /\ used = {} /\ result = <<>> /\ kperm = <<>> /\ random_map = <<>>
  /\ dest = <<>>

\* Each character on its own.
AnyDigit ==
  /\ phase = "any"
  /\ \E digit \in 0 .. N - 1 : dest' = Append(dest, digit)
  /\ phase' = IF Len(dest') = N THEN "searching" ELSE "any"
  /\ UNCHANGED <<want, used, result, kperm, random_map>>

\* The digit of a value below the number of digits not used: pdep, tzcnt.
UnusedDigit(value) ==
  CHOOSE d \in (0 .. N - 1) \ used :
    Cardinality({e \in (0 .. N - 1) \ used : e < d}) = value

\* Mutated form: used is not updated.
DrawAgain(i) ==
  \E value \in 0 .. i - 1 :
    /\ result' = <<UnusedDigit(value)>> \o result
    /\ UNCHANGED used

\* A round of the loop of rand_hex_kperm.
Draw(i) ==
  \E value \in 0 .. i - 1 :
    /\ result' = <<UnusedDigit(value)>> \o result
    /\ used' = used \cup {UnusedDigit(value)}

DrawValue ==
  /\ phase = "values" /\ Len(result) < want
  /\ Draw(N - Len(result))
  /\ UNCHANGED <<phase, want, kperm, random_map, dest>>

ValuesDrawn ==
  /\ phase = "values" /\ Len(result) = want
  /\ kperm' = result /\ random_map' = result
  /\ phase' = "fill" /\ result' = <<>> /\ used' = {}
  /\ UNCHANGED <<want, dest>>

\* One of the values again.
Fill ==
  /\ phase = "fill" /\ Len(random_map) < N
  /\ \E index \in 0 .. want - 1 : random_map' = <<kperm[index + 1]>> \o random_map
  /\ UNCHANGED <<phase, want, used, result, kperm, dest>>

Filled ==
  /\ phase = "fill" /\ Len(random_map) = N
  /\ phase' = "order"
  /\ UNCHANGED <<want, used, result, kperm, random_map, dest>>

DrawOrder ==
  /\ phase = "order" /\ Len(result) < N
  /\ Draw(N - Len(result))
  /\ UNCHANGED <<phase, want, kperm, random_map, dest>>

Shuffle ==
  /\ phase = "order" /\ Len(result) = N
  /\ dest' = [i \in 1 .. N |-> random_map[result[i] + 1]]
  /\ phase' = "searching"
  /\ UNCHANGED <<want, used, result, kperm, random_map>>

\* hlp_print_search returns; the next trial.
NextTrial ==
  /\ phase = "searching"
  /\ phase' = (IF want = 0 THEN "any" ELSE "values")
  /\ used' = {} /\ result' = <<>> /\ kperm' = <<>> /\ random_map' = <<>>
  /\ dest' = <<>>
  /\ UNCHANGED want

randomize_map == AnyDigit \/ DrawValue \/ ValuesDrawn \/ Fill \/ Filled
                 \/ DrawOrder \/ Shuffle

-----------------------------------------------------------------------------
\* A random goal has an output for every input, and the number of different
\* outputs asked for: filling up and shuffling lose none of the values drawn.
RandomGoalHasGroup ==
  phase = "searching" =>
    /\ Len(dest) = N /\ \A i \in DOMAIN dest : dest[i] \in 0 .. N - 1
    /\ want # 0 => Cardinality({dest[i] : i \in DOMAIN dest}) = want

=============================================================================
