----------------------------- MODULE LuaHexSets -----------------------------
(***************************************************************************)
(* What a Lua script does with a hex_set, a set of signal strengths in the *)
(* bits of a word (lua_hex_set.c, and the operations of hex_fn.c under     *)
(* it).  Unlike the functions and the layers, its indices are not clamped. *)
(***************************************************************************)
EXTENDS Integers, Sequences, FiniteSetsExt, SequencesExt

CONSTANT SetBits   \* 16 in the program; the int that is shifted has 32 bits

ASSUME SetBitsAssumption == SetBits \in Nat \ {0}

VARIABLE hex_set   \* the script's set

Bits == 0 .. SetBits - 1
hex_set_full == Bits

\* 1 << index, cut off to the bits of a set.  The shift takes its distance
\* modulo the 32 bits of an int, so that indices -16 to -1 and 16 to 31 have
\* no bit at all and the index 32 has that of 0 (C leaves shifts that far
\* open; the processors the program runs on do this).
BitOf(index) == {index % (2 * SetBits)} \cap Bits

hex_set_get(s, index) == BitOf(index) \cap s # {}

hex_set_with(s, index, value) ==
  IF value THEN s \cup BitOf(index) ELSE s \ BitOf(index)

hex_set_complement(s) == Bits \ s
hex_set_sym_diff(a, b) == (a \ b) \cup (b \ a)

-----------------------------------------------------------------------------
(* Printing: the runs of the set from the lowest on, each as one element,  *)
(* as two, or as a range, and a star for the full set.  A token is the     *)
(* pair of ends of what it stands for.                                     *)
tzcnt_u16(mask) == IF mask = {} THEN SetBits ELSE Min(mask)

\* ~(mask | (mask - 1)): what is above the lowest element and not in the mask.
AboveRun(mask) ==
  IF mask = {} THEN {} ELSE {b \in Bits \ mask : b > Min(mask)}

\* Mutated form: the range goes up to the first element that is missing.
TokensPastTheEnd(range_start, range_end) ==
  CASE range_end - range_start = 1 -> <<<<range_start, range_start>>>>
    [] range_end - range_start = 2 -> <<<<range_start, range_start>>,
                                        <<range_start + 1, range_start + 1>>>>
    [] OTHER -> <<<<range_start, range_end>>>>

Tokens(range_start, range_end) ==
  CASE range_end - range_start = 1 -> <<<<range_start, range_start>>>>
    [] range_end - range_start = 2 -> <<<<range_start, range_start>>,
                                        <<range_start + 1, range_start + 1>>>>
    [] OTHER -> <<<<range_start, range_end - 1>>>>

star == <<"*">>

hex_set_sprint(s) ==
  LET print[mask \in SUBSET Bits] ==
        IF mask = {} THEN <<>>
        ELSE Tokens(tzcnt_u16(mask), tzcnt_u16(AboveRun(mask)))
               \o print[AboveRun(AboveRun(mask))]
  IN  IF s = hex_set_full THEN star ELSE print[s]

-----------------------------------------------------------------------------
(* The tables a script makes a set from, and gets one as.                  *)
from_values(values) ==
  FoldLeft(LAMBDA s, x : hex_set_with(s, x, TRUE), {}, values)

\* A key is there if its value is neither nil nor false; the function in place
\* of a table answers the same way.
from_keys(keys) ==
  FoldLeft(LAMBDA s, i : hex_set_with(s, i, i \in keys), {},
           [i \in 1 .. SetBits |-> i - 1])

to_values(s) == SelectSeq([i \in 1 .. SetBits |-> i - 1],
                          LAMBDA i : hex_set_get(s, i))
to_keys(s) == {i \in Bits : hex_set_get(s, i)}

\* Integers a script may use as an index.
Indices == -SetBits .. 2 * SetBits

-----------------------------------------------------------------------------
HexSetsInit == hex_set = {}

\* hex_set.from_values, from_keys, empty, full and single.
NewHexSet ==
  \/ \E values \in {<<i, j>> : i, j \in Indices} : hex_set' = from_values(values)
  \/ \E keys \in SUBSET Bits : hex_set' = from_keys(keys)
  \/ hex_set' \in {{}, hex_set_full}
  \/ \E i \in Indices : hex_set' = hex_set_with({}, i, TRUE)

\* add and remove change the set, with and without push another one.
ChangeHexSet ==
  \E i \in Indices, value \in BOOLEAN : hex_set' = hex_set_with(hex_set, i, value)

CombineHexSets ==
  \/ \E other \in SUBSET Bits :
       hex_set' \in {hex_set \cup other, hex_set \cap other, hex_set \ other,
                     hex_set_sym_diff(hex_set, other)}
  \/ hex_set' = hex_set_complement(hex_set)

HexSetsStep == NewHexSet \/ ChangeHexSet \/ CombineHexSets

-----------------------------------------------------------------------------
Printed(text) ==
  IF text = star THEN Bits ELSE UNION {t[1] .. t[2] : t \in Range(text)}

Length(text) == FoldLeft(LAMBDA sum, t : sum + t[2] - t[1] + 1, 0, text)

\* Whatever calls made it and whichever indices they had, a set is the one its
\* text, its list of values and its table of keys stand for, no element is
\* printed twice and the lines of the text ascend: the loop that cuts runs off
\* a word by adding, inverting and counting zeros loses none, at the top edge
\* of the word either.
HexSetsReadBack ==
  LET text == hex_set_sprint(hex_set)
  IN  /\ Printed(text) = hex_set
      /\ text # star =>
           /\ Length(text) = Cardinality(hex_set)
           /\ \A k \in 1 .. Len(text) - 1 : text[k][2] < text[k + 1][1]
      /\ from_values(to_values(hex_set)) = hex_set
      /\ from_keys(to_keys(hex_set)) = hex_set

=============================================================================
