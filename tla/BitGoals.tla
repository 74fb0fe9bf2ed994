------------------------------ MODULE BitGoals ------------------------------
(***************************************************************************)
(* How a goal of the dual binary solver is read from the command line      *)
(* (command/dbin_command.c) and shown again (dbin_solve.c).  The first N   *)
(* cells of a goal are the first bits of the inputs, the others the second *)
(* ones.                                                                   *)
(***************************************************************************)
EXTENDS Integers, Sequences

CONSTANTS N,        \* the number of signal strengths: 16 in the program
          Wild, Space, Other,   \* characters that are not bits
          TypedBits,            \* the characters a user types
          MaxTypedBits          \* bounds how many

Cells == 0 .. 2 * N - 1

VARIABLES bits_pc,     \* "options", "bits", "solving", "usage" or "exited"
          options,     \* those given
          zeros, ones, \* the two halves of bits
          bit_count,
          typed        \* history: the characters read

bitVars == <<bits_pc, options, zeros, ones, bit_count, typed>>

transpose == "t" \in options

\* The handler knows a key 'r'; what the user can give is 't' and 's'.
Keys == {"t", "s"}
reverse == "r" \in options

BitsInit ==
  /\ bits_pc = "options" /\ options = {}
  /\ zeros = {} /\ ones = {} /\ bit_count = 0
  /\ typed = <<>>

\* Options are handled before arguments, wherever they stand.
GiveOption ==
  /\ bits_pc = "options"
  /\ \E key \in Keys \ options : options' = options \cup {key}
  /\ UNCHANGED <<bits_pc, zeros, ones, bit_count, typed>>

NoFunction ==
  /\ bits_pc = "options" /\ bits_pc' = "usage"
  /\ UNCHANGED <<options, zeros, ones, bit_count, typed>>

\* Mutated form: rows and columns are exchanged.
OffsetOfColumns(count) == IF transpose THEN (count % N) * 2 + count \div N ELSE count

\* Where the next bit goes.
offset(count) ==
  LET place == IF transpose THEN (count % 2) * N + count \div 2 ELSE count
  IN  IF reverse THEN (place + N) % (2 * N) ELSE place

\* One character of an argument.  Where one argument ends and the next begins
\* makes no difference.  A message ends the program.
ReadBit ==
  /\ bits_pc \in {"options", "bits"} /\ Len(typed) < MaxTypedBits
  /\ \E c \in TypedBits :
       LET cell == offset(bit_count)
           count == IF c = Space THEN bit_count ELSE bit_count + 1
       IN  /\ typed' = Append(typed, c)
           /\ zeros' = IF c = 0 THEN zeros \cup {cell} ELSE zeros
           /\ ones' = IF c = 1 THEN ones \cup {cell} ELSE ones
           /\ bit_count' = count
           /\ bits_pc' = IF c = Other \/ count > 2 * N THEN "exited" ELSE "bits"
  /\ UNCHANGED options

\* All arguments are read, an empty one perhaps.  What is asked for both ways
\* would be a wildcard.
Solve ==
  /\ bits_pc \in {"options", "bits"}
  /\ bits_pc' = "solving"
  /\ zeros' = zeros \ ones /\ ones' = ones \ zeros
  /\ UNCHANGED <<options, bit_count, typed>>

BitsStep == GiveOption \/ NoFunction \/ ReadBit \/ Solve

-----------------------------------------------------------------------------
\* nice_print_u16_le_partial, of both lines.
Shown(cell) == IF cell \in zeros THEN 0 ELSE IF cell \in ones THEN 1 ELSE Wild

\* What was typed without the whitespace.
Symbols ==
  LET first[n \in 0 .. Len(typed)] ==
        IF n = 0 THEN <<>>
        ELSE IF typed[n] = Space THEN first[n - 1] ELSE Append(first[n - 1], typed[n])
  IN  first[Len(typed)]

\* The symbol typed for a cell; the end may be left out.
TypedFor(cell) ==
  LET at == 1 + IF "t" \in options THEN 2 * (cell % N) + cell \div N ELSE cell
  IN  IF at <= Len(Symbols) THEN Symbols[at] ELSE Wild

\* The solver gets the goal that was typed, by outputs or (-t) by pairs, with
\* whitespace anywhere: it is refused if there are more symbols than bits or
\* other characters, and otherwise each cell is shown as its symbol.  (What is
\* shown are the cells in the order of the typed format without -t, so that
\* typing it asks for the same goal.)  This is so with -s, too, which README.md
\* says swaps the bits: its handler waits for another key.
BitsAreRead ==
  /\ bits_pc = "exited" <=>
       Len(Symbols) > 2 * N \/ \E i \in DOMAIN Symbols : Symbols[i] = Other
  /\ bits_pc = "solving" => \A cell \in Cells : Shown(cell) = TypedFor(cell)

=============================================================================
