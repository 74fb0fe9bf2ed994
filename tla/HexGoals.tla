------------------------------ MODULE HexGoals ------------------------------
(***************************************************************************)
(* How a goal gets from the command line (command/hex.c) or from a Lua     *)
(* table into a request of hlp_solve.c.  The request's two numbers have a  *)
(* digit for each signal strength; digit 0 is the lowest.                  *)
(***************************************************************************)
EXTENDS LegalDist, Sequences

CONSTANTS Bracket, Dash, Other,   \* characters that are no digits
          Typed,                  \* the characters a user types
          MaxTyped,               \* bounds how many
          nil, none,              \* no value in a Lua table, no string
          TableEntries            \* what a script puts in a table

ASSUME TypedAssumption ==
  /\ Typed \subseteq Values \cup {Wild, Bracket, Dash, Other}
  /\ Values \cap {Wild, Bracket, Dash, Other} = {}
  /\ Wild \notin {Bracket, Dash, Other}

\* A table's entries are integers, or missing.
ASSUME TableAssumption == TableEntries \subseteq Int \cup {nil} /\ nil \notin Int

VARIABLES hex_pc,       \* "typing", "parsing", "parsed", "table" or "usage"
          hex_map,      \* the string, or the table
          at,           \* c, as a position in it
          digits,       \* length
          request_min, request_max,   \* mins and maxs
          solve_type, hex_error

hexVars == <<hex_pc, hex_map, at, digits, request_min, request_max, solve_type,
             hex_error>>

Digits == 0 .. N - 1
Zero == [k \in Digits |-> 0]

\* (number << 4) | digit
Shifted(number, digit) == [k \in Digits |-> IF k = 0 THEN digit ELSE number[k - 1]]

ShiftedBy(number, count) ==
  [k \in Digits |-> IF k < count THEN 0 ELSE number[k - count]]

\* big_endian_uint_to_xmm: the lane of input v.
big_endian_uint_to_xmm(number) == [v \in Values |-> number[N - 1 - v]]

HexInit ==
  /\ hex_pc = "typing" /\ hex_map = none
  /\ at = 1 /\ digits = 0
  /\ request_min = Zero /\ request_max = Zero
  /\ solve_type = "exact" /\ hex_error = "none"

-----------------------------------------------------------------------------
(* The command line.  Arguments are appended to each other, so that only   *)
(* their characters matter; the first one may be empty.                    *)
AppendArg ==
  /\ hex_pc = "typing"
  /\ \/ hex_map = none /\ hex_map' = <<>>
     \/ /\ hex_map # none /\ Len(hex_map) < MaxTyped
        /\ \E c \in Typed : hex_map' = Append(hex_map, c)
  /\ UNCHANGED <<hex_pc, at, digits, request_min, request_max, solve_type,
                 hex_error>>

\* Without an argument the program only says how to call it.
NoArgs ==
  /\ hex_pc = "typing" /\ hex_map = none
  /\ hex_pc' = "usage"
  /\ UNCHANGED <<hex_map, at, digits, request_min, request_max, solve_type,
                 hex_error>>

Enter ==
  /\ hex_pc = "typing" /\ hex_map # none
  /\ IF hex_map = <<>>
     THEN hex_pc' = "parsed" /\ hex_error' = "blank"
     ELSE hex_pc' = "parsing" /\ UNCHANGED hex_error
  /\ UNCHANGED <<hex_map, at, digits, request_min, request_max, solve_type>>

-----------------------------------------------------------------------------
(* parse_hlp_request_str.                                                  *)
InString == hex_pc = "parsing" /\ at <= Len(hex_map)
C == hex_map[at]
BeforeDash == at < Len(hex_map) /\ hex_map[at + 1] = Dash

Refuse(error) ==
  /\ hex_pc' = "parsed" /\ hex_error' = error
  /\ UNCHANGED <<hex_map, at, digits, request_min, request_max, solve_type>>

RefuseDash == InString /\ BeforeDash /\ Refuse("null")

ReadSymbol ==
  /\ InString /\ ~ BeforeDash
  /\ C \in Values \cup {Wild}
  /\ request_min' = Shifted(request_min, IF C = Wild THEN 0 ELSE C)
  /\ request_max' = Shifted(request_max, IF C = Wild THEN N - 1 ELSE C)
  /\ digits' = digits + 1 /\ at' = at + 1
  /\ UNCHANGED <<hex_pc, hex_map, solve_type, hex_error>>

\* A bracket: the loop goes round without moving on.
Spin ==
  /\ InString /\ ~ BeforeDash
  /\ C = Bracket
  /\ UNCHANGED hexVars

\* Mutated form: other characters are skipped, like brackets.
SkipMalformed ==
  /\ InString /\ ~ BeforeDash
  /\ C \notin Values \cup {Wild, Bracket}
  /\ UNCHANGED hexVars

RefuseMalformed ==
  /\ InString /\ ~ BeforeDash
  /\ C \notin Values \cup {Wild, Bracket}
  /\ Refuse("malformed")

RefuseTooLong ==
  /\ hex_pc = "parsing" /\ at > Len(hex_map)
  /\ digits > N
  /\ Refuse("too long")

\* Mutated form: the digits left out are zeros.
FinishWithZeros ==
  /\ hex_pc = "parsing" /\ at > Len(hex_map)
  /\ digits <= N
  /\ request_min' = ShiftedBy(request_min, N - digits)
  /\ request_max' = ShiftedBy(request_max, N - digits)
  /\ solve_type' = IF request_min' = request_max' THEN "exact" ELSE "partial"
  /\ hex_pc' = "parsed"
  /\ UNCHANGED <<hex_map, at, digits, hex_error>>

\* What is left out at the end are wildcards.
Finish ==
  /\ hex_pc = "parsing" /\ at > Len(hex_map)
  /\ digits <= N
  /\ request_min' = ShiftedBy(request_min, N - digits)
  /\ request_max' = [k \in Digits |-> IF k < N - digits THEN N - 1
                                      ELSE request_max[k - (N - digits)]]
  /\ solve_type' = IF request_min' = request_max' THEN "exact" ELSE "partial"
  /\ hex_pc' = "parsed"
  /\ UNCHANGED <<hex_map, at, digits, hex_error>>

ParseStep == \/ RefuseDash \/ ReadSymbol \/ RefuseMalformed
             \/ RefuseTooLong \/ Finish

-----------------------------------------------------------------------------
\* solve_lua: the table's entries for the inputs, clamped; nil is a wildcard.
Clamped(entry, wildcard) ==
  IF entry = nil THEN wildcard
  ELSE IF entry < 0 THEN 0 ELSE IF entry > N - 1 THEN N - 1 ELSE entry

Numbers(table, wildcard) ==
  LET number[i \in 0 .. N] ==
        IF i = 0 THEN Zero
        ELSE Shifted(number[i - 1], Clamped(table[i - 1], wildcard))
  IN  number[N]

\* The accuracy is put where the kind of goal belongs; perfect is no kind.
ReadTable ==
  /\ hex_pc = "typing" /\ hex_map = none
  /\ \E table \in [Digits -> TableEntries], perfect \in BOOLEAN :
       /\ hex_map' = table
       /\ request_min' = Numbers(table, 0) /\ request_max' = Numbers(table, N - 1)
       /\ solve_type' = IF perfect THEN "unknown" ELSE "exact"
  /\ hex_pc' = "table"
  /\ UNCHANGED <<at, digits, hex_error>>

HexStep == AppendArg \/ NoArgs \/ Enter \/ ParseStep \/ Spin \/ ReadTable

-----------------------------------------------------------------------------
\* print_hlp_request: highest digit first, a wildcard for a full range.
print_hlp_request ==
  [i \in 1 .. N |->
     LET min_val == request_min[N - i]
         max_val == request_max[N - i]
     IN  IF min_val = max_val THEN min_val
         ELSE IF min_val = 0 /\ max_val = N - 1 THEN Wild ELSE <<min_val, max_val>>]

\* What is asked for an input, by what was typed or by the table.
Asked(v) ==
  IF hex_pc = "table"
  THEN IF hex_map[v] = nil THEN Wild
       ELSE IF hex_map[v] \in Values THEN hex_map[v]
       ELSE IF hex_map[v] < 0 THEN 0 ELSE N - 1
  ELSE IF v < Len(hex_map) THEN hex_map[v + 1] ELSE Wild

\* What the solver is asked for is what was typed, or what is in the table: a
\* string is accepted if it consists of at least one and at most as many
\* symbols as there are inputs; then the lane of each input holds its symbol,
\* the inputs left out may have any output, a typed goal is searched as an
\* exact one only if it has no wildcards, and the line "searching for" shows
\* the goal, so that typing it again asks for the same.
GoalsAreRead ==
  /\ hex_pc = "parsed" =>
       /\ (hex_error = "none") <=>
            /\ Len(hex_map) \in 1 .. N
            /\ \A i \in DOMAIN hex_map : hex_map[i] \in Values \cup {Wild}
       /\ hex_error = "none" =>
            ((solve_type = "exact") <=> (\A v \in Values : Asked(v) # Wild))
  /\ hex_pc \in {"parsed", "table"} /\ hex_error = "none" =>
       \A v \in Values :
         /\ print_hlp_request[v + 1] = Asked(v)
         /\ Asked(v) # Wild =>
              /\ big_endian_uint_to_xmm(request_min)[v] = Asked(v)
              /\ big_endian_uint_to_xmm(request_max)[v] = Asked(v)

\* Every string without a bracket is read to its end or refused.
ReadingEnds ==
  (hex_pc = "parsing" /\ \A i \in DOMAIN hex_map : hex_map[i] # Bracket)
    ~> (hex_pc = "parsed")

=============================================================================
