---------------------------- MODULE ProgramProofs ----------------------------
(***************************************************************************)
(* Proofs about the command line program, for every number of signal       *)
(* strengths and strings of any length: goals are read as they were typed, *)
(* and random goals have as many outputs as were asked for.  And about the *)
(* check by distance, for all current values and goals: the network sorts  *)
(* four arrays of sixteen, and comparing neighbours is comparing inputs.   *)
(***************************************************************************)
EXTENDS Program, RedstoneProofs, SequenceTheorems

-----------------------------------------------------------------------------
(* Goals of the subcommand hex.                                            *)

HexSymbols == Values \cup {Wild}

\* The digits of a symbol in the two numbers of a request.
LowOf(c) == IF c = Wild THEN 0 ELSE c
HighOf(c) == IF c = Wild THEN N - 1 ELSE c

\* The string is one of characters.  While it is parsed, the two numbers have
\* the symbols so far as their lowest digits, the last one first.
Typing ==
  hex_pc = "typing" =>
    /\ hex_map # none => hex_map \in Seq(Typed)
    /\ at = 1 /\ digits = 0
    /\ request_min = Zero /\ request_max = Zero
    /\ hex_error = "none"

SymbolsAreRead ==
  hex_pc = "parsing" =>
    /\ hex_map \in Seq(Typed) /\ Len(hex_map) > 0
    /\ hex_error = "none"
    /\ at \in 1 .. Len(hex_map) + 1 /\ digits = at - 1
    /\ \A i \in 1 .. digits : hex_map[i] \in HexSymbols
    /\ request_min =
         [k \in Digits |-> IF k < digits THEN LowOf(hex_map[digits - k]) ELSE 0]
    /\ request_max =
         [k \in Digits |-> IF k < digits THEN HighOf(hex_map[digits - k]) ELSE 0]

HexInv == Typing /\ SymbolsAreRead /\ GoalsAreRead

\* The lane of an input holds what is asked for it.
LanesHold ==
  \A v \in Values :
    /\ Asked(v) \in HexSymbols
    /\ request_min[N - 1 - v] = LowOf(Asked(v))
    /\ request_max[N - 1 - v] = HighOf(Asked(v))

LEMMA SymbolFacts ==
  /\ N \in Nat /\ N >= 2 /\ Values = 0 .. N - 1 /\ Digits = Values
  /\ Wild \notin Values /\ Dash \notin HexSymbols
  /\ \A c \in HexSymbols :
       /\ LowOf(c) \in Values /\ HighOf(c) \in Values
       /\ LowOf(c) = HighOf(c) <=> c # Wild
BY NAssumption, TypedAssumption DEF Values, Digits, HexSymbols, LowOf, HighOf

LEMMA LanesAreShown ==
  ASSUME LanesHold'
  PROVE  \A v \in Values :
           /\ print_hlp_request'[v + 1] = Asked(v)'
           /\ Asked(v)' # Wild =>
                /\ big_endian_uint_to_xmm(request_min)'[v] = Asked(v)'
                /\ big_endian_uint_to_xmm(request_max)'[v] = Asked(v)'
<1> SUFFICES ASSUME NEW v \in Values
             PROVE  /\ print_hlp_request'[v + 1] = Asked(v)'
                    /\ Asked(v)' # Wild =>
                         /\ big_endian_uint_to_xmm(request_min)'[v] = Asked(v)'
                         /\ big_endian_uint_to_xmm(request_max)'[v] = Asked(v)'
  OBVIOUS
<1> DEFINE c == Asked(v)'
<1>1. /\ c \in HexSymbols
      /\ request_min'[N - 1 - v] = LowOf(c) /\ request_max'[N - 1 - v] = HighOf(c)
  BY DEF LanesHold
<1>2. v + 1 \in 1 .. N /\ N - (v + 1) = N - 1 - v
  BY SymbolFacts
<1>3. LowOf(c) = HighOf(c) <=> c # Wild
  BY <1>1, SymbolFacts
<1>4. c # Wild => LowOf(c) = c /\ HighOf(c) = c
  BY DEF LowOf, HighOf
<1>5. c = Wild => LowOf(c) = 0 /\ HighOf(c) = N - 1
  BY DEF LowOf, HighOf
<1> HIDE DEF c
<1>6. print_hlp_request'[v + 1] = c
  BY <1>1, <1>2, <1>3, <1>4, <1>5 DEF print_hlp_request
<1>7. c # Wild => /\ big_endian_uint_to_xmm(request_min)'[v] = c
                  /\ big_endian_uint_to_xmm(request_max)'[v] = c
  BY <1>1, <1>4 DEF big_endian_uint_to_xmm
<1> QED
  BY <1>6, <1>7 DEF c

\* The entries of a table are shifted in one after the other.
LEMMA NumbersFacts ==
  ASSUME NEW table \in [Digits -> TableEntries], NEW w \in Values
  PROVE  \A v \in Values : Numbers(table, w)[N - 1 - v] = Clamped(table[v], w)
<1> DEFINE all == [Digits -> Values]
           In(i, n) == Shifted(n, Clamped(table[i - 1], w))
           Read(f) == [i \in 0 .. N |-> IF i = 0 THEN Zero ELSE In(i, f[i - 1])]
           step == [i \in 1 .. N |-> [n \in all |-> In(i, n)]]
           Right(f, i) == \A k \in Digits :
             f[i][k] = IF k < i THEN Clamped(table[i - 1 - k], w) ELSE 0
<1>1. Numbers(table, w) = (CHOOSE f : f = Read(f))[N]
  BY DEF Numbers
<1>2. N \in Nat /\ N >= 2 /\ Values = 0 .. N - 1 /\ Digits = Values
  BY SymbolFacts
<1>3. Zero \in all
  BY <1>2 DEF Zero
<1>4. ASSUME NEW i \in 1 .. N PROVE Clamped(table[i - 1], w) \in Values
  <2>1. table[i - 1] \in TableEntries
    BY <1>2
  <2>2. table[i - 1] = nil \/ table[i - 1] \in Int
    BY <2>1, TableAssumption
  <2> QED
    BY <1>2, <2>2 DEF Clamped
<1>5. ASSUME NEW i \in 1 .. N, NEW n \in all
      PROVE  /\ In(i, n) \in all
             /\ \A k \in Digits :
                  In(i, n)[k] = IF k = 0 THEN Clamped(table[i - 1], w) ELSE n[k - 1]
  BY <1>2, <1>4 DEF Shifted
<1>6. \A i \in 1 .. N : \A n \in all : step[i][n] = In(i, n)
  OBVIOUS
<1>7. /\ \A f : Read(f)[0] = Zero
      /\ \A f : \A i \in 1 .. N : Read(f)[i] = In(i, f[i - 1])
  BY <1>2
<1>8. \A f \in [0 .. N -> all] :
        f[0] = Zero /\ (\A i \in 1 .. N : f[i] = In(i, f[i - 1])) => f = Read(f)
  <2> HIDE DEF In, all
  <2>1. ASSUME NEW f \in [0 .. N -> all], f[0] = Zero,
               \A i \in 1 .. N : f[i] = In(i, f[i - 1]), NEW i \in 0 .. N
        PROVE  f[i] = Read(f)[i]
    BY <1>2, <2>1
  <2> QED
    BY <2>1
<1> HIDE DEF all, In, Read, step
<1>9. PICK f : Follows(f, Zero, step, N, all)
  <2>1. StaysIn(step, N, all)
    BY <1>5, <1>6 DEF StaysIn
  <2> QED
    BY <1>2, <1>3, <2>1, StepsExist
<1>10. f \in [0 .. N -> all] /\ f[0] = Zero
  BY <1>9 DEF Follows
<1>11. ASSUME NEW i \in 1 .. N PROVE f[i] = In(i, f[i - 1])
  <2>1. f[i - 1] \in all /\ f[i] = step[i][f[i - 1]]
    BY <1>2, <1>9 DEF Follows
  <2> QED
    BY <1>6, <2>1
<1>12. f = Read(f)
  BY <1>8, <1>10, <1>11
<1>13. PICK g : g = Read(g) /\ Numbers(table, w) = g[N]
  BY <1>1, <1>12
<1>14. g[0] = Zero /\ \A i \in 1 .. N : g[i] = In(i, g[i - 1])
  BY <1>7, <1>13
<1> DEFINE T == {i \in 0 .. N : g[i] \in all /\ Right(g, i)}
<1>15. 0 \in T
  BY <1>2, <1>3, <1>14 DEF Zero
<1>16. ASSUME NEW i \in 1 .. N, i - 1 \in T PROVE i \in T
  <2>1. g[i - 1] \in all /\ Right(g, i - 1) /\ g[i] = In(i, g[i - 1])
    BY <1>14, <1>16
  <2>2. g[i] \in all
    BY <1>5, <2>1
  <2>3. ASSUME NEW k \in Digits
        PROVE  g[i][k] = IF k < i THEN Clamped(table[i - 1 - k], w) ELSE 0
    <3>1. g[i][k] = IF k = 0 THEN Clamped(table[i - 1], w) ELSE g[i - 1][k - 1]
      BY <1>5, <2>1
    <3>2. CASE k = 0
      BY <1>2, <3>1, <3>2
    <3>3. CASE k # 0
      <4>1. k - 1 \in Digits /\ (k - 1 < i - 1 <=> k < i)
            /\ i - 1 - 1 - (k - 1) = i - 1 - k
        BY <1>2, <3>3
      <4> QED
        BY <2>1, <3>1, <3>3, <4>1
    <3> QED
      BY <3>2, <3>3
  <2> QED
    BY <2>2, <2>3
<1>17. N \in T
  <2> HIDE DEF T
  <2> QED
    BY <1>2, <1>15, <1>16, InductionTo
<1>18. ASSUME NEW v \in Values PROVE g[N][N - 1 - v] = Clamped(table[v], w)
  <2>1. N - 1 - v \in Digits /\ N - 1 - v < N /\ N - 1 - (N - 1 - v) = v
    BY <1>2
  <2> QED
    BY <1>17, <2>1
<1> QED
  BY <1>13, <1>18

LEMMA HexStarts ==
  ASSUME HexInit
  PROVE  HexInv
BY DEF HexInit, HexInv, Typing, SymbolsAreRead, GoalsAreRead

LEMMA HexStays ==
  ASSUME HexInv, UNCHANGED hexVars
  PROVE  HexInv'
BY DEF hexVars, HexInv, Typing, SymbolsAreRead, GoalsAreRead, Asked, print_hlp_request,
       big_endian_uint_to_xmm

LEMMA TypingKeepsHex ==
  ASSUME HexInv, AppendArg \/ NoArgs \/ Enter
  PROVE  HexInv'
<1>1. Typing
  BY DEF HexInv
<1>2. CASE AppendArg
  <2>1. hex_map' \in Seq(Typed)
    <3>1. CASE hex_map' = <<>>
      BY <3>1, EmptySeq
    <3>2. CASE \E c \in Typed : hex_map # none /\ hex_map' = Append(hex_map, c)
      BY <1>1, <1>2, <3>2 DEF AppendArg, Typing
    <3> QED
      BY <1>2, <3>1, <3>2 DEF AppendArg
  <2> QED
    BY <1>1, <1>2, <2>1
    DEF AppendArg, HexInv, Typing, SymbolsAreRead, GoalsAreRead
<1>3. CASE NoArgs
  BY <1>1, <1>3 DEF NoArgs, HexInv, Typing, SymbolsAreRead, GoalsAreRead
<1>4. CASE Enter /\ hex_map = <<>>
  <2>1. /\ hex_pc' = "parsed" /\ hex_error' = "blank" /\ Len(hex_map') = 0
    BY <1>4 DEF Enter
  <2> QED
    BY <2>1 DEF HexInv, Typing, SymbolsAreRead, GoalsAreRead
<1>5. CASE Enter /\ hex_map # <<>>
  <2>1. /\ hex_pc' = "parsing" /\ hex_error' = "none" /\ hex_map' = hex_map
        /\ at' = 1 /\ digits' = 0 /\ request_min' = Zero /\ request_max' = Zero
        /\ hex_map \in Seq(Typed)
    BY <1>1, <1>5 DEF Enter, Typing
  <2>2. Len(hex_map) \in Nat \ {0}
    BY <1>5, <2>1, EmptySeq
  <2>3. Zero = [k \in Digits |-> IF k < 0 THEN LowOf(hex_map[0 - k]) ELSE 0]
        /\ Zero = [k \in Digits |-> IF k < 0 THEN HighOf(hex_map[0 - k]) ELSE 0]
    BY SymbolFacts DEF Zero
  <2>4. SymbolsAreRead'
    BY <2>1, <2>2, <2>3 DEF SymbolsAreRead
  <2> QED
    BY <2>1, <2>4 DEF HexInv, Typing, GoalsAreRead
<1> QED
  BY <1>2, <1>3, <1>4, <1>5

\* A string is refused for a character that is no symbol, or its length.
LEMMA RefusalsKeepHex ==
  ASSUME HexInv, RefuseDash \/ RefuseMalformed \/ RefuseTooLong
  PROVE  HexInv'
<1>1. hex_pc = "parsing" /\ SymbolsAreRead
  BY DEF HexInv, RefuseDash, RefuseMalformed, RefuseTooLong, InString
<1>2. /\ hex_map \in Seq(Typed) /\ Len(hex_map) \in Nat
      /\ at \in 1 .. Len(hex_map) + 1 /\ digits = at - 1
      /\ DOMAIN hex_map = 1 .. Len(hex_map)
  BY <1>1, LenProperties DEF SymbolsAreRead
<1>3. hex_pc' = "parsed" /\ hex_error' # "none" /\ hex_map' = hex_map
  BY DEF RefuseDash, RefuseMalformed, RefuseTooLong, Refuse
<1>4. ~ (/\ Len(hex_map) \in 1 .. N
         /\ \A i \in DOMAIN hex_map : hex_map[i] \in HexSymbols)
  <2>1. CASE RefuseDash
    <3>1. at + 1 \in DOMAIN hex_map /\ hex_map[at + 1] = Dash
      BY <1>2, <2>1 DEF RefuseDash, InString, BeforeDash
    <3> QED
      BY <3>1, SymbolFacts
  <2>2. CASE RefuseMalformed
    <3>1. at \in DOMAIN hex_map /\ hex_map[at] \notin HexSymbols
      BY <1>2, <2>2 DEF RefuseMalformed, InString, C, HexSymbols
    <3> QED
      BY <3>1
  <2>3. CASE RefuseTooLong
    <3>1. at > Len(hex_map) /\ digits > N
      BY <2>3 DEF RefuseTooLong
    <3>2. Len(hex_map) > N
      BY <1>2, <3>1, SymbolFacts
    <3> QED
      BY <1>2, <3>2, SymbolFacts
  <2> QED
    BY <2>1, <2>2, <2>3
<1>5. GoalsAreRead'
  BY <1>3, <1>4 DEF GoalsAreRead, HexSymbols
<1> QED
  BY <1>3, <1>5 DEF HexInv, Typing, SymbolsAreRead

\* The symbols so far, and the next one.
LEMMA ReadingKeepsHex ==
  ASSUME HexInv, ReadSymbol
  PROVE  HexInv'
<1>1. hex_pc = "parsing" /\ SymbolsAreRead
  BY DEF HexInv, ReadSymbol, InString
<1>2. /\ hex_map \in Seq(Typed) /\ Len(hex_map) \in Nat /\ hex_error = "none"
      /\ at \in 1 .. Len(hex_map) /\ digits = at - 1
      /\ \A i \in 1 .. digits : hex_map[i] \in HexSymbols
  BY <1>1, LenProperties DEF SymbolsAreRead, ReadSymbol, InString
<1>3. /\ hex_pc' = "parsing" /\ hex_map' = hex_map /\ hex_error' = "none"
      /\ at' = at + 1 /\ digits' = digits + 1
      /\ hex_map[at] \in HexSymbols
      /\ request_min' = Shifted(request_min, LowOf(hex_map[at]))
      /\ request_max' = Shifted(request_max, HighOf(hex_map[at]))
  BY <1>1, <1>2 DEF ReadSymbol, C, HexSymbols, LowOf, HighOf
<1>4. N \in Nat /\ N >= 2 /\ Digits = 0 .. N - 1
  BY SymbolFacts
<1>5. request_min' =
        [k \in Digits |-> IF k < digits + 1 THEN LowOf(hex_map[digits + 1 - k]) ELSE 0]
  <2>1. request_min =
          [k \in Digits |-> IF k < digits THEN LowOf(hex_map[digits - k]) ELSE 0]
    BY <1>1 DEF SymbolsAreRead
  <2>2. ASSUME NEW k \in Digits
        PROVE  Shifted(request_min, LowOf(hex_map[at]))[k] =
                 IF k < digits + 1 THEN LowOf(hex_map[digits + 1 - k]) ELSE 0
    <3>1. CASE k = 0
      <4>1. k < digits + 1 /\ digits + 1 - k = at
        BY <1>2, <3>1
      <4> QED
        BY <3>1, <4>1 DEF Shifted
    <3>2. CASE k # 0
      <4>1. /\ k - 1 \in Digits /\ (k - 1 < digits <=> k < digits + 1)
            /\ digits - (k - 1) = digits + 1 - k
        BY <1>2, <1>4, <3>2
      <4>2. Shifted(request_min, LowOf(hex_map[at]))[k] = request_min[k - 1]
        BY <3>2 DEF Shifted
      <4> QED
        BY <2>1, <4>1, <4>2
    <3> QED
      BY <3>1, <3>2
  <2> QED
    BY <1>3, <2>2 DEF Shifted
<1>6. request_max' =
        [k \in Digits |-> IF k < digits + 1 THEN HighOf(hex_map[digits + 1 - k]) ELSE 0]
  <2>1. request_max =
          [k \in Digits |-> IF k < digits THEN HighOf(hex_map[digits - k]) ELSE 0]
    BY <1>1 DEF SymbolsAreRead
  <2>2. ASSUME NEW k \in Digits
        PROVE  Shifted(request_max, HighOf(hex_map[at]))[k] =
                 IF k < digits + 1 THEN HighOf(hex_map[digits + 1 - k]) ELSE 0
    <3>1. CASE k = 0
      <4>1. k < digits + 1 /\ digits + 1 - k = at
        BY <1>2, <3>1
      <4> QED
        BY <3>1, <4>1 DEF Shifted
    <3>2. CASE k # 0
      <4>1. /\ k - 1 \in Digits /\ (k - 1 < digits <=> k < digits + 1)
            /\ digits - (k - 1) = digits + 1 - k
        BY <1>2, <1>4, <3>2
      <4>2. Shifted(request_max, HighOf(hex_map[at]))[k] = request_max[k - 1]
        BY <3>2 DEF Shifted
      <4> QED
        BY <2>1, <4>1, <4>2
    <3> QED
      BY <3>1, <3>2
  <2> QED
    BY <1>3, <2>2 DEF Shifted
<1>7. SymbolsAreRead'
  <2>1. \A i \in 1 .. digits' : hex_map'[i] \in HexSymbols
    BY <1>2, <1>3
  <2>2. at' \in 1 .. Len(hex_map') + 1 /\ digits' = at' - 1 /\ Len(hex_map') > 0
    BY <1>2, <1>3
  <2>3. hex_map' \in Seq(Typed) /\ hex_error' = "none"
    BY <1>2, <1>3
  <2>4. request_min' =
          [k \in Digits |-> IF k < digits' THEN LowOf(hex_map'[digits' - k]) ELSE 0]
    BY <1>2, <1>3, <1>5
  <2>5. request_max' =
          [k \in Digits |-> IF k < digits' THEN HighOf(hex_map'[digits' - k]) ELSE 0]
    BY <1>2, <1>3, <1>6
  <2> QED
    BY <2>1, <2>2, <2>3, <2>4, <2>5, Zenon DEF SymbolsAreRead
<1> QED
  BY <1>3, <1>7 DEF HexInv, Typing, GoalsAreRead

\* At the end the first symbol is moved to the highest digits, and wildcards
\* follow the last one.
LEMMA FinishingKeepsHex ==
  ASSUME HexInv, Finish
  PROVE  HexInv'
<1>1. hex_pc = "parsing" /\ SymbolsAreRead
  BY DEF HexInv, Finish
<1>2. /\ hex_map \in Seq(Typed) /\ Len(hex_map) \in 1 .. N /\ hex_error = "none"
      /\ digits = Len(hex_map) /\ DOMAIN hex_map = 1 .. digits
      /\ \A i \in 1 .. digits : hex_map[i] \in HexSymbols
  BY <1>1, LenProperties, SymbolFacts DEF SymbolsAreRead, Finish
<1>3. /\ hex_pc' = "parsed" /\ hex_map' = hex_map /\ hex_error' = "none"
      /\ solve_type' = IF request_min' = request_max' THEN "exact" ELSE "partial"
  BY <1>2 DEF Finish
<1>4. N \in Nat /\ N >= 2 /\ Values = 0 .. N - 1 /\ Digits = Values
  BY SymbolFacts
<1>5. \A v \in Values :
        Asked(v)' = IF v < digits THEN hex_map[v + 1] ELSE Wild
  BY <1>2, <1>3 DEF Asked
<1>6. ASSUME NEW v \in Values
      PROVE  /\ Asked(v)' \in HexSymbols
             /\ request_min'[N - 1 - v] = LowOf(Asked(v)')
             /\ request_max'[N - 1 - v] = HighOf(Asked(v)')
  <2> DEFINE k == N - 1 - v
             j == k - (N - digits)
  <2>1. k \in Digits /\ (k < N - digits <=> ~ (v < digits))
    BY <1>2, <1>4
  <2>2. /\ request_min'[k] = (IF k < N - digits THEN 0 ELSE request_min[j])
        /\ request_max'[k] = (IF k < N - digits THEN N - 1 ELSE request_max[j])
    BY <2>1 DEF Finish, ShiftedBy
  <2>3. CASE v < digits
    <3>1. j \in Digits /\ j < digits /\ digits - j = v + 1 /\ v + 1 \in 1 .. digits
      BY <1>2, <1>4, <2>3
    <3> HIDE DEF j, k
    <3>2. /\ request_min[j] = LowOf(hex_map[v + 1])
          /\ request_max[j] = HighOf(hex_map[v + 1])
      BY <1>1, <3>1 DEF SymbolsAreRead
    <3>3. Asked(v)' = hex_map[v + 1] /\ hex_map[v + 1] \in HexSymbols
      BY <1>2, <1>5, <2>3, <3>1
    <3> QED
      BY <2>1, <2>2, <2>3, <3>2, <3>3 DEF k
  <2>4. CASE ~ (v < digits)
    BY <1>5, <2>1, <2>2, <2>4 DEF HexSymbols, LowOf, HighOf
  <2> QED
    BY <2>3, <2>4
<1>7. LanesHold'
  BY <1>3, <1>6 DEF LanesHold
<1>8. request_min' = request_max' <=> \A v \in Values : Asked(v)' # Wild
  <2>1. /\ request_min' = [k \in Digits |-> request_min'[k]]
        /\ request_max' = [k \in Digits |-> request_max'[k]]
    BY DEF Finish, ShiftedBy
  <2>2. request_min' = request_max' <=>
          \A k \in Digits : request_min'[k] = request_max'[k]
    BY <2>1
  <2>3. ASSUME NEW v \in Values
        PROVE  request_min'[N - 1 - v] = request_max'[N - 1 - v] <=> Asked(v)' # Wild
    BY <1>6, SymbolFacts
  <2>4. \A k \in Digits : N - 1 - k \in Values /\ N - 1 - (N - 1 - k) = k
    BY <1>4
  <2> QED
    BY <1>4, <2>2, <2>3, <2>4
<1>9. GoalsAreRead'
  <2>1. /\ Len(hex_map') \in 1 .. N
        /\ \A i \in DOMAIN hex_map' : hex_map'[i] \in Values \cup {Wild}
    BY <1>2, <1>3 DEF HexSymbols
  <2>2. (solve_type' = "exact") <=> \A v \in Values : Asked(v)' # Wild
    BY <1>3, <1>8
  <2> QED
    BY <1>3, <1>7, <2>1, <2>2, LanesAreShown DEF GoalsAreRead
<1> QED
  BY <1>3, <1>9 DEF HexInv, Typing, SymbolsAreRead

LEMMA TableKeepsHex ==
  ASSUME HexInv, ReadTable
  PROVE  HexInv'
<1>1. PICK table \in [Digits -> TableEntries] :
        /\ hex_map' = table
        /\ request_min' = Numbers(table, 0) /\ request_max' = Numbers(table, N - 1)
  BY DEF ReadTable
<1>2. hex_pc' = "table"
  BY DEF ReadTable
<1>3. N \in Nat /\ N >= 2 /\ Values = 0 .. N - 1 /\ Digits = Values /\ Wild \notin Values
  BY SymbolFacts
<1>4. ASSUME NEW v \in Values
      PROVE  /\ Asked(v)' \in HexSymbols
             /\ request_min'[N - 1 - v] = LowOf(Asked(v)')
             /\ request_max'[N - 1 - v] = HighOf(Asked(v)')
  <2>1. /\ request_min'[N - 1 - v] = Clamped(table[v], 0)
        /\ request_max'[N - 1 - v] = Clamped(table[v], N - 1)
    BY <1>1, <1>3, NumbersFacts
  <2>2. Asked(v)' = IF table[v] = nil THEN Wild
                    ELSE IF table[v] \in Values THEN table[v]
                    ELSE IF table[v] < 0 THEN 0 ELSE N - 1
    BY <1>1, <1>2 DEF Asked
  <2>3. table[v] = nil \/ (table[v] # nil /\ table[v] \in Int)
    BY <1>3, TableAssumption
  <2>4. CASE table[v] = nil
    BY <2>1, <2>2, <2>4 DEF Clamped, HexSymbols, LowOf, HighOf
  <2>5. CASE table[v] # nil /\ table[v] \in Int
    <3> DEFINE e == table[v]
               c == IF e < 0 THEN 0 ELSE IF e > N - 1 THEN N - 1 ELSE e
    <3>1. Asked(v)' = c /\ c \in Values
      BY <1>3, <2>2, <2>5
    <3>2. Clamped(e, 0) = c /\ Clamped(e, N - 1) = c
      BY <2>5 DEF Clamped
    <3> HIDE DEF c
    <3> QED
      BY <1>3, <2>1, <3>1, <3>2 DEF HexSymbols, LowOf, HighOf
  <2> QED
    BY <2>3, <2>4, <2>5
<1>5. LanesHold'
  BY <1>4 DEF LanesHold
<1>6. GoalsAreRead'
  BY <1>2, <1>5, LanesAreShown DEF GoalsAreRead
<1> QED
  BY <1>2, <1>6 DEF HexInv, Typing, SymbolsAreRead

THEOREM GoalsAlwaysRead == ProgramSpec => []GoalsAreRead
<1>1. ProgramInit => HexInv
  BY HexStarts DEF ProgramInit
<1>2. HexInv /\ [ProgramNext]_programVars => HexInv'
  <2> SUFFICES ASSUME HexInv, [ProgramNext]_programVars PROVE HexInv'
    OBVIOUS
  <2>1. CASE HexStep
    BY <2>1, TypingKeepsHex, RefusalsKeepHex, ReadingKeepsHex, FinishingKeepsHex,
       TableKeepsHex, HexStays DEF HexStep, ParseStep, Spin
  <2>2. CASE UNCHANGED hexVars
    BY <2>2, HexStays
  <2> QED
    BY <2>1, <2>2 DEF ProgramNext, HexCommand, DbinCommand, RandomSearch, Check,
                      programVars
<1>3. HexInv => GoalsAreRead
  BY DEF HexInv
<1> QED
  BY <1>1, <1>2, <1>3, PTL DEF ProgramSpec

-----------------------------------------------------------------------------
(* Goals of the subcommand 2bin.                                           *)

\* The symbols of a string.
SymbolsOf(string) ==
  LET first[n \in 0 .. Len(string)] ==
        IF n = 0 THEN <<>>
        ELSE IF string[n] = Space THEN first[n - 1] ELSE Append(first[n - 1], string[n])
  IN  first[Len(string)]

\* What g says are the symbols of the string's first characters.
IsFirst(g, string) ==
  /\ g[0] = <<>>
  /\ \A n \in 1 .. Len(string) :
       g[n] = IF string[n] = Space THEN g[n - 1] ELSE Append(g[n - 1], string[n])

LEMMA FirstExists ==
  ASSUME NEW S, NEW string \in Seq(S)
  PROVE  \E g : IsFirst(g, string) /\ SymbolsOf(string) = g[Len(string)]
<1> DEFINE k == Len(string)
           In(n, s) == IF string[n] = Space THEN s ELSE Append(s, string[n])
           Read(f) == [n \in 0 .. k |-> IF n = 0 THEN <<>> ELSE In(n, f[n - 1])]
           step == [n \in 1 .. k |-> [s \in Seq(S) |-> In(n, s)]]
<1>1. SymbolsOf(string) = (CHOOSE f : f = Read(f))[k]
  BY DEF SymbolsOf
<1>2. k \in Nat /\ \A n \in 1 .. k : string[n] \in S
  BY LenProperties, ElementOfSeq
<1>3. <<>> \in Seq(S)
  BY EmptySeq
<1>4. \A n \in 1 .. k : \A s \in Seq(S) : In(n, s) \in Seq(S)
  BY <1>2
<1>5. \A n \in 1 .. k : \A s \in Seq(S) : step[n][s] = In(n, s)
  OBVIOUS
<1>6. /\ \A f : Read(f)[0] = <<>>
      /\ \A f : \A n \in 1 .. k : Read(f)[n] = In(n, f[n - 1])
  BY <1>2
<1>7. \A f \in [0 .. k -> Seq(S)] :
        f[0] = <<>> /\ (\A n \in 1 .. k : f[n] = In(n, f[n - 1])) => f = Read(f)
  <2> HIDE DEF In, k
  <2>1. ASSUME NEW f \in [0 .. k -> Seq(S)], f[0] = <<>>,
               \A n \in 1 .. k : f[n] = In(n, f[n - 1]), NEW n \in 0 .. k
        PROVE  f[n] = Read(f)[n]
    BY <1>2, <2>1
  <2> QED
    BY <2>1
<1> HIDE DEF k, In, Read, step
<1>8. PICK f : Follows(f, <<>>, step, k, Seq(S))
  <2>1. StaysIn(step, k, Seq(S))
    BY <1>4, <1>5 DEF StaysIn
  <2> QED
    BY <1>2, <1>3, <2>1, StepsExist
<1>9. f \in [0 .. k -> Seq(S)] /\ f[0] = <<>>
  BY <1>8 DEF Follows
<1>10. ASSUME NEW n \in 1 .. k PROVE f[n] = In(n, f[n - 1])
  <2>1. f[n - 1] \in Seq(S) /\ f[n] = step[n][f[n - 1]]
    BY <1>2, <1>8 DEF Follows
  <2> QED
    BY <1>5, <2>1
<1>11. f = Read(f)
  BY <1>7, <1>9, <1>10
<1>12. PICK g : g = Read(g) /\ SymbolsOf(string) = g[k]
  BY <1>1, <1>11
<1>13. g[0] = <<>> /\ \A n \in 1 .. k : g[n] = In(n, g[n - 1])
  BY <1>6, <1>12
<1> QED
  BY <1>12, <1>13 DEF IsFirst, k, In

LEMMA NoSymbols == SymbolsOf(<<>>) = <<>>
<1>1. <<>> \in Seq({}) /\ Len(<<>>) = 0
  BY EmptySeq
<1> QED
  BY <1>1, FirstExists DEF IsFirst

\* A character is a symbol more, unless it is whitespace.
LEMMA OneCharacter ==
  ASSUME NEW S, NEW string \in Seq(S), NEW c \in S
  PROVE  SymbolsOf(Append(string, c)) =
           IF c = Space THEN SymbolsOf(string) ELSE Append(SymbolsOf(string), c)
<1> DEFINE k == Len(string)
           longer == Append(string, c)
<1>1. /\ k \in Nat /\ longer \in Seq(S) /\ Len(longer) = k + 1
      /\ longer[k + 1] = c /\ \A n \in 1 .. k : longer[n] = string[n]
  BY LenProperties
<1>2. PICK f : IsFirst(f, string) /\ SymbolsOf(string) = f[k]
  BY FirstExists
<1>3. PICK g : IsFirst(g, longer) /\ SymbolsOf(longer) = g[k + 1]
  BY <1>1, FirstExists
<1> DEFINE T == {n \in 0 .. k : f[n] = g[n]}
<1> HIDE DEF longer
<1>4. 0 \in T
  BY <1>1, <1>2, <1>3 DEF IsFirst
<1>5. ASSUME NEW n \in 1 .. k, n - 1 \in T PROVE n \in T
  <2>1. n \in 1 .. k + 1 /\ longer[n] = string[n] /\ f[n - 1] = g[n - 1]
    BY <1>1, <1>5
  <2> QED
    BY <1>1, <1>2, <1>3, <2>1 DEF IsFirst
<1>6. f[k] = g[k]
  <2>1. k \in Nat
    BY <1>1
  <2> HIDE DEF T, k
  <2>2. 0 .. k \subseteq T
    BY <2>1, <1>4, <1>5, InductionTo, Zenon
  <2>3. k \in 0 .. k
    BY <2>1
  <2> QED
    BY <2>2, <2>3 DEF T
<1>7. g[k + 1] = IF c = Space THEN g[k] ELSE Append(g[k], c)
  <2>1. k + 1 \in 1 .. Len(longer) /\ (k + 1) - 1 = k
    BY <1>1
  <2> QED
    BY <1>1, <1>3, <2>1 DEF IsFirst
<1> QED
  BY <1>2, <1>3, <1>6, <1>7 DEF longer

\* With -t the places of cells are the places of bits the other way round.
LEMMA TransposedPlaces ==
  ASSUME NEW cell \in 0 .. 2 * N - 1, NEW b \in 0 .. 2 * N - 1
  PROVE  /\ 2 * (cell % N) + cell \div N \in 0 .. 2 * N - 1
         /\ (b % 2) * N + b \div 2 \in 0 .. 2 * N - 1
         /\ (b % 2) * N + b \div 2 = cell <=> 2 * (cell % N) + cell \div N = b
<1> DEFINE q == cell % N
           r == cell \div N
           p == b \div 2
           h == b % 2
<1>1. N \in Nat \ {0} /\ N >= 2
  BY NAssumption
<1>2. q \in 0 .. N - 1 /\ r \in 0 .. 1 /\ cell = r * N + q
  <2>1. q \in 0 .. N - 1 /\ r \in Int /\ cell = r * N + q
    BY <1>1
  <2> HIDE DEF q, r
  <2>2. r >= 0
    <3>1. SUFFICES ASSUME r <= -1 PROVE FALSE
      BY <2>1
    <3>2. r * N <= -N
      BY <1>1, <2>1, <3>1
    <3> QED
      BY <1>1, <2>1, <3>2
  <2>3. r < 2
    <3>1. SUFFICES ASSUME r >= 2 PROVE FALSE
      BY <2>1
    <3>2. r * N >= 2 * N
      BY <1>1, <2>1, <3>1
    <3> QED
      BY <1>1, <2>1, <3>2
  <2> QED
    BY <2>1, <2>2, <2>3
<1>3. p \in 0 .. N - 1 /\ h \in 0 .. 1 /\ b = 2 * p + h
  BY <1>1
<1>4. 2 * q + r \in 0 .. 2 * N - 1
  <2> HIDE DEF q, r
  <2> QED
    BY <1>1, <1>2
<1>5. ASSUME h * N + p = cell PROVE 2 * q + r = b
  <2>1. (h * N + p) \div N = h /\ (h * N + p) % N = p
    <3> HIDE DEF h, p
    <3>1. h \in Nat /\ p \in 0 .. N - 1
      BY <1>3
    <3> QED
      BY <1>1, <3>1, Division
  <2>2. r = h /\ q = p
    BY <1>5, <2>1
  <2> HIDE DEF q, r, p, h
  <2> QED
    BY <1>3, <2>2
<1>6. ASSUME 2 * q + r = b PROVE h * N + p = cell
  <2>1. (q * 2 + r) \div 2 = q /\ (q * 2 + r) % 2 = r
    <3> HIDE DEF q, r
    <3>1. q \in Nat /\ r \in 0 .. 2 - 1 /\ 2 \in Nat \ {0}
      BY <1>2
    <3> QED
      BY <3>1, Division
  <2>2. q * 2 + r = b
    BY <1>2, <1>6
  <2>3. p = q /\ h = r
    BY <2>1, <2>2
  <2> HIDE DEF q, r, p, h
  <2> QED
    BY <1>2, <2>3
<1>7. h * N + p \in 0 .. 2 * N - 1
  <2>1. h * N = 0 \/ h * N = N
    <3>1. h = 0 \/ h = 1
      BY <1>3
    <3> HIDE DEF h
    <3> QED
      BY <1>1, <3>1
  <2> HIDE DEF h, p
  <2> QED
    BY <1>1, <1>3, <2>1
<1> QED
  BY <1>4, <1>5, <1>6, <1>7

\* The characters are counted as they are read; options come before them.
BitTyping ==
  /\ options \subseteq Bits!Keys
  /\ typed \in Seq(TypedBits)
  /\ Bits!Symbols \in Seq(TypedBits \ {Space}) /\ Len(Bits!Symbols) = bit_count
  /\ bits_pc \in {"options", "usage"} => typed = <<>>

\* While they are read, the two halves have the cells of the symbols so far.
BitsHold ==
  bits_pc \in {"options", "bits"} =>
    /\ bit_count <= 2 * N
    /\ \A i \in 1 .. bit_count : Bits!Symbols[i] # Other
    /\ zeros = {cell \in Bits!Cells : Bits!TypedFor(cell) = 0}
    /\ ones = {cell \in Bits!Cells : Bits!TypedFor(cell) = 1}

BitInv == BitTyping /\ BitsHold /\ BitsAreRead

\* Where the symbol for a cell is in what was typed, from 0.
PlaceOf(cell) == IF Bits!transpose THEN 2 * (cell % N) + cell \div N ELSE cell

LEMMA OffsetType ==
  ASSUME BitTyping, NEW b \in Bits!Cells
  PROVE  Bits!offset(b) \in Bits!Cells
<1>1. ~ Bits!reverse
  BY DEF BitTyping, Bits!reverse, Bits!Keys
<1>2. b \in 0 .. 2 * N - 1
  BY DEF Bits!Cells
<1>3. (b % 2) * N + b \div 2 \in 0 .. 2 * N - 1
  BY <1>2, TransposedPlaces
<1> QED
  BY <1>1, <1>2, <1>3 DEF Bits!offset, Bits!Cells

LEMMA PlaceFacts ==
  ASSUME BitTyping, NEW cell \in Bits!Cells
  PROVE  /\ PlaceOf(cell) \in Bits!Cells
         /\ \A b \in Bits!Cells : Bits!offset(b) = cell <=> PlaceOf(cell) = b
         /\ Bits!TypedFor(cell) = IF PlaceOf(cell) < Len(Bits!Symbols)
                                  THEN Bits!Symbols[PlaceOf(cell) + 1] ELSE Wild
<1>1. Bits!Cells = 0 .. 2 * N - 1 /\ N \in Nat
  BY NAssumption DEF Bits!Cells
<1>2. PlaceOf(cell) \in Bits!Cells
  BY <1>1, TransposedPlaces DEF PlaceOf
<1>3. ~ Bits!reverse
  BY DEF BitTyping, Bits!reverse, Bits!Keys
<1>4. ASSUME NEW b \in Bits!Cells PROVE Bits!offset(b) = cell <=> PlaceOf(cell) = b
  BY <1>1, <1>3, TransposedPlaces DEF PlaceOf, Bits!offset
<1>5. Len(Bits!Symbols) \in Nat
  BY LenProperties DEF BitTyping
<1>6. Bits!TypedFor(cell) = IF 1 + PlaceOf(cell) <= Len(Bits!Symbols)
                            THEN Bits!Symbols[1 + PlaceOf(cell)] ELSE Wild
  BY DEF Bits!TypedFor, PlaceOf, Bits!transpose
<1>7. /\ 1 + PlaceOf(cell) <= Len(Bits!Symbols) <=> PlaceOf(cell) < Len(Bits!Symbols)
      /\ 1 + PlaceOf(cell) = PlaceOf(cell) + 1
  <2> DEFINE place == PlaceOf(cell)
             n == Len(Bits!Symbols)
  <2>1. place \in Int /\ n \in Int
    BY <1>1, <1>2, <1>5
  <2> HIDE DEF place, n
  <2>2. (1 + place <= n <=> place < n) /\ 1 + place = place + 1
    BY <2>1
  <2> QED
    BY <2>2 DEF place, n
<1> QED
  BY <1>2, <1>4, <1>6, <1>7

\* What a cell can be asked to be, when no character is refused.
LEMMA SymbolsAreBits ==
  ASSUME BitTyping, \A i \in 1 .. bit_count : Bits!Symbols[i] # Other,
         NEW cell \in Bits!Cells
  PROVE  Bits!TypedFor(cell) \in {0, 1, Wild}
<1> DEFINE place == PlaceOf(cell)
           symbols == Bits!Symbols
<1>1. place \in Nat
  BY PlaceFacts, NAssumption DEF Bits!Cells
<1>2. Len(symbols) = bit_count /\ bit_count \in Nat /\ symbols \in Seq(TypedBits \ {Space})
  BY LenProperties DEF BitTyping
<1>3. Bits!TypedFor(cell) = IF place < bit_count THEN symbols[place + 1] ELSE Wild
  BY <1>2, PlaceFacts
<1> HIDE DEF place, symbols
<1>4. CASE place < bit_count
  <2>1. place + 1 \in 1 .. Len(symbols) /\ place + 1 \in 1 .. bit_count
    BY <1>1, <1>2, <1>4
  <2>2. symbols[place + 1] \in TypedBits \ {Space}
    BY <1>2, <2>1, ElementOfSeq
  <2>3. symbols[place + 1] # Other
    BY <2>1 DEF symbols
  <2> QED
    BY <1>3, <1>4, <2>2, <2>3, BitsAssumption
<1>5. CASE ~ (place < bit_count)
  BY <1>3, <1>5
<1> QED
  BY <1>4, <1>5

LEMMA SymbolsNow ==
  Bits!Symbols = SymbolsOf(typed) /\ (Bits!Symbols)' = SymbolsOf(typed')
BY DEF Bits!Symbols, SymbolsOf

\* Before anything is typed, every cell may be either.
LEMMA NothingTyped ==
  ASSUME NEW cell \in Bits!Cells
  PROVE  /\ Len(Bits!Symbols) = 0 => Bits!TypedFor(cell) = Wild
         /\ Len((Bits!Symbols)') = 0 => Bits!TypedFor(cell)' = Wild
<1>1. cell \in 0 .. 2 * N - 1 /\ N \in Nat
  BY NAssumption DEF Bits!Cells
<1>2. 2 * (cell % N) + cell \div N \in 0 .. 2 * N - 1
  BY <1>1, TransposedPlaces
<1>3. ~ (1 + cell <= 0) /\ ~ (1 + (2 * (cell % N) + cell \div N) <= 0)
  <2> DEFINE place == 2 * (cell % N) + cell \div N
  <2>1. place \in Nat /\ cell \in Nat
    BY <1>1, <1>2
  <2> HIDE DEF place
  <2>2. ~ (1 + cell <= 0) /\ ~ (1 + place <= 0)
    BY <2>1
  <2> QED
    BY <2>2 DEF place
<1>4. /\ ~ (1 + (IF "t" \in options THEN 2 * (cell % N) + cell \div N ELSE cell) <= 0)
      /\ ~ (1 + (IF "t" \in options' THEN 2 * (cell % N) + cell \div N ELSE cell) <= 0)
  BY <1>3
<1> QED
  BY <1>4 DEF Bits!TypedFor

LEMMA BitsStart ==
  ASSUME Bits!BitsInit
  PROVE  BitInv
<1>1. options = {} /\ typed = <<>> /\ bit_count = 0 /\ bits_pc = "options"
  BY DEF Bits!BitsInit
<1>2. /\ Len(Bits!Symbols) = 0 /\ BitTyping
      /\ \A cell \in Bits!Cells : Bits!TypedFor(cell) = Wild
  <2>1. Bits!Symbols = <<>>
    BY <1>1, SymbolsNow, NoSymbols
  <2>2. BitTyping /\ Len(Bits!Symbols) = 0
    BY <1>1, <2>1, EmptySeq DEF BitTyping
  <2> QED
    BY <2>2, NothingTyped
<1>3. zeros = {} /\ ones = {} /\ N \in Nat
  BY NAssumption DEF Bits!BitsInit
<1>4. BitsHold
  BY <1>1, <1>2, <1>3, BitsAssumption DEF BitsHold
<1>5. DOMAIN Bits!Symbols = {}
  BY <1>2, LenProperties DEF BitTyping
<1>6. BitsAreRead
  BY <1>1, <1>2, <1>3, <1>5 DEF BitsAreRead, Bits!BitsAreRead
<1> QED
  BY <1>2, <1>4, <1>6 DEF BitInv

LEMMA BitsStay ==
  ASSUME BitInv, UNCHANGED bitVars
  PROVE  BitInv'
<1>1. /\ bits_pc' = bits_pc /\ options' = options /\ typed' = typed
      /\ bit_count' = bit_count /\ zeros' = zeros /\ ones' = ones
  BY DEF bitVars
<1>2. (Bits!Symbols)' = Bits!Symbols
  BY <1>1 DEF Bits!Symbols
<1>3. /\ \A cell : Bits!TypedFor(cell)' = Bits!TypedFor(cell)
      /\ \A cell : Bits!Shown(cell)' = Bits!Shown(cell)
  BY <1>1, <1>2 DEF Bits!TypedFor, Bits!Shown
<1> QED
  BY <1>1, <1>2, <1>3 DEF BitInv, BitTyping, BitsHold, BitsAreRead, Bits!BitsAreRead

\* A string is refused for a character, or for being longer than the goal.
LEMMA BitsKept ==
  ASSUME BitTyping, BitsHold, bits_pc \in {"options", "bits"}
  PROVE  ~ (\/ Len(Bits!Symbols) > 2 * N
            \/ \E i \in DOMAIN Bits!Symbols : Bits!Symbols[i] = Other)
<1>1. /\ bit_count \in Nat /\ Len(Bits!Symbols) = bit_count
      /\ DOMAIN Bits!Symbols = 1 .. bit_count
  BY LenProperties DEF BitTyping
<1>2. bit_count <= 2 * N /\ N \in Nat /\ \A i \in 1 .. bit_count : Bits!Symbols[i] # Other
  BY NAssumption DEF BitsHold
<1> QED
  BY <1>1, <1>2

LEMMA BitsOthersKeep ==
  ASSUME BitInv, Bits!GiveOption \/ Bits!NoFunction \/ Bits!Solve
  PROVE  BitInv'
<1>1. /\ BitTyping /\ BitsHold /\ bits_pc \in {"options", "bits"}
      /\ typed' = typed /\ bit_count' = bit_count
      /\ (Bits!Symbols)' = Bits!Symbols
  BY DEF BitInv, Bits!GiveOption, Bits!NoFunction, Bits!Solve, Bits!Symbols
<1>2. options' \subseteq Bits!Keys
  BY <1>1 DEF BitTyping, Bits!GiveOption, Bits!NoFunction, Bits!Solve
<1>3. ~ (\/ Len(Bits!Symbols) > 2 * N
         \/ \E i \in DOMAIN Bits!Symbols : Bits!Symbols[i] = Other)
  BY <1>1, BitsKept
<1>4. CASE Bits!GiveOption \/ Bits!NoFunction
  <2>1. /\ bits_pc = "options" /\ bits_pc' \in {"options", "usage"}
        /\ zeros' = zeros /\ ones' = ones /\ typed = <<>>
    BY <1>1, <1>4 DEF Bits!GiveOption, Bits!NoFunction, BitTyping
  <2>2. bit_count = 0
    BY <1>1, <2>1, SymbolsNow, NoSymbols, EmptySeq DEF BitTyping
  <2>3. BitTyping'
    BY <1>1, <1>2, <2>1 DEF BitTyping
  <2>4. \A cell \in Bits!Cells :
          Bits!TypedFor(cell) = Wild /\ Bits!TypedFor(cell)' = Wild
    BY <1>1, <1>2, <2>1, <2>2, NothingTyped DEF BitTyping
  <2>5. zeros = {} /\ ones = {}
    BY <1>1, <2>4, BitsAssumption DEF BitsHold
  <2>6. BitsHold'
    BY <1>1, <2>1, <2>4, <2>5, BitsAssumption DEF BitsHold
  <2>7. BitsAreRead'
    BY <1>1, <1>3, <2>1 DEF BitsAreRead, Bits!BitsAreRead
  <2> QED
    BY <2>3, <2>6, <2>7 DEF BitInv
<1>5. CASE Bits!Solve
  <2>1. /\ bits_pc' = "solving" /\ options' = options
        /\ zeros' = zeros \ ones /\ ones' = ones \ zeros
    BY <1>5 DEF Bits!Solve
  <2>2. BitTyping'
    BY <1>1, <2>1 DEF BitTyping
  <2>3. ASSUME NEW cell \in Bits!Cells
        PROVE  Bits!Shown(cell)' = Bits!TypedFor(cell)'
    <3>1. Bits!TypedFor(cell)' = Bits!TypedFor(cell)
      BY <1>1, <2>1 DEF Bits!TypedFor
    <3>2. Bits!TypedFor(cell) \in {0, 1, Wild}
      BY <1>1, SymbolsAreBits DEF BitsHold
    <3>3. /\ cell \in zeros' <=> Bits!TypedFor(cell) = 0
          /\ cell \in ones' <=> Bits!TypedFor(cell) = 1
      BY <1>1, <2>1 DEF BitsHold
    <3> QED
      BY <3>1, <3>2, <3>3 DEF Bits!Shown
  <2>4. BitsAreRead'
    BY <1>1, <1>3, <2>1, <2>3 DEF BitsAreRead, Bits!BitsAreRead
  <2> QED
    BY <2>1, <2>2, <2>4 DEF BitInv, BitsHold
<1> QED
  BY <1>4, <1>5

\* A symbol more than before.
LEMMA NextSymbol ==
  ASSUME NEW S, NEW symbols \in Seq(S), NEW c \in S
  PROVE  /\ Append(symbols, c) \in Seq(S)
         /\ Len(Append(symbols, c)) = Len(symbols) + 1
         /\ Len(symbols) \in Nat
         /\ Append(symbols, c)[Len(symbols) + 1] = c
         /\ \A i \in 1 .. Len(symbols) : Append(symbols, c)[i] = symbols[i]
BY LenProperties

\* The next bit goes to the cell that its symbol is typed for.
LEMMA ReadingKeepsBits ==
  ASSUME BitInv, Bits!ReadBit
  PROVE  BitInv'
<1>1. /\ BitTyping /\ BitsHold /\ bits_pc \in {"options", "bits"} /\ options' = options
  BY DEF BitInv, Bits!ReadBit
<1>2. PICK c \in TypedBits :
        LET cell == Bits!offset(bit_count)
            count == IF c = Space THEN bit_count ELSE bit_count + 1
        IN  /\ typed' = Append(typed, c)
            /\ zeros' = (IF c = 0 THEN zeros \cup {cell} ELSE zeros)
            /\ ones' = (IF c = 1 THEN ones \cup {cell} ELSE ones)
            /\ bit_count' = count
            /\ bits_pc' = IF c = Other \/ count > 2 * N THEN "exited" ELSE "bits"
  BY DEF Bits!ReadBit
<1> DEFINE symbols == Bits!Symbols
<1>3. /\ typed \in Seq(TypedBits) /\ symbols \in Seq(TypedBits \ {Space})
      /\ Len(symbols) = bit_count /\ bit_count \in Nat
      /\ options \subseteq Bits!Keys
  BY <1>1, LenProperties DEF BitTyping
<1>4. typed' \in Seq(TypedBits) /\ options' \subseteq Bits!Keys
  BY <1>1, <1>2, <1>3
<1>5. (Bits!Symbols)' = IF c = Space THEN symbols ELSE Append(symbols, c)
  BY <1>2, <1>3, SymbolsNow, OneCharacter
<1>6. N \in Nat /\ bit_count <= 2 * N /\ \A i \in 1 .. bit_count : symbols[i] # Other
  BY <1>1, NAssumption DEF BitsHold
<1>7. CASE c = Space
  <2>1. /\ (Bits!Symbols)' = symbols /\ bit_count' = bit_count
        /\ zeros' = zeros /\ ones' = ones /\ bits_pc' = "bits"
    <3>1. c # 0 /\ c # 1 /\ c # Other
      BY <1>7, BitsAssumption
    <3>2. ~ (bit_count > 2 * N)
      BY <1>3, <1>6
    <3> HIDE DEF symbols
    <3> QED
      BY <1>2, <1>5, <1>7, <3>1, <3>2
  <2>2. \A cell : Bits!TypedFor(cell)' = Bits!TypedFor(cell)
    BY <1>1, <2>1 DEF Bits!TypedFor
  <2>3. BitTyping'
    BY <1>3, <1>4, <2>1 DEF BitTyping
  <2>4. BitsHold'
    BY <1>1, <2>1, <2>2 DEF BitsHold
  <2>5. BitsAreRead'
    BY <1>1, <2>1, BitsKept DEF BitsAreRead, Bits!BitsAreRead
  <2> QED
    BY <2>3, <2>4, <2>5 DEF BitInv
<1>8. CASE c # Space
  <2>1. c \in TypedBits \ {Space} /\ (Bits!Symbols)' = Append(symbols, c)
    BY <1>5, <1>8
  <2> DEFINE longer == Append(symbols, c)
  <2>2. /\ longer \in Seq(TypedBits \ {Space}) /\ Len(longer) = bit_count + 1
        /\ longer[bit_count + 1] = c /\ \A i \in 1 .. bit_count : longer[i] = symbols[i]
    <3> HIDE DEF symbols
    <3> QED
      BY <1>3, <2>1, NextSymbol
  <2>3. bit_count' = bit_count + 1
    BY <1>2, <1>8
  <2> HIDE DEF longer
  <2>4. BitTyping'
    <3>1. bits_pc' \notin {"options", "usage"}
      BY <1>2
    <3> QED
      BY <1>4, <2>1, <2>2, <2>3, <3>1 DEF BitTyping, longer
  <2>5. DOMAIN longer = 1 .. bit_count + 1
    BY <2>2, LenProperties
  <2>6. CASE c = Other \/ bit_count + 1 > 2 * N
    <3>1. bits_pc' = "exited"
      BY <1>2, <1>8, <2>6
    <3>2. \/ Len(longer) > 2 * N \/ \E i \in DOMAIN longer : longer[i] = Other
      <4>1. bit_count + 1 \in DOMAIN longer
        BY <1>3, <2>5
      <4> QED
        BY <2>2, <2>6, <4>1
    <3>3. BitsAreRead'
      BY <2>1, <3>1, <3>2 DEF BitsAreRead, Bits!BitsAreRead, longer
    <3> QED
      BY <2>4, <3>1, <3>3 DEF BitInv, BitsHold
  <2>7. CASE c # Other /\ ~ (bit_count + 1 > 2 * N)
    <3>1. /\ bits_pc' = "bits" /\ bit_count \in Bits!Cells
          /\ zeros' = (IF c = 0 THEN zeros \cup {Bits!offset(bit_count)} ELSE zeros)
          /\ ones' = (IF c = 1 THEN ones \cup {Bits!offset(bit_count)} ELSE ones)
      BY <1>2, <1>3, <1>6, <1>8, <2>7 DEF Bits!Cells
    <3>2. \A i \in 1 .. bit_count + 1 : longer[i] # Other
      BY <1>3, <1>6, <2>2, <2>7
    <3>3. Bits!offset(bit_count) \in Bits!Cells
      BY <1>1, <3>1, OffsetType
    <3>4. ASSUME NEW cell \in Bits!Cells
          PROVE  /\ Bits!TypedFor(cell)' = IF cell = Bits!offset(bit_count) THEN c
                                           ELSE Bits!TypedFor(cell)
                 /\ cell = Bits!offset(bit_count) => Bits!TypedFor(cell) = Wild
      <4> DEFINE place == PlaceOf(cell)
      <4>1. place \in Nat /\ (cell = Bits!offset(bit_count) <=> place = bit_count)
        <5>1. \A b \in Bits!Cells : b \in Nat
          BY NAssumption DEF Bits!Cells
        <5>2. /\ PlaceOf(cell) \in Bits!Cells
              /\ Bits!offset(bit_count) = cell <=> PlaceOf(cell) = bit_count
          BY <1>1, <3>1, PlaceFacts
        <5> QED
          BY <5>1, <5>2
      <4>2. Bits!TypedFor(cell) = IF place < bit_count THEN symbols[place + 1] ELSE Wild
        BY <1>1, <1>3, PlaceFacts
      <4>3. Bits!TypedFor(cell)' = IF 1 + place <= Len(longer) THEN longer[1 + place]
                                   ELSE Wild
        BY <1>1, <2>1 DEF Bits!TypedFor, PlaceOf, Bits!transpose, longer
      <4> HIDE DEF place, symbols
      <4>4. CASE place = bit_count
        BY <1>3, <2>2, <4>1, <4>2, <4>3, <4>4
      <4>5. CASE place < bit_count
        <5>1. 1 + place = place + 1 /\ place + 1 \in 1 .. bit_count /\ 1 + place <= Len(longer)
          BY <1>3, <2>2, <4>1, <4>5
        <5> QED
          BY <1>3, <2>2, <4>1, <4>2, <4>3, <4>5, <5>1
      <4>6. CASE place > bit_count
        BY <1>3, <2>2, <4>1, <4>2, <4>3, <4>6
      <4> QED
        BY <1>3, <4>1, <4>4, <4>5, <4>6
    <3>5. /\ zeros = {cell \in Bits!Cells : Bits!TypedFor(cell) = 0}
          /\ ones = {cell \in Bits!Cells : Bits!TypedFor(cell) = 1}
      BY <1>1 DEF BitsHold
    <3>6. BitsHold'
      <4>1. /\ bit_count' <= 2 * N
            /\ \A i \in 1 .. bit_count' : (Bits!Symbols)'[i] # Other
        BY <1>3, <1>6, <2>1, <2>3, <2>7, <3>2 DEF longer
      <4>2. \A cell \in Bits!Cells :
              /\ cell \in zeros' <=> Bits!TypedFor(cell)' = 0
              /\ cell \in ones' <=> Bits!TypedFor(cell)' = 1
        BY <3>1, <3>4, <3>5, BitsAssumption
      <4>3. zeros' \subseteq Bits!Cells /\ ones' \subseteq Bits!Cells
        BY <3>1, <3>3, <3>5
      <4>4. /\ zeros' = {cell \in Bits!Cells : Bits!TypedFor(cell)' = 0}
            /\ ones' = {cell \in Bits!Cells : Bits!TypedFor(cell)' = 1}
        BY <4>2, <4>3
      <4> QED
        BY <4>1, <4>4 DEF BitsHold
    <3>7. BitsAreRead'
      <4>1. Len(longer) <= 2 * N
        BY <1>3, <1>6, <2>2, <2>7
      <4> QED
        BY <2>1, <2>2, <2>5, <3>1, <3>2, <4>1, <1>6 DEF BitsAreRead, Bits!BitsAreRead, longer
    <3> QED
      BY <2>4, <3>6, <3>7 DEF BitInv
  <2> QED
    BY <2>6, <2>7
<1> QED
  BY <1>7, <1>8

THEOREM BitsAlwaysRead == ProgramSpec => []BitsAreRead
<1>1. ProgramInit => BitInv
  BY BitsStart DEF ProgramInit
<1>2. BitInv /\ [ProgramNext]_programVars => BitInv'
  <2> SUFFICES ASSUME BitInv, [ProgramNext]_programVars PROVE BitInv'
    OBVIOUS
  <2>1. CASE Bits!BitsStep
    BY <2>1, BitsOthersKeep, ReadingKeepsBits DEF Bits!BitsStep
  <2>2. CASE UNCHANGED bitVars
    BY <2>2, BitsStay
  <2> QED
    BY <2>1, <2>2 DEF ProgramNext, HexCommand, DbinCommand, RandomSearch, Check,
                      programVars
<1>3. BitInv => BitsAreRead
  BY DEF BitInv
<1> QED
  BY <1>1, <1>2, <1>3, PTL DEF ProgramSpec

-----------------------------------------------------------------------------
(* Goals of the subcommand search-hlp-random.                              *)

RandomDigits == 0 .. RandomN - 1

ValuesOf(s) == {s[i] : i \in DOMAIN s}

\* The instance of the random goals has the sizes of sets.
LEMMA SameCardinality == \A S : Draws!Cardinality(S) = Cardinality(S)
BY DEF Draws!Cardinality, Cardinality

\* A bounded set has a member with as many members below as one likes.
LEMMA MemberExists ==
  ASSUME NEW r \in Nat, NEW S \in SUBSET (0 .. r - 1),
         NEW value \in Nat, value < Cardinality(S)
  PROVE  \E d \in S : Cardinality({e \in S : e < d}) = value
<1> DEFINE Below(m) == {e \in S : e < m}
           T == {m \in 0 .. r : Cardinality(Below(m)) <= value}
<1>1. SUFFICES ASSUME \A d \in S : Cardinality(Below(d)) # value
               PROVE  FALSE
  OBVIOUS
<1>2. IsFiniteSet(S) /\ \A e \in S : e \in Int /\ e < r /\ ~ (e < 0)
  <2>1. IsFiniteSet(0 .. r - 1)
    BY FS_Interval
  <2>2. IsFiniteSet(S)
    BY <2>1, FS_Subset, Zenon
  <2>3. \A e \in 0 .. r - 1 : e \in Int /\ e < r /\ ~ (e < 0)
    OBVIOUS
  <2> QED
    BY <2>2, <2>3, Zenon
<1>3. \A m : IsFiniteSet(Below(m)) /\ Cardinality(Below(m)) \in Nat
  BY <1>2, FS_Subset, FS_CardinalityType
<1>4. 0 \in T
  <2>1. Below(0) = {}
    BY <1>2, Zenon
  <2> QED
    BY <2>1, FS_EmptySet
<1>5. ASSUME NEW m \in 1 .. r, m - 1 \in T PROVE m \in T
  <2>1. Cardinality(Below(m - 1)) <= value /\ Cardinality(Below(m - 1)) \in Nat
    BY <1>3, <1>5
  <2>2. CASE m - 1 \in S
    <3>1. \A e \in S : e < m <=> e < m - 1 \/ e = m - 1
      BY <1>2
    <3>2. ~ (m - 1 < m - 1)
      OBVIOUS
    <3>3. Below(m) = Below(m - 1) \cup {m - 1} /\ m - 1 \notin Below(m - 1)
      BY <2>2, <3>1, <3>2, Zenon
    <3> HIDE DEF Below
    <3>4. Cardinality(Below(m)) = Cardinality(Below(m - 1)) + 1
      BY <1>3, <3>3, FS_AddElement
    <3>5. Cardinality(Below(m - 1)) # value
      BY <1>1, <2>2 DEF Below
    <3>6. Cardinality(Below(m)) <= value
      BY <2>1, <3>4, <3>5
    <3> QED
      BY <3>6
  <2>3. CASE m - 1 \notin S
    <3>1. \A e \in S : e < m <=> e < m - 1
      BY <1>2, <2>3
    <3>2. Below(m) = Below(m - 1)
      BY <3>1, Zenon
    <3> QED
      BY <2>1, <3>2
  <2> QED
    BY <2>2, <2>3
<1>6. r \in T
  <2> HIDE DEF T
  <2>1. 0 .. r \subseteq T
    BY <1>4, <1>5, InductionTo, Zenon
  <2> QED
    BY <2>1
<1>7. Below(r) = S
  BY <1>2, Zenon
<1>8. Cardinality(S) \in Nat
  BY <1>2, FS_CardinalityType
<1>9. Cardinality(S) <= value
  BY <1>6, <1>7
<1> QED
  BY <1>8, <1>9

\* An item in front of a sequence.
LEMMA InFront ==
  ASSUME NEW S, NEW s \in Seq(S), NEW x \in S
  PROVE  /\ <<x>> \o s \in Seq(S)
         /\ Len(<<x>> \o s) = Len(s) + 1 /\ Len(s) \in Nat
         /\ ValuesOf(<<x>> \o s) = ValuesOf(s) \cup {x}
<1> DEFINE l == <<x>> \o s
           k == Len(s)
<1>1. <<x>> \in Seq(S) /\ Len(<<x>>) = 1 /\ <<x>>[1] = x
  OBVIOUS
<1>2. k \in Nat /\ DOMAIN s = 1 .. k
  BY LenProperties
<1>3. /\ l \in Seq(S) /\ Len(l) = 1 + k
      /\ \A i \in 1 .. 1 + k : l[i] = IF i <= 1 THEN x ELSE s[i - 1]
  BY <1>1, <1>2, ConcatProperties
<1>4. DOMAIN l = 1 .. k + 1
  BY <1>2, <1>3, LenProperties
<1> HIDE DEF l, k
<1>5. \A i \in 1 .. k : i + 1 \in 1 .. k + 1 /\ l[i + 1] = s[i]
  BY <1>2, <1>3
<1>6. 1 \in 1 .. k + 1 /\ l[1] = x
  BY <1>2, <1>3
<1>7. \A i \in 1 .. k + 1 : l[i] = x \/ (i - 1 \in 1 .. k /\ l[i] = s[i - 1])
  BY <1>2, <1>3
<1>8. ValuesOf(l) \subseteq ValuesOf(s) \cup {x}
  BY <1>2, <1>4, <1>7 DEF ValuesOf
<1>9. ValuesOf(s) \cup {x} \subseteq ValuesOf(l)
  BY <1>2, <1>4, <1>5, <1>6 DEF ValuesOf
<1> QED
  BY <1>2, <1>3, <1>8, <1>9 DEF l, k

\* The digits drawn so far are as many different ones.
Drawn(count) ==
  /\ result \in Seq(RandomDigits) /\ Len(result) <= count
  /\ used = ValuesOf(result) /\ Cardinality(used) = Len(result)

\* A map has at least the outputs that were drawn for it, and no other.
MapHolds ==
  /\ kperm \in Seq(RandomDigits) /\ Len(kperm) = want
  /\ Cardinality(ValuesOf(kperm)) = want
  /\ random_map \in Seq(RandomDigits) /\ Len(random_map) <= RandomN
  /\ ValuesOf(random_map) = ValuesOf(kperm)

RandomInv ==
  /\ want \in 0 .. RandomN
  /\ phase = "any" =>
       want = 0 /\ dest \in Seq(RandomDigits) /\ Len(dest) < RandomN
  /\ phase = "values" => want # 0 /\ Drawn(want)
  /\ phase = "fill" => want # 0 /\ MapHolds /\ result = <<>> /\ used = {}
  /\ phase = "order" =>
       want # 0 /\ MapHolds /\ Len(random_map) = RandomN /\ Drawn(RandomN)
  /\ RandomGoalHasGroup

LEMMA NothingDrawn ==
  /\ <<>> \in Seq(RandomDigits) /\ Len(<<>>) = 0 /\ ValuesOf(<<>>) = {}
  /\ Cardinality({}) = 0
<1>1. <<>> \in Seq(RandomDigits) /\ Len(<<>>) = 0
  BY EmptySeq
<1>2. DOMAIN <<>> = {}
  OBVIOUS
<1> QED
  BY <1>1, <1>2, FS_EmptySet DEF ValuesOf

LEMMA RandomStarts ==
  ASSUME Draws!RandomInit
  PROVE  RandomInv
<1>1. /\ want \in 0 .. RandomN /\ phase = (IF want = 0 THEN "any" ELSE "values")
      /\ used = {} /\ result = <<>> /\ dest = <<>>
  BY DEF Draws!RandomInit
<1>2. 0 < RandomN /\ 0 <= want
  BY <1>1, RandomNAssumption
<1>3. phase # "searching" /\ phase # "fill" /\ phase # "order"
  BY <1>1
<1> QED
  BY <1>1, <1>2, <1>3, NothingDrawn
  DEF RandomInv, Drawn, RandomGoalHasGroup, Draws!RandomGoalHasGroup

LEMMA RandomStays ==
  ASSUME RandomInv, UNCHANGED randomVars
  PROVE  RandomInv'
BY DEF randomVars, RandomInv, Drawn, MapHolds, RandomGoalHasGroup,
       Draws!RandomGoalHasGroup

\* A digit more is drawn, a new one.
LEMMA DrawFacts ==
  ASSUME NEW count \in 0 .. RandomN, Drawn(count), Len(result) < count,
         Draws!Draw(RandomN - Len(result))
  PROVE  Drawn(count)'
<1>1. /\ result \in Seq(RandomDigits) /\ Len(result) \in Nat
      /\ used = ValuesOf(result) /\ Cardinality(used) = Len(result)
      /\ DOMAIN result = 1 .. Len(result)
  BY LenProperties DEF Drawn
<1>2. PICK value \in 0 .. RandomN - Len(result) - 1 :
        /\ result' = <<Draws!UnusedDigit(value)>> \o result
        /\ used' = used \cup {Draws!UnusedDigit(value)}
  BY DEF Draws!Draw
<1> DEFINE unused == RandomDigits \ used
<1>3. RandomN \in Nat /\ IsFiniteSet(RandomDigits) /\ Cardinality(RandomDigits) = RandomN
  <2>1. RandomN \in Nat \ {0} /\ 0 \in Int /\ RandomN - 1 \in Int
    BY RandomNAssumption
  <2>2. IsFiniteSet(RandomDigits)
    BY <2>1, FS_Interval DEF RandomDigits
  <2>3. Cardinality(RandomDigits) = IF 0 > RandomN - 1 THEN 0 ELSE RandomN - 1 - 0 + 1
    BY <2>1, FS_Interval DEF RandomDigits
  <2> QED
    BY <2>1, <2>2, <2>3
<1>4. used \subseteq RandomDigits /\ IsFiniteSet(used)
  <2>1. used \subseteq RandomDigits
    BY <1>1, ElementOfSeq DEF ValuesOf
  <2> QED
    BY <1>3, <2>1, FS_Subset
<1>5. Cardinality(unused) = RandomN - Len(result)
  <2>1. RandomDigits \cap used = used
    BY <1>4
  <2>2. Cardinality(unused) = Cardinality(RandomDigits) - Cardinality(RandomDigits \cap used)
    BY <1>3, FS_Difference
  <2> QED
    BY <1>1, <1>3, <2>1, <2>2
<1>6. Draws!UnusedDigit(value) \in unused
  <2>1. value \in Nat /\ value < RandomN - Len(result)
    BY <1>1, <1>3
  <2>2. unused \in SUBSET (0 .. RandomN - 1)
    BY DEF RandomDigits
  <2>3. value < Cardinality(unused) /\ RandomN \in Nat
    BY <1>3, <1>5, <2>1
  <2> HIDE DEF unused
  <2>4. \E d \in unused : Cardinality({e \in unused : e < d}) = value
    BY <2>1, <2>2, <2>3, MemberExists
  <2>5. \E d \in unused : Draws!Cardinality({e \in unused : e < d}) = value
    BY <2>4, SameCardinality
  <2>6. Draws!UnusedDigit(value) =
          CHOOSE d \in unused : Draws!Cardinality({e \in unused : e < d}) = value
    BY DEF unused, RandomDigits, Draws!UnusedDigit
  <2> QED
    BY <2>5, <2>6, Zenon
<1> DEFINE digit == Draws!UnusedDigit(value)
<1> HIDE DEF digit
<1>7. /\ result' = <<digit>> \o result /\ used' = used \cup {digit}
      /\ digit \in RandomDigits /\ digit \notin used
  BY <1>2, <1>6 DEF digit
<1>8. /\ result' \in Seq(RandomDigits) /\ Len(result') = Len(result) + 1
      /\ ValuesOf(result') = ValuesOf(result) \cup {digit}
  BY <1>1, <1>7, InFront
<1>9. Cardinality(used') = Cardinality(used) + 1
  BY <1>4, <1>7, FS_AddElement
<1>10. Len(result') <= count
  BY <1>1, <1>8
<1> QED
  BY <1>1, <1>7, <1>8, <1>9, <1>10 DEF Drawn, ValuesOf

LEMMA AnyDigitKeeps ==
  ASSUME RandomInv, Draws!AnyDigit
  PROVE  RandomInv'
<1>1. PICK digit \in RandomDigits : dest' = Append(dest, digit)
  BY DEF Draws!AnyDigit, RandomDigits
<1>2. /\ phase = "any" /\ want = 0 /\ dest \in Seq(RandomDigits) /\ Len(dest) < RandomN
      /\ want' = want /\ want \in 0 .. RandomN
      /\ phase' = IF Len(dest') = RandomN THEN "searching" ELSE "any"
  BY DEF Draws!AnyDigit, RandomInv
<1>3. /\ dest' \in Seq(RandomDigits) /\ Len(dest') = Len(dest) + 1 /\ Len(dest) \in Nat
  BY <1>1, <1>2, LenProperties
<1>4. Len(dest') <= RandomN
  BY <1>2, <1>3, RandomNAssumption
<1>5. \A i \in DOMAIN dest' : dest'[i] \in 0 .. RandomN - 1
  BY <1>3, LenProperties, ElementOfSeq DEF RandomDigits
<1>6. phase' = "any" => Len(dest') < RandomN
  BY <1>2, <1>3, <1>4, RandomNAssumption
<1>7. RandomGoalHasGroup'
  BY <1>2, <1>5 DEF RandomGoalHasGroup, Draws!RandomGoalHasGroup
<1> QED
  BY <1>2, <1>3, <1>6, <1>7 DEF RandomInv

LEMMA DrawingKeeps ==
  ASSUME RandomInv, Draws!DrawValue \/ Draws!DrawOrder
  PROVE  RandomInv'
<1>1. /\ want' = want /\ phase' = phase /\ kperm' = kperm /\ random_map' = random_map
      /\ dest' = dest /\ phase \in {"values", "order"}
      /\ Draws!Draw(RandomN - Len(result))
  BY DEF Draws!DrawValue, Draws!DrawOrder
<1>2. CASE phase = "values"
  <2>1. Drawn(want) /\ Len(result) < want /\ want \in 0 .. RandomN
    BY <1>2 DEF RandomInv, Draws!DrawValue, Draws!DrawOrder
  <2>2. Drawn(want)'
    <3>1. ASSUME NEW count, count = want PROVE Drawn(count)'
      BY <1>1, <2>1, <3>1, DrawFacts
    <3> QED
      BY <1>1, <3>1 DEF Drawn
  <2> QED
    BY <1>1, <1>2, <2>2
    DEF RandomInv, RandomGoalHasGroup, Draws!RandomGoalHasGroup
<1>3. CASE phase = "order"
  <2>1. /\ Drawn(RandomN) /\ Len(result) < RandomN /\ RandomN \in 0 .. RandomN
    BY <1>3, RandomNAssumption DEF RandomInv, Draws!DrawValue, Draws!DrawOrder
  <2>2. Drawn(RandomN)'
    BY <1>1, <2>1, DrawFacts
  <2> QED
    BY <1>1, <1>3, <2>2
    DEF RandomInv, MapHolds, RandomGoalHasGroup, Draws!RandomGoalHasGroup
<1> QED
  BY <1>1, <1>2, <1>3

LEMMA ValuesDrawnKeeps ==
  ASSUME RandomInv, Draws!ValuesDrawn
  PROVE  RandomInv'
<1>1. /\ phase = "values" /\ Len(result) = want /\ phase' = "fill" /\ want' = want
      /\ kperm' = result /\ random_map' = result /\ result' = <<>> /\ used' = {}
  BY DEF Draws!ValuesDrawn
<1>2. /\ want # 0 /\ want \in 0 .. RandomN /\ result \in Seq(RandomDigits)
      /\ Cardinality(ValuesOf(result)) = want
  BY <1>1 DEF RandomInv, Drawn
<1>3. want <= RandomN
  BY <1>2
<1>4. MapHolds'
  BY <1>1, <1>2, <1>3 DEF MapHolds, ValuesOf
<1> QED
  BY <1>1, <1>2, <1>4 DEF RandomInv, RandomGoalHasGroup, Draws!RandomGoalHasGroup

\* Filling up adds no other value.
LEMMA FillKeeps ==
  ASSUME RandomInv, Draws!Fill
  PROVE  RandomInv'
<1>1. /\ phase = "fill" /\ phase' = "fill" /\ want' = want /\ used' = used
      /\ result' = result /\ kperm' = kperm /\ Len(random_map) < RandomN
  BY DEF Draws!Fill
<1>2. want # 0 /\ want \in 0 .. RandomN /\ MapHolds /\ result = <<>> /\ used = {}
  BY <1>1 DEF RandomInv
<1>3. PICK index \in 0 .. want - 1 : random_map' = <<kperm[index + 1]>> \o random_map
  BY DEF Draws!Fill
<1> DEFINE x == kperm[index + 1]
<1>4. x \in RandomDigits /\ x \in ValuesOf(kperm)
  <2>1. /\ kperm \in Seq(RandomDigits) /\ Len(kperm) = want
        /\ DOMAIN kperm = 1 .. want /\ want \in Nat
    BY <1>2, LenProperties DEF MapHolds
  <2>2. index + 1 \in 1 .. want
    BY <2>1
  <2> QED
    BY <2>1, <2>2, ElementOfSeq DEF ValuesOf
<1>5. /\ random_map' \in Seq(RandomDigits) /\ Len(random_map') = Len(random_map) + 1
      /\ Len(random_map) \in Nat
      /\ ValuesOf(random_map') = ValuesOf(random_map) \cup {x}
  <2>1. random_map \in Seq(RandomDigits)
    BY <1>2 DEF MapHolds
  <2> HIDE DEF x
  <2> QED
    BY <1>3, <1>4, <2>1, InFront DEF x
<1>6. Len(random_map') <= RandomN
  BY <1>1, <1>5, RandomNAssumption
<1>7. ValuesOf(random_map') = ValuesOf(kperm)
  BY <1>2, <1>4, <1>5 DEF MapHolds
<1>8. MapHolds'
  BY <1>1, <1>2, <1>5, <1>6, <1>7 DEF MapHolds, ValuesOf
<1> QED
  BY <1>1, <1>2, <1>8 DEF RandomInv, RandomGoalHasGroup, Draws!RandomGoalHasGroup

LEMMA FilledKeeps ==
  ASSUME RandomInv, Draws!Filled
  PROVE  RandomInv'
<1>1. /\ phase = "fill" /\ phase' = "order" /\ Len(random_map) = RandomN
      /\ want' = want /\ used' = used /\ result' = result /\ kperm' = kperm
      /\ random_map' = random_map
  BY DEF Draws!Filled
<1>2. want # 0 /\ want \in 0 .. RandomN /\ MapHolds /\ result = <<>> /\ used = {}
  BY <1>1 DEF RandomInv
<1>3. 0 <= RandomN
  BY RandomNAssumption
<1>4. Drawn(RandomN)'
  BY <1>1, <1>2, <1>3, NothingDrawn DEF Drawn
<1> QED
  BY <1>1, <1>2, <1>4
  DEF RandomInv, MapHolds, RandomGoalHasGroup, Draws!RandomGoalHasGroup

\* The order has each place once, so that shuffling loses no value.
LEMMA ShuffleKeeps ==
  ASSUME RandomInv, Draws!Shuffle
  PROVE  RandomInv'
<1>1. /\ phase = "order" /\ Len(result) = RandomN /\ phase' = "searching" /\ want' = want
      /\ dest' = [i \in 1 .. RandomN |-> random_map[result[i] + 1]]
  BY DEF Draws!Shuffle
<1>2. /\ want # 0 /\ want \in 0 .. RandomN /\ MapHolds /\ Len(random_map) = RandomN
      /\ Drawn(RandomN)
  BY <1>1 DEF RandomInv
<1>3. RandomN \in Nat /\ RandomN >= 1
  BY RandomNAssumption
<1>4. /\ result \in Seq(RandomDigits) /\ DOMAIN result = 1 .. RandomN
      /\ random_map \in Seq(RandomDigits) /\ DOMAIN random_map = 1 .. RandomN
  BY <1>1, <1>2, LenProperties DEF Drawn, MapHolds
<1>5. RandomDigits = ValuesOf(result)
  <2>1. IsFiniteSet(RandomDigits) /\ Cardinality(RandomDigits) = RandomN
    <3>1. 0 \in Int /\ RandomN - 1 \in Int /\ ~ (0 > RandomN - 1) /\ RandomN - 1 - 0 + 1 = RandomN
      BY <1>3
    <3> QED
      BY <3>1, FS_Interval DEF RandomDigits
  <2>2. ValuesOf(result) \subseteq RandomDigits
    BY <1>1, <1>4, ElementOfSeq DEF ValuesOf
  <2>3. Cardinality(ValuesOf(result)) = RandomN
    BY <1>1, <1>2 DEF Drawn
  <2> QED
    BY <2>1, <2>2, <2>3, FS_Subset
<1>6. \A i \in 1 .. RandomN : result[i] + 1 \in 1 .. RandomN
  BY <1>1, <1>3, <1>4, ElementOfSeq DEF RandomDigits
<1>7. \A k \in 1 .. RandomN : \E i \in 1 .. RandomN : result[i] + 1 = k
  <2>1. ASSUME NEW k \in 1 .. RandomN PROVE \E i \in 1 .. RandomN : result[i] + 1 = k
    <3>1. k - 1 \in RandomDigits
      BY <1>3 DEF RandomDigits
    <3>2. PICK i \in 1 .. RandomN : result[i] = k - 1
      BY <1>4, <1>5, <3>1 DEF ValuesOf
    <3> QED
      BY <3>2
  <2> QED
    BY <2>1
<1>8. DOMAIN dest' = 1 .. RandomN /\ dest' \in Seq(RandomDigits) /\ Len(dest') = RandomN
  <2>1. \A i \in 1 .. RandomN : random_map[result[i] + 1] \in RandomDigits
    BY <1>2, <1>4, <1>6, ElementOfSeq
  <2> QED
    BY <1>1, <1>3, <2>1
<1>9. {dest'[i] : i \in DOMAIN dest'} = ValuesOf(random_map)
  <2>1. \A i \in 1 .. RandomN : dest'[i] = random_map[result[i] + 1]
    BY <1>1
  <2>2. {dest'[i] : i \in DOMAIN dest'} \subseteq ValuesOf(random_map)
    BY <1>4, <1>6, <1>8, <2>1 DEF ValuesOf
  <2>3. ValuesOf(random_map) \subseteq {dest'[i] : i \in DOMAIN dest'}
    <3>1. ASSUME NEW k \in 1 .. RandomN
          PROVE  random_map[k] \in {dest'[i] : i \in DOMAIN dest'}
      <4>1. PICK i \in 1 .. RandomN : result[i] + 1 = k
        BY <1>7
      <4>2. dest'[i] = random_map[k] /\ i \in DOMAIN dest'
        BY <1>8, <2>1, <4>1
      <4> QED
        BY <4>2
    <3> QED
      BY <1>4, <3>1 DEF ValuesOf
  <2> QED
    BY <2>2, <2>3
<1>10. Draws!Cardinality({dest'[i] : i \in DOMAIN dest'}) = want
  BY <1>2, <1>9, SameCardinality DEF MapHolds
<1>11. \A i \in DOMAIN dest' : dest'[i] \in 0 .. RandomN - 1
  BY <1>8, ElementOfSeq DEF RandomDigits
<1>12. RandomGoalHasGroup'
  BY <1>1, <1>8, <1>10, <1>11 DEF RandomGoalHasGroup, Draws!RandomGoalHasGroup
<1> QED
  BY <1>1, <1>2, <1>12 DEF RandomInv

LEMMA NextTrialKeeps ==
  ASSUME RandomInv, Draws!NextTrial
  PROVE  RandomInv'
<1>1. /\ want' = want /\ phase' = (IF want = 0 THEN "any" ELSE "values")
      /\ used' = {} /\ result' = <<>> /\ dest' = <<>> /\ want \in 0 .. RandomN
  BY DEF Draws!NextTrial, RandomInv
<1>2. 0 < RandomN /\ 0 <= want
  BY <1>1, RandomNAssumption
<1>3. phase' # "searching" /\ phase' # "fill" /\ phase' # "order"
  BY <1>1
<1> QED
  BY <1>1, <1>2, <1>3, NothingDrawn
  DEF RandomInv, Drawn, RandomGoalHasGroup, Draws!RandomGoalHasGroup

THEOREM RandomGoalsAlwaysHaveGroup == ProgramSpec => []RandomGoalHasGroup
<1>1. ProgramInit => RandomInv
  BY RandomStarts DEF ProgramInit
<1>2. RandomInv /\ [ProgramNext]_programVars => RandomInv'
  <2> SUFFICES ASSUME RandomInv, [ProgramNext]_programVars PROVE RandomInv'
    OBVIOUS
  <2>1. CASE Draws!randomize_map \/ Draws!NextTrial
    BY <2>1, AnyDigitKeeps, DrawingKeeps, ValuesDrawnKeeps, FillKeeps, FilledKeeps,
       ShuffleKeeps, NextTrialKeeps DEF Draws!randomize_map
  <2>2. CASE UNCHANGED randomVars
    BY <2>2, RandomStays
  <2> QED
    BY <2>1, <2>2 DEF ProgramNext, HexCommand, DbinCommand, RandomSearch, Check,
                      programVars
<1>3. RandomInv => RandomGoalHasGroup
  BY DEF RandomInv
<1> QED
  BY <1>1, <1>2, <1>3, PTL DEF ProgramSpec

-----------------------------------------------------------------------------
(* The sorting network.  A merge turns every other block around, so that   *)
(* two blocks are bitonic together: up and down, or a rotation of this. It *)
(* then compares each item with the one half a block behind it, and the    *)
(* same in both halves, until the blocks are single items.                 *)

Places == 0 .. 15
Lengths == {1, 2, 4, 8}

\* Outer and inner ones of four items in turn.
Alternate(w, x, y, z) ==
  \/ w < x /\ w < z /\ y < x /\ y < z
  \/ w > x /\ w > z /\ y > x /\ y > z

BitonicBlocks(x, n) ==
  \A i, j, k, l \in Places :
    i < j /\ j < k /\ k < l /\ i \div n = l \div n => ~ Alternate(x[i], x[j], x[k], x[l])

\* In each block of m, smaller blocks of n are in order.
InOrder(x, n, m) ==
  \A i, j \in Places : i \div m = j \div m /\ i \div n < j \div n => x[i] <= x[j]

Flipped(x, n) ==
  [i \in Places |-> IF i % (2 * n) < n THEN x[i]
                    ELSE x[2 * n * (i \div (2 * n)) + 3 * n - 1 - (i % (2 * n))]]

Halved(x, n) ==
  [i \in Places |-> IF i % (2 * n) < n THEN Solver!Lesser(x[i], x[i + n])
                    ELSE Solver!Greater(x[i], x[i - n])]

LEMMA HalfFacts ==
  ASSUME NEW n \in Lengths
  PROVE  /\ \A i \in Places :
              /\ i % (2 * n) < n =>
                   /\ i + n \in Places /\ ~ ((i + n) % (2 * n) < n)
                   /\ (i + n) \div (2 * n) = i \div (2 * n)
                   /\ i \div n = 2 * (i \div (2 * n))
              /\ ~ (i % (2 * n) < n) =>
                   /\ i - n \in Places /\ (i - n) % (2 * n) < n
                   /\ (i - n) \div (2 * n) = i \div (2 * n)
                   /\ i \div n = 2 * (i \div (2 * n)) + 1
         /\ \A i, l \in Places :
              /\ i \div n = l \div n => l < i + n
              /\ i <= l => i \div n <= l \div n /\ i \div (2 * n) <= l \div (2 * n)
<1>1. CASE n = 1
  BY <1>1 DEF Places
<1>2. CASE n = 2
  BY <1>2 DEF Places
<1>3. CASE n = 4
  BY <1>3 DEF Places
<1>4. CASE n = 8
  BY <1>4 DEF Places
<1> QED
  BY <1>1, <1>2, <1>3, <1>4 DEF Lengths

\* Of eight items around a circle, each one of an opposite pair, the lesser of
\* each pair alternate only if some four of the eight do, and so the greater.
LEMMA Opposites ==
  ASSUME NEW a \in Int, NEW b \in Int, NEW c \in Int, NEW d \in Int,
         NEW e \in Int, NEW f \in Int, NEW g \in Int, NEW h \in Int,
         ~ Alternate(a, b, c, d), ~ Alternate(a, b, c, h), ~ Alternate(a, b, g, h),
         ~ Alternate(b, c, d, e), ~ Alternate(c, d, e, f), ~ Alternate(e, f, g, h)
  PROVE  /\ ~ Alternate(Solver!Lesser(a, e), Solver!Lesser(b, f),
                        Solver!Lesser(c, g), Solver!Lesser(d, h))
         /\ ~ Alternate(Solver!Greater(e, a), Solver!Greater(f, b),
                        Solver!Greater(g, c), Solver!Greater(h, d))
<1> DEFINE low == Alternate(Solver!Lesser(a, e), Solver!Lesser(b, f),
                            Solver!Lesser(c, g), Solver!Lesser(d, h))
           high == Alternate(Solver!Greater(e, a), Solver!Greater(f, b),
                             Solver!Greater(g, c), Solver!Greater(h, d))
<1>1. ~ low
  <2>1. CASE a <= e /\ c <= g
    BY <2>1 DEF Alternate, Solver!Lesser
  <2>2. CASE a <= e /\ ~ (c <= g)
    BY <2>2 DEF Alternate, Solver!Lesser
  <2>3. CASE ~ (a <= e) /\ c <= g
    BY <2>3 DEF Alternate, Solver!Lesser
  <2>4. CASE ~ (a <= e) /\ ~ (c <= g)
    BY <2>4 DEF Alternate, Solver!Lesser
  <2> QED
    BY <2>1, <2>2, <2>3, <2>4
<1>2. ~ high
  <2>1. CASE e <= a /\ g <= c
    BY <2>1 DEF Alternate, Solver!Greater
  <2>2. CASE e <= a /\ ~ (g <= c)
    BY <2>2 DEF Alternate, Solver!Greater
  <2>3. CASE ~ (e <= a) /\ g <= c
    BY <2>3 DEF Alternate, Solver!Greater
  <2>4. CASE ~ (e <= a) /\ ~ (g <= c)
    BY <2>4 DEF Alternate, Solver!Greater
  <2> QED
    BY <2>1, <2>2, <2>3, <2>4
<1> QED
  BY <1>1, <1>2

LEMMA BlocksWithin ==
  ASSUME NEW n \in Lengths, NEW m \in {2, 4, 8, 16}, 2 * n <= m,
         NEW i \in Places, NEW j \in Places, i \div (2 * n) = j \div (2 * n)
  PROVE  i \div m = j \div m
<1>1. CASE m = 2
  BY <1>1 DEF Places, Lengths
<1>2. CASE m = 4
  BY <1>2 DEF Places, Lengths
<1>3. CASE m = 8
  BY <1>3 DEF Places, Lengths
<1>4. CASE m = 16
  BY <1>4 DEF Places, Lengths
<1> QED
  BY <1>1, <1>2, <1>3, <1>4

LEMMA HalvedValues ==
  ASSUME NEW n \in Lengths, NEW x \in [Places -> Int]
  PROVE  /\ Halved(x, n) \in [Places -> Int]
         /\ \A i \in Places :
              /\ Halved(x, n)[i] = IF i % (2 * n) < n THEN Solver!Lesser(x[i], x[i + n])
                                   ELSE Solver!Greater(x[i], x[i - n])
              /\ \E k \in Places :
                   k \div (2 * n) = i \div (2 * n) /\ Halved(x, n)[i] = x[k]
<1>1. \A i \in Places :
        /\ Halved(x, n)[i] = IF i % (2 * n) < n THEN Solver!Lesser(x[i], x[i + n])
                             ELSE Solver!Greater(x[i], x[i - n])
        /\ \E k \in Places :
             k \div (2 * n) = i \div (2 * n) /\ Halved(x, n)[i] = x[k]
  <2>1. ASSUME NEW i \in Places, i % (2 * n) < n
        PROVE  \E k \in Places : /\ k \div (2 * n) = i \div (2 * n)
                                 /\ Solver!Lesser(x[i], x[i + n]) = x[k]
    <3>1. i + n \in Places /\ (i + n) \div (2 * n) = i \div (2 * n)
      BY <2>1, HalfFacts
    <3> QED
      BY <3>1 DEF Solver!Lesser
  <2>2. ASSUME NEW i \in Places, ~ (i % (2 * n) < n)
        PROVE  \E k \in Places : /\ k \div (2 * n) = i \div (2 * n)
                                 /\ Solver!Greater(x[i], x[i - n]) = x[k]
    <3>1. i - n \in Places /\ (i - n) \div (2 * n) = i \div (2 * n)
      BY <2>2, HalfFacts
    <3> QED
      BY <3>1 DEF Solver!Greater
  <2> QED
    BY <2>1, <2>2 DEF Halved
<1>2. \A i \in Places : Halved(x, n)[i] \in Int
  BY <1>1
<1> QED
  BY <1>1, <1>2 DEF Halved

\* Halving bitonic blocks leaves bitonic blocks, all of the first half of each
\* no greater than all of the second.
LEMMA HalvingOrders ==
  ASSUME NEW n \in Lengths, NEW m \in {2, 4, 8, 16}, 2 * n <= m,
         NEW x \in [Places -> Int], BitonicBlocks(x, 2 * n), InOrder(x, 2 * n, m)
  PROVE  BitonicBlocks(Halved(x, n), n) /\ InOrder(Halved(x, n), n, m)
<1> DEFINE y == Halved(x, n)
           first(i) == i % (2 * n) < n
<1>1. \A i \in Places : x[i] \in Int /\ i \in Int /\ i \div n \in Int /\ i \div (2 * n) \in Int
  BY DEF Places, Lengths
<1>2. /\ n \in Int /\ 0 < n
      /\ \A i \in Places :
           /\ first(i) => /\ i + n \in Places /\ (i + n) \div (2 * n) = i \div (2 * n)
                          /\ i \div n = 2 * (i \div (2 * n))
           /\ ~ first(i) => /\ i - n \in Places /\ first(i - n)
                            /\ (i - n) \div (2 * n) = i \div (2 * n)
                            /\ i \div n = 2 * (i \div (2 * n)) + 1
      /\ \A i, l \in Places :
           /\ i \div n = l \div n => l < i + n
           /\ i <= l => i \div n <= l \div n /\ i \div (2 * n) <= l \div (2 * n)
  <2>1. n \in Int /\ 0 < n
    BY DEF Lengths
  <2> QED
    BY <2>1, HalfFacts
<1>3. \A i \in Places :
        /\ first(i) => y[i] = Solver!Lesser(x[i], x[i + n])
        /\ ~ first(i) => y[i] = Solver!Greater(x[i], x[i - n])
        /\ \E k \in Places : k \div (2 * n) = i \div (2 * n) /\ y[i] = x[k]
  BY HalvedValues
<1>4. \A i, j, k, l \in Places :
        i < j /\ j < k /\ k < l /\ i \div (2 * n) = l \div (2 * n)
          => ~ Alternate(x[i], x[j], x[k], x[l])
  BY DEF BitonicBlocks
<1> HIDE DEF y, first
<1>5. ASSUME NEW i \in Places, NEW j \in Places, NEW k \in Places, NEW l \in Places,
             i < j, j < k, k < l, i \div n = l \div n, first(i)
      PROVE  /\ first(l) /\ first(j) /\ first(k)
             /\ ~ Alternate(Solver!Lesser(x[i], x[i + n]), Solver!Lesser(x[j], x[j + n]),
                            Solver!Lesser(x[k], x[k + n]), Solver!Lesser(x[l], x[l + n]))
             /\ ~ Alternate(Solver!Greater(x[i + n], x[i]), Solver!Greater(x[j + n], x[j]),
                            Solver!Greater(x[k + n], x[k]), Solver!Greater(x[l + n], x[l]))
  <2>1. /\ i \div n = j \div n /\ i \div n = k \div n
        /\ i \div (2 * n) = j \div (2 * n) /\ i \div (2 * n) = k \div (2 * n)
        /\ i \div (2 * n) = l \div (2 * n)
        /\ first(j) /\ first(k) /\ first(l)
    <3>1. i \div n <= j \div n /\ j \div n <= k \div n /\ k \div n <= l \div n
      BY <1>1, <1>2, <1>5
    <3>2. i \div n = j \div n /\ i \div n = k \div n
      BY <1>1, <1>5, <3>1
    <3> QED
      BY <1>1, <1>2, <1>5, <3>2
  <2> DEFINE I == i + n
             J == j + n
             K == k + n
             L == l + n
  <2>2. /\ I \in Places /\ J \in Places /\ K \in Places /\ L \in Places
        /\ \A z \in {I, J, K, L} : z \div (2 * n) = i \div (2 * n)
    BY <1>2, <1>5, <2>1
  <2>3. l < I /\ I < J /\ J < K /\ K < L /\ k < L /\ k < K
    BY <1>1, <1>2, <1>5
  <2>4. i < k /\ j < l /\ l < L /\ j < K
    BY <1>1, <1>2, <1>5, <2>3
  <2> HIDE DEF I, J, K, L
  <2>5. /\ ~ Alternate(x[i], x[j], x[k], x[l])
        /\ ~ Alternate(x[i], x[j], x[k], x[L])
        /\ ~ Alternate(x[i], x[j], x[K], x[L])
        /\ ~ Alternate(x[j], x[k], x[l], x[I])
        /\ ~ Alternate(x[k], x[l], x[I], x[J])
        /\ ~ Alternate(x[I], x[J], x[K], x[L])
    BY <1>4, <1>5, <2>1, <2>2, <2>3, <2>4
  <2>6. /\ x[i] \in Int /\ x[j] \in Int /\ x[k] \in Int /\ x[l] \in Int
        /\ x[I] \in Int /\ x[J] \in Int /\ x[K] \in Int /\ x[L] \in Int
    BY <1>1, <2>2
  <2>7. /\ ~ Alternate(Solver!Lesser(x[i], x[I]), Solver!Lesser(x[j], x[J]),
                       Solver!Lesser(x[k], x[K]), Solver!Lesser(x[l], x[L]))
        /\ ~ Alternate(Solver!Greater(x[I], x[i]), Solver!Greater(x[J], x[j]),
                       Solver!Greater(x[K], x[k]), Solver!Greater(x[L], x[l]))
    BY <2>5, <2>6, Opposites
  <2> QED
    BY <1>5, <2>1, <2>7 DEF I, J, K, L
<1>6. ASSUME NEW i \in Places, NEW j \in Places, NEW k \in Places, NEW l \in Places,
             i < j, j < k, k < l, i \div n = l \div n
      PROVE  ~ Alternate(y[i], y[j], y[k], y[l])
  <2>1. CASE first(i)
    BY <1>3, <1>5, <1>6, <2>1
  <2>2. CASE ~ first(i)
    <3>1. /\ i \div n = j \div n /\ i \div n = k \div n
          /\ ~ first(j) /\ ~ first(k) /\ ~ first(l)
      <4>1. i \div n <= j \div n /\ j \div n <= k \div n /\ k \div n <= l \div n
        BY <1>1, <1>2, <1>6
      <4>2. i \div n = j \div n /\ i \div n = k \div n
        BY <1>1, <1>6, <4>1
      <4> QED
        BY <1>1, <1>2, <1>6, <2>2, <4>2
    <3> DEFINE I == i - n
               J == j - n
               K == k - n
               L == l - n
    <3>2. /\ I \in Places /\ J \in Places /\ K \in Places /\ L \in Places
          /\ first(I) /\ first(L) /\ I \div n = L \div n
      BY <1>1, <1>2, <1>6, <2>2, <3>1
    <3>3. I < J /\ J < K /\ K < L
      BY <1>1, <1>2, <1>6
    <3>4. I + n = i /\ J + n = j /\ K + n = k /\ L + n = l
      BY <1>1, <1>2
    <3> HIDE DEF I, J, K, L
    <3>5. ~ Alternate(Solver!Greater(x[i], x[I]), Solver!Greater(x[j], x[J]),
                      Solver!Greater(x[k], x[K]), Solver!Greater(x[l], x[L]))
      BY <1>5, <3>2, <3>3, <3>4
    <3> QED
      BY <1>3, <2>2, <3>1, <3>5 DEF I, J, K, L
  <2> QED
    BY <2>1, <2>2
<1>7. ASSUME NEW i \in Places, NEW j \in Places,
             i \div m = j \div m, i \div n < j \div n
      PROVE  y[i] <= y[j]
  <2>1. CASE i \div (2 * n) = j \div (2 * n)
    <3>1. first(i) /\ ~ first(j)
      BY <1>1, <1>2, <1>7, <2>1
    <3> DEFINE I == i + n
               J == j - n
    <3>2. /\ I \in Places /\ J \in Places /\ J + n = j
          /\ I \div (2 * n) = i \div (2 * n) /\ J \div (2 * n) = i \div (2 * n)
          /\ first(J) /\ J \div n = i \div n
      BY <1>1, <1>2, <2>1, <3>1
    <3>3. J < I /\ i < j
      BY <1>1, <1>2, <3>2
    <3>4. i < J => I < j
      BY <1>1, <1>2, <3>2
    <3>5. J < i => j < I
      BY <1>1, <1>2, <3>2
    <3>6. i = J => I = j
      BY <3>2
    <3> HIDE DEF I, J
    <3>7. i < J => ~ Alternate(x[i], x[J], x[I], x[j])
      BY <1>4, <2>1, <3>2, <3>3, <3>4
    <3>8. J < i => ~ Alternate(x[J], x[i], x[j], x[I])
      BY <1>4, <2>1, <3>2, <3>3, <3>5
    <3>9. y[i] = Solver!Lesser(x[i], x[I]) /\ y[j] = Solver!Greater(x[j], x[J])
      BY <1>3, <3>1 DEF I, J
    <3>10. i < J \/ J < i \/ i = J
      BY <1>1, <3>2
    <3>11. x[i] \in Int /\ x[I] \in Int /\ x[j] \in Int /\ x[J] \in Int
      BY <1>1, <3>2
    <3> QED
      BY <3>6, <3>7, <3>8, <3>9, <3>10, <3>11 DEF Alternate, Solver!Lesser, Solver!Greater
  <2>2. CASE i \div (2 * n) # j \div (2 * n)
    <3>1. i \div (2 * n) < j \div (2 * n)
      BY <1>1, <1>2, <1>7, <2>2
    <3>2. PICK a \in Places : a \div (2 * n) = i \div (2 * n) /\ y[i] = x[a]
      BY <1>3
    <3>3. PICK b \in Places : b \div (2 * n) = j \div (2 * n) /\ y[j] = x[b]
      BY <1>3
    <3>4. a \div m = i \div m /\ b \div m = j \div m
      BY <3>2, <3>3, BlocksWithin
    <3> QED
      BY <1>7, <3>1, <3>2, <3>3, <3>4 DEF InOrder
  <2> QED
    BY <2>1, <2>2
<1> QED
  BY <1>6, <1>7 DEF BitonicBlocks, InOrder, y

\* Where an item of a block that is turned around comes from.
Mirror(i, n) == 2 * n * (i \div (2 * n)) + 3 * n - 1 - (i % (2 * n))

LEMMA MirrorFacts ==
  ASSUME NEW n \in Lengths, NEW i \in Places, NEW j \in Places,
         i < j, i \div (2 * n) = j \div (2 * n)
  PROVE  /\ j % (2 * n) < n =>
              /\ i % (2 * n) < n /\ i \div n = j \div n
              /\ i \div 1 < j \div 1
         /\ ~ (i % (2 * n) < n) =>
              /\ ~ (j % (2 * n) < n)
              /\ Mirror(i, n) \in Places /\ Mirror(j, n) \in Places
              /\ Mirror(j, n) \div 1 < Mirror(i, n) \div 1
              /\ Mirror(i, n) \div n = Mirror(j, n) \div n
<1>1. CASE n = 1
  BY <1>1 DEF Places, Mirror
<1>2. CASE n = 2
  BY <1>2 DEF Places, Mirror
<1>3. CASE n = 4
  BY <1>3 DEF Places, Mirror
<1>4. CASE n = 8
  BY <1>4 DEF Places, Mirror
<1> QED
  BY <1>1, <1>2, <1>3, <1>4 DEF Lengths

LEMMA MirrorPlace ==
  ASSUME NEW n \in Lengths, NEW i \in Places, ~ (i % (2 * n) < n)
  PROVE  Mirror(i, n) \in Places
<1>1. CASE n = 1
  BY <1>1 DEF Places, Mirror
<1>2. CASE n = 2
  BY <1>2 DEF Places, Mirror
<1>3. CASE n = 4
  BY <1>3 DEF Places, Mirror
<1>4. CASE n = 8
  BY <1>4 DEF Places, Mirror
<1> QED
  BY <1>1, <1>2, <1>3, <1>4 DEF Lengths

\* Two ascending blocks, one of them turned around, are bitonic.
LEMMA FlippingIsBitonic ==
  ASSUME NEW n \in Lengths, NEW x \in [Places -> Int], InOrder(x, 1, n)
  PROVE  /\ Flipped(x, n) \in [Places -> Int]
         /\ BitonicBlocks(Flipped(x, n), 2 * n) /\ InOrder(Flipped(x, n), 2 * n, 2 * n)
<1> DEFINE y == Flipped(x, n)
           first(i) == i % (2 * n) < n
<1>1. \A i \in Places : y[i] = IF first(i) THEN x[i] ELSE x[Mirror(i, n)]
  BY DEF Flipped, Mirror
<1>2. \A i \in Places : y[i] \in Int
  BY <1>1, MirrorPlace
<1>3. y \in [Places -> Int]
  BY <1>2 DEF Flipped
<1>4. \A i, j \in Places :
        i < j /\ i \div (2 * n) = j \div (2 * n) =>
          /\ first(j) => first(i) /\ y[i] <= y[j]
          /\ ~ first(i) => ~ first(j) /\ y[j] <= y[i]
  <2> SUFFICES ASSUME NEW i \in Places, NEW j \in Places,
                      i < j, i \div (2 * n) = j \div (2 * n)
               PROVE  /\ first(j) => first(i) /\ y[i] <= y[j]
                      /\ ~ first(i) => ~ first(j) /\ y[j] <= y[i]
    OBVIOUS
  <2>1. CASE first(j)
    <3>1. first(i) /\ i \div n = j \div n /\ i \div 1 < j \div 1
      BY <2>1, MirrorFacts
    <3>2. x[i] <= x[j]
      BY <3>1 DEF InOrder
    <3> QED
      BY <1>1, <2>1, <3>1, <3>2
  <2>2. CASE ~ first(i)
    <3>1. /\ ~ first(j) /\ Mirror(i, n) \in Places /\ Mirror(j, n) \in Places
          /\ Mirror(j, n) \div 1 < Mirror(i, n) \div 1
          /\ Mirror(j, n) \div n = Mirror(i, n) \div n
      BY <2>2, MirrorFacts
    <3>2. x[Mirror(j, n)] <= x[Mirror(i, n)]
      BY <3>1 DEF InOrder
    <3> QED
      BY <1>1, <2>2, <3>1, <3>2
  <2> QED
    BY <2>1, <2>2
<1>5. \A i, j \in Places : i < j => i \div (2 * n) <= j \div (2 * n)
  BY HalfFacts DEF Places
<1>6. \A i \in Places : i \in Int /\ i \div (2 * n) \in Int
  BY DEF Places, Lengths
<1> HIDE DEF y, first
<1>7. ASSUME NEW i \in Places, NEW j \in Places, NEW k \in Places, NEW l \in Places,
             i < j, j < k, k < l, i \div (2 * n) = l \div (2 * n)
      PROVE  ~ Alternate(y[i], y[j], y[k], y[l])
  <2>1. /\ i \div (2 * n) = j \div (2 * n) /\ j \div (2 * n) = k \div (2 * n)
        /\ k \div (2 * n) = l \div (2 * n)
    BY <1>5, <1>6, <1>7
  <2>2. y[i] \in Int /\ y[j] \in Int /\ y[k] \in Int /\ y[l] \in Int
    BY <1>2
  <2>3. first(k) => y[i] <= y[j] /\ y[j] <= y[k]
    BY <1>4, <1>7, <2>1
  <2>4. ~ first(k) => y[l] <= y[k]
    BY <1>4, <1>7, <2>1
  <2>5. IF first(j) THEN y[i] <= y[j] ELSE y[k] <= y[j]
    BY <1>4, <1>7, <2>1
  <2> QED
    BY <2>2, <2>3, <2>4, <2>5 DEF Alternate
<1>8. \A i, j \in Places :
        ~ (i \div (2 * n) = j \div (2 * n) /\ i \div (2 * n) < j \div (2 * n))
  BY <1>6
<1>9. BitonicBlocks(y, 2 * n) /\ InOrder(y, 2 * n, 2 * n)
  BY <1>7, <1>8 DEF BitonicBlocks, InOrder
<1> QED
  BY <1>3, <1>9 DEF y

-----------------------------------------------------------------------------
(* The registers.  A place is a word of ymm0, then of ymm1.                *)

Words == 0 .. 7
Registers == [ymm0 : [Words -> Int], ymm1 : [Words -> Int]]

\* What the vector operations leave in each word.
LEMMA MinMaxValues ==
  ASSUME NEW p \in Registers
  PROVE  /\ Solver!MINMAX(p) \in Registers
         /\ \A w \in Words :
              /\ Solver!MINMAX(p).ymm0[w] = Solver!Lesser(p.ymm0[w], p.ymm1[w])
              /\ Solver!MINMAX(p).ymm1[w] = Solver!Greater(p.ymm1[w], p.ymm0[w])
<1>1. /\ p.ymm0 \in [Words -> Int] /\ p.ymm1 \in [Words -> Int]
      /\ \A w \in Words : p.ymm0[w] \in Int /\ p.ymm1[w] \in Int
  BY DEF Registers
<1>2. \A w \in Words : /\ Solver!Lesser(p.ymm0[w], p.ymm1[w]) \in Int
                       /\ Solver!Greater(p.ymm1[w], p.ymm0[w]) \in Int
  BY <1>1 DEF Solver!Lesser, Solver!Greater
<1> QED
  BY <1>1, <1>2 DEF Registers, Solver!MINMAX, Solver!Words, Words

LEMMA ShuffleValues ==
  ASSUME NEW p \in Registers, NEW order \in [Words -> Words]
  PROVE  /\ Solver!SHUF(p, order) \in Registers
         /\ \A w \in Words : /\ Solver!SHUF(p, order).ymm0[w] = p.ymm0[w]
                             /\ Solver!SHUF(p, order).ymm1[w] = p.ymm1[order[w]]
<1>1. p.ymm0 \in [Words -> Int] /\ p.ymm1 \in [Words -> Int]
  BY DEF Registers
<1>2. p = [ymm0 |-> p.ymm0, ymm1 |-> p.ymm1]
  BY DEF Registers
<1>3. Solver!SHUF(p, order) = [ymm0 |-> p.ymm0, ymm1 |-> [w \in Words |-> p.ymm1[order[w]]]]
  BY <1>1, <1>2 DEF Solver!SHUF, Solver!Words, Words, Registers
<1> QED
  BY <1>1, <1>3 DEF Registers

LEMMA BlendValues ==
  ASSUME NEW p \in Registers, NEW words
  PROVE  /\ Solver!BLEND(p, words) \in Registers
         /\ \A w \in Words :
              /\ Solver!BLEND(p, words).ymm0[w] = IF w \in words THEN p.ymm1[w] ELSE p.ymm0[w]
              /\ Solver!BLEND(p, words).ymm1[w] = IF w \in words THEN p.ymm0[w] ELSE p.ymm1[w]
<1>1. p.ymm0 \in [Words -> Int] /\ p.ymm1 \in [Words -> Int]
  BY DEF Registers
<1> QED
  BY <1>1 DEF Registers, Solver!BLEND, Solver!Words, Words

\* The orders, word by word; each one undoes itself.
LEMMA Shufd2x32 ==
  /\ Solver!SHUFD_REV_2x32_256 \in [Words -> Words]
  /\ \A w \in Words : Solver!SHUFD_REV_2x32_256[Solver!SHUFD_REV_2x32_256[w]] = w
  /\ Solver!SHUFD_REV_2x32_256[0] = 2 /\ Solver!SHUFD_REV_2x32_256[1] = 3
  /\ Solver!SHUFD_REV_2x32_256[2] = 0 /\ Solver!SHUFD_REV_2x32_256[3] = 1
  /\ Solver!SHUFD_REV_2x32_256[4] = 6 /\ Solver!SHUFD_REV_2x32_256[5] = 7
  /\ Solver!SHUFD_REV_2x32_256[6] = 4 /\ Solver!SHUFD_REV_2x32_256[7] = 5
BY DEF Solver!SHUFD_REV_2x32_256, Solver!Dwords, Solver!Words, Words

LEMMA Shufd4x32 ==
  /\ Solver!SHUFD_REV_4x32_256 \in [Words -> Words]
  /\ \A w \in Words : Solver!SHUFD_REV_4x32_256[Solver!SHUFD_REV_4x32_256[w]] = w
  /\ Solver!SHUFD_REV_4x32_256[0] = 6 /\ Solver!SHUFD_REV_4x32_256[1] = 7
  /\ Solver!SHUFD_REV_4x32_256[2] = 4 /\ Solver!SHUFD_REV_4x32_256[3] = 5
  /\ Solver!SHUFD_REV_4x32_256[4] = 2 /\ Solver!SHUFD_REV_4x32_256[5] = 3
  /\ Solver!SHUFD_REV_4x32_256[6] = 0 /\ Solver!SHUFD_REV_4x32_256[7] = 1
BY DEF Solver!SHUFD_REV_4x32_256, Solver!Dwords, Solver!Words, Words

LEMMA Shufd2x64 ==
  /\ Solver!SHUFD_REV_2x64_256 \in [Words -> Words]
  /\ \A w \in Words : Solver!SHUFD_REV_2x64_256[Solver!SHUFD_REV_2x64_256[w]] = w
  /\ Solver!SHUFD_REV_2x64_256[0] = 4 /\ Solver!SHUFD_REV_2x64_256[1] = 5
  /\ Solver!SHUFD_REV_2x64_256[2] = 6 /\ Solver!SHUFD_REV_2x64_256[3] = 7
  /\ Solver!SHUFD_REV_2x64_256[4] = 0 /\ Solver!SHUFD_REV_2x64_256[5] = 1
  /\ Solver!SHUFD_REV_2x64_256[6] = 2 /\ Solver!SHUFD_REV_2x64_256[7] = 3
BY DEF Solver!SHUFD_REV_2x64_256, Solver!Dwords, Solver!Words, Words

LEMMA Shufb4x16 ==
  /\ Solver!SHUFB_REV_4x16_256 \in [Words -> Words]
  /\ \A w \in Words : Solver!SHUFB_REV_4x16_256[Solver!SHUFB_REV_4x16_256[w]] = w
  /\ Solver!SHUFB_REV_4x16_256[0] = 3 /\ Solver!SHUFB_REV_4x16_256[1] = 2
  /\ Solver!SHUFB_REV_4x16_256[2] = 1 /\ Solver!SHUFB_REV_4x16_256[3] = 0
  /\ Solver!SHUFB_REV_4x16_256[4] = 7 /\ Solver!SHUFB_REV_4x16_256[5] = 6
  /\ Solver!SHUFB_REV_4x16_256[6] = 5 /\ Solver!SHUFB_REV_4x16_256[7] = 4
BY DEF Solver!SHUFB_REV_4x16_256, Solver!Words, Words

LEMMA Shufb8x16 ==
  /\ Solver!SHUFB_REV_8x16_256 \in [Words -> Words]
  /\ \A w \in Words : Solver!SHUFB_REV_8x16_256[Solver!SHUFB_REV_8x16_256[w]] = w
  /\ Solver!SHUFB_REV_8x16_256[0] = 7 /\ Solver!SHUFB_REV_8x16_256[1] = 6
  /\ Solver!SHUFB_REV_8x16_256[2] = 5 /\ Solver!SHUFB_REV_8x16_256[3] = 4
  /\ Solver!SHUFB_REV_8x16_256[4] = 3 /\ Solver!SHUFB_REV_8x16_256[5] = 2
  /\ Solver!SHUFB_REV_8x16_256[6] = 1 /\ Solver!SHUFB_REV_8x16_256[7] = 0
BY DEF Solver!SHUFB_REV_8x16_256, Solver!Words, Words

LEMMA Shufb2x16 ==
  /\ Solver!SHUFB_REV_2x16_256 \in [Words -> Words]
  /\ \A w \in Words : Solver!SHUFB_REV_2x16_256[Solver!SHUFB_REV_2x16_256[w]] = w
  /\ Solver!SHUFB_REV_2x16_256[0] = 1 /\ Solver!SHUFB_REV_2x16_256[1] = 0
  /\ Solver!SHUFB_REV_2x16_256[2] = 3 /\ Solver!SHUFB_REV_2x16_256[3] = 2
  /\ Solver!SHUFB_REV_2x16_256[4] = 5 /\ Solver!SHUFB_REV_2x16_256[5] = 4
  /\ Solver!SHUFB_REV_2x16_256[6] = 7 /\ Solver!SHUFB_REV_2x16_256[7] = 6
BY DEF Solver!SHUFB_REV_2x16_256, Solver!Words, Words

LEMMA WordFacts ==
  /\ Solver!DwordsOf({1, 3}) = {2, 3, 6, 7}
  /\ Solver!DwordsOf({2, 3}) = {4, 5, 6, 7}
  /\ Solver!OddWords = {1, 3, 5, 7}
BY DEF Solver!DwordsOf, Solver!OddWords, Solver!Words

\* The item at a place of the registers.
At(p, k) == IF k < 8 THEN p.ymm0[k] ELSE p.ymm1[k - 8]

\* Words at one place of q's registers are the lesser and the greater of two of p.
Compares(q, w, p, k, l) ==
  /\ At(q, w) = Solver!Lesser(At(p, k), At(p, l))
  /\ At(q, w + 8) = Solver!Greater(At(p, l), At(p, k))

LEMMA CompareShuffled ==
  ASSUME NEW p \in Registers, NEW order \in [Words -> Words]
  PROVE  /\ Solver!MINMAX(Solver!SHUF(p, order)) \in Registers
         /\ \A w \in Words :
              /\ Solver!MINMAX(Solver!SHUF(p, order)).ymm0[w] =
                   Solver!Lesser(p.ymm0[w], p.ymm1[order[w]])
              /\ Solver!MINMAX(Solver!SHUF(p, order)).ymm1[w] =
                   Solver!Greater(p.ymm1[order[w]], p.ymm0[w])
<1> DEFINE s == Solver!SHUF(p, order)
<1>1. /\ s \in Registers
      /\ \A w \in Words : s.ymm0[w] = p.ymm0[w] /\ s.ymm1[w] = p.ymm1[order[w]]
  BY ShuffleValues
<1> HIDE DEF s
<1>2. /\ Solver!MINMAX(s) \in Registers
      /\ \A w \in Words : /\ Solver!MINMAX(s).ymm0[w] = Solver!Lesser(s.ymm0[w], s.ymm1[w])
                          /\ Solver!MINMAX(s).ymm1[w] = Solver!Greater(s.ymm1[w], s.ymm0[w])
  BY <1>1, MinMaxValues
<1>3. /\ Solver!MINMAX(s) \in Registers
      /\ \A w \in Words :
           /\ Solver!MINMAX(s).ymm0[w] = Solver!Lesser(p.ymm0[w], p.ymm1[order[w]])
           /\ Solver!MINMAX(s).ymm1[w] = Solver!Greater(p.ymm1[order[w]], p.ymm0[w])
  BY <1>1, <1>2
<1> QED
  BY <1>3 DEF s

LEMMA StepValues ==
  ASSUME NEW p \in Registers, NEW order \in [Words -> Words], NEW words
  PROVE  /\ Solver!STEP(p, words, order) \in Registers
         /\ \A w \in Words :
              /\ Solver!STEP(p, words, order).ymm0[w] =
                   Solver!Lesser(IF w \in words THEN p.ymm1[w] ELSE p.ymm0[w],
                                 IF order[w] \in words THEN p.ymm0[order[w]]
                                 ELSE p.ymm1[order[w]])
              /\ Solver!STEP(p, words, order).ymm1[w] =
                   Solver!Greater(IF order[w] \in words THEN p.ymm0[order[w]]
                                  ELSE p.ymm1[order[w]],
                                  IF w \in words THEN p.ymm1[w] ELSE p.ymm0[w])
<1> DEFINE b == Solver!BLEND(p, words)
<1>1. /\ b \in Registers
      /\ \A w \in Words : /\ b.ymm0[w] = IF w \in words THEN p.ymm1[w] ELSE p.ymm0[w]
                          /\ b.ymm1[w] = IF w \in words THEN p.ymm0[w] ELSE p.ymm1[w]
  BY BlendValues
<1>2. Solver!STEP(p, words, order) = Solver!MINMAX(Solver!SHUF(b, order))
  BY DEF Solver!STEP
<1> HIDE DEF b
<1>3. /\ Solver!STEP(p, words, order) \in Registers
      /\ \A w \in Words :
           /\ Solver!STEP(p, words, order).ymm0[w] =
                Solver!Lesser(b.ymm0[w], b.ymm1[order[w]])
           /\ Solver!STEP(p, words, order).ymm1[w] =
                Solver!Greater(b.ymm1[order[w]], b.ymm0[w])
  BY <1>1, <1>2, CompareShuffled
<1>4. \A w \in Words : order[w] \in Words
  OBVIOUS
<1> QED
  BY <1>1, <1>3, <1>4

LEMMA LesserGreater ==
  ASSUME NEW a \in Int, NEW b \in Int
  PROVE  Solver!Lesser(a, b) = Solver!Lesser(b, a) /\ Solver!Greater(a, b) = Solver!Greater(b, a)
BY DEF Solver!Lesser, Solver!Greater

\* An array, given where its items are.
Items(p, places) == [i \in Places |-> At(p, places[i + 1])]

\* Where the items of the merges are: when the stages 2, 4 and 16 are over, when
\* stage 8 is, and within the stages, when the blocks to be compared are halves,
\* quarters or eighths of those the stage puts in order.
Runs == <<0, 8, 2, 10, 4, 12, 6, 14, 1, 9, 3, 11, 5, 13, 7, 15>>
Halves4 == <<0, 2, 8, 10, 4, 6, 12, 14, 1, 3, 9, 11, 5, 7, 13, 15>>
Quarters8 == <<0, 6, 2, 4, 8, 14, 10, 12, 1, 7, 3, 5, 9, 15, 11, 13>>
Halves8 == <<0, 4, 8, 12, 2, 6, 10, 14, 1, 5, 9, 13, 3, 7, 11, 15>>
Runs8 == <<0, 8, 4, 12, 2, 10, 6, 14, 1, 9, 5, 13, 3, 11, 7, 15>>
Halves16 == <<0, 7, 4, 3, 2, 5, 6, 1, 8, 15, 12, 11, 10, 13, 14, 9>>
Quarters16 == <<0, 6, 4, 2, 8, 14, 12, 10, 3, 5, 7, 1, 11, 13, 15, 9>>
Eighths16 == <<0, 2, 8, 10, 4, 6, 12, 14, 3, 1, 11, 9, 7, 5, 15, 13>>

LEMMA Step2x32 ==
  ASSUME NEW p \in Registers, NEW q,
         q = Solver!STEP(p, Solver!DwordsOf({1, 3}), Solver!SHUFD_REV_2x32_256)
  PROVE  /\ q \in Registers
         /\ Compares(q, 0, p, 0, 2) /\ Compares(q, 1, p, 1, 3)
         /\ Compares(q, 2, p, 10, 8) /\ Compares(q, 3, p, 11, 9)
         /\ Compares(q, 4, p, 4, 6) /\ Compares(q, 5, p, 5, 7)
         /\ Compares(q, 6, p, 14, 12) /\ Compares(q, 7, p, 15, 13)
<1> DEFINE words == Solver!DwordsOf({1, 3})
<1>1. /\ 0 \notin words /\ 1 \notin words /\ 2 \in words /\ 3 \in words
      /\ 4 \notin words /\ 5 \notin words /\ 6 \in words /\ 7 \in words
  BY WordFacts
<1> HIDE DEF words
<1>2. /\ q \in Registers
      /\ \A w \in Words, v \in Words :
           Solver!SHUFD_REV_2x32_256[w] = v =>
             /\ q.ymm0[w] = Solver!Lesser(IF w \in words THEN p.ymm1[w] ELSE p.ymm0[w],
                                          IF v \in words THEN p.ymm0[v] ELSE p.ymm1[v])
             /\ q.ymm1[w] = Solver!Greater(IF v \in words THEN p.ymm0[v] ELSE p.ymm1[v],
                                           IF w \in words THEN p.ymm1[w] ELSE p.ymm0[w])
  BY StepValues, Shufd2x32 DEF words
<1>3. \A k \in Words : /\ At(p, k) = p.ymm0[k] /\ At(p, k + 8) = p.ymm1[k]
                       /\ At(q, k) = q.ymm0[k] /\ At(q, k + 8) = q.ymm1[k]
  BY DEF At, Words
<1>4. /\ Compares(q, 0, p, 0, 2) /\ Compares(q, 1, p, 1, 3)
      /\ Compares(q, 2, p, 10, 8) /\ Compares(q, 3, p, 11, 9)
  BY <1>1, <1>2, <1>3, Shufd2x32 DEF Compares, Words
<1>5. /\ Compares(q, 4, p, 4, 6) /\ Compares(q, 5, p, 5, 7)
      /\ Compares(q, 6, p, 14, 12) /\ Compares(q, 7, p, 15, 13)
  BY <1>1, <1>2, <1>3, Shufd2x32 DEF Compares, Words
<1> QED
  BY <1>2, <1>4, <1>5

LEMMA Step2x64 ==
  ASSUME NEW p \in Registers, NEW q,
         q = Solver!STEP(p, Solver!DwordsOf({2, 3}), Solver!SHUFD_REV_2x64_256)
  PROVE  /\ q \in Registers
         /\ Compares(q, 0, p, 0, 4) /\ Compares(q, 1, p, 1, 5)
         /\ Compares(q, 2, p, 2, 6) /\ Compares(q, 3, p, 3, 7)
         /\ Compares(q, 4, p, 12, 8) /\ Compares(q, 5, p, 13, 9)
         /\ Compares(q, 6, p, 14, 10) /\ Compares(q, 7, p, 15, 11)
<1> DEFINE words == Solver!DwordsOf({2, 3})
<1>1. /\ 0 \notin words /\ 1 \notin words /\ 2 \notin words /\ 3 \notin words
      /\ 4 \in words /\ 5 \in words /\ 6 \in words /\ 7 \in words
  BY WordFacts
<1> HIDE DEF words
<1>2. /\ q \in Registers
      /\ \A w \in Words, v \in Words :
           Solver!SHUFD_REV_2x64_256[w] = v =>
             /\ q.ymm0[w] = Solver!Lesser(IF w \in words THEN p.ymm1[w] ELSE p.ymm0[w],
                                          IF v \in words THEN p.ymm0[v] ELSE p.ymm1[v])
             /\ q.ymm1[w] = Solver!Greater(IF v \in words THEN p.ymm0[v] ELSE p.ymm1[v],
                                           IF w \in words THEN p.ymm1[w] ELSE p.ymm0[w])
  BY StepValues, Shufd2x64 DEF words
<1>3. \A k \in Words : /\ At(p, k) = p.ymm0[k] /\ At(p, k + 8) = p.ymm1[k]
                       /\ At(q, k) = q.ymm0[k] /\ At(q, k + 8) = q.ymm1[k]
  BY DEF At, Words
<1>4. /\ Compares(q, 0, p, 0, 4) /\ Compares(q, 1, p, 1, 5)
      /\ Compares(q, 2, p, 2, 6) /\ Compares(q, 3, p, 3, 7)
  BY <1>1, <1>2, <1>3, Shufd2x64 DEF Compares, Words
<1>5. /\ Compares(q, 4, p, 12, 8) /\ Compares(q, 5, p, 13, 9)
      /\ Compares(q, 6, p, 14, 10) /\ Compares(q, 7, p, 15, 11)
  BY <1>1, <1>2, <1>3, Shufd2x64 DEF Compares, Words
<1> QED
  BY <1>2, <1>4, <1>5

\* A comparison of the registers is one of the merge, wherever the items are.
\* LayoutS_D is for stage S and items D apart.
LEMMA Layout2_1 ==
  ASSUME NEW p \in Registers, NEW q, q = Solver!MINMAX(p)
  PROVE  q \in Registers /\ Items(q, Runs) = Halved(Flipped(Items(p, Runs), 1), 1)
<1>1. q \in Registers /\ \A i \in Places : At(p, i) \in Int
  BY MinMaxValues DEF At, Places, Registers, Words
<1>2. /\ Compares(q, 0, p, 0, 8) /\ Compares(q, 1, p, 1, 9)
      /\ Compares(q, 2, p, 2, 10) /\ Compares(q, 3, p, 3, 11)
      /\ Compares(q, 4, p, 4, 12) /\ Compares(q, 5, p, 5, 13)
      /\ Compares(q, 6, p, 6, 14) /\ Compares(q, 7, p, 7, 15)
  BY MinMaxValues DEF Compares, At, Words
<1> DEFINE x == Flipped(Items(p, Runs), 1)
<1>3. /\ x[0] = At(p, 0) /\ x[1] = At(p, 8) /\ x[2] = At(p, 2) /\ x[3] = At(p, 10)
      /\ x[4] = At(p, 4) /\ x[5] = At(p, 12) /\ x[6] = At(p, 6) /\ x[7] = At(p, 14)
      /\ x[8] = At(p, 1) /\ x[9] = At(p, 9) /\ x[10] = At(p, 3) /\ x[11] = At(p, 11)
      /\ x[12] = At(p, 5) /\ x[13] = At(p, 13) /\ x[14] = At(p, 7) /\ x[15] = At(p, 15)
  BY DEF Items, Flipped, Places, Runs
<1> HIDE DEF x
<1>4. \A i \in Places : Items(q, Runs)[i] = Halved(x, 1)[i]
  BY <1>1, <1>2, <1>3, LesserGreater DEF Compares, Items, Halved, Places, Runs
<1> QED
  BY <1>1, <1>4 DEF x, Items, Halved, Places

LEMMA Layout4_2 ==
  ASSUME NEW p \in Registers, NEW q, q = Solver!MINMAX(Solver!SHUF(p, Solver!SHUFD_REV_2x32_256))
  PROVE  q \in Registers /\ Items(q, Halves4) = Halved(Flipped(Items(p, Runs), 2), 2)
<1>1. q \in Registers /\ \A i \in Places : At(p, i) \in Int
  BY CompareShuffled, Shufd2x32 DEF At, Places, Registers, Words
<1>2. /\ Compares(q, 0, p, 0, 10) /\ Compares(q, 1, p, 1, 11)
      /\ Compares(q, 2, p, 2, 8) /\ Compares(q, 3, p, 3, 9)
      /\ Compares(q, 4, p, 4, 14) /\ Compares(q, 5, p, 5, 15)
      /\ Compares(q, 6, p, 6, 12) /\ Compares(q, 7, p, 7, 13)
  BY CompareShuffled, Shufd2x32 DEF Compares, At, Words
<1> DEFINE x == Flipped(Items(p, Runs), 2)
<1>3. /\ x[0] = At(p, 0) /\ x[1] = At(p, 8) /\ x[2] = At(p, 10) /\ x[3] = At(p, 2)
      /\ x[4] = At(p, 4) /\ x[5] = At(p, 12) /\ x[6] = At(p, 14) /\ x[7] = At(p, 6)
      /\ x[8] = At(p, 1) /\ x[9] = At(p, 9) /\ x[10] = At(p, 11) /\ x[11] = At(p, 3)
      /\ x[12] = At(p, 5) /\ x[13] = At(p, 13) /\ x[14] = At(p, 15) /\ x[15] = At(p, 7)
  BY DEF Items, Flipped, Places, Runs
<1> HIDE DEF x
<1>4. \A i \in Places : Items(q, Halves4)[i] = Halved(x, 2)[i]
  BY <1>1, <1>2, <1>3, LesserGreater DEF Compares, Items, Halved, Places, Halves4
<1> QED
  BY <1>1, <1>4 DEF x, Items, Halved, Places

LEMMA Layout4_1 ==
  ASSUME NEW p \in Registers, NEW q,
         q = Solver!STEP(p, Solver!DwordsOf({1, 3}), Solver!SHUFD_REV_2x32_256)
  PROVE  q \in Registers /\ Items(q, Runs) = Halved(Items(p, Halves4), 1)
<1>1. q \in Registers /\ \A i \in Places : At(p, i) \in Int
  BY Step2x32 DEF At, Places, Registers, Words
<1>2. /\ Compares(q, 0, p, 0, 2) /\ Compares(q, 1, p, 1, 3)
      /\ Compares(q, 2, p, 10, 8) /\ Compares(q, 3, p, 11, 9)
      /\ Compares(q, 4, p, 4, 6) /\ Compares(q, 5, p, 5, 7)
      /\ Compares(q, 6, p, 14, 12) /\ Compares(q, 7, p, 15, 13)
  BY Step2x32
<1> DEFINE x == Items(p, Halves4)
<1>3. /\ x[0] = At(p, 0) /\ x[1] = At(p, 2) /\ x[2] = At(p, 8) /\ x[3] = At(p, 10)
      /\ x[4] = At(p, 4) /\ x[5] = At(p, 6) /\ x[6] = At(p, 12) /\ x[7] = At(p, 14)
      /\ x[8] = At(p, 1) /\ x[9] = At(p, 3) /\ x[10] = At(p, 9) /\ x[11] = At(p, 11)
      /\ x[12] = At(p, 5) /\ x[13] = At(p, 7) /\ x[14] = At(p, 13) /\ x[15] = At(p, 15)
  BY DEF Items, Flipped, Places, Halves4
<1> HIDE DEF x
<1>4. \A i \in Places : Items(q, Runs)[i] = Halved(x, 1)[i]
  BY <1>1, <1>2, <1>3, LesserGreater DEF Compares, Items, Halved, Places, Runs
<1> QED
  BY <1>1, <1>4 DEF x, Items, Halved, Places

LEMMA Layout8_4 ==
  ASSUME NEW p \in Registers, NEW q, q = Solver!MINMAX(Solver!SHUF(p, Solver!SHUFD_REV_4x32_256))
  PROVE  q \in Registers /\ Items(q, Quarters8) = Halved(Flipped(Items(p, Runs), 4), 4)
<1>1. q \in Registers /\ \A i \in Places : At(p, i) \in Int
  BY CompareShuffled, Shufd4x32 DEF At, Places, Registers, Words
<1>2. /\ Compares(q, 0, p, 0, 14) /\ Compares(q, 1, p, 1, 15)
      /\ Compares(q, 2, p, 2, 12) /\ Compares(q, 3, p, 3, 13)
      /\ Compares(q, 4, p, 4, 10) /\ Compares(q, 5, p, 5, 11)
      /\ Compares(q, 6, p, 6, 8) /\ Compares(q, 7, p, 7, 9)
  BY CompareShuffled, Shufd4x32 DEF Compares, At, Words
<1> DEFINE x == Flipped(Items(p, Runs), 4)
<1>3. /\ x[0] = At(p, 0) /\ x[1] = At(p, 8) /\ x[2] = At(p, 2) /\ x[3] = At(p, 10)
      /\ x[4] = At(p, 14) /\ x[5] = At(p, 6) /\ x[6] = At(p, 12) /\ x[7] = At(p, 4)
      /\ x[8] = At(p, 1) /\ x[9] = At(p, 9) /\ x[10] = At(p, 3) /\ x[11] = At(p, 11)
      /\ x[12] = At(p, 15) /\ x[13] = At(p, 7) /\ x[14] = At(p, 13) /\ x[15] = At(p, 5)
  BY DEF Items, Flipped, Places, Runs
<1> HIDE DEF x
<1>4. \A i \in Places : Items(q, Quarters8)[i] = Halved(x, 4)[i]
  BY <1>1, <1>2, <1>3, LesserGreater DEF Compares, Items, Halved, Places, Quarters8
<1> QED
  BY <1>1, <1>4 DEF x, Items, Halved, Places

LEMMA Layout8_2 ==
  ASSUME NEW p \in Registers, NEW q,
         q = Solver!STEP(p, Solver!DwordsOf({1, 3}), Solver!SHUFD_REV_2x32_256)
  PROVE  q \in Registers /\ Items(q, Halves8) = Halved(Items(p, Quarters8), 2)
<1>1. q \in Registers /\ \A i \in Places : At(p, i) \in Int
  BY Step2x32 DEF At, Places, Registers, Words
<1>2. /\ Compares(q, 0, p, 0, 2) /\ Compares(q, 1, p, 1, 3)
      /\ Compares(q, 2, p, 10, 8) /\ Compares(q, 3, p, 11, 9)
      /\ Compares(q, 4, p, 4, 6) /\ Compares(q, 5, p, 5, 7)
      /\ Compares(q, 6, p, 14, 12) /\ Compares(q, 7, p, 15, 13)
  BY Step2x32
<1> DEFINE x == Items(p, Quarters8)
<1>3. /\ x[0] = At(p, 0) /\ x[1] = At(p, 6) /\ x[2] = At(p, 2) /\ x[3] = At(p, 4)
      /\ x[4] = At(p, 8) /\ x[5] = At(p, 14) /\ x[6] = At(p, 10) /\ x[7] = At(p, 12)
      /\ x[8] = At(p, 1) /\ x[9] = At(p, 7) /\ x[10] = At(p, 3) /\ x[11] = At(p, 5)
      /\ x[12] = At(p, 9) /\ x[13] = At(p, 15) /\ x[14] = At(p, 11) /\ x[15] = At(p, 13)
  BY DEF Items, Flipped, Places, Quarters8
<1> HIDE DEF x
<1>4. \A i \in Places : Items(q, Halves8)[i] = Halved(x, 2)[i]
  BY <1>1, <1>2, <1>3, LesserGreater DEF Compares, Items, Halved, Places, Halves8
<1> QED
  BY <1>1, <1>4 DEF x, Items, Halved, Places

LEMMA Layout8_1 ==
  ASSUME NEW p \in Registers, NEW q,
         q = Solver!STEP(p, Solver!DwordsOf({2, 3}), Solver!SHUFD_REV_2x64_256)
  PROVE  q \in Registers /\ Items(q, Runs8) = Halved(Items(p, Halves8), 1)
<1>1. q \in Registers /\ \A i \in Places : At(p, i) \in Int
  BY Step2x64 DEF At, Places, Registers, Words
<1>2. /\ Compares(q, 0, p, 0, 4) /\ Compares(q, 1, p, 1, 5)
      /\ Compares(q, 2, p, 2, 6) /\ Compares(q, 3, p, 3, 7)
      /\ Compares(q, 4, p, 12, 8) /\ Compares(q, 5, p, 13, 9)
      /\ Compares(q, 6, p, 14, 10) /\ Compares(q, 7, p, 15, 11)
  BY Step2x64
<1> DEFINE x == Items(p, Halves8)
<1>3. /\ x[0] = At(p, 0) /\ x[1] = At(p, 4) /\ x[2] = At(p, 8) /\ x[3] = At(p, 12)
      /\ x[4] = At(p, 2) /\ x[5] = At(p, 6) /\ x[6] = At(p, 10) /\ x[7] = At(p, 14)
      /\ x[8] = At(p, 1) /\ x[9] = At(p, 5) /\ x[10] = At(p, 9) /\ x[11] = At(p, 13)
      /\ x[12] = At(p, 3) /\ x[13] = At(p, 7) /\ x[14] = At(p, 11) /\ x[15] = At(p, 15)
  BY DEF Items, Flipped, Places, Halves8
<1> HIDE DEF x
<1>4. \A i \in Places : Items(q, Runs8)[i] = Halved(x, 1)[i]
  BY <1>1, <1>2, <1>3, LesserGreater DEF Compares, Items, Halved, Places, Runs8
<1> QED
  BY <1>1, <1>4 DEF x, Items, Halved, Places

LEMMA Layout16_8 ==
  ASSUME NEW p \in Registers, NEW q, q = Solver!MINMAX(Solver!SHUF(p, Solver!SHUFB_REV_8x16_256))
  PROVE  q \in Registers /\ Items(q, Halves16) = Halved(Flipped(Items(p, Runs8), 8), 8)
<1>1. q \in Registers /\ \A i \in Places : At(p, i) \in Int
  BY CompareShuffled, Shufb8x16 DEF At, Places, Registers, Words
<1>2. /\ Compares(q, 0, p, 0, 15) /\ Compares(q, 1, p, 1, 14)
      /\ Compares(q, 2, p, 2, 13) /\ Compares(q, 3, p, 3, 12)
      /\ Compares(q, 4, p, 4, 11) /\ Compares(q, 5, p, 5, 10)
      /\ Compares(q, 6, p, 6, 9) /\ Compares(q, 7, p, 7, 8)
  BY CompareShuffled, Shufb8x16 DEF Compares, At, Words
<1> DEFINE x == Flipped(Items(p, Runs8), 8)
<1>3. /\ x[0] = At(p, 0) /\ x[1] = At(p, 8) /\ x[2] = At(p, 4) /\ x[3] = At(p, 12)
      /\ x[4] = At(p, 2) /\ x[5] = At(p, 10) /\ x[6] = At(p, 6) /\ x[7] = At(p, 14)
      /\ x[8] = At(p, 15) /\ x[9] = At(p, 7) /\ x[10] = At(p, 11) /\ x[11] = At(p, 3)
      /\ x[12] = At(p, 13) /\ x[13] = At(p, 5) /\ x[14] = At(p, 9) /\ x[15] = At(p, 1)
  BY DEF Items, Flipped, Places, Runs8
<1> HIDE DEF x
<1>4. \A i \in Places : Items(q, Halves16)[i] = Halved(x, 8)[i]
  BY <1>1, <1>2, <1>3, LesserGreater DEF Compares, Items, Halved, Places, Halves16
<1> QED
  BY <1>1, <1>4 DEF x, Items, Halved, Places

LEMMA Layout16_4 ==
  ASSUME NEW p \in Registers, NEW q,
         q = Solver!STEP(Solver!SHUF(Solver!BLEND(p, Solver!OddWords),
                                     Solver!SHUFB_REV_4x16_256),
                         Solver!DwordsOf({1, 3}), Solver!SHUFD_REV_2x32_256)
  PROVE  q \in Registers /\ Items(q, Quarters16) = Halved(Items(p, Halves16), 4)
<1> DEFINE b == Solver!BLEND(p, Solver!OddWords)
           h == Solver!SHUF(b, Solver!SHUFB_REV_4x16_256)
<1>1. /\ b \in Registers
      /\ \A w \in Words :
           /\ b.ymm0[w] = IF w \in {1, 3, 5, 7} THEN p.ymm1[w] ELSE p.ymm0[w]
           /\ b.ymm1[w] = IF w \in {1, 3, 5, 7} THEN p.ymm0[w] ELSE p.ymm1[w]
  BY BlendValues, WordFacts
<1> HIDE DEF b
<1>2. /\ h \in Registers
      /\ \A w \in Words : /\ h.ymm0[w] = b.ymm0[w]
                          /\ h.ymm1[w] = b.ymm1[Solver!SHUFB_REV_4x16_256[w]]
  BY <1>1, ShuffleValues, Shufb4x16
<1>3. q = Solver!STEP(h, Solver!DwordsOf({1, 3}), Solver!SHUFD_REV_2x32_256)
  BY DEF b, h
<1> HIDE DEF h
<1>4. q \in Registers /\ \A i \in Places : At(p, i) \in Int
  BY <1>2, <1>3, Step2x32 DEF At, Places, Registers, Words
<1>5. /\ At(h, 0) = At(p, 0) /\ At(h, 1) = At(p, 9) /\ At(h, 2) = At(p, 2) /\ At(h, 3) = At(p, 11)
      /\ At(h, 4) = At(p, 4) /\ At(h, 5) = At(p, 13) /\ At(h, 6) = At(p, 6) /\ At(h, 7) = At(p, 15)
      /\ At(h, 8) = At(p, 3) /\ At(h, 9) = At(p, 10) /\ At(h, 10) = At(p, 1) /\ At(h, 11) = At(p, 8)
      /\ At(h, 12) = At(p, 7) /\ At(h, 13) = At(p, 14)
      /\ At(h, 14) = At(p, 5) /\ At(h, 15) = At(p, 12)
  BY <1>1, <1>2, Shufb4x16 DEF At, Words
<1>6. /\ Compares(q, 0, p, 0, 2) /\ Compares(q, 1, p, 9, 11)
      /\ Compares(q, 2, p, 1, 3) /\ Compares(q, 3, p, 8, 10)
      /\ Compares(q, 4, p, 4, 6) /\ Compares(q, 5, p, 13, 15)
      /\ Compares(q, 6, p, 5, 7) /\ Compares(q, 7, p, 12, 14)
  BY <1>2, <1>3, <1>5, Step2x32 DEF Compares
<1> DEFINE x == Items(p, Halves16)
<1>7. /\ x[0] = At(p, 0) /\ x[1] = At(p, 7) /\ x[2] = At(p, 4) /\ x[3] = At(p, 3)
      /\ x[4] = At(p, 2) /\ x[5] = At(p, 5) /\ x[6] = At(p, 6) /\ x[7] = At(p, 1)
      /\ x[8] = At(p, 8) /\ x[9] = At(p, 15) /\ x[10] = At(p, 12) /\ x[11] = At(p, 11)
      /\ x[12] = At(p, 10) /\ x[13] = At(p, 13) /\ x[14] = At(p, 14) /\ x[15] = At(p, 9)
  BY DEF Items, Flipped, Places, Halves16
<1> HIDE DEF x
<1>8. \A i \in Places : Items(q, Quarters16)[i] = Halved(x, 4)[i]
  BY <1>4, <1>6, <1>7, LesserGreater DEF Compares, Items, Halved, Places, Quarters16
<1> QED
  BY <1>4, <1>8 DEF x, Items, Halved, Places

LEMMA Layout16_2 ==
  ASSUME NEW p \in Registers, NEW q,
         q = Solver!STEP(p, Solver!DwordsOf({2, 3}), Solver!SHUFD_REV_2x64_256)
  PROVE  q \in Registers /\ Items(q, Eighths16) = Halved(Items(p, Quarters16), 2)
<1>1. q \in Registers /\ \A i \in Places : At(p, i) \in Int
  BY Step2x64 DEF At, Places, Registers, Words
<1>2. /\ Compares(q, 0, p, 0, 4) /\ Compares(q, 1, p, 1, 5)
      /\ Compares(q, 2, p, 2, 6) /\ Compares(q, 3, p, 3, 7)
      /\ Compares(q, 4, p, 12, 8) /\ Compares(q, 5, p, 13, 9)
      /\ Compares(q, 6, p, 14, 10) /\ Compares(q, 7, p, 15, 11)
  BY Step2x64
<1> DEFINE x == Items(p, Quarters16)
<1>3. /\ x[0] = At(p, 0) /\ x[1] = At(p, 6) /\ x[2] = At(p, 4) /\ x[3] = At(p, 2)
      /\ x[4] = At(p, 8) /\ x[5] = At(p, 14) /\ x[6] = At(p, 12) /\ x[7] = At(p, 10)
      /\ x[8] = At(p, 3) /\ x[9] = At(p, 5) /\ x[10] = At(p, 7) /\ x[11] = At(p, 1)
      /\ x[12] = At(p, 11) /\ x[13] = At(p, 13) /\ x[14] = At(p, 15) /\ x[15] = At(p, 9)
  BY DEF Items, Flipped, Places, Quarters16
<1> HIDE DEF x
<1>4. \A i \in Places : Items(q, Eighths16)[i] = Halved(x, 2)[i]
  BY <1>1, <1>2, <1>3, LesserGreater DEF Compares, Items, Halved, Places, Eighths16
<1> QED
  BY <1>1, <1>4 DEF x, Items, Halved, Places

LEMMA Layout16_1 ==
  ASSUME NEW p \in Registers, NEW q,
         q = Solver!STEP(p, Solver!DwordsOf({1, 3}), Solver!SHUFD_REV_2x32_256)
  PROVE  q \in Registers /\ Items(q, Runs) = Halved(Items(p, Eighths16), 1)
<1>1. q \in Registers /\ \A i \in Places : At(p, i) \in Int
  BY Step2x32 DEF At, Places, Registers, Words
<1>2. /\ Compares(q, 0, p, 0, 2) /\ Compares(q, 1, p, 1, 3)
      /\ Compares(q, 2, p, 10, 8) /\ Compares(q, 3, p, 11, 9)
      /\ Compares(q, 4, p, 4, 6) /\ Compares(q, 5, p, 5, 7)
      /\ Compares(q, 6, p, 14, 12) /\ Compares(q, 7, p, 15, 13)
  BY Step2x32
<1> DEFINE x == Items(p, Eighths16)
<1>3. /\ x[0] = At(p, 0) /\ x[1] = At(p, 2) /\ x[2] = At(p, 8) /\ x[3] = At(p, 10)
      /\ x[4] = At(p, 4) /\ x[5] = At(p, 6) /\ x[6] = At(p, 12) /\ x[7] = At(p, 14)
      /\ x[8] = At(p, 3) /\ x[9] = At(p, 1) /\ x[10] = At(p, 11) /\ x[11] = At(p, 9)
      /\ x[12] = At(p, 7) /\ x[13] = At(p, 5) /\ x[14] = At(p, 15) /\ x[15] = At(p, 13)
  BY DEF Items, Flipped, Places, Eighths16
<1> HIDE DEF x
<1>4. \A i \in Places : Items(q, Runs)[i] = Halved(x, 1)[i]
  BY <1>1, <1>2, <1>3, LesserGreater DEF Compares, Items, Halved, Places, Runs
<1> QED
  BY <1>1, <1>4 DEF x, Items, Halved, Places

-----------------------------------------------------------------------------
(* The network loses no byte: whatever it does to two registers only moves *)
(* what is in them, and never two to one place.                            *)

Flat(p) == [i \in Places |-> At(p, i)]

LEMMA SolverCardinality == \A S : Solver!Cardinality(S) = Cardinality(S)
BY DEF Solver!Cardinality, Cardinality

\* Moving items, two of them changing places at a time, keeps how often each is in.
LEMMA RearrangedCount ==
  ASSUME NEW a \in [Places -> Int], NEW b \in [Places -> Int], NEW f \in [Places -> Places],
         \A i \in Places : f[f[i]] = i /\ b[i] = a[f[i]]
  PROVE  Solver!Counted(b) = Solver!Counted(a)
<1>1. {b[i] : i \in Places} = {a[i] : i \in Places}
  <2>1. \A i \in Places : b[f[i]] = a[i]
    OBVIOUS
  <2> QED
    BY <2>1
<1>2. ASSUME NEW c
      PROVE  Cardinality({i \in Places : b[i] = c}) = Cardinality({i \in Places : a[i] = c})
  <2> DEFINE S == {i \in Places : a[i] = c}
             T == {i \in Places : b[i] = c}
             g == [i \in S |-> f[i]]
  <2>1. IsFiniteSet(S)
    <3>1. \A low, high \in Int : IsFiniteSet(low .. high)
      BY FS_Interval
    <3>2. IsFiniteSet(Places)
      <4>1. 0 \in Int /\ 15 \in Int
        OBVIOUS
      <4> QED
        BY <3>1, <4>1, Zenon DEF Places
    <3> QED
      BY <3>2, FS_Subset
  <2>2. g \in [S -> T]
    OBVIOUS
  <2>3. \A i, j \in S : g[i] = g[j] => i = j
    OBVIOUS
  <2>4. \A j \in T : \E i \in S : g[i] = j
    <3>1. \A j \in T : f[j] \in S /\ g[f[j]] = j
      OBVIOUS
    <3> QED
      BY <3>1
  <2>5. g \in Bijection(S, T)
    <3> HIDE DEF S, T, g
    <3> QED
      BY <2>2, <2>3, <2>4 DEF Bijection, Injection, Surjection, IsInjective
  <2>6. ExistsBijection(S, T)
    BY <2>5 DEF ExistsBijection
  <2> QED
    BY <2>1, <2>6, FS_Bijection
<1>3. \A c : Solver!Cardinality({i \in Places : b[i] = c}) =
             Solver!Cardinality({i \in Places : a[i] = c})
  BY <1>2, SolverCardinality
<1> QED
  BY <1>1, <1>3 DEF Solver!Counted, Solver!Lanes16, Places

LEMMA FlatType ==
  ASSUME NEW p \in Registers
  PROVE  Flat(p) \in [Places -> Int]
BY DEF Flat, At, Places, Registers, Words

LEMMA BlendCounts ==
  ASSUME NEW p \in Registers, NEW words
  PROVE  Solver!Counted(Flat(Solver!BLEND(p, words))) = Solver!Counted(Flat(p))
<1> DEFINE q == Solver!BLEND(p, words)
           f == [i \in Places |-> IF i < 8 THEN IF i \in words THEN i + 8 ELSE i
                                  ELSE IF i - 8 \in words THEN i - 8 ELSE i]
<1>1. /\ q \in Registers
      /\ \A w \in Words : /\ q.ymm0[w] = IF w \in words THEN p.ymm1[w] ELSE p.ymm0[w]
                          /\ q.ymm1[w] = IF w \in words THEN p.ymm0[w] ELSE p.ymm1[w]
  BY BlendValues
<1> HIDE DEF q
<1>2. f \in [Places -> Places] /\ \A i \in Places : f[f[i]] = i
  BY DEF Places
<1>3. \A i \in Places : Flat(q)[i] = Flat(p)[f[i]]
  <2>1. \A w \in Words :
          /\ w \in Places /\ w < 8
          /\ w + 8 \in Places /\ ~ (w + 8 < 8) /\ (w + 8) - 8 = w
    BY DEF Words, Places
  <2>2. \A i \in Places : \E w \in Words : i = w \/ i = w + 8
    <3>1. \A i \in Places : IF i < 8 THEN i \in Words ELSE i - 8 \in Words /\ i = (i - 8) + 8
      BY DEF Words, Places
    <3> QED
      BY <3>1
  <2>3. \A w \in Words : /\ Flat(p)[w] = p.ymm0[w] /\ Flat(p)[w + 8] = p.ymm1[w]
                         /\ Flat(q)[w] = q.ymm0[w] /\ Flat(q)[w + 8] = q.ymm1[w]
    BY <2>1 DEF Flat, At
  <2>4. \A w \in Words : /\ f[w] = IF w \in words THEN w + 8 ELSE w
                         /\ f[w + 8] = IF w \in words THEN w ELSE w + 8
    BY <2>1
  <2> HIDE DEF f
  <2> QED
    BY <1>1, <2>2, <2>3, <2>4
<1>4. Flat(p) \in [Places -> Int] /\ Flat(q) \in [Places -> Int]
  BY <1>1, FlatType
<1>5. Solver!Counted(Flat(q)) = Solver!Counted(Flat(p))
  BY <1>2, <1>3, <1>4, RearrangedCount
<1> QED
  BY <1>5 DEF q

LEMMA ShuffleCounts ==
  ASSUME NEW p \in Registers, NEW order \in [Words -> Words],
         \A w \in Words : order[order[w]] = w
  PROVE  Solver!Counted(Flat(Solver!SHUF(p, order))) = Solver!Counted(Flat(p))
<1> DEFINE q == Solver!SHUF(p, order)
           f == [i \in Places |-> IF i < 8 THEN i ELSE order[i - 8] + 8]
<1>1. /\ q \in Registers
      /\ \A w \in Words : q.ymm0[w] = p.ymm0[w] /\ q.ymm1[w] = p.ymm1[order[w]]
  BY ShuffleValues
<1> HIDE DEF q
<1>2. \A w \in Words :
        /\ w \in Places /\ w < 8
        /\ w + 8 \in Places /\ ~ (w + 8 < 8) /\ (w + 8) - 8 = w
        /\ order[w] \in Words
  BY DEF Words, Places
<1>3. \A i \in Places : \E w \in Words : i = w \/ i = w + 8
  <2>1. \A i \in Places : IF i < 8 THEN i \in Words ELSE i - 8 \in Words /\ i = (i - 8) + 8
    BY DEF Words, Places
  <2> QED
    BY <2>1
<1>4. \A w \in Words : f[w] = w /\ f[w + 8] = order[w] + 8
  BY <1>2
<1>5. \A w \in Words : /\ Flat(p)[w] = p.ymm0[w] /\ Flat(p)[w + 8] = p.ymm1[w]
                       /\ Flat(q)[w] = q.ymm0[w] /\ Flat(q)[w + 8] = q.ymm1[w]
  BY <1>2 DEF Flat, At
<1>6. f \in [Places -> Places]
  <2>1. \A i \in Places : ~ (i < 8) => i - 8 \in Words
    BY DEF Words, Places
  <2> QED
    BY <1>2, <2>1
<1> HIDE DEF f
<1>7. \A i \in Places : f[f[i]] = i /\ Flat(q)[i] = Flat(p)[f[i]]
  BY <1>1, <1>2, <1>3, <1>4, <1>5
<1>8. Flat(p) \in [Places -> Int] /\ Flat(q) \in [Places -> Int]
  BY <1>1, FlatType
<1>9. Solver!Counted(Flat(q)) = Solver!Counted(Flat(p))
  BY <1>6, <1>7, <1>8, RearrangedCount
<1> QED
  BY <1>9 DEF q

\* A comparison exchanges the words that are out of order.
LEMMA MinMaxCounts ==
  ASSUME NEW p \in Registers
  PROVE  Solver!Counted(Flat(Solver!MINMAX(p))) = Solver!Counted(Flat(p))
<1> DEFINE words == {w \in Words : ~ (p.ymm0[w] <= p.ymm1[w])}
<1>1. \A w \in Words : p.ymm0[w] \in Int /\ p.ymm1[w] \in Int
  BY DEF Registers
<1>2. \A w \in Words :
        /\ Solver!Lesser(p.ymm0[w], p.ymm1[w]) =
             IF w \in words THEN p.ymm1[w] ELSE p.ymm0[w]
        /\ Solver!Greater(p.ymm1[w], p.ymm0[w]) =
             IF w \in words THEN p.ymm0[w] ELSE p.ymm1[w]
  BY <1>1 DEF Solver!Lesser, Solver!Greater
<1> HIDE DEF words
<1>3. Solver!MINMAX(p) = Solver!BLEND(p, words)
  BY <1>2 DEF Solver!MINMAX, Solver!BLEND, Solver!Words, Words
<1> QED
  BY <1>3, BlendCounts

LEMMA CompareCounts ==
  ASSUME NEW p \in Registers, NEW order \in [Words -> Words],
         \A w \in Words : order[order[w]] = w
  PROVE  Solver!Counted(Flat(Solver!MINMAX(Solver!SHUF(p, order)))) = Solver!Counted(Flat(p))
BY ShuffleValues, ShuffleCounts, MinMaxCounts

LEMMA StepCounts ==
  ASSUME NEW p \in Registers, NEW order \in [Words -> Words], NEW words,
         \A w \in Words : order[order[w]] = w
  PROVE  Solver!Counted(Flat(Solver!STEP(p, words, order))) = Solver!Counted(Flat(p))
BY BlendValues, BlendCounts, CompareCounts DEF Solver!STEP

-----------------------------------------------------------------------------
(* The stages of the sort.                                                 *)

LEMMA ReadType ==
  ASSUME NEW p \in Registers
  PROVE  Items(p, Runs) \in [Places -> Int] /\ Items(p, Runs8) \in [Places -> Int]
BY DEF Items, At, Places, Registers, Words, Runs, Runs8

\* The two halves of a merge, with lengths to match.
LEMMA Turning ==
  ASSUME NEW n \in Lengths, NEW k, k = 2 * n, NEW x \in [Places -> Int], InOrder(x, 1, n)
  PROVE  /\ Flipped(x, n) \in [Places -> Int]
         /\ BitonicBlocks(Flipped(x, n), k) /\ InOrder(Flipped(x, n), k, k)
BY FlippingIsBitonic

LEMMA Merging ==
  ASSUME NEW n \in Lengths, NEW k, k = 2 * n, NEW m \in {2, 4, 8, 16}, k <= m,
         NEW x \in [Places -> Int], BitonicBlocks(x, k), InOrder(x, k, m)
  PROVE  /\ Halved(x, n) \in [Places -> Int]
         /\ BitonicBlocks(Halved(x, n), n) /\ InOrder(Halved(x, n), n, m)
BY HalvingOrders, HalvedValues

LEMMA NumbersUsed ==
  /\ 1 \in Lengths /\ 2 \in Lengths /\ 4 \in Lengths /\ 8 \in Lengths
  /\ 2 = 2 * 1 /\ 4 = 2 * 2 /\ 8 = 2 * 4 /\ 16 = 2 * 8
  /\ 2 <= 2 /\ 2 <= 4 /\ 2 <= 8 /\ 2 <= 16 /\ 4 <= 4 /\ 4 <= 8 /\ 4 <= 16
  /\ 8 <= 8 /\ 8 <= 16 /\ 16 <= 16
BY DEF Lengths

LEMMA Stage2Orders ==
  ASSUME NEW p \in Registers, InOrder(Items(p, Runs), 1, 1), NEW q,
         q = Solver!MINMAX(p)
  PROVE  /\ q \in Registers /\ InOrder(Items(q, Runs), 1, 2)
         /\ Solver!Counted(Flat(q)) = Solver!Counted(Flat(p))
<1> DEFINE p0 == Flipped(Items(p, Runs), 1)
           p1 == Solver!MINMAX(p)
<1>0. /\ p0 = Flipped(Items(p, Runs), 1) /\ p0 \in [Places -> Int]
      /\ BitonicBlocks(p0, 2) /\ InOrder(p0, 2, 2)
  BY ReadType, NumbersUsed, Turning
<1> HIDE DEF p0
<1>1. /\ p1 \in Registers /\ Items(p1, Runs) \in [Places -> Int]
      /\ BitonicBlocks(Items(p1, Runs), 1) /\ InOrder(Items(p1, Runs), 1, 2)
      /\ Solver!Counted(Flat(p1)) = Solver!Counted(Flat(p))
  <2>1. p1 \in Registers /\ Items(p1, Runs) = Halved(p0, 1)
    BY <1>0, Layout2_1
  <2>2. /\ Halved(p0, 1) \in [Places -> Int]
        /\ BitonicBlocks(Halved(p0, 1), 1) /\ InOrder(Halved(p0, 1), 1, 2)
    BY <1>0, NumbersUsed, Merging
  <2>3. Solver!Counted(Flat(p1)) = Solver!Counted(Flat(p))
    BY MinMaxCounts
  <2> QED
    BY <2>1, <2>2, <2>3
<1> QED
  BY <1>1

LEMMA Stage4Orders ==
  ASSUME NEW p \in Registers, InOrder(Items(p, Runs), 1, 2), NEW q,
         q = Solver!STEP(Solver!MINMAX(Solver!SHUF(p, Solver!SHUFD_REV_2x32_256)),
                         Solver!DwordsOf({1, 3}), Solver!SHUFD_REV_2x32_256)
  PROVE  /\ q \in Registers /\ InOrder(Items(q, Runs), 1, 4)
         /\ Solver!Counted(Flat(q)) = Solver!Counted(Flat(p))
<1> DEFINE p0 == Flipped(Items(p, Runs), 2)
           p1 == Solver!MINMAX(Solver!SHUF(p, Solver!SHUFD_REV_2x32_256))
           p2 == Solver!STEP(p1, Solver!DwordsOf({1, 3}), Solver!SHUFD_REV_2x32_256)
<1>0. /\ p0 = Flipped(Items(p, Runs), 2) /\ p0 \in [Places -> Int]
      /\ BitonicBlocks(p0, 4) /\ InOrder(p0, 4, 4)
  BY ReadType, NumbersUsed, Turning
<1> HIDE DEF p0
<1>1. /\ p1 \in Registers /\ Items(p1, Halves4) \in [Places -> Int]
      /\ BitonicBlocks(Items(p1, Halves4), 2) /\ InOrder(Items(p1, Halves4), 2, 4)
      /\ Solver!Counted(Flat(p1)) = Solver!Counted(Flat(p))
  <2>1. p1 \in Registers /\ Items(p1, Halves4) = Halved(p0, 2)
    BY <1>0, Layout4_2
  <2>2. /\ Halved(p0, 2) \in [Places -> Int]
        /\ BitonicBlocks(Halved(p0, 2), 2) /\ InOrder(Halved(p0, 2), 2, 4)
    BY <1>0, NumbersUsed, Merging
  <2>3. Solver!Counted(Flat(p1)) = Solver!Counted(Flat(p))
    BY CompareCounts, Shufd2x32
  <2> QED
    BY <2>1, <2>2, <2>3
<1>2. /\ p2 \in Registers /\ Items(p2, Runs) \in [Places -> Int]
      /\ BitonicBlocks(Items(p2, Runs), 1) /\ InOrder(Items(p2, Runs), 1, 4)
      /\ Solver!Counted(Flat(p2)) = Solver!Counted(Flat(p1))
  <2>1. p2 \in Registers /\ Items(p2, Runs) = Halved(Items(p1, Halves4), 1)
    BY <1>1, Layout4_1
  <2>2. /\ Halved(Items(p1, Halves4), 1) \in [Places -> Int]
        /\ BitonicBlocks(Halved(Items(p1, Halves4), 1), 1)
        /\ InOrder(Halved(Items(p1, Halves4), 1), 1, 4)
    BY <1>1, NumbersUsed, Merging
  <2>3. Solver!Counted(Flat(p2)) = Solver!Counted(Flat(p1))
    BY <1>1, StepCounts, Shufd2x32
  <2> QED
    BY <2>1, <2>2, <2>3
<1> QED
  BY <1>1, <1>2

LEMMA Stage8Orders ==
  ASSUME NEW p \in Registers, InOrder(Items(p, Runs), 1, 4), NEW q,
         q = Solver!STEP(Solver!STEP(
                 Solver!MINMAX(Solver!SHUF(p, Solver!SHUFD_REV_4x32_256)),
                 Solver!DwordsOf({1, 3}), Solver!SHUFD_REV_2x32_256),
               Solver!DwordsOf({2, 3}), Solver!SHUFD_REV_2x64_256)
  PROVE  /\ q \in Registers /\ InOrder(Items(q, Runs8), 1, 8)
         /\ Solver!Counted(Flat(q)) = Solver!Counted(Flat(p))
<1> DEFINE p0 == Flipped(Items(p, Runs), 4)
           p1 == Solver!MINMAX(Solver!SHUF(p, Solver!SHUFD_REV_4x32_256))
           p2 == Solver!STEP(p1, Solver!DwordsOf({1, 3}), Solver!SHUFD_REV_2x32_256)
           p3 == Solver!STEP(p2, Solver!DwordsOf({2, 3}), Solver!SHUFD_REV_2x64_256)
<1>0. /\ p0 = Flipped(Items(p, Runs), 4) /\ p0 \in [Places -> Int]
      /\ BitonicBlocks(p0, 8) /\ InOrder(p0, 8, 8)
  BY ReadType, NumbersUsed, Turning
<1> HIDE DEF p0
<1>1. /\ p1 \in Registers /\ Items(p1, Quarters8) \in [Places -> Int]
      /\ BitonicBlocks(Items(p1, Quarters8), 4) /\ InOrder(Items(p1, Quarters8), 4, 8)
      /\ Solver!Counted(Flat(p1)) = Solver!Counted(Flat(p))
  <2>1. p1 \in Registers /\ Items(p1, Quarters8) = Halved(p0, 4)
    BY <1>0, Layout8_4
  <2>2. /\ Halved(p0, 4) \in [Places -> Int]
        /\ BitonicBlocks(Halved(p0, 4), 4) /\ InOrder(Halved(p0, 4), 4, 8)
    BY <1>0, NumbersUsed, Merging
  <2>3. Solver!Counted(Flat(p1)) = Solver!Counted(Flat(p))
    BY CompareCounts, Shufd4x32
  <2> QED
    BY <2>1, <2>2, <2>3
<1>2. /\ p2 \in Registers /\ Items(p2, Halves8) \in [Places -> Int]
      /\ BitonicBlocks(Items(p2, Halves8), 2) /\ InOrder(Items(p2, Halves8), 2, 8)
      /\ Solver!Counted(Flat(p2)) = Solver!Counted(Flat(p1))
  <2>1. p2 \in Registers /\ Items(p2, Halves8) = Halved(Items(p1, Quarters8), 2)
    BY <1>1, Layout8_2
  <2>2. /\ Halved(Items(p1, Quarters8), 2) \in [Places -> Int]
        /\ BitonicBlocks(Halved(Items(p1, Quarters8), 2), 2)
        /\ InOrder(Halved(Items(p1, Quarters8), 2), 2, 8)
    BY <1>1, NumbersUsed, Merging
  <2>3. Solver!Counted(Flat(p2)) = Solver!Counted(Flat(p1))
    BY <1>1, StepCounts, Shufd2x32
  <2> QED
    BY <2>1, <2>2, <2>3
<1>3. /\ p3 \in Registers /\ Items(p3, Runs8) \in [Places -> Int]
      /\ BitonicBlocks(Items(p3, Runs8), 1) /\ InOrder(Items(p3, Runs8), 1, 8)
      /\ Solver!Counted(Flat(p3)) = Solver!Counted(Flat(p2))
  <2>1. p3 \in Registers /\ Items(p3, Runs8) = Halved(Items(p2, Halves8), 1)
    BY <1>2, Layout8_1
  <2>2. /\ Halved(Items(p2, Halves8), 1) \in [Places -> Int]
        /\ BitonicBlocks(Halved(Items(p2, Halves8), 1), 1)
        /\ InOrder(Halved(Items(p2, Halves8), 1), 1, 8)
    BY <1>2, NumbersUsed, Merging
  <2>3. Solver!Counted(Flat(p3)) = Solver!Counted(Flat(p2))
    BY <1>2, StepCounts, Shufd2x64
  <2> QED
    BY <2>1, <2>2, <2>3
<1> QED
  BY <1>1, <1>2, <1>3

LEMMA Stage16Orders ==
  ASSUME NEW p \in Registers, InOrder(Items(p, Runs8), 1, 8), NEW q,
         q = Solver!STEP(Solver!STEP(Solver!STEP(
                 Solver!SHUF(Solver!BLEND(
                     Solver!MINMAX(Solver!SHUF(p, Solver!SHUFB_REV_8x16_256)),
                     Solver!OddWords), Solver!SHUFB_REV_4x16_256),
                 Solver!DwordsOf({1, 3}), Solver!SHUFD_REV_2x32_256),
               Solver!DwordsOf({2, 3}), Solver!SHUFD_REV_2x64_256),
             Solver!DwordsOf({1, 3}), Solver!SHUFD_REV_2x32_256)
  PROVE  /\ q \in Registers /\ InOrder(Items(q, Runs), 1, 16)
         /\ Solver!Counted(Flat(q)) = Solver!Counted(Flat(p))
<1> DEFINE p0 == Flipped(Items(p, Runs8), 8)
           p1 == Solver!MINMAX(Solver!SHUF(p, Solver!SHUFB_REV_8x16_256))
           p2 == Solver!STEP(Solver!SHUF(Solver!BLEND(p1, Solver!OddWords), Solver!SHUFB_REV_4x16_256),
               Solver!DwordsOf({1, 3}), Solver!SHUFD_REV_2x32_256)
           p3 == Solver!STEP(p2, Solver!DwordsOf({2, 3}), Solver!SHUFD_REV_2x64_256)
           p4 == Solver!STEP(p3, Solver!DwordsOf({1, 3}), Solver!SHUFD_REV_2x32_256)
<1>0. /\ p0 = Flipped(Items(p, Runs8), 8) /\ p0 \in [Places -> Int]
      /\ BitonicBlocks(p0, 16) /\ InOrder(p0, 16, 16)
  BY ReadType, NumbersUsed, Turning
<1> HIDE DEF p0
<1>1. /\ p1 \in Registers /\ Items(p1, Halves16) \in [Places -> Int]
      /\ BitonicBlocks(Items(p1, Halves16), 8) /\ InOrder(Items(p1, Halves16), 8, 16)
      /\ Solver!Counted(Flat(p1)) = Solver!Counted(Flat(p))
  <2>1. p1 \in Registers /\ Items(p1, Halves16) = Halved(p0, 8)
    BY <1>0, Layout16_8
  <2>2. /\ Halved(p0, 8) \in [Places -> Int]
        /\ BitonicBlocks(Halved(p0, 8), 8) /\ InOrder(Halved(p0, 8), 8, 16)
    BY <1>0, NumbersUsed, Merging
  <2>3. Solver!Counted(Flat(p1)) = Solver!Counted(Flat(p))
    BY CompareCounts, Shufb8x16
  <2> QED
    BY <2>1, <2>2, <2>3
<1>2. /\ p2 \in Registers /\ Items(p2, Quarters16) \in [Places -> Int]
      /\ BitonicBlocks(Items(p2, Quarters16), 4) /\ InOrder(Items(p2, Quarters16), 4, 16)
      /\ Solver!Counted(Flat(p2)) = Solver!Counted(Flat(p1))
  <2>1. p2 \in Registers /\ Items(p2, Quarters16) = Halved(Items(p1, Halves16), 4)
    BY <1>1, Layout16_4
  <2>2. /\ Halved(Items(p1, Halves16), 4) \in [Places -> Int]
        /\ BitonicBlocks(Halved(Items(p1, Halves16), 4), 4)
        /\ InOrder(Halved(Items(p1, Halves16), 4), 4, 16)
    BY <1>1, NumbersUsed, Merging
  <2>3. Solver!Counted(Flat(p2)) = Solver!Counted(Flat(p1))
    BY <1>1, BlendValues, BlendCounts, ShuffleValues, ShuffleCounts, StepCounts,
     Shufd2x32, Shufb4x16
  <2> QED
    BY <2>1, <2>2, <2>3
<1>3. /\ p3 \in Registers /\ Items(p3, Eighths16) \in [Places -> Int]
      /\ BitonicBlocks(Items(p3, Eighths16), 2) /\ InOrder(Items(p3, Eighths16), 2, 16)
      /\ Solver!Counted(Flat(p3)) = Solver!Counted(Flat(p2))
  <2>1. p3 \in Registers /\ Items(p3, Eighths16) = Halved(Items(p2, Quarters16), 2)
    BY <1>2, Layout16_2
  <2>2. /\ Halved(Items(p2, Quarters16), 2) \in [Places -> Int]
        /\ BitonicBlocks(Halved(Items(p2, Quarters16), 2), 2)
        /\ InOrder(Halved(Items(p2, Quarters16), 2), 2, 16)
    BY <1>2, NumbersUsed, Merging
  <2>3. Solver!Counted(Flat(p3)) = Solver!Counted(Flat(p2))
    BY <1>2, StepCounts, Shufd2x64
  <2> QED
    BY <2>1, <2>2, <2>3
<1>4. /\ p4 \in Registers /\ Items(p4, Runs) \in [Places -> Int]
      /\ BitonicBlocks(Items(p4, Runs), 1) /\ InOrder(Items(p4, Runs), 1, 16)
      /\ Solver!Counted(Flat(p4)) = Solver!Counted(Flat(p3))
  <2>1. p4 \in Registers /\ Items(p4, Runs) = Halved(Items(p3, Eighths16), 1)
    BY <1>3, Layout16_1
  <2>2. /\ Halved(Items(p3, Eighths16), 1) \in [Places -> Int]
        /\ BitonicBlocks(Halved(Items(p3, Eighths16), 1), 1)
        /\ InOrder(Halved(Items(p3, Eighths16), 1), 1, 16)
    BY <1>3, NumbersUsed, Merging
  <2>3. Solver!Counted(Flat(p4)) = Solver!Counted(Flat(p3))
    BY <1>3, StepCounts, Shufd2x32
  <2> QED
    BY <2>1, <2>2, <2>3
<1> QED
  BY <1>1, <1>2, <1>3, <1>4

\* The last step reads the runs out of the registers, one word of each in turn.
LEMMA PackReads ==
  ASSUME NEW p \in Registers, NEW q,
         q = Solver!SHUF(Solver!BLEND(Solver!SHUF(p, Solver!SHUFB_REV_2x16_256),
                                      Solver!OddWords), Solver!SHUFB_REV_2x16_256)
  PROVE  /\ q \in Registers /\ Flat(q) = Items(p, Runs)
         /\ Solver!Counted(Flat(q)) = Solver!Counted(Flat(p))
<1> DEFINE r == Solver!SHUF(p, Solver!SHUFB_REV_2x16_256)
           s == Solver!BLEND(r, Solver!OddWords)
<1>1. /\ r \in Registers /\ Solver!Counted(Flat(r)) = Solver!Counted(Flat(p))
      /\ \A w \in Words : /\ r.ymm0[w] = p.ymm0[w]
                          /\ r.ymm1[w] = p.ymm1[Solver!SHUFB_REV_2x16_256[w]]
  BY ShuffleValues, ShuffleCounts, Shufb2x16
<1> HIDE DEF r
<1>2. /\ s \in Registers /\ Solver!Counted(Flat(s)) = Solver!Counted(Flat(r))
      /\ \A w \in Words :
           /\ s.ymm0[w] = IF w \in {1, 3, 5, 7} THEN r.ymm1[w] ELSE r.ymm0[w]
           /\ s.ymm1[w] = IF w \in {1, 3, 5, 7} THEN r.ymm0[w] ELSE r.ymm1[w]
  BY <1>1, BlendValues, BlendCounts, WordFacts
<1>3. q = Solver!SHUF(s, Solver!SHUFB_REV_2x16_256)
  BY DEF r
<1> HIDE DEF s
<1>4. /\ q \in Registers /\ Solver!Counted(Flat(q)) = Solver!Counted(Flat(s))
      /\ \A w \in Words : /\ q.ymm0[w] = s.ymm0[w]
                          /\ q.ymm1[w] = s.ymm1[Solver!SHUFB_REV_2x16_256[w]]
  BY <1>2, <1>3, ShuffleValues, ShuffleCounts, Shufb2x16
<1>5. /\ At(q, 0) = At(p, 0) /\ At(q, 1) = At(p, 8) /\ At(q, 2) = At(p, 2) /\ At(q, 3) = At(p, 10)
      /\ At(q, 4) = At(p, 4) /\ At(q, 5) = At(p, 12) /\ At(q, 6) = At(p, 6) /\ At(q, 7) = At(p, 14)
      /\ At(q, 8) = At(p, 1) /\ At(q, 9) = At(p, 9) /\ At(q, 10) = At(p, 3) /\ At(q, 11) = At(p, 11)
      /\ At(q, 12) = At(p, 5) /\ At(q, 13) = At(p, 13) /\ At(q, 14) = At(p, 7) /\ At(q, 15) = At(p, 15)
  BY <1>1, <1>2, <1>4, Shufb2x16 DEF At, Words
<1>6. Flat(q) = Items(p, Runs)
  BY <1>5 DEF Flat, Items, Runs, Places
<1> QED
  BY <1>1, <1>2, <1>4, <1>6

-----------------------------------------------------------------------------
\* Blocks as long as the stage are in order, where the runs of the registers
\* put them, and no byte is lost.
SortInv ==
  /\ pair \in Registers
  /\ stage \in {0, 1, 2, 4, 8, 16}
  /\ stage \in {1, 2, 4, 16} => InOrder(Items(pair, Runs), 1, stage)
  /\ stage = 8 => InOrder(Items(pair, Runs8), 1, 8)
  /\ stage = 0 => InOrder(Flat(pair), 1, 16)
  /\ Solver!Counted(Flat(pair)) = input

LEMMA LoadedCounts ==
  ASSUME NEW a \in [Places -> Int], Solver!SortInit(a)
  PROVE  SortInv
<1>1. /\ stage = 1 /\ input = Solver!Counted(a)
      /\ pair = [ymm0 |-> [w \in Words |-> a[8 + w]], ymm1 |-> [w \in Words |-> a[w]]]
  BY DEF Solver!SortInit, Solver!Words, Words
<1>2. pair \in Registers
  <2>1. \A w \in Words : a[8 + w] \in Int /\ a[w] \in Int
    BY DEF Words, Places
  <2> QED
    BY <1>1, <2>1 DEF Registers
<1>3. InOrder(Items(pair, Runs), 1, 1)
  <2>1. \A i, j \in Places : ~ (i \div 1 = j \div 1 /\ i \div 1 < j \div 1)
    BY DEF Places
  <2> QED
    BY <2>1 DEF InOrder
<1> DEFINE f == [i \in Places |-> IF i < 8 THEN i + 8 ELSE i - 8]
<1>4. f \in [Places -> Places] /\ \A i \in Places : f[f[i]] = i
  BY DEF Places
<1>5. \A i \in Places : Flat(pair)[i] = a[f[i]]
  BY <1>1 DEF Flat, At, Words, Places
<1>6. Solver!Counted(Flat(pair)) = Solver!Counted(a)
  BY <1>2, <1>4, <1>5, FlatType, RearrangedCount
<1> QED
  BY <1>1, <1>2, <1>3, <1>6 DEF SortInv

LEMMA LaneFacts ==
  ASSUME lanes \in LaneInputs, NEW i \in Places
  PROVE  /\ Solver!Current(lanes)[i] \in 0 .. 15
         /\ Solver!Goal(lanes)[i] \in (0 .. 15) \cup {Wild}
<1>1. lanes \in [Places -> (0 .. 15) \X ((0 .. 15) \cup {Wild})]
  BY LaneInputsAssumption DEF Places
<1>2. lanes[i] \in (0 .. 15) \X ((0 .. 15) \cup {Wild})
  BY <1>1
<1> QED
  BY <1>2 DEF Solver!Current, Solver!Goal, Solver!Lanes16, Places

LEMMA ArraysStart ==
  ASSUME ProgramInit
  PROVE  SortInv
<1>1. CASE Solver!CheckInit
  <2>1. lanes \in LaneInputs
    BY <1>1 DEF Solver!CheckInit
  <2> DEFINE a == [i \in Places |-> Solver!GoalByte(Solver!Current(lanes)[i], Solver!Goal(lanes)[i])]
  <2>2. \A i \in Places : a[i] \in Int
    <3> SUFFICES ASSUME NEW i \in Places PROVE a[i] \in Int
      OBVIOUS
    <3>1. /\ Solver!Current(lanes)[i] \in 0 .. 15
          /\ Solver!Goal(lanes)[i] \in (0 .. 15) \cup {Wild}
      BY <2>1, LaneFacts
    <3> QED
      BY <3>1 DEF Solver!GoalByte
  <2>3. a \in [Places -> Int]
    BY <2>2
  <2>4. Solver!SortInit(a)
    BY <1>1 DEF Solver!CheckInit, Solver!Lanes16, Places
  <2> HIDE DEF a
  <2> QED
    BY <2>3, <2>4, LoadedCounts
<1>2. CASE ZerosAndOnes
  <2>1. PICK high \in SUBSET (0 .. 15) :
          Solver!SortInit([i \in Places |-> IF i \in high THEN 1 ELSE 0])
    BY <1>2 DEF ZerosAndOnes, Places
  <2> DEFINE a == [i \in Places |-> IF i \in high THEN 1 ELSE 0]
  <2>2. a \in [Places -> Int] /\ Solver!SortInit(a)
    BY <2>1
  <2> HIDE DEF a
  <2> QED
    BY <2>2, LoadedCounts
<1>3. CASE Solver!SortInit([i \in 0 .. 15 |-> 0])
  <2> DEFINE a == [i \in Places |-> 0]
  <2>1. a \in [Places -> Int] /\ Solver!SortInit(a)
    BY <1>3 DEF Places
  <2> HIDE DEF a
  <2> QED
    BY <2>1, LoadedCounts
<1> QED
  BY <1>1, <1>2, <1>3 DEF ProgramInit

LEMMA StagesKeepOrder ==
  ASSUME SortInv, Solver!bitonic_sort4x16x8_inner
  PROVE  SortInv'
<1>1. pair \in Registers /\ Solver!Counted(Flat(pair)) = input /\ input' = input
  BY DEF SortInv, Solver!bitonic_sort4x16x8_inner
<1>2. CASE Solver!Sort2
  <2>1. stage = 1 /\ stage' = 2 /\ pair' = Solver!MINMAX(pair)
    BY <1>2 DEF Solver!Sort2
  <2>2. InOrder(Items(pair, Runs), 1, 1)
    BY <2>1 DEF SortInv
  <2>3. /\ pair' \in Registers /\ InOrder(Items(pair', Runs), 1, 2)
        /\ Solver!Counted(Flat(pair')) = Solver!Counted(Flat(pair))
    BY <1>1, <2>1, <2>2, Stage2Orders
  <2> QED
    BY <1>1, <2>1, <2>3 DEF SortInv
<1>3. CASE Solver!Sort4
  <2>1. /\ stage = 2 /\ stage' = 4
        /\ pair' = Solver!STEP(Solver!MINMAX(Solver!SHUF(pair, Solver!SHUFD_REV_2x32_256)),
                               Solver!DwordsOf({1, 3}), Solver!SHUFD_REV_2x32_256)
    BY <1>3 DEF Solver!Sort4
  <2>2. InOrder(Items(pair, Runs), 1, 2)
    BY <2>1 DEF SortInv
  <2>3. /\ pair' \in Registers /\ InOrder(Items(pair', Runs), 1, 4)
        /\ Solver!Counted(Flat(pair')) = Solver!Counted(Flat(pair))
    BY <1>1, <2>1, <2>2, Stage4Orders
  <2> QED
    BY <1>1, <2>1, <2>3 DEF SortInv
<1>4. CASE Solver!Sort8
  <2>1. /\ stage = 4 /\ stage' = 8
        /\ pair' = Solver!STEP(Solver!STEP(
                       Solver!MINMAX(Solver!SHUF(pair, Solver!SHUFD_REV_4x32_256)),
                       Solver!DwordsOf({1, 3}), Solver!SHUFD_REV_2x32_256),
                     Solver!DwordsOf({2, 3}), Solver!SHUFD_REV_2x64_256)
    BY <1>4 DEF Solver!Sort8
  <2>2. InOrder(Items(pair, Runs), 1, 4)
    BY <2>1 DEF SortInv
  <2>3. /\ pair' \in Registers /\ InOrder(Items(pair', Runs8), 1, 8)
        /\ Solver!Counted(Flat(pair')) = Solver!Counted(Flat(pair))
    BY <1>1, <2>1, <2>2, Stage8Orders
  <2> QED
    BY <1>1, <2>1, <2>3 DEF SortInv
<1>5. CASE Solver!Sort16
  <2>1. /\ stage = 8 /\ stage' = 16
        /\ pair' = Solver!STEP(Solver!STEP(Solver!STEP(
                       Solver!SHUF(Solver!BLEND(
                           Solver!MINMAX(Solver!SHUF(pair, Solver!SHUFB_REV_8x16_256)),
                           Solver!OddWords), Solver!SHUFB_REV_4x16_256),
                       Solver!DwordsOf({1, 3}), Solver!SHUFD_REV_2x32_256),
                     Solver!DwordsOf({2, 3}), Solver!SHUFD_REV_2x64_256),
                   Solver!DwordsOf({1, 3}), Solver!SHUFD_REV_2x32_256)
    BY <1>5 DEF Solver!Sort16
  <2>2. InOrder(Items(pair, Runs8), 1, 8)
    BY <2>1 DEF SortInv
  <2>3. /\ pair' \in Registers /\ InOrder(Items(pair', Runs), 1, 16)
        /\ Solver!Counted(Flat(pair')) = Solver!Counted(Flat(pair))
    BY <1>1, <2>1, <2>2, Stage16Orders
  <2> QED
    BY <1>1, <2>1, <2>3 DEF SortInv
<1>6. CASE Solver!Pack
  <2>1. /\ stage = 16 /\ stage' = 0
        /\ pair' = Solver!SHUF(Solver!BLEND(Solver!SHUF(pair, Solver!SHUFB_REV_2x16_256),
                                            Solver!OddWords), Solver!SHUFB_REV_2x16_256)
    BY <1>6 DEF Solver!Pack
  <2>2. InOrder(Items(pair, Runs), 1, 16)
    BY <2>1 DEF SortInv
  <2>3. /\ pair' \in Registers /\ Flat(pair') = Items(pair, Runs)
        /\ Solver!Counted(Flat(pair')) = Solver!Counted(Flat(pair))
    BY <1>1, <2>1, PackReads
  <2> QED
    BY <1>1, <2>1, <2>2, <2>3 DEF SortInv
<1> QED
  BY <1>2, <1>3, <1>4, <1>5, <1>6 DEF Solver!bitonic_sort4x16x8_inner

LEMMA SortedIsSorted ==
  ASSUME SortInv
  PROVE  ArraysAreSorted
<1> SUFFICES ASSUME stage = 0 PROVE ArraysAreSorted
  BY DEF ArraysAreSorted, Solver!ArraysAreSorted
<1>1. Solver!packed_array = Flat(pair)
  BY DEF Solver!packed_array, Solver!Lanes16, Flat, At, Places
<1>2. InOrder(Flat(pair), 1, 16) /\ Solver!Counted(Flat(pair)) = input
  BY DEF SortInv
<1>3. \A i \in 0 .. 14 : Flat(pair)[i] <= Flat(pair)[i + 1]
  <2>1. \A i \in 0 .. 14 : /\ i \in Places /\ i + 1 \in Places
                           /\ i \div 16 = (i + 1) \div 16 /\ i \div 1 < (i + 1) \div 1
    BY DEF Places
  <2> QED
    BY <1>2, <2>1 DEF InOrder
<1> QED
  BY <1>1, <1>2, <1>3 DEF ArraysAreSorted, Solver!ArraysAreSorted

\* Every array that is loaded comes out in ascending order, with the bytes it went
\* in with: bitonic_sort4x16x8_inner's network sorts, whatever the bytes.
THEOREM ArraysAlwaysSorted == ProgramSpec => []ArraysAreSorted
<1>1. ProgramInit => SortInv
  BY ArraysStart
<1>2. SortInv /\ [ProgramNext]_programVars => SortInv'
  <2> SUFFICES ASSUME SortInv, [ProgramNext]_programVars PROVE SortInv'
    OBVIOUS
  <2>1. CASE Solver!bitonic_sort4x16x8_inner
    BY <2>1, StagesKeepOrder
  <2>2. CASE UNCHANGED checkVars
    BY <2>2 DEF SortInv, checkVars
  <2> QED
    BY <2>1, <2>2 DEF ProgramNext, HexCommand, DbinCommand, RandomSearch, Check,
                      programVars
<1>3. SortInv => ArraysAreSorted
  BY SortedIsSorted
<1> QED
  BY <1>1, <1>2, <1>3, PTL DEF ProgramSpec

-----------------------------------------------------------------------------
(* The distance check.                                                     *)

LEMMA SmallSets ==
  /\ IsFiniteSet(Places) /\ Cardinality(Places) = 16
  /\ \A low, high \in Places :
       low <= high => /\ IsFiniteSet(low .. high) /\ Cardinality(low .. high) = high - low + 1
<1>1. \A low, high \in Int : /\ IsFiniteSet(low .. high)
                             /\ Cardinality(low .. high) =
                                  IF low > high THEN 0 ELSE high - low + 1
  BY FS_Interval
<1>2. ASSUME NEW low \in Places, NEW high \in Places, low <= high
      PROVE  IsFiniteSet(low .. high) /\ Cardinality(low .. high) = high - low + 1
  <2>1. low \in Int /\ high \in Int /\ ~ (low > high)
    BY <1>2 DEF Places
  <2> QED
    BY <1>1, <2>1, Zenon
<1>3. 0 \in Places /\ 15 \in Places /\ 0 <= 15 /\ 15 - 0 + 1 = 16
  BY DEF Places
<1>4. IsFiniteSet(0 .. 15) /\ Cardinality(0 .. 15) = 15 - 0 + 1
  BY <1>2, <1>3, Zenon
<1> QED
  BY <1>2, <1>3, <1>4 DEF Places

\* A proper subset of the places, or of one of their subsets, is smaller.
LEMMA PartIsSmaller ==
  ASSUME NEW S \in SUBSET Places, NEW T \in SUBSET S
  PROVE  /\ IsFiniteSet(T) /\ Cardinality(T) \in Nat /\ Cardinality(S) \in Nat
         /\ Cardinality(T) <= Cardinality(S)
         /\ T # S => Cardinality(T) < Cardinality(S)
<1>1. IsFiniteSet(S)
  BY SmallSets, FS_Subset
<1>2. /\ IsFiniteSet(T) /\ Cardinality(T) <= Cardinality(S)
      /\ Cardinality(S) = Cardinality(T) => S = T
  BY <1>1, FS_Subset
<1>3. Cardinality(S) \in Nat /\ Cardinality(T) \in Nat
  BY <1>1, <1>2, FS_CardinalityType
<1> QED
  BY <1>2, <1>3

Those(x, c) == {i \in Places : x[i] = c}

LEMMA CountsAgree ==
  ASSUME NEW a \in [Places -> Int], NEW b \in [Places -> Int],
         Solver!Counted(b) = Solver!Counted(a)
  PROVE  /\ \A i \in Places : \E v \in Places : b[i] = a[v]
         /\ \A v \in Places : \E i \in Places : b[i] = a[v]
         /\ \A c : Cardinality(Those(b, c)) = Cardinality(Those(a, c))
<1> DEFINE of(x) == {x[i] : i \in Places}
<1>1. \A x : Solver!Counted(x) = [c \in of(x) |-> Cardinality(Those(x, c))]
  BY SolverCardinality DEF Those, Solver!Counted, Solver!Lanes16, Places
<1>2. DOMAIN Solver!Counted(a) = of(a) /\ DOMAIN Solver!Counted(b) = of(b)
  BY <1>1
<1>3. of(b) = of(a)
  BY <1>2
<1>4. ASSUME NEW c PROVE Cardinality(Those(b, c)) = Cardinality(Those(a, c))
  <2>1. CASE c \in of(a)
    <3>1. /\ Solver!Counted(a)[c] = Cardinality(Those(a, c))
          /\ Solver!Counted(b)[c] = Cardinality(Those(b, c))
      <4> HIDE DEF of
      <4> QED
        BY <1>1, <1>3, <2>1
    <3> QED
      BY <3>1
  <2>2. CASE c \notin of(a)
    <3>1. Those(a, c) = {} /\ Those(b, c) = {}
      BY <1>3, <2>2 DEF Those
    <3> QED
      BY <3>1
  <2> QED
    BY <2>1, <2>2
<1>5. /\ \A i \in Places : a[i] \in of(b)
      /\ \A i \in Places : b[i] \in of(a)
  <2>1. /\ \A i \in Places : a[i] \in of(a)
        /\ \A i \in Places : b[i] \in of(b)
    OBVIOUS
  <2> HIDE DEF of
  <2> QED
    BY <1>3, <2>1
<1> QED
  BY <1>4, <1>5

\* The sorted bytes, those of the wildcards covered.
Covered(s, d) == [i \in Places |-> s[IF i > 15 - d THEN 15 - d ELSE i]]

\* The bytes of a, wildcards at W, and the same bytes sorted.
WildAndSorted(a, s, W) ==
  /\ a \in [Places -> 0 .. 255] /\ s \in [Places -> Int]
  /\ Solver!Counted(s) = Solver!Counted(a) /\ InOrder(s, 1, 16)
  /\ W \in SUBSET Places /\ W # Places /\ \A i \in W : a[i] = 255

OthersLeft(a, s, W, d) ==
  /\ d \in 0 .. 15
  /\ \A i \in Places : \E v \in Places \ W : Covered(s, d)[i] = a[v]
  /\ \A v \in Places \ W : \E i \in Places : Covered(s, d)[i] = a[v]
  /\ \A i, j \in Places : i < j => Covered(s, d)[i] <= Covered(s, d)[j]

\* What is left are the bytes of the other inputs: wildcards have the largest
\* byte there is, and even if another input has that one, too, it is in front of
\* as many of them as there are wildcards.
LEMMA OthersAreLeft ==
  ASSUME NEW a, NEW s, NEW W, WildAndSorted(a, s, W)
  PROVE  OthersLeft(a, s, W, Cardinality(W))
<1>0. /\ a \in [Places -> 0 .. 255] /\ s \in [Places -> Int]
      /\ Solver!Counted(s) = Solver!Counted(a) /\ InOrder(s, 1, 16)
      /\ W \in SUBSET Places /\ W # Places /\ \A i \in W : a[i] = 255
  BY DEF WildAndSorted
<1> DEFINE d == Cardinality(W)
           top(x) == Those(x, 255)
<1>1. d \in 0 .. 15 /\ IsFiniteSet(W)
  <2>1. IsFiniteSet(W) /\ d \in Nat /\ d < 16
    BY <1>0, PartIsSmaller, SmallSets
  <2> QED
    BY <2>1
<1>2. \A i, j \in Places : i <= j => s[i] <= s[j]
  <2>1. \A i, j \in Places : i < j => i \div 16 = j \div 16 /\ i \div 1 < j \div 1
    BY DEF Places
  <2>2. \A i, j \in Places : i < j => s[i] <= s[j]
    BY <1>0, <2>1 DEF InOrder
  <2>3. \A i, j \in Places : i <= j => i < j \/ i = j
    BY DEF Places
  <2>4. \A i \in Places : s[i] \in Int
    BY <1>0
  <2> QED
    BY <2>2, <2>3, <2>4
<1>3. a \in [Places -> Int]
  BY <1>0
<1>4. Cardinality(top(s)) = Cardinality(top(a))
  BY <1>0, <1>3, CountsAgree
<1>5. /\ \A i \in Places : \E v \in Places : s[i] = a[v]
      /\ \A v \in Places : \E i \in Places : s[i] = a[v]
      /\ \A i \in Places : s[i] \in Int /\ s[i] <= 255
  <2>1. /\ \A i \in Places : \E v \in Places : s[i] = a[v]
        /\ \A v \in Places : \E i \in Places : s[i] = a[v]
    BY <1>0, <1>3, CountsAgree
  <2>2. \A i \in Places : a[i] \in Int /\ a[i] <= 255
    BY <1>0
  <2> QED
    BY <2>1, <2>2
<1>5a. \A i \in Places : s[i] \in Int /\ s[i] <= 255
  BY <1>5
<1>6. W \subseteq top(a) /\ top(a) \in SUBSET Places /\ top(s) \in SUBSET Places
  BY <1>0 DEF Those
<1>7. d <= Cardinality(top(s)) /\ (top(a) # W => d < Cardinality(top(s)))
  BY <1>0, <1>4, <1>6, PartIsSmaller
<1>8. Cardinality(top(s)) \in Nat
  BY <1>6, PartIsSmaller
<1> HIDE DEF d, top
\* As many of the largest bytes as there are, are at the end.
<1>9. ASSUME NEW k \in Places, s[k] # 255 PROVE Cardinality(top(s)) <= 15 - k
  <2>1. CASE k = 15
    <3>1. top(s) = {}
      <4>1. \A i \in Places : i <= 15
        BY DEF Places
      <4>2. \A i \in Places : s[i] = 255 => s[k] = 255
        BY <1>2, <1>5a, <2>1, <4>1
      <4> QED
        BY <1>9, <4>2 DEF top, Those
    <3> QED
      BY <2>1, <3>1, FS_EmptySet
  <2>2. CASE k # 15
    <3>1. k + 1 \in Places /\ 15 \in Places /\ k + 1 <= 15
      BY <2>2 DEF Places
    <3>2. IsFiniteSet(k + 1 .. 15) /\ Cardinality(k + 1 .. 15) = 15 - (k + 1) + 1
      BY <3>1, SmallSets
    <3>3. \A i \in Places : i <= k \/ i \in k + 1 .. 15
      BY DEF Places
    <3>4. \A i \in Places : i <= k => s[i] # 255
      BY <1>2, <1>5a, <1>9
    <3>5. top(s) \subseteq k + 1 .. 15
      BY <3>3, <3>4 DEF top, Those
    <3>6. Cardinality(top(s)) <= Cardinality(k + 1 .. 15)
      BY <3>2, <3>5, FS_Subset
    <3> QED
      BY <1>8, <3>2, <3>6 DEF Places
  <2> QED
    BY <2>1, <2>2
<1>10. ASSUME NEW k \in Places, s[k] = 255 PROVE 16 - k <= Cardinality(top(s))
  <2>1. 15 \in Places /\ k <= 15
    BY DEF Places
  <2>2. IsFiniteSet(k .. 15) /\ Cardinality(k .. 15) = 15 - k + 1
    BY <2>1, SmallSets
  <2>3. \A i \in k .. 15 : i \in Places /\ k <= i
    BY DEF Places
  <2>4. \A i \in k .. 15 : s[i] = 255
    BY <1>2, <1>5a, <1>10, <2>3
  <2>5. k .. 15 \subseteq top(s)
    BY <2>3, <2>4 DEF top, Those
  <2>6. IsFiniteSet(top(s))
    BY <1>6, SmallSets, FS_Subset
  <2>7. Cardinality(k .. 15) <= Cardinality(top(s))
    BY <2>5, <2>6, FS_Subset
  <2> QED
    BY <1>8, <2>2, <2>7 DEF Places
<1>11. ASSUME NEW k \in 0 .. 15 - d PROVE k \in Places /\ \E v \in Places \ W : s[k] = a[v]
  <2>1. k \in Places
    BY <1>1 DEF Places
  <2>2. CASE s[k] = 255
    <3>1. d < Cardinality(top(s))
      BY <1>1, <1>8, <1>10, <2>1, <2>2
    <3>2. top(a) # W
      <4>1. top(a) = W => Cardinality(top(s)) = d
        BY <1>4 DEF d, top
      <4> QED
        BY <1>1, <3>1, <4>1
    <3>3. PICK v \in top(a) : v \notin W
      BY <1>6, <3>2
    <3> QED
      BY <2>1, <2>2, <3>3 DEF top, Those
  <2>3. CASE s[k] # 255
    <3>1. PICK v \in Places : s[k] = a[v]
      BY <1>5, <2>1
    <3>2. v \notin W
      BY <1>0, <2>3, <3>1
    <3> QED
      BY <2>1, <3>1, <3>2
  <2> QED
    BY <2>1, <2>2, <2>3
<1>12. ASSUME NEW v \in Places \ W PROVE \E k \in 0 .. 15 - d : s[k] = a[v]
  <2>1. 15 - d \in Places /\ 15 - d \in 0 .. 15 - d
    BY <1>1 DEF Places
  <2>2. CASE a[v] = 255
    <3>1. top(a) # W
      BY <1>0, <2>2 DEF top, Those
    <3>2. s[15 - d] = 255
      BY <1>1, <1>7, <1>8, <1>9, <2>1, <3>1
    <3> QED
      BY <2>1, <2>2, <3>2
  <2>3. CASE a[v] # 255
    <3>1. PICK k \in Places : s[k] = a[v]
      BY <1>5
    <3>2. Cardinality(top(s)) <= 15 - k
      BY <1>9, <2>3, <3>1
    <3>3. k \in 0 .. 15 - d
      BY <1>1, <1>7, <1>8, <3>2 DEF Places
    <3> QED
      BY <3>1, <3>3
  <2> QED
    BY <2>2, <2>3
<1>13. \A i \in Places :
         /\ (IF i > 15 - d THEN 15 - d ELSE i) \in 0 .. 15 - d
         /\ Covered(s, d)[i] = s[IF i > 15 - d THEN 15 - d ELSE i]
  BY <1>1 DEF Covered, Places
<1>14. \A k \in 0 .. 15 - d : k \in Places /\ Covered(s, d)[k] = s[k]
  BY <1>1 DEF Covered, Places
<1>15. \A i, j \in Places :
         i < j => (IF i > 15 - d THEN 15 - d ELSE i) <= (IF j > 15 - d THEN 15 - d ELSE j)
  BY <1>1 DEF Places
<1>16. \A i \in Places : \E v \in Places \ W : Covered(s, d)[i] = a[v]
  BY <1>11, <1>13
<1>17. \A v \in Places \ W : \E i \in Places : Covered(s, d)[i] = a[v]
  BY <1>12, <1>14
<1>18. \A i, j \in Places : i < j => Covered(s, d)[i] <= Covered(s, d)[j]
  BY <1>2, <1>13, <1>14, <1>15
<1> QED
  BY <1>1, <1>16, <1>17, <1>18 DEF d, OthersLeft

\* Neighbours in order, and the inputs they come from.
NeighboursOf(from, to, cur, goal, D) ==
  /\ from \in [Places -> Int] /\ to \in [Places -> Int]
  /\ \A i, j \in Places : i < j => from[i] <= from[j]
  /\ \A i \in Places : \E v \in D : from[i] = cur[v] /\ to[i] = goal[v]
  /\ \A v \in D : \E i \in Places : from[i] = cur[v] /\ to[i] = goal[v]

NeighboursAgree(from, to) == \A i \in 0 .. 14 : from[i] = from[i + 1] => to[i] = to[i + 1]

InputsAgree(cur, goal, D) == \A v, w \in D : cur[v] = cur[w] => goal[v] = goal[w]

\* If neighbours agree, then so does everything between two equal values.
LEMMA AgreementGoesOn ==
  ASSUME NEW from, NEW to, NEW cur, NEW goal, NEW D, NeighboursOf(from, to, cur, goal, D)
  PROVE  NeighboursAgree(from, to) <=> InputsAgree(cur, goal, D)
<1>1. ASSUME NeighboursAgree(from, to), NEW i \in Places, NEW j \in Places, i < j, from[i] = from[j]
      PROVE  to[i] = to[j]
  <2> SUFFICES ASSUME to[i] # to[j] PROVE FALSE
    OBVIOUS
  <2> DEFINE T == {k \in Places : i < k /\ k <= j /\ to[k] # to[i]}
  <2>1. T \in SUBSET Nat /\ T # {}
    <3>1. j \in T
      BY <1>1 DEF Places
    <3> QED
      BY <3>1 DEF Places
  <2>2. PICK k \in T : \A m \in T : k <= m
    <3> HIDE DEF T
    <3> QED
      BY <2>1, LeastMember
  <2>3. /\ k - 1 \in Places /\ k - 1 \in 0 .. 14 /\ (k - 1) + 1 = k /\ k \in Places
        /\ ~ (k <= k - 1) /\ i <= k - 1 /\ k - 1 < j /\ (k - 1 = i \/ i < k - 1)
        /\ k - 1 <= j /\ (k = j \/ k < j)
    BY <1>1, <2>2 DEF Places
  <2>4. to[k - 1] = to[i]
    <3>1. k - 1 \notin T
      BY <2>2, <2>3
    <3> QED
      BY <2>3, <3>1
  <2>5. /\ from[i] <= from[k - 1] /\ from[k - 1] <= from[k] /\ from[k] <= from[j]
        /\ from[i] \in Int /\ from[k - 1] \in Int /\ from[k] \in Int /\ from[j] \in Int
    <3>1. \A m, n \in Places : m < n => from[m] <= from[n]
      BY DEF NeighboursOf
    <3>2. \A m \in Places : from[m] \in Int /\ from[m] <= from[m]
      BY DEF NeighboursOf
    <3>3. k - 1 < k
      BY <2>3 DEF Places
    <3> QED
      BY <2>3, <3>1, <3>2, <3>3
  <2>6. from[k - 1] = from[k]
    BY <1>1, <2>5
  <2>7. to[k - 1] = to[k]
    BY <1>1, <2>3, <2>6 DEF NeighboursAgree
  <2> QED
    BY <2>2, <2>4, <2>7
<1>2. ASSUME NeighboursAgree(from, to) PROVE InputsAgree(cur, goal, D)
  <2> SUFFICES ASSUME NEW v \in D, NEW w \in D, cur[v] = cur[w] PROVE goal[v] = goal[w]
    BY DEF InputsAgree
  <2>1. PICK i \in Places : from[i] = cur[v] /\ to[i] = goal[v]
    BY DEF NeighboursOf
  <2>2. PICK j \in Places : from[j] = cur[w] /\ to[j] = goal[w]
    BY DEF NeighboursOf
  <2>3. i < j \/ j < i \/ i = j
    BY DEF Places
  <2> QED
    BY <1>1, <1>2, <2>1, <2>2, <2>3
<1>3. ASSUME InputsAgree(cur, goal, D) PROVE NeighboursAgree(from, to)
  <2> SUFFICES ASSUME NEW i \in 0 .. 14, from[i] = from[i + 1] PROVE to[i] = to[i + 1]
    BY DEF NeighboursAgree
  <2>1. i \in Places /\ i + 1 \in Places
    BY DEF Places
  <2>2. PICK v \in D : from[i] = cur[v] /\ to[i] = goal[v]
    BY <2>1 DEF NeighboursOf
  <2>3. PICK w \in D : from[i + 1] = cur[w] /\ to[i + 1] = goal[w]
    BY <2>1 DEF NeighboursOf
  <2> QED
    BY <1>3, <2>2, <2>3 DEF InputsAgree
<1> QED
  BY <1>2, <1>3

Apart(from, to) ==
  {i \in 0 .. 14 : Solver!LD!Distance(to[i + 1], to[i]) > Solver!LD!Distance(from[i + 1], from[i])}

LEMMA DistanceFacts ==
  ASSUME NEW i \in Int, NEW j \in Int
  PROVE  /\ Solver!LD!Distance(i, j) = Solver!LD!Distance(j, i)
         /\ Solver!LD!Distance(i, j) \in Nat /\ Solver!LD!Distance(i, i) = 0
BY DEF Solver!LD!Distance

LEMMA LastPlace ==
  ASSUME NEW T \in SUBSET Places, T # {}
  PROVE  \E i \in T : \A j \in T : j <= i
<1> DEFINE U == {k \in Places : 15 - k \in T}
<1>1. U \in SUBSET Nat /\ U # {}
  <2>1. PICK i \in T : TRUE
    OBVIOUS
  <2>2. 15 - i \in Places /\ 15 - (15 - i) = i
    BY DEF Places
  <2>3. 15 - i \in U
    BY <2>1, <2>2
  <2>4. \A k \in Places : k \in Nat
    BY DEF Places
  <2>5. U \subseteq Places
    OBVIOUS
  <2> HIDE DEF U
  <2> QED
    BY <2>3, <2>4, <2>5
<1>2. PICK k \in U : \A m \in U : k <= m
  <2> HIDE DEF U
  <2> QED
    BY <1>1, LeastMember
<1>3. 15 - k \in T
  OBVIOUS
<1>4. ASSUME NEW j \in T PROVE j <= 15 - k
  <2>1. 15 - j \in Places /\ 15 - (15 - j) = j
    BY DEF Places
  <2>2. 15 - j \in U
    BY <2>1
  <2>3. k <= 15 - j
    BY <1>2, <2>2
  <2> QED
    BY <2>3 DEF Places
<1> QED
  BY <1>3, <1>4

\* Each pair of neighbours too close for its goals is one value that a layer has
\* to separate from the next.
LEMMA ApartAreSeparations ==
  ASSUME NEW from, NEW to, NEW cur, NEW goal, NEW D, D = Solver!LD!Determined(goal),
         NeighboursOf(from, to, cur, goal, D), InputsAgree(cur, goal, D)
  PROVE  Cardinality(Apart(from, to)) = Cardinality(Solver!LD!Separations(goal, cur))
<1> DEFINE current == {cur[v] : v \in D}
           final(c) == goal[CHOOSE v \in D : cur[v] = c]
           next(c) == Solver!LD!Min({d \in current : d > c})
           last == Solver!LD!Max(current)
           T == {c \in current :
                   c # last /\ Solver!LD!Distance(final(c), final(next(c))) >
                                 Solver!LD!Distance(c, next(c))}
           S == Apart(from, to)
<1>1. T = Solver!LD!Separations(goal, cur)
  BY DEF Solver!LD!Separations
<1>2. /\ \A i \in Places : from[i] \in Int /\ to[i] \in Int /\ from[i] \in current
      /\ \A c \in current : \E i \in Places : from[i] = c
      /\ \A i, j \in Places : i < j => from[i] <= from[j]
  BY DEF NeighboursOf
<1>3. \A i \in Places : final(from[i]) = to[i]
  <2> SUFFICES ASSUME NEW i \in Places PROVE final(from[i]) = to[i]
    OBVIOUS
  <2>1. PICK v \in D : from[i] = cur[v] /\ to[i] = goal[v]
    BY DEF NeighboursOf
  <2> DEFINE w == CHOOSE w \in D : cur[w] = from[i]
  <2>2. w \in D /\ cur[w] = from[i]
    BY <2>1
  <2>3. goal[w] = goal[v]
    BY <2>1, <2>2 DEF InputsAgree
  <2> QED
    BY <2>1, <2>3
<1>4. \A i \in 0 .. 14 : /\ i \in Places /\ i + 1 \in Places /\ i < i + 1 /\ 15 \in Places
                         /\ i + 1 = 15 \/ i + 1 < 15
                         /\ \A j \in Places : j <= i \/ i + 1 <= j
  BY DEF Places
<1>5. \A i, j \in Places : i <= j => from[i] <= from[j]
  <2>1. \A i, j \in Places : i <= j => i < j \/ i = j
    BY DEF Places
  <2> QED
    BY <1>2, <2>1
<1>6. last = from[15]
  <2>1. /\ 15 \in Places /\ \A j \in Places : j <= 15
    BY DEF Places
  <2>2. from[15] \in current /\ \A c \in current : c \in Int /\ from[15] >= c
    BY <1>2, <1>5, <2>1
  <2>3. last \in current /\ \A c \in current : last >= c
    <3> HIDE DEF current
    <3>1. \E m \in current : \A c \in current : m >= c
      BY <2>2
    <3> QED
      BY <3>1 DEF Solver!LD!Max
  <2> HIDE DEF current, last
  <2>4. last >= from[15] /\ from[15] >= last /\ last \in Int /\ from[15] \in Int
    BY <2>2, <2>3
  <2> QED
    BY <2>4
<1>7. ASSUME NEW i \in 0 .. 14, from[i] < from[i + 1] PROVE next(from[i]) = from[i + 1]
  <2> DEFINE above == {d \in current : d > from[i]}
             m == Solver!LD!Min(above)
  <2>1. from[i + 1] \in above /\ \A c \in above : c \in Int /\ from[i + 1] <= c
    <3>1. from[i + 1] \in above
      BY <1>2, <1>4, <1>7
    <3>2. ASSUME NEW c \in above PROVE c \in Int /\ from[i + 1] <= c
      <4>1. PICK j \in Places : from[j] = c
        BY <1>2
      <4>2. c > from[i] /\ c \in Int
        BY <1>2, <4>1
      <4>3. ~ (j <= i)
        BY <1>2, <1>4, <1>5, <4>1, <4>2
      <4> QED
        BY <1>4, <1>5, <4>1, <4>2, <4>3
    <3> QED
      BY <3>1, <3>2
  <2>2. m \in above /\ \A c \in above : m <= c
    <3> HIDE DEF above
    <3>1. \E x \in above : \A c \in above : x <= c
      BY <2>1
    <3> QED
      BY <3>1 DEF Solver!LD!Min
  <2>3. m = from[i + 1]
    <3> HIDE DEF above, m
    <3>1. m <= from[i + 1] /\ from[i + 1] <= m /\ m \in Int /\ from[i + 1] \in Int
      BY <2>1, <2>2
    <3> QED
      BY <3>1
  <2> QED
    BY <2>3
<1> HIDE DEF current, final, next, last
<1>8. ASSUME NEW i \in 0 .. 14, from[i] < from[i + 1]
      PROVE  from[i] # last /\ (from[i] \in T <=> i \in S)
  <2>1. from[i] # last
    <3>1. from[i + 1] <= from[15] /\ from[i] \in Int /\ from[i + 1] \in Int /\ from[15] \in Int
      BY <1>2, <1>4, <1>5
    <3> QED
      BY <1>6, <1>8, <3>1
  <2>2. /\ final(from[i]) = to[i] /\ final(next(from[i])) = to[i + 1] /\ next(from[i]) = from[i + 1]
        /\ from[i] \in current
    BY <1>2, <1>3, <1>4, <1>7, <1>8
  <2>3. /\ Solver!LD!Distance(to[i], to[i + 1]) = Solver!LD!Distance(to[i + 1], to[i])
        /\ Solver!LD!Distance(from[i], from[i + 1]) = Solver!LD!Distance(from[i + 1], from[i])
    BY <1>2, <1>4, DistanceFacts
  <2> QED
    BY <2>1, <2>2, <2>3 DEF Apart
<1>9. ASSUME NEW i \in S PROVE i \in 0 .. 14 /\ from[i] < from[i + 1]
  <2>1. i \in 0 .. 14 /\ Solver!LD!Distance(to[i + 1], to[i]) > Solver!LD!Distance(from[i + 1], from[i])
    BY DEF Apart
  <2>2. /\ from[i] \in Int /\ from[i + 1] \in Int /\ to[i] \in Int /\ to[i + 1] \in Int
        /\ from[i] <= from[i + 1]
    BY <1>2, <1>4, <2>1
  <2>3. from[i] = from[i + 1] => to[i] = to[i + 1]
    BY <2>1, AgreementGoesOn DEF NeighboursAgree
  <2>4. from[i] # from[i + 1]
    <3> SUFFICES ASSUME from[i] = from[i + 1] PROVE FALSE
      OBVIOUS
    <3>1. /\ Solver!LD!Distance(to[i + 1], to[i]) = 0 /\ Solver!LD!Distance(from[i + 1], from[i]) = 0
      BY <2>2, <2>3, DistanceFacts
    <3> QED
      BY <2>1, <3>1
  <2> QED
    BY <2>1, <2>2, <2>4
<1> DEFINE g == [i \in S |-> from[i]]
<1>10. g \in [S -> T]
  BY <1>8, <1>9
<1>11. ASSUME NEW i \in S, NEW j \in S, g[i] = g[j] PROVE i = j
  <2>1. /\ i \in 0 .. 14 /\ j \in 0 .. 14 /\ from[i] < from[i + 1] /\ from[j] < from[j + 1]
        /\ from[i] = from[j]
    BY <1>9, <1>11
  <2>2. ASSUME NEW a \in 0 .. 14, NEW b \in 0 .. 14, a < b, from[a] < from[a + 1], from[a] = from[b]
        PROVE FALSE
    <3>1. a + 1 <= b /\ a + 1 \in Places /\ b \in Places /\ a \in Places
      BY <2>2 DEF Places
    <3>2. from[a + 1] <= from[b] /\ from[a] \in Int /\ from[a + 1] \in Int /\ from[b] \in Int
      BY <1>2, <1>5, <3>1
    <3> QED
      BY <2>2, <3>2
  <2>3. i < j \/ j < i \/ i = j
    BY <2>1
  <2> QED
    BY <2>1, <2>2, <2>3
<1>12. ASSUME NEW c \in T PROVE \E i \in S : g[i] = c
  <2> DEFINE U == {i \in Places : from[i] = c}
  <2>1. U # {} /\ U \in SUBSET Places
    BY <1>2
  <2>2. PICK i \in U : \A j \in U : j <= i
    <3> HIDE DEF U
    <3> QED
      BY <2>1, LastPlace
  <2>3. i \in Places /\ from[i] = c /\ c # last
    BY <2>2
  <2>4. i \in 0 .. 14
    <3>1. i # 15
      BY <1>6, <2>3
    <3> QED
      BY <2>3, <3>1 DEF Places
  <2>5. from[i] < from[i + 1]
    <3>1. i + 1 \in Places /\ ~ (i + 1 <= i)
      BY <1>4, <2>4
    <3>2. from[i + 1] # c
      BY <2>2, <3>1
    <3>3. from[i] <= from[i + 1] /\ from[i] \in Int /\ from[i + 1] \in Int
      BY <1>2, <1>4, <2>4
    <3> QED
      BY <2>3, <3>2, <3>3
  <2>6. i \in S
    BY <1>8, <2>3, <2>4, <2>5
  <2> QED
    BY <2>3, <2>6
<1>13. IsFiniteSet(S)
  <2>1. S \in SUBSET Places
    BY DEF Apart, Places
  <2> QED
    BY <2>1, SmallSets, FS_Subset
<1>14. ExistsBijection(S, T)
  <2> HIDE DEF S, T, g
  <2>1. g \in Bijection(S, T)
    BY <1>10, <1>11, <1>12 DEF Bijection, Injection, Surjection, IsInjective
  <2> QED
    BY <2>1 DEF ExistsBijection
<1>15. Cardinality(T) = Cardinality(S)
  <2> HIDE DEF S, T
  <2> QED
    BY <1>13, <1>14, FS_Bijection
<1> QED
  BY <1>1, <1>15

GoalBytes ==
  [i \in Places |-> Solver!GoalByte(Solver!Current(lanes)[i], Solver!Goal(lanes)[i])]

\* The array that is sorted is the one of the inputs of lanes.
CheckInv ==
  /\ SortInv
  /\ lanes # <<>> =>
       /\ lanes \in LaneInputs
       /\ input = Solver!Counted(GoalBytes)

LEMMA CheckStarts ==
  ASSUME ProgramInit
  PROVE  CheckInv
<1>1. SortInv
  BY ArraysStart
<1>2. CASE Solver!CheckInit
  <2>1. lanes \in LaneInputs
    BY <1>2 DEF Solver!CheckInit
  <2>2. input = Solver!Counted(GoalBytes)
    BY <1>2 DEF Solver!CheckInit, Solver!SortInit, Solver!Lanes16, GoalBytes, Places
  <2> QED
    BY <1>1, <2>1, <2>2 DEF CheckInv
<1>3. CASE lanes = <<>>
  BY <1>1, <1>3 DEF CheckInv
<1> QED
  BY <1>2, <1>3 DEF ProgramInit, ZerosAndOnes

\* A goal of wildcards leaves nothing to compare.
LEMMA NothingToCompare ==
  ASSUME {i \in Places : Solver!Goal(lanes)[i] = Wild} = Places,
         NEW threshold \in 0 .. 4
  PROVE  /\ Solver!get_legal_dist_check_mask_partial(threshold)
         /\ Solver!LD!legal_dist(Solver!Goal(lanes), Solver!Current(lanes), threshold)
<1>1. Solver!dont_care_count = 16
  BY SmallSets, SolverCardinality DEF Solver!dont_care_count, Solver!Lanes16, Places
<1>2. \A i \in Places : Solver!sorted_byte(i) = 0
  BY <1>1 DEF Solver!sorted_byte, Solver!dont_care_post_sort_perm, Places
<1> DEFINE final == [i \in Solver!Lanes16 |-> Solver!sorted_byte(i) % 16]
           current == [i \in Solver!Lanes16 |-> Solver!sorted_byte(i) \div 16]
<1>3. \A i \in 0 .. 14 : /\ final[i] = 0 /\ final[i + 1] = 0
                         /\ current[i] = 0 /\ current[i + 1] = 0
  <2>1. \A i \in Places : final[i] = 0 % 16 /\ current[i] = 0 \div 16
    BY <1>2 DEF Solver!Lanes16, Places
  <2>2. 0 % 16 = 0 /\ 0 \div 16 = 0
    OBVIOUS
  <2>3. \A i \in 0 .. 14 : i \in Places /\ i + 1 \in Places
    BY DEF Places
  <2> HIDE DEF final, current
  <2> QED
    BY <2>1, <2>2, <2>3
<1>4. \A i \in 0 .. 14 : /\ Solver!LD!Distance(final[i + 1], final[i]) = 0
                         /\ Solver!LD!Distance(current[i + 1], current[i]) = 0
  <2>1. Solver!LD!Distance(0, 0) = 0
    BY DistanceFacts
  <2> HIDE DEF final, current
  <2> QED
    BY <1>3, <2>1
<1>5. Solver!Cardinality({}) = 0 /\ Solver!LD!Cardinality({}) = 0
  BY FS_EmptySet DEF Solver!Cardinality, Solver!LD!Cardinality, Cardinality
<1>6. Solver!get_legal_dist_check_mask_partial(threshold)
  <2> DEFINE apart == {i \in 0 .. 14 : Solver!LD!Distance(final[i + 1], final[i])
                                        > Solver!LD!Distance(current[i + 1], current[i])}
  <2>1. Solver!get_legal_dist_check_mask_partial(threshold) <=>
          /\ \A i \in 0 .. 14 : Solver!LD!Distance(current[i + 1], current[i]) = 0 =>
                                  Solver!LD!Distance(final[i + 1], final[i]) = 0
          /\ Solver!Cardinality(apart) <= threshold
    BY DEF Solver!get_legal_dist_check_mask_partial
  <2>2. apart = {}
    <3> HIDE DEF final, current
    <3> QED
      BY <1>4
  <2> HIDE DEF final, current, apart
  <2> QED
    BY <1>4, <1>5, <2>1, <2>2
<1>7. Solver!LD!Determined(Solver!Goal(lanes)) = {}
  BY DEF Solver!LD!Determined, Solver!Goal, Solver!Lanes16, Places
<1>8. Solver!LD!Separations(Solver!Goal(lanes), Solver!Current(lanes)) = {}
  BY <1>7 DEF Solver!LD!Separations
<1> QED
  BY <1>5, <1>6, <1>7, <1>8 DEF Solver!LD!legal_dist

LEMMA ComparingChecksDistance ==
  ASSUME CheckInv, stage = 0, lanes # <<>>, NEW threshold \in 0 .. 4
  PROVE  Solver!get_legal_dist_check_mask_partial(threshold)
           <=> Solver!LD!legal_dist(Solver!Goal(lanes), Solver!Current(lanes), threshold)
<1> DEFINE W == {i \in Places : Solver!Goal(lanes)[i] = Wild}
           D == Places \ W
           goal == Solver!Goal(lanes)
           cur == Solver!Current(lanes)
           s == Flat(pair)
           d == Cardinality(W)
           from == [i \in Places |-> Solver!sorted_byte(i) \div 16]
           to == [i \in Places |-> Solver!sorted_byte(i) % 16]
<1>1. CASE W = Places
  BY <1>1, NothingToCompare
<1>2. CASE W # Places
  <2>1. lanes \in LaneInputs /\ pair \in Registers
    BY DEF CheckInv, SortInv
  <2>2. \A i \in Places : cur[i] \in 0 .. 15 /\ (i \in D => goal[i] \in 0 .. 15)
    BY <2>1, LaneFacts
  <2>3. \A i \in Places : GoalBytes[i] = IF i \in W THEN 255 ELSE cur[i] * 16 + goal[i]
    BY DEF GoalBytes, Solver!GoalByte
  <2> HIDE DEF W, cur, goal
  <2>4. GoalBytes \in [Places -> 0 .. 255]
    <3>1. \A c, g \in 0 .. 15 : c * 16 + g \in 0 .. 255
      OBVIOUS
    <3>2. ASSUME NEW i \in Places PROVE GoalBytes[i] \in 0 .. 255
      <4>1. CASE i \in W
        BY <2>3, <4>1
      <4>2. CASE i \in D
        <5>1. GoalBytes[i] = cur[i] * 16 + goal[i]
          BY <2>3, <4>2
        <5>2. cur[i] \in 0 .. 15 /\ goal[i] \in 0 .. 15
          BY <2>2, <4>2
        <5> QED
          BY <3>1, <5>1, <5>2
      <4> QED
        BY <4>1, <4>2
    <3> QED
      BY <3>2 DEF GoalBytes
  <2>5. s \in [Places -> Int] /\ Solver!Counted(s) = Solver!Counted(GoalBytes) /\ InOrder(s, 1, 16)
    BY <2>1, FlatType DEF CheckInv, SortInv
  <2>6. /\ d \in 0 .. 15
        /\ \A i \in Places : \E v \in D : Covered(s, d)[i] = GoalBytes[v]
        /\ \A v \in D : \E i \in Places : Covered(s, d)[i] = GoalBytes[v]
        /\ \A i, j \in Places : i < j => Covered(s, d)[i] <= Covered(s, d)[j]
    <3>1. W \in SUBSET Places /\ \A i \in W : GoalBytes[i] = 255
      BY <2>3 DEF W
    <3>2. W # Places
      BY <1>2
    <3> HIDE DEF s
    <3>3. WildAndSorted(GoalBytes, s, W)
      BY <2>4, <2>5, <3>1, <3>2 DEF WildAndSorted
    <3> QED
      BY <3>3, OthersAreLeft DEF OthersLeft
  <2>7. Solver!dont_care_count = d
    BY SolverCardinality DEF Solver!dont_care_count, Solver!Lanes16, Places, W
  <2>8. Solver!packed_array = s
    BY DEF Solver!packed_array, Solver!Lanes16, Flat, At, Places
  <2> HIDE DEF s, d, D
  <2>9. \A i \in Places : Solver!sorted_byte(i) = Covered(s, d)[i]
    <3>1. \A i \in Places : ~ ((IF i > 15 - d THEN 15 - d ELSE i) < 0)
      BY <2>6 DEF Places
    <3> QED
      BY <2>7, <2>8, <3>1 DEF Solver!sorted_byte, Solver!dont_care_post_sort_perm, Covered
  <2>10. ASSUME NEW v \in D
         PROVE  /\ GoalBytes[v] \div 16 = cur[v] /\ GoalBytes[v] % 16 = goal[v]
                /\ cur[v] \in 0 .. 15 /\ goal[v] \in 0 .. 15 /\ GoalBytes[v] \in Int
    <3>1. v \in Places /\ v \notin W
      BY DEF D
    <3>2. GoalBytes[v] = cur[v] * 16 + goal[v] /\ cur[v] \in 0 .. 15 /\ goal[v] \in 0 .. 15
      BY <2>2, <2>3, <3>1
    <3>3. \A c, g \in 0 .. 15 : (c * 16 + g) \div 16 = c /\ (c * 16 + g) % 16 = g
      OBVIOUS
    <3>4. /\ (cur[v] * 16 + goal[v]) \div 16 = cur[v]
          /\ (cur[v] * 16 + goal[v]) % 16 = goal[v]
      BY <3>2, <3>3
    <3>5. GoalBytes[v] \in Int
      <4>1. GoalBytes[v] \in 0 .. 255
        BY <2>4, <3>1
      <4>2. \A y \in 0 .. 255 : y \in Int
        OBVIOUS
      <4> QED
        BY <4>1, <4>2
    <3> QED
      BY <3>2, <3>4, <3>5
  <2>11. /\ \A i \in Places : \E v \in D : from[i] = cur[v] /\ to[i] = goal[v]
         /\ \A v \in D : \E i \in Places : from[i] = cur[v] /\ to[i] = goal[v]
    <3>1. \A i \in Places : /\ from[i] = Covered(s, d)[i] \div 16
                            /\ to[i] = Covered(s, d)[i] % 16
      BY <2>9
    <3> HIDE DEF from, to
    <3> QED
      BY <2>6, <2>10, <3>1
  <2>12. \A i \in Places : from[i] \in Int /\ to[i] \in Int
    BY <2>10, <2>11
  <2>13. \A i, j \in Places : i < j => from[i] <= from[j]
    <3>1. \A x, y \in Int : x <= y => x \div 16 <= y \div 16
      OBVIOUS
    <3>2. \A i \in Places : from[i] = Covered(s, d)[i] \div 16 /\ Covered(s, d)[i] \in Int
      BY <2>6, <2>9, <2>10
    <3> HIDE DEF from
    <3> QED
      BY <2>6, <3>1, <3>2
  <2>14. NeighboursOf(from, to, cur, goal, D)
    BY <2>11, <2>12, <2>13 DEF NeighboursOf
  <2>15. D = Solver!LD!Determined(goal)
    BY DEF D, W, goal, Solver!LD!Determined, Solver!Goal, Solver!Lanes16, Places
  <2>16. \A i \in 0 .. 14 : i \in Places /\ i + 1 \in Places
    BY DEF Places
  <2>17. \A i \in 0 .. 14 :
           /\ Solver!LD!Distance(from[i + 1], from[i]) = 0 <=> from[i] = from[i + 1]
           /\ Solver!LD!Distance(to[i + 1], to[i]) = 0 <=> to[i] = to[i + 1]
    <3>1. \A x, y \in Int : Solver!LD!Distance(x, y) = 0 <=> y = x
      BY DEF Solver!LD!Distance
    <3> HIDE DEF from, to
    <3> QED
      BY <2>12, <2>16, <3>1
  <2>18. Solver!get_legal_dist_check_mask_partial(threshold)
           <=> NeighboursAgree(from, to) /\ Cardinality(Apart(from, to)) <= threshold
    <3>1. Solver!get_legal_dist_check_mask_partial(threshold) <=>
            /\ \A i \in 0 .. 14 : Solver!LD!Distance(from[i + 1], from[i]) = 0 =>
                                    Solver!LD!Distance(to[i + 1], to[i]) = 0
            /\ Solver!Cardinality(Apart(from, to)) <= threshold
      BY DEF Solver!get_legal_dist_check_mask_partial, Solver!Lanes16, Places, Apart
    <3> HIDE DEF from, to
    <3> QED
      BY <2>17, <3>1, SolverCardinality DEF NeighboursAgree
  <2> HIDE DEF from, to
  <2>19. Solver!LD!legal_dist(goal, cur, threshold)
           <=> /\ InputsAgree(cur, goal, D)
               /\ Cardinality(Solver!LD!Separations(goal, cur)) <= threshold
    <3>1. \A S : Solver!LD!Cardinality(S) = Cardinality(S)
      BY DEF Solver!LD!Cardinality, Cardinality
    <3> QED
      BY <2>15, <3>1 DEF Solver!LD!legal_dist, InputsAgree
  <2>20. NeighboursAgree(from, to) <=> InputsAgree(cur, goal, D)
    BY <2>14, AgreementGoesOn
  <2>21. InputsAgree(cur, goal, D) =>
           Cardinality(Apart(from, to)) = Cardinality(Solver!LD!Separations(goal, cur))
    BY <2>14, <2>15, ApartAreSeparations
  <2> QED
    BY <2>18, <2>19, <2>20, <2>21 DEF cur, goal
<1> QED
  BY <1>1, <1>2

\* Whatever the current values and goals of the inputs are, comparing neighbours
\* among the sorted bytes lets a map pass exactly if legal_dist does: the check of
\* batch_apply_and_check_exact is the one the model of the search makes.
THEOREM DistanceAlwaysChecked == ProgramSpec => []FilterIsLegalDist
<1>1. ProgramInit => CheckInv
  BY CheckStarts
<1>2. CheckInv /\ [ProgramNext]_programVars => CheckInv'
  <2> SUFFICES ASSUME CheckInv, [ProgramNext]_programVars PROVE CheckInv'
    OBVIOUS
  <2>1. CASE Solver!bitonic_sort4x16x8_inner /\ UNCHANGED lanes
    <3>1. SortInv'
      BY <2>1, StagesKeepOrder DEF CheckInv
    <3>2. input' = input
      BY <2>1 DEF Solver!bitonic_sort4x16x8_inner
    <3> QED
      BY <2>1, <3>1, <3>2 DEF CheckInv, GoalBytes
  <2>2. CASE UNCHANGED checkVars
    BY <2>2 DEF CheckInv, GoalBytes, SortInv, checkVars
  <2> QED
    BY <2>1, <2>2 DEF ProgramNext, HexCommand, DbinCommand, RandomSearch, Check,
                      programVars
<1>3. CheckInv => FilterIsLegalDist
  BY ComparingChecksDistance DEF FilterIsLegalDist, Solver!FilterIsLegalDist
<1> QED
  BY <1>1, <1>2, <1>3, PTL DEF ProgramSpec

=============================================================================
