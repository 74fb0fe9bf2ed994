----------------------------- MODULE BitonicSort -----------------------------
(***************************************************************************)
(* The sorting network of bitonic_sort.h, for one of the four arrays it    *)
(* sorts at a time.  Two arrays share the words of a register, one in the  *)
(* high bytes and one in the low bytes, and nothing ever moves between the *)
(* two; an array is then the eight bytes it has in ymm0 and the eight in   *)
(* ymm1.  A step is one of the stages the source numbers by the length of  *)
(* what is sorted after it.                                                *)
(***************************************************************************)
EXTENDS Integers, Sequences, FiniteSets

VARIABLES stage,  \* length sorted so far: 1, 2, 4, 8, 16; 0 when packed
          pair,   \* the array in two registers
          input   \* history: how often each byte was in it before

sortVars == <<stage, pair, input>>

Bytes == 0 .. 255
Lanes16 == 0 .. 15
Words == 0 .. 7

-----------------------------------------------------------------------------
(* Orders of a register's words, as vector_tools.h names them.  Those for  *)
(* double words are given by the places the four double words come from.   *)
Dwords(from) == [w \in Words |-> 2 * from[(w \div 2) + 1] + (w % 2)]

SHUFD_REV_2x32_256 == Dwords(<<1, 0, 3, 2>>)
SHUFD_REV_4x32_256 == Dwords(<<3, 2, 1, 0>>)
SHUFD_REV_2x64_256 == Dwords(<<2, 3, 0, 1>>)
SHUFB_REV_2x16_256 == [w \in Words |-> 2 * (w \div 2) + 1 - (w % 2)]
SHUFB_REV_4x16_256 == [w \in Words |-> 4 * (w \div 4) + 3 - (w % 4)]
SHUFB_REV_8x16_256 == [w \in Words |-> 7 - w]

\* The words of the double words a blend mask names.
DwordsOf(imm) == {w \in Words : w \div 2 \in imm}
OddWords == {w \in Words : w % 2 = 1}

Lesser(x, y) == IF x <= y THEN x ELSE y
Greater(x, y) == IF x <= y THEN y ELSE x

\* SHUFD and SHUFB: the second register in another order.
SHUF(p, order) == [p EXCEPT !.ymm1 = [w \in Words |-> p.ymm1[order[w]]]]

\* BLENDD and BLENDW: the registers exchange some words.
BLEND(p, words) ==
  [ymm0 |-> [w \in Words |-> IF w \in words THEN p.ymm1[w] ELSE p.ymm0[w]],
   ymm1 |-> [w \in Words |-> IF w \in words THEN p.ymm0[w] ELSE p.ymm1[w]]]

MINMAX(p) ==
  [ymm0 |-> [w \in Words |-> Lesser(p.ymm0[w], p.ymm1[w])],
   ymm1 |-> [w \in Words |-> Greater(p.ymm1[w], p.ymm0[w])]]

\* Mutated form: the second register is compared in the order it has.
STEPUnshuffled(p, words, order) == MINMAX(BLEND(p, words))

STEP(p, words, order) == MINMAX(SHUF(BLEND(p, words), order))

-----------------------------------------------------------------------------
Counted(a) == [b \in {a[i] : i \in Lanes16} |-> Cardinality({i \in Lanes16 : a[i] = b})]

\* An array is loaded, its high half into ymm0.
SortInit(a) ==
  /\ stage = 1
  /\ pair = [ymm0 |-> [w \in Words |-> a[8 + w]], ymm1 |-> [w \in Words |-> a[w]]]
  /\ input = Counted(a)

Sort2 == stage = 1 /\ stage' = 2 /\ pair' = MINMAX(pair)

Sort4 ==
  /\ stage = 2 /\ stage' = 4
  /\ pair' = STEP(MINMAX(SHUF(pair, SHUFD_REV_2x32_256)),
                  DwordsOf({1, 3}), SHUFD_REV_2x32_256)

Sort8 ==
  /\ stage = 4 /\ stage' = 8
  /\ pair' = STEP(STEP(MINMAX(SHUF(pair, SHUFD_REV_4x32_256)),
                       DwordsOf({1, 3}), SHUFD_REV_2x32_256),
                  DwordsOf({2, 3}), SHUFD_REV_2x64_256)

Sort16 ==
  /\ stage = 8 /\ stage' = 16
  /\ LET halves == SHUF(BLEND(MINMAX(SHUF(pair, SHUFB_REV_8x16_256)), OddWords),
                        SHUFB_REV_4x16_256)
     IN  pair' = STEP(STEP(STEP(halves, DwordsOf({1, 3}), SHUFD_REV_2x32_256),
                           DwordsOf({2, 3}), SHUFD_REV_2x64_256),
                      DwordsOf({1, 3}), SHUFD_REV_2x32_256)

\* The words are interlaced and packed, ymm0's first.
Pack ==
  /\ stage = 16 /\ stage' = 0
  /\ pair' = SHUF(BLEND(SHUF(pair, SHUFB_REV_2x16_256), OddWords),
                  SHUFB_REV_2x16_256)

bitonic_sort4x16x8_inner ==
  (Sort2 \/ Sort4 \/ Sort8 \/ Sort16 \/ Pack) /\ UNCHANGED input

packed_array == [i \in Lanes16 |-> IF i < 8 THEN pair.ymm0[i] ELSE pair.ymm1[i - 8]]

-----------------------------------------------------------------------------
SortTypeOK ==
  /\ stage \in {0, 1, 2, 4, 8, 16}
  /\ pair \in [ymm0 : [Words -> Bytes], ymm1 : [Words -> Bytes]]

\* The array comes out ascending, with the bytes it went in with.  A network
\* of comparisons sorts everything if it sorts all arrays of zeros and ones.
ArraysAreSorted ==
  stage = 0 =>
    /\ \A i \in 0 .. 14 : packed_array[i] <= packed_array[i + 1]
    /\ Counted(packed_array) = input

=============================================================================
