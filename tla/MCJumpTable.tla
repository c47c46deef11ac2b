---------------------------- MODULE MCJumpTable ----------------------------
(***************************************************************************)
(* Functions of one or two dispatches, with other instructions in the      *)
(* gaps of a dispatch up to the distances the scan allows.                 *)
(***************************************************************************)
EXTENDS JumpTable, SequencesExt

MCRegisters == {"x0", "x8", "x9", "x10", "x11"}
MCIndices == 0 .. 3
MCData == 400

I(op, rd, rn, rm, imm) == [op |-> op, rd |-> rd, rn |-> rn, rm |-> rm, imm |-> imm]
Nop == I("nop", "x0", "x0", "x0", 0)
Nops(n) == [k \in 1 .. n |-> Nop]

\* Instructions of the gaps, of which every other one adds to a register the
\* dispatch does not use.
Gap(n) == [k \in 1 .. n |-> IF k % 2 = 1 THEN Nop ELSE I("add_imm", "x0", "x0", "x0", 1)]

\* Where the function has its cases, behind at most two dispatches.
CasesAt == 60

\* Loads of the entry and sums, for tables of bytes, of words, and of words
\* that are offsets from themselves.
Select(form) ==
  CASE form = "bytes" ->
         <<I("adr", "x10", "x0", "x0", 4 * CasesAt), I("ldrb", "x11", "x9", "x8", 1),
           I("add_lsl", "x10", "x10", "x11", 0)>>
    [] form = "words" ->
         <<I("adr", "x10", "x0", "x0", 4 * CasesAt), I("ldrsw", "x11", "x9", "x8", 4),
           I("add_lsl", "x10", "x10", "x11", 0)>>
    [] form = "offsets" ->
         <<I("add_lsl", "x9", "x9", "x8", 0), I("ldrsw", "x11", "x9", "x8", 0),
           I("add", "x10", "x9", "x11", 0)>>

\* Offset of each table in the data.
TableAt(form) == CASE form = "bytes" -> 1 [] form = "words" -> 4 [] form = "offsets" -> 16

\* Where the page is: at the data, not in the file, or elsewhere in the data;
\* no word there is negative, since the entries of an island are not.
Page(place, form) ==
  CASE place = "data" -> MCData
    [] place = "outside" -> MCData + 4096
    [] place = "elsewhere" -> IF form = "words" THEN MCData - 4 ELSE MCData + 12

\* Gaps between comparison, condition, table and branch.
Dispatch(form, max, default, page, gap1, gap2) ==
  <<I("cmp", "x0", "x8", "x0", max)>> \o Gap(gap1) \o <<I("b.hi", "x0", "x0", "x0", 4 * default)>>
  \o <<I("adrp", "x9", "x0", "x0", page), I("add_imm", "x9", "x9", "x0", TableAt(form))>>
  \o Gap(gap2) \o Select(form) \o <<I("br", "x0", "x10", "x0", 0)>>

\* Before it: another comparison, as near as it may be.
Before == {<< >>, <<Nop>>,
           <<I("cmp", "x0", "x0", "x0", 2), I("b.eq", "x0", "x0", "x0", 4 * CasesAt), Nop, Nop>>,
           <<I("cmp_reg", "x0", "x0", "x8", 0), Nop>>}

Filled(code) == code \o Nops(CasesAt - 1 - Len(code))

\* The cases: a branch back, a branch on, and two that are there.
Slots == <<I("b", "x0", "x0", "x0", 2^26 - 1), I("b", "x0", "x0", "x0", 4), Nop, Nop, Nop, Nop>>

\* The pieces of a dispatch that begins behind n instructions.
PiecesOf(n, gap1, gap2) ==
  LET hi   == n + 2 + gap1
      add  == hi + 2
      load == add + gap2 + 2
  IN  [cmp |-> n + 1, hi |-> hi, adrp |-> hi + 1, add |-> add, mid |-> load - 1, load |-> load,
       sum |-> load + 1, br |-> load + 2]

\* One table of each form for the cases 2, 0 and 1, then one byte.
Offset(k) == 4 * CasesAt - (MCData + k)
Le(n) == <<n % 256, (n \div 256) % 256, (n \div 65536) % 256, (n \div 16777216) % 256>>
MCBytes == <<0, 2, 0, 1>> \o Le(2) \o Le(0) \o Le(1)
           \o Le(Offset(16) + 8) \o Le(Offset(20)) \o Le(Offset(24) + 4) \o <<7>>

Forms == {"bytes", "words", "offsets"}

One == {[code |-> Filled(b \o Dispatch(form, 2, CasesAt + 3, Page(place, form), gap1, gap2)) \o Slots,
         entries |-> {Len(b) + 1, 1}, dispatches |-> {PiecesOf(Len(b), gap1, gap2)},
         bytes |-> MCBytes] :
          b \in Before, form \in Forms, gap1 \in {0, 3}, gap2 \in {0, 10},
          place \in {"data", "outside", "elsewhere"}}

\* The second dispatch has other cases.
Two == {LET first == b \o Dispatch(f, 2, CasesAt + 3, MCData, gap, 1)
        IN  [code |-> Filled(first \o Dispatch(g, 1, CasesAt + 4, MCData, 0, gap)) \o Slots,
             entries |-> {Len(b) + 1, Len(first) + 1},
             dispatches |-> {PiecesOf(Len(b), gap, 1), PiecesOf(Len(first), 0, gap)},
             bytes |-> MCBytes] :
          b \in {<< >>, <<I("cmp_reg", "x0", "x0", "x8", 0), Nop>>},
          f \in Forms, g \in Forms, gap \in {0, 3}}

MCImages == One \cup Two
=============================================================================
