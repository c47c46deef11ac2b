------------------------------ MODULE MCXrefs ------------------------------
EXTENDS Xrefs

MCRegs == {0, 1, 19}
MCCallSaved == {19}
MCStrings == {12}

Name(u, rest, form) == [underscores |-> u, rest |-> rest, form |-> form]
MCNames == {Name(1, "f", "plain"), Name(2, "f", "plain"), Name(0, "f", "plain"), Name(1, "g", "plain"),
            Name(0, "m", "method"), Name(0, "x", "l_"), Name(1, "x", "l_"), Name(0, "0", "ltmp"),
            Name(2, "h", "mh_execute_header"), Name(1, "h", "mh_execute_header")}
MCSymbols == [va : 0 .. 4, name : MCNames]

Insn(op, rd, rn, n) == [op |-> op, rd |-> rd, rn |-> rn, n |-> n]

\* Registers 0 and 19 hold pages and are overwritten between an adrp and its
\* add: by another adrp, by a move, by a load, by a sum, by a call, or not at
\* all; a jump leads in between or not.
MCInsns == {Insn("adrp", 0, 0, 10), Insn("adrp", 0, 0, 0), Insn("adrp", 19, 19, 20), Insn("adr", 0, 0, 12),
            Insn("add", 0, 0, 2), Insn("add", 19, 19, 2), Insn("sub", 1, 0, 3),
            Insn("mov", 0, 0, 0), Insn("orr", 0, 19, 0), Insn("ldr", 1, 1, 30), Insn("ldr", 0, 0, 0),
            Insn("add", 0, 1, 3), Insn("bl", 0, 0, 1), Insn("b", 0, 0, 3), Insn("bcond", 0, 0, 3),
            Insn("b", 0, 0, 0), Insn("str", 0, 0, 0), Insn("other", 0, 0, 0)}

Calls == [k \in 1 .. 3 |-> Insn("bl", 0, 0, 1)]

\* Every symbol table with two symbols around three calls, and every text
\* of four instructions in one function of an object file.
MCInputs ==
  [symbols : BoundedSeq(MCSymbols, 2), starts : SUBSET (6 .. 8), textOffset : {5},
   code : {Calls}, maxInsns : {2, 9}]
    \cup [symbols : {<<[va |-> 1, name |-> Name(1, "f", "plain")]>>}, starts : {{6}},
          textOffset : {NoSegment}, code : [1 .. 4 -> MCInsns], maxInsns : {9}]
=============================================================================
