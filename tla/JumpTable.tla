----------------------------- MODULE JumpTable -----------------------------
(***************************************************************************)
(* Recovery of jump tables (jumptable.rs): a scan over the instructions of *)
(* a function that puts a dispatch together from the pieces it finds       *)
(* within fixed distances, and reads the table out of the file.  When it   *)
(* is over the processor runs the instructions, and the properties compare *)
(* where it goes with what was recovered.                                  *)
(*                                                                         *)
(* An address is 4 times the position of an instruction, and above them    *)
(* the bytes of the data section, which starts at `Data`.                  *)
(***************************************************************************)
EXTENDS Integers, Sequences, FiniteSetsExt

CONSTANTS
  Registers,  \* the registers of the functions
  Images,     \* the files: a function's `code`, where to enter it, its dispatches, `bytes` of data
  Data,       \* address of the data section
  Indices     \* values of the register a function dispatches on

\* An instruction with its registers and its immediate, page or target.
Insn == [op : STRING, rd : Registers, rn : Registers, rm : Registers, imm : Int]

\* What a byte of a file may be.
Octet == 0 .. 255

\* Where a compiler has put the pieces of a dispatch; `mid` is the adr of an
\* island, or the sum of the table and the index.
Pieces == [cmp : Nat, hi : Nat, adrp : Nat, add : Nat, mid : Nat, load : Nat, sum : Nat, br : Nat]

ASSUME ImagesAssumption ==
  \A f \in Images :
    /\ f.code \in Seq(Insn) /\ f.bytes \in Seq(Octet)
    /\ f.entries \subseteq Nat /\ f.dispatches \subseteq Pieces
ASSUME DataAssumption == Data \in Nat /\ \A f \in Images : Data > 4 * Len(f.code)
ASSUME IndicesAssumption == Indices \subseteq Nat

VARIABLES
  image,     \* the file
  start,     \* `i`: where the scan is
  tables,    \* `out`
  phase,     \* "scan", "run" or "left"
  pc, regs,  \* the processor
  compared,  \* the last comparison: register, value, immediate
  via        \* the instruction that left the code before the cases, or 0

scanVars == <<image, start, tables>>
runVars == <<pc, regs, compared, via>>
vars == <<scanVars, phase, runVars>>

-----------------------------------------------------------------------------
(* The file *)

Code == image.code
Op(k) == Code[k].op

\* The bytes at an address, up to the end of the section.
ReadVa(va, len) ==
  LET off == va - Data
  IN  SubSeq(image.bytes, off + 1, Min({off + len, Len(image.bytes)}))

InSection(va) == va >= Data /\ va < Data + Len(image.bytes)

\* A byte of what was read, 0 behind its end.
Byte(bytes, k) == IF k \in DOMAIN bytes THEN bytes[k] ELSE 0

Low(bytes, o) == Byte(bytes, o + 1) + 256 * Byte(bytes, o + 2) + 65536 * Byte(bytes, o + 3)

\* Four bytes, without and with a sign.
Word(bytes, o) == Low(bytes, o) + 16777216 * Byte(bytes, o + 4)

SignedWord(bytes, o) ==
  LET high == Byte(bytes, o + 4) IN Low(bytes, o) + 16777216 * (IF high < 128 THEN high ELSE high - 256)

\* The offset of an unconditional branch, from its 26 bits.
BranchOffset(imm26) == 4 * (IF imm26 < 2^25 THEN imm26 ELSE imm26 - 2^26)

IsCode(va) == va % 4 = 0 /\ va \div 4 \in DOMAIN Code

\* resolve_branch_at, or the address itself.
ResolveBranch(va) ==
  IF IsCode(va) /\ Op(va \div 4) = "b" THEN va + BranchOffset(Code[va \div 4].imm) ELSE va

-----------------------------------------------------------------------------
(* try_recover_at *)

\* The first of n instructions from k on with one of these operations, or 0.
FirstOf(ops, k, n) ==
  LET found == {j \in k .. Min({k + n - 1, Len(Code)}) : Op(j) \in ops}
  IN  IF found = {} THEN 0 ELSE Min(found)

\* Mutant: the condition may be one instruction further away.
CondBranchFar(cmp) == FirstOf({"b.hi", "b.ls"}, cmp + 1, 5)

Compare(i) == FirstOf({"cmp", "cmp_reg"}, i, 12)
CondBranch(cmp) == FirstOf({"b.hi", "b.ls"}, cmp + 1, 4)
IndirectBranch(bhi) == FirstOf({"br"}, bhi + 1, 16)

\* The last instruction of a window with one of these operations, or 0.
LastOf(ops, from, to) ==
  LET found == {j \in from .. to : Op(j) \in ops} IN IF found = {} THEN 0 ELSE Max(found)

\* An immediate is added to the register the last adrp put a page in.
Completes(k, from) ==
  /\ Op(k) = "add_imm" /\ Code[k].rd = Code[k].rn
  /\ LET p == LastOf({"adrp"}, from, k) IN p # 0 /\ Code[p].rd = Code[k].rd

\* table_va, or 0.
TableVa(from, to) ==
  LET adds == {k \in from .. to : Completes(k, from)}
  IN  IF adds = {} THEN 0 ELSE Code[LastOf({"adrp"}, from, Max(adds))].imm + Code[Max(adds)].imm

Island(from, to) == LET k == LastOf({"adr"}, from, to) IN IF k = 0 THEN 0 ELSE Code[k].imm

\* A halfword counts as a byte.
EntrySize(from, to) ==
  LET k == LastOf({"ldrb", "ldrh", "ldrsw", "ldr"}, from, to)
  IN  IF k # 0 /\ Op(k) \in {"ldrsw", "ldr"} THEN 4 ELSE 1

CasesUpTo(max) == 0 .. max

\* A word of the island that was not read as a whole counts as 0.
WholeWord(bytes, o) == IF o + 4 <= Len(bytes) THEN Word(bytes, o) ELSE 0

\* Entries of the table are slots of the island, or offsets from themselves.
CaseTarget(va, bytes, size, island, i) ==
  CASE island # 0 /\ size = 1 -> ResolveBranch(island + 4 * Byte(bytes, i + 1))
    [] island # 0 /\ size = 4 -> ResolveBranch(island + 4 * WholeWord(bytes, 4 * i))
    [] island = 0             -> va + 4 * i + SignedWord(bytes, 4 * i)

\* Entry-relative cases end with the last whole word that was read.
Cases(va, max, size, island) ==
  LET bytes == ReadVa(va, (max + 1) * size)
      known == IF island # 0 THEN CasesUpTo(max) ELSE {i \in CasesUpTo(max) : 4 * i + 4 <= Len(bytes)}
  IN  [i \in known |-> CaseTarget(va, bytes, size, island, i)]

\* Is there a dispatch from i on, as far as the instructions tell?
Matches(i) ==
  LET cmp == Compare(i)
      bhi == CondBranch(cmp)
      br  == IndirectBranch(bhi)
  IN  /\ cmp # 0 /\ Op(cmp) = "cmp"
      /\ bhi # 0 /\ br # 0
      /\ TableVa(bhi + 1, br) # 0

Recovered(i) ==
  LET cmp  == Compare(i)
      bhi  == CondBranch(cmp)
      br   == IndirectBranch(bhi)
      va   == TableVa(bhi + 1, br)
      size == EntrySize(bhi + 1, br)
  IN  [index   |-> Code[cmp].rn,
       max     |-> Code[cmp].imm,
       default |-> Code[bhi].imm,
       cases   |-> Cases(va, Code[cmp].imm, size, Island(bhi + 1, br)),
       br      |-> br]

MatchedVa(i) ==
  LET bhi == CondBranch(Compare(i)) IN TableVa(bhi + 1, IndirectBranch(bhi))

-----------------------------------------------------------------------------
(* recover_jump_tables *)

Init ==
  /\ image \in Images
  /\ start = 1
  /\ tables = {}
  /\ phase = "scan"
  /\ pc \in image.entries
  /\ regs \in {[r \in Registers |-> v] : v \in Indices}
  /\ compared = << >>
  /\ via = 0

\* Mutant: the scan goes on behind the second of two dispatches.
RecoverSkipping ==
  /\ phase = "scan" /\ start <= Len(Code)
  /\ Matches(start) /\ InSection(MatchedVa(start)) /\ DOMAIN Recovered(start).cases # {}
  /\ tables' = tables \cup {Recovered(start)}
  /\ start' = start + Recovered(start).br
  /\ UNCHANGED <<image, phase, runVars>>

\* A table is recovered, and the scan goes on behind its dispatch.
Recover ==
  /\ phase = "scan" /\ start <= Len(Code)
  /\ Matches(start) /\ InSection(MatchedVa(start)) /\ DOMAIN Recovered(start).cases # {}
  /\ tables' = tables \cup {Recovered(start)}
  /\ start' = Recovered(start).br + 1
  /\ UNCHANGED <<image, phase, runVars>>

Advance ==
  /\ phase = "scan" /\ start <= Len(Code)
  /\ \/ ~Matches(start)
     \/ Matches(start) /\ InSection(MatchedVa(start)) /\ DOMAIN Recovered(start).cases = {}
  /\ start' = start + 1
  /\ UNCHANGED <<image, tables, phase, runVars>>

\* A table outside of the file is an error, and the caller goes on without
\* any table (decompile.rs).
Fail ==
  /\ phase = "scan" /\ start <= Len(Code)
  /\ Matches(start) /\ ~InSection(MatchedVa(start))
  /\ tables' = {}
  /\ phase' = "run"
  /\ UNCHANGED <<image, start, runVars>>

ScanDone ==
  /\ phase = "scan" /\ start > Len(Code)
  /\ phase' = "run"
  /\ UNCHANGED <<scanVars, runVars>>

-----------------------------------------------------------------------------
(* The processor *)

Load(op, va) ==
  CASE op = "ldrb" -> Byte(image.bytes, va - Data + 1)
    [] op = "ldrsw" -> SignedWord(image.bytes, va - Data)

\* The value an instruction puts into its register.
Value(c) ==
  CASE c.op \in {"adrp", "adr"} -> c.imm
    [] c.op = "add_imm" -> regs[c.rn] + c.imm
    [] c.op = "add_lsl" -> regs[c.rn] + 4 * regs[c.rm]
    [] c.op = "add"     -> regs[c.rn] + regs[c.rm]
    [] c.op \in {"ldrb", "ldrsw"} -> Load(c.op, regs[c.rn] + c.imm * regs[c.rm])

\* b.hi compares without sign, so that a negative number is higher.
Condition(op) ==
  CASE op = "b.hi" -> compared.value \notin 0 .. compared.imm
    [] op = "b.eq" -> compared.value = compared.imm

Computes == {"adrp", "adr", "add_imm", "add_lsl", "add", "ldrb", "ldrsw"}
CondBranches == {"b.hi", "b.eq"}

\* What is loaded lies in the file, the whole word of it.
InFile(op, va) == InSection(va) /\ (op = "ldrsw" => InSection(va + 3))

Step ==
  /\ phase = "run" /\ pc \in DOMAIN Code
  /\ LET c == Code[pc]
     IN  \/ /\ c.op \in Computes
            /\ c.op \in {"ldrb", "ldrsw"} => InFile(c.op, regs[c.rn] + c.imm * regs[c.rm])
            /\ regs' = [regs EXCEPT ![c.rd] = Value(c)]
            /\ UNCHANGED compared
         \/ /\ c.op = "cmp"
            /\ compared' = [reg |-> c.rn, value |-> regs[c.rn], imm |-> c.imm]
            /\ UNCHANGED regs
         \/ /\ c.op = "nop" \/ (c.op \in CondBranches /\ ~Condition(c.op))
            /\ UNCHANGED <<regs, compared>>
  /\ pc' = pc + 1
  /\ UNCHANGED <<scanVars, phase, via>>

\* Control leaves by a branch that is taken; from a slot of an island that is
\* a branch it goes on to where that leads.
Leave ==
  /\ phase = "run" /\ pc \in DOMAIN Code
  /\ LET c == Code[pc]
     IN  \/ c.op = "br" /\ IsCode(regs[c.rn]) /\ pc' = ResolveBranch(regs[c.rn]) \div 4
         \/ c.op \in CondBranches /\ Condition(c.op) /\ pc' = c.imm \div 4
  /\ via' = pc
  /\ phase' = "left"
  /\ UNCHANGED <<scanVars, regs, compared>>

Next == Recover \/ Advance \/ Fail \/ ScanDone \/ Step \/ Leave

Spec == Init /\ [][Next]_vars

-----------------------------------------------------------------------------
(* Properties *)

Reg(k) == Code[k].rd
Positions(d) == {d.cmp, d.hi, d.adrp, d.add, d.mid, d.load, d.sum, d.br}

\* The registers a dispatch uses: the index, the table, the entry and the sum.
Uses(d) == {Code[d.cmp].rn} \cup {Reg(k) : k \in {d.adrp, d.mid, d.load, d.sum}}

\* An entry selects a slot of an island.  Words have no sign there.
SelectsSlot(d) ==
  /\ Op(d.mid) = "adr" /\ Code[d.mid].imm # 0 /\ d.hi < d.mid /\ d.mid < d.sum
  /\ Reg(d.mid) \notin {Code[d.cmp].rn, Reg(d.adrp), Reg(d.load)}
  /\ Code[d.load].rn = Reg(d.adrp) /\ Code[d.load].rm = Code[d.cmp].rn
  /\ \/ Op(d.load) = "ldrb" /\ Code[d.load].imm = 1
     \/ /\ Op(d.load) = "ldrsw" /\ Code[d.load].imm = 4
        /\ \A i \in CasesUpTo(Code[d.cmp].imm) :
             Byte(image.bytes, Code[d.adrp].imm + Code[d.add].imm + 4 * i - Data + 4) < 128
  /\ Op(d.sum) = "add_lsl" /\ Code[d.sum].rn = Reg(d.mid) /\ Code[d.sum].rm = Reg(d.load)

\* An entry is the distance of the case from the entry.
SelectsOffset(d) ==
  /\ Op(d.mid) = "add_lsl" /\ d.add < d.mid /\ d.mid < d.load
  /\ Reg(d.mid) = Reg(d.adrp) /\ Code[d.mid].rn = Reg(d.adrp) /\ Code[d.mid].rm = Code[d.cmp].rn
  /\ Op(d.load) = "ldrsw" /\ Code[d.load].imm = 0 /\ Code[d.load].rn = Reg(d.adrp)
  /\ Reg(d.load) # Reg(d.adrp)
  /\ Op(d.sum) = "add" /\ Code[d.sum].rn = Reg(d.adrp) /\ Code[d.sum].rm = Reg(d.load)

\* The pattern jumptable.rs says it recognizes, with anything in between that
\* uses none of the registers and is none of the pieces.
IsDispatch(d) ==
  /\ Positions(d) \subseteq DOMAIN Code
  /\ d.cmp < d.hi /\ d.hi < d.adrp /\ d.adrp < d.add /\ d.add < d.load /\ d.load < d.sum /\ d.sum < d.br
  /\ d.hi <= d.cmp + 4 /\ d.br <= d.hi + 16
  /\ Op(d.cmp) = "cmp" /\ Code[d.cmp].imm \in Nat
  /\ Op(d.hi) = "b.hi" /\ Code[d.hi].imm % 4 = 0
  /\ Op(d.adrp) = "adrp" /\ Reg(d.adrp) # Code[d.cmp].rn
  /\ Op(d.add) = "add_imm" /\ Reg(d.add) = Reg(d.adrp) /\ Code[d.add].rn = Reg(d.adrp)
  /\ Code[d.adrp].imm + Code[d.add].imm # 0
  /\ SelectsSlot(d) \/ SelectsOffset(d)
  /\ Op(d.br) = "br" /\ Code[d.br].rn = Reg(d.sum)
  /\ \A k \in d.cmp .. d.br :
       \/ k \in Positions(d)
       \/ Op(k) \in {"nop", "b.eq"}
       \/ Op(k) \in {"add_imm", "add_lsl", "add"} /\ Reg(k) \notin Uses(d)

\* Every indirect branch ends a dispatch, no other range check is within 16
\* instructions of one, no other comparison with an immediate within four of
\* its condition, and control enters none in the middle.
Regular ==
  /\ \A d \in image.dispatches : IsDispatch(d)
  /\ \A k \in DOMAIN Code : Op(k) = "br" => \E d \in image.dispatches : k = d.br
  /\ \A h, k \in DOMAIN Code :
       Op(h) \in {"b.hi", "b.ls"} /\ Op(k) = "br" /\ h < k /\ k <= h + 16 =>
         \E d \in image.dispatches : h = d.hi
  /\ \A c \in DOMAIN Code, d \in image.dispatches :
       Op(c) = "cmp" /\ c < d.hi /\ d.hi <= c + 4 => c = d.cmp
  /\ \A e \in image.entries, d \in image.dispatches : e <= d.cmp \/ e > d.br

\* The switch that is shown does what the processor does: the value of the
\* register it names selects the case control goes to, or an island slot that
\* leads there, and values without a case go to the default: in every function
\* whose dispatches are of the two forms the code knows, whatever is between
\* the pieces.  "Case index -> target VA (resolved branch island entry)",
\* "Default target VA (`b.hi` / out-of-range)" (jumptable.rs).
SwitchAgrees ==
  phase = "left" /\ Regular =>
    \A t \in tables :
      /\ via = t.br =>
           /\ t.index = compared.reg
           /\ compared.value \in DOMAIN t.cases
           /\ 4 * pc \in {t.cases[compared.value], ResolveBranch(t.cases[compared.value])}
      /\ Op(via) = "b.hi" /\ IndirectBranch(via) = t.br =>
           /\ compared.value \notin DOMAIN t.cases
           /\ t.default = 4 * pc

\* No dispatch is missed, the second in a function neither: an indirect
\* branch into the function always has its table, unless one of them lies
\* outside of the file.
NoDispatchMissed ==
  phase = "left" /\ Regular /\ Op(via) = "br" /\ start > Len(Code) => \E t \in tables : t.br = via
=============================================================================
