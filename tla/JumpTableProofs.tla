-------------------------- MODULE JumpTableProofs --------------------------
(***************************************************************************)
(* Theorems about JumpTable, for files with any code and any data.         *)
(*                                                                         *)
(* The scan finds the pieces of a dispatch by distance, and in a regular   *)
(* function these are the pieces its compiler has put there (MatchIs).  On *)
(* the other side the processor, once it has compared, holds in each       *)
(* register what the piece it has passed puts there (Passed).              *)
(***************************************************************************)
EXTENDS JumpTable, SequenceTheorems, NaturalsInduction, WellFoundedInduction, TLAPS

Index(d) == Code[d.cmp].rn
Top(d) == Code[d.cmp].imm
Table(d) == Code[d.adrp].imm + Code[d.add].imm
IsSlot(d) == Op(d.mid) = "adr"

\* The entry of a value, what is loaded from it and where that leads.
Entry(d, v) == Table(d) + (IF Op(d.load) = "ldrb" THEN v ELSE 4 * v)
Loaded(d, v) == Load(Op(d.load), Entry(d, v))
Target(d, v) ==
  IF IsSlot(d) THEN Code[d.mid].imm + 4 * Loaded(d, v) ELSE Table(d) + 4 * v + Loaded(d, v)

\* What comparison c and registers r hold when control is at p of dispatch d.
Passed(d, p, r, c) ==
  /\ c.reg = Index(d) /\ c.imm = Top(d) /\ c.value \in Int
  /\ d.hi < p => c.value \in 0 .. Top(d)
  /\ p <= d.load => r[Index(d)] = c.value
  /\ d.adrp < p /\ p <= d.add => r[Reg(d.adrp)] = Code[d.adrp].imm
  /\ d.add < p /\ p <= (IF IsSlot(d) THEN d.load ELSE d.sum) =>
       r[Reg(d.adrp)] = IF ~IsSlot(d) /\ d.mid < p THEN Table(d) + 4 * c.value ELSE Table(d)
  /\ IsSlot(d) /\ d.mid < p /\ p <= d.sum => r[Reg(d.mid)] = Code[d.mid].imm
  /\ d.load < p => InFile(Op(d.load), Entry(d, c.value))
  /\ d.load < p /\ p <= d.sum => r[Reg(d.load)] = Loaded(d, c.value)
  /\ d.sum < p => r[Reg(d.sum)] = Target(d, c.value)

Inside(d, p) == d.cmp < p /\ p <= d.br

RunInv ==
  phase \in {"scan", "run"} /\ Regular =>
    \A d \in image.dispatches : Inside(d, pc) => Passed(d, pc, regs, compared)

\* Where comparison c and control at p are when instruction k of it has left
\* dispatch d: at the case of the value, or at the default.
Landed(d, k, p, c) ==
  /\ k = d.br =>
       /\ c.reg = Index(d) /\ c.value \in 0 .. Top(d)
       /\ InFile(Op(d.load), Entry(d, c.value))
       /\ Target(d, c.value) \in Int /\ IsCode(Target(d, c.value))
       /\ p = ResolveBranch(Target(d, c.value)) \div 4
  /\ k = d.hi => c.value \notin 0 .. Top(d) /\ 4 * p = Code[d.hi].imm

LeftInv ==
  phase = "left" =>
    /\ via \in DOMAIN Code
    /\ Regular => \A d \in image.dispatches : Landed(d, via, pc, compared)

\* The cases in the table of a dispatch, the table, which is in the file, and
\* one that has no case.
CasesOf(d) ==
  Cases(Table(d), Top(d), IF Op(d.load) = "ldrb" THEN 1 ELSE 4,
        IF IsSlot(d) THEN Code[d.mid].imm ELSE 0)
IsTable(d, t) ==
  /\ InSection(Table(d))
  /\ t.index = Index(d) /\ t.default = Code[d.hi].imm /\ t.br = d.br /\ t.cases = CasesOf(d)
Empty(d) == InSection(Table(d)) /\ DOMAIN CasesOf(d) = {}

\* Every table is one of a dispatch, and the dispatches the scan has passed
\* have theirs, unless it has failed.
ScanInv ==
  /\ start \in Nat \ {0} /\ phase \in {"scan", "run", "left"}
  /\ Regular =>
       /\ \A t \in tables : \E d \in image.dispatches : IsTable(d, t)
       /\ phase = "scan" \/ start > Len(Code) =>
            \A d \in image.dispatches : d.cmp < start => Empty(d) \/ \E t \in tables : t.br = d.br

TypeInv ==
  /\ image \in Images /\ regs \in [Registers -> Int] /\ pc \in Int

-----------------------------------------------------------------------------
(* Codes and bytes *)

LEMMA FileTypes ==
  ASSUME TypeInv
  PROVE  /\ Code \in Seq(Insn) /\ image.bytes \in Seq(Octet)
         /\ image.entries \subseteq Nat /\ image.dispatches \subseteq Pieces
         /\ Len(Code) \in Nat /\ DOMAIN Code = 1 .. Len(Code)
         /\ \A k \in DOMAIN Code : Code[k] \in Insn
<1>1. /\ Code \in Seq(Insn) /\ image.bytes \in Seq(Octet)
      /\ image.entries \subseteq Nat /\ image.dispatches \subseteq Pieces
  BY ImagesAssumption DEF TypeInv, Code
<1> QED BY <1>1

LEMMA ByteRange ==
  ASSUME NEW bytes \in Seq(Octet), NEW k \in Int
  PROVE  Byte(bytes, k) \in Octet /\ Byte(bytes, k) \in Int
<1>1. 0 \in Octet BY DEF Octet
<1>2. Byte(bytes, k) \in Octet
  <2>1. CASE k \in DOMAIN bytes
    <3>1. bytes[k] \in Octet BY <2>1
    <3> QED BY <2>1, <3>1 DEF Byte
  <2>2. CASE k \notin DOMAIN bytes BY <1>1, <2>2 DEF Byte
  <2> QED BY <2>1, <2>2
<1>3. Octet \subseteq Int BY DEF Octet
<1> QED BY <1>2, <1>3

LEMMA SumOfBytes ==
  ASSUME NEW a \in Int, NEW b \in Int, NEW c \in Int, NEW d \in Int
  PROVE  a + 256 * b + 65536 * c \in Int /\ a + 16777216 * d \in Int
<1>1. 256 * b \in Int /\ 65536 * c \in Int /\ 16777216 * d \in Int OBVIOUS
<1> QED BY <1>1

LEMMA WordRange ==
  ASSUME NEW bytes \in Seq(Octet), NEW o \in Int
  PROVE  /\ Low(bytes, o) \in Int /\ Word(bytes, o) \in Int /\ SignedWord(bytes, o) \in Int
         /\ Byte(bytes, o + 4) < 128 => SignedWord(bytes, o) = Word(bytes, o)
<1>1. o + 1 \in Int /\ o + 2 \in Int /\ o + 3 \in Int /\ o + 4 \in Int OBVIOUS
<1>2. /\ Byte(bytes, o + 1) \in Int /\ Byte(bytes, o + 2) \in Int
      /\ Byte(bytes, o + 3) \in Int /\ Byte(bytes, o + 4) \in Int
  BY <1>1, ByteRange
<1>3. Low(bytes, o) \in Int BY <1>2, SumOfBytes, SMT DEF Low
<1>4. Word(bytes, o) \in Int BY <1>2, <1>3, SumOfBytes, SMT DEF Word
<1>5. SignedWord(bytes, o) \in Int /\ (Byte(bytes, o + 4) < 128 => SignedWord(bytes, o) = Word(bytes, o))
  <2>1. CASE Byte(bytes, o + 4) < 128
    <3>1. SignedWord(bytes, o) = Word(bytes, o) BY <2>1, SMT DEF SignedWord, Word
    <3> QED BY <1>4, <3>1
  <2>2. CASE ~(Byte(bytes, o + 4) < 128)
    <3>1. SignedWord(bytes, o) = Low(bytes, o) + 16777216 * (Byte(bytes, o + 4) - 256)
      BY <2>2, SMT DEF SignedWord
    <3>2. Byte(bytes, o + 4) - 256 \in Int BY <1>2
    <3>3. SignedWord(bytes, o) \in Int BY <1>3, <3>1, <3>2, SumOfBytes, SMT
    <3> QED BY <2>2, <3>3
  <2> QED BY <2>1, <2>2
<1> QED BY <1>3, <1>4, <1>5

LEMMA LoadType ==
  ASSUME TypeInv, NEW op \in {"ldrb", "ldrsw"}, NEW va \in Int
  PROVE  Load(op, va) \in Int
<1>1. image.bytes \in Seq(Octet) /\ va - Data \in Int /\ va - Data + 1 \in Int
  BY FileTypes, DataAssumption
<1>2. Byte(image.bytes, va - Data + 1) \in Int BY <1>1, ByteRange
<1>3. SignedWord(image.bytes, va - Data) \in Int BY <1>1, WordRange
<1> QED BY <1>2, <1>3 DEF Load

\* What was read is a part of the section.
LEMMA ReadBytes ==
  ASSUME TypeInv, NEW va \in Int, InSection(va), NEW len \in Nat
  PROVE  LET read == ReadVa(va, len)
         IN  /\ read \in Seq(Octet)
             /\ Len(read) = IF va - Data + len <= Len(image.bytes) THEN len
                                                                   ELSE Len(image.bytes) - (va - Data)
             /\ \A k \in 1 .. len : Byte(read, k) = Byte(image.bytes, va - Data + k)
<1> DEFINE off == va - Data
           end == Min({off + len, Len(image.bytes)})
           read == ReadVa(va, len)
<1>1. image.bytes \in Seq(Octet) /\ Len(image.bytes) \in Nat BY FileTypes
<1>2. off \in Nat /\ off < Len(image.bytes) BY <1>1, DataAssumption DEF InSection
<1>3. end = IF off + len <= Len(image.bytes) THEN off + len ELSE Len(image.bytes)
  <2>1. off + len \in Int /\ Len(image.bytes) \in Int BY <1>1, <1>2
  <2> HIDE DEF off
  <2> QED BY <2>1 DEF Min
<1>4. read = SubSeq(image.bytes, off + 1, end) BY DEF ReadVa
<1> HIDE DEF off, end, read
<1>5. end \in Nat /\ end <= Len(image.bytes) /\ off <= end BY <1>1, <1>2, <1>3
<1>6. /\ read \in Seq(Octet) /\ Len(read) = end - off
      /\ \A k \in 1 .. end - off : read[k] = image.bytes[off + k]
  <2> DEFINE bytes == image.bytes
  <2>1. bytes \in Seq(Octet) /\ read = SubSeq(bytes, off + 1, end) BY <1>1, <1>4
  <2>2. off + 1 \in Int /\ end \in Int /\ end - (off + 1) + 1 = end - off
        /\ \A k \in 1 .. end - off : off + 1 + k - 1 = off + k
    BY <1>2, <1>5
  <2>3. \A i \in off + 1 .. end : bytes[i] \in Octet BY <2>1, <1>1, <1>2, <1>5
  <2> HIDE DEF bytes
  <2>4. /\ read \in Seq(Octet)
        /\ Len(read) = IF off + 1 <= end THEN end - off ELSE 0
        /\ \A k \in 1 .. end - off : read[k] = bytes[off + 1 + k - 1]
    BY <2>1, <2>2, <2>3, SubSeqProperties
  <2>5. Len(read) = end - off BY <2>4, <1>2, <1>5
  <2> QED BY <2>2, <2>4, <2>5 DEF bytes
<1>7. ASSUME NEW k \in 1 .. len PROVE Byte(read, k) = Byte(image.bytes, off + k)
  <2>1. DOMAIN read = 1 .. end - off BY <1>5, <1>6, <1>2
  <2>2. k \in DOMAIN read <=> off + k \in DOMAIN image.bytes
    BY <2>1, <1>1, <1>2, <1>3
  <2>3. CASE k \in DOMAIN read BY <2>1, <2>2, <2>3, <1>6 DEF Byte
  <2>4. CASE k \notin DOMAIN read BY <2>2, <2>4 DEF Byte
  <2> QED BY <2>3, <2>4
<1> QED BY <1>1, <1>2, <1>3, <1>6, <1>7 DEF off, read

\* So a word of it is the word of the section.
LEMMA ReadWords ==
  ASSUME TypeInv, NEW va \in Int, InSection(va), NEW len \in Nat,
         NEW o \in Nat, o + 4 <= len
  PROVE  LET read == ReadVa(va, len)
         IN  /\ Word(read, o) = Word(image.bytes, va + o - Data)
             /\ SignedWord(read, o) = SignedWord(image.bytes, va + o - Data)
<1> DEFINE read == ReadVa(va, len)
<1>1. \A k \in 1 .. len : Byte(read, k) = Byte(image.bytes, va - Data + k) BY ReadBytes
<1>2. \A j \in 1 .. 4 : Byte(read, o + j) = Byte(image.bytes, va + o - Data + j)
  <2>1. ASSUME NEW j \in 1 .. 4 PROVE Byte(read, o + j) = Byte(image.bytes, va + o - Data + j)
    <3>1. o + j \in 1 .. len /\ va - Data + (o + j) = va + o - Data + j BY DataAssumption
    <3> QED BY <1>1, <3>1
  <2> QED BY <2>1
<1> HIDE DEF read
<1>3. /\ Byte(read, o + 1) = Byte(image.bytes, va + o - Data + 1)
      /\ Byte(read, o + 2) = Byte(image.bytes, va + o - Data + 2)
      /\ Byte(read, o + 3) = Byte(image.bytes, va + o - Data + 3)
      /\ Byte(read, o + 4) = Byte(image.bytes, va + o - Data + 4)
  BY <1>2
<1> QED BY <1>3, SMT DEF Word, SignedWord, Low, read

-----------------------------------------------------------------------------
(* The first and the last of a window *)

LEMMA LeastIs ==
  ASSUME NEW S \in SUBSET Nat, S # {}
  PROVE  Min(S) \in S /\ \A x \in S : Min(S) <= x
<1>1. PICK m \in S : \A k \in S : <<k, m>> \notin OpToRel(<, Nat)
  BY NatLessThanWellFounded, WFMin
<1>2. \A k \in S : ~(k < m) BY <1>1 DEF OpToRel
<1>3. \E x \in S : \A y \in S : x =< y BY <1>2
<1> QED BY <1>3 DEF Min

LEMMA FirstOfSpec ==
  ASSUME TypeInv, NEW ops, NEW k \in Nat \ {0}, NEW n \in Nat
  PROVE  LET f == FirstOf(ops, k, n)
         IN  /\ f \in Nat
             /\ f # 0 => /\ f \in DOMAIN Code /\ k <= f /\ f <= k + n - 1 /\ Op(f) \in ops
                         /\ \A j \in DOMAIN Code : k <= j /\ j < f => Op(j) \notin ops
             /\ f = 0 => \A j \in DOMAIN Code : k <= j /\ j <= k + n - 1 => Op(j) \notin ops
<1> DEFINE top == Len(Code)
           end == Min({k + n - 1, top})
           found == {j \in k .. end : Op(j) \in ops}
           f == FirstOf(ops, k, n)
<1>1. top \in Nat /\ DOMAIN Code = 1 .. top BY FileTypes
<1>3. f = IF found = {} THEN 0 ELSE Min(found) BY DEF FirstOf
<1> HIDE DEF top, f
<1>2. end \in Int /\ end <= top /\ end <= k + n - 1 /\ (end = top \/ end = k + n - 1)
  <2>1. end = IF k + n - 1 <= top THEN k + n - 1 ELSE top BY <1>1 DEF Min
  <2> HIDE DEF end
  <2> QED BY <1>1, <2>1
<1> HIDE DEF end
<1>4. found \in SUBSET Nat /\ 0 \notin found BY <1>2
<1>5. \A j \in DOMAIN Code : k <= j /\ j <= k + n - 1 /\ Op(j) \in ops => j \in found
  BY <1>1, <1>2
<1>6. \A j \in found : j \in DOMAIN Code /\ k <= j /\ j <= k + n - 1 /\ Op(j) \in ops
  BY <1>1, <1>2
<1>7. CASE found = {} BY <1>3, <1>5, <1>7 DEF f
<1>8. CASE found # {}
  <2>1. f \in found /\ \A x \in found : f <= x BY <1>3, <1>4, <1>8, LeastIs
  <2>2. f \in Nat /\ f # 0 BY <2>1, <1>4
  <2>3. \A j \in DOMAIN Code : k <= j /\ j < f => Op(j) \notin ops
    <3> SUFFICES ASSUME NEW j \in DOMAIN Code, k <= j, j < f, Op(j) \in ops PROVE FALSE
      OBVIOUS
    <3>1. j <= k + n - 1 BY <2>1, <1>6, <1>1
    <3>2. j \in found BY <3>1, <1>5
    <3> HIDE DEF found
    <3> QED BY <3>2, <2>1, <2>2, <1>1
  <2> QED BY <2>1, <2>2, <2>3, <1>6 DEF f
<1> QED BY <1>7, <1>8

LEMMA FirstOfFound ==
  ASSUME TypeInv, NEW ops, NEW k \in Nat \ {0}, NEW n \in Nat, NEW f, f = FirstOf(ops, k, n), f # 0
  PROVE  /\ f \in Nat /\ f \in DOMAIN Code /\ k <= f /\ f <= k + n - 1 /\ Op(f) \in ops
         /\ \A j \in DOMAIN Code : k <= j /\ j < f => Op(j) \notin ops
  BY FirstOfSpec

\* The first of a window is where we know one with none before it.
LEMMA FirstOfIs ==
  ASSUME TypeInv, NEW ops, NEW k \in Nat \ {0}, NEW n \in Nat, NEW f \in DOMAIN Code,
         k <= f, f <= k + n - 1, Op(f) \in ops,
         \A j \in DOMAIN Code : k <= j /\ j < f => Op(j) \notin ops
  PROVE  FirstOf(ops, k, n) = f
<1> DEFINE g == FirstOf(ops, k, n)
<1>1. /\ g \in Nat
      /\ g # 0 => /\ g \in DOMAIN Code /\ k <= g /\ g <= k + n - 1 /\ Op(g) \in ops
                  /\ \A j \in DOMAIN Code : k <= j /\ j < g => Op(j) \notin ops
      /\ g = 0 => \A j \in DOMAIN Code : k <= j /\ j <= k + n - 1 => Op(j) \notin ops
  BY FirstOfSpec
<1> HIDE DEF g
<1>2. f \in Nat BY FileTypes
<1>3. g # 0 BY <1>1
<1>4. ~(g < f) /\ ~(f < g) BY <1>1, <1>3
<1> QED BY <1>1, <1>2, <1>4 DEF g

\* The only one of a window is the last.
LEMMA LastOfOnly ==
  ASSUME NEW ops, NEW from, NEW to, NEW k \in from .. to,
         \A j \in from .. to : Op(j) \in ops <=> j = k
  PROVE  LastOf(ops, from, to) = k
<1>1. {j \in from .. to : Op(j) \in ops} = {k} OBVIOUS
<1>2. Max({k}) = k
  <2>1. k \in Int OBVIOUS
  <2> QED BY <2>1 DEF Max
<1> QED BY <1>1, <1>2 DEF LastOf

LEMMA LastOfNone ==
  ASSUME NEW ops, NEW from, NEW to, \A j \in from .. to : Op(j) \notin ops
  PROVE  LastOf(ops, from, to) = 0
  BY DEF LastOf

-----------------------------------------------------------------------------
(* The scan finds the pieces of a regular function *)

RangeChecks == {"b.hi", "b.ls"}
Loads == {"ldrb", "ldrh", "ldrsw", "ldr"}

\* Between comparison and branch each operation is that of one piece.
LEMMA PiecesAre ==
  ASSUME TypeInv, NEW d \in image.dispatches, IsDispatch(d), NEW k \in d.cmp .. d.br
  PROVE  /\ k \in DOMAIN Code
         /\ Op(k) \in RangeChecks => k = d.hi
         /\ Op(k) \in {"cmp", "cmp_reg"} => k = d.cmp
         /\ Op(k) = "br" => k = d.br
         /\ Op(k) = "adrp" => k = d.adrp
         /\ Op(k) = "adr" => k = d.mid
         /\ Op(k) \in Loads => k = d.load
<1>1. /\ d \in Pieces /\ Len(Code) \in Nat /\ DOMAIN Code = 1 .. Len(Code) BY FileTypes
<1>2. d.cmp \in DOMAIN Code /\ d.br \in DOMAIN Code BY DEF IsDispatch, Positions
<1>3. k \in DOMAIN Code BY <1>1, <1>2
<1>4. CASE k \notin Positions(d)
  <2>1. Op(k) \in {"nop", "b.eq", "add_imm", "add_lsl", "add"} BY <1>4 DEF IsDispatch
  <2> QED BY <2>1, <1>3 DEF RangeChecks, Loads
<1>5. CASE k \in Positions(d)
  <2>1. /\ Op(d.cmp) = "cmp" /\ Op(d.hi) = "b.hi" /\ Op(d.adrp) = "adrp"
        /\ Op(d.add) = "add_imm" /\ Op(d.mid) \in {"adr", "add_lsl"}
        /\ Op(d.load) \in {"ldrb", "ldrsw"} /\ Op(d.sum) \in {"add_lsl", "add"}
        /\ Op(d.br) = "br"
    BY DEF IsDispatch, SelectsSlot, SelectsOffset
  <2>2. k \in {d.cmp, d.hi, d.adrp, d.add, d.mid, d.load, d.sum, d.br}
    BY <1>5 DEF Positions
  <2> QED BY <2>1, <2>2, <1>3 DEF RangeChecks, Loads
<1> QED BY <1>4, <1>5

\* The order of the pieces.
LEMMA Order ==
  ASSUME TypeInv, NEW d \in image.dispatches, IsDispatch(d)
  PROVE  /\ d.cmp \in Nat \ {0} /\ d.hi \in Nat /\ d.adrp \in Nat /\ d.add \in Nat
         /\ d.mid \in Nat /\ d.load \in Nat /\ d.sum \in Nat /\ d.br \in Nat
         /\ d.cmp < d.hi /\ d.hi < d.adrp /\ d.adrp < d.add /\ d.add < d.load
         /\ d.load < d.sum /\ d.sum < d.br /\ d.hi < d.mid /\ d.mid < d.sum
         /\ IsSlot(d) => SelectsSlot(d)
         /\ ~IsSlot(d) => SelectsOffset(d) /\ d.add < d.mid /\ d.mid < d.load
         /\ d.hi <= d.cmp + 4 /\ d.br <= d.hi + 16
         /\ Positions(d) \subseteq DOMAIN Code
<1>1. d \in Pieces /\ Len(Code) \in Nat /\ DOMAIN Code = 1 .. Len(Code) BY FileTypes
<1>2. d.cmp \in DOMAIN Code BY DEF IsDispatch, Positions
<1>3. d.cmp \in Nat \ {0} BY <1>1, <1>2
<1>4. IsSlot(d) => SelectsSlot(d) BY DEF IsDispatch, SelectsOffset, IsSlot
<1>5. ~IsSlot(d) => SelectsOffset(d) BY DEF IsDispatch, SelectsSlot, IsSlot
<1>6. /\ d.hi \in Nat /\ d.adrp \in Nat /\ d.add \in Nat
      /\ d.mid \in Nat /\ d.load \in Nat /\ d.sum \in Nat /\ d.br \in Nat
  BY <1>1 DEF Pieces
<1>7. /\ d.cmp < d.hi /\ d.hi < d.adrp /\ d.adrp < d.add /\ d.add < d.load
      /\ d.load < d.sum /\ d.sum < d.br /\ d.hi <= d.cmp + 4 /\ d.br <= d.hi + 16
      /\ Positions(d) \subseteq DOMAIN Code
  BY DEF IsDispatch
<1>8. CASE IsSlot(d) BY <1>3, <1>4, <1>6, <1>7, <1>8 DEF SelectsSlot
<1>9. CASE ~IsSlot(d)
  <2>1. d.add < d.mid /\ d.mid < d.load BY <1>5, <1>9 DEF SelectsOffset
  <2>2. d.hi < d.mid /\ d.mid < d.sum BY <2>1, <1>3, <1>6, <1>7
  <2> QED BY <2>1, <2>2, <1>3, <1>5, <1>6, <1>7, <1>9
<1> QED BY <1>8, <1>9

\* The branches of a dispatch are the ones the scan takes from its comparison.
LEMMA BranchesFound ==
  ASSUME TypeInv, NEW d \in image.dispatches, IsDispatch(d)
  PROVE  Compare(d.cmp) = d.cmp /\ CondBranch(d.cmp) = d.hi /\ IndirectBranch(d.hi) = d.br
<1>1. /\ d.cmp \in Nat \ {0} /\ d.hi \in Nat /\ d.br \in Nat /\ d.cmp < d.hi /\ d.hi < d.br
      /\ d.hi <= d.cmp + 4 /\ d.br <= d.hi + 16
      /\ d.cmp \in DOMAIN Code /\ d.hi \in DOMAIN Code /\ d.br \in DOMAIN Code
  BY Order DEF Positions
<1>2. Op(d.cmp) = "cmp" /\ Op(d.hi) = "b.hi" /\ Op(d.br) = "br" BY DEF IsDispatch
<1>3. DOMAIN Code \subseteq Nat BY FileTypes
<1>4. FirstOf({"cmp", "cmp_reg"}, d.cmp, 12) = d.cmp
  <2>1. \A j \in DOMAIN Code : d.cmp <= j /\ j < d.cmp => Op(j) \notin {"cmp", "cmp_reg"}
    <3> SUFFICES ASSUME NEW j \in DOMAIN Code, d.cmp <= j, j < d.cmp PROVE FALSE OBVIOUS
    <3>1. j \in Nat /\ d.cmp \in Nat BY <1>1, <1>3
    <3> QED BY <3>1
  <2>2. d.cmp <= d.cmp + 12 - 1 /\ d.cmp <= d.cmp BY <1>1
  <2> QED BY <2>1, <2>2, <1>1, <1>2, FirstOfIs
<1>5. FirstOf({"b.hi", "b.ls"}, d.cmp + 1, 4) = d.hi
  <2>1. \A j \in DOMAIN Code : d.cmp + 1 <= j /\ j < d.hi => Op(j) \notin {"b.hi", "b.ls"}
    <3> SUFFICES ASSUME NEW j \in DOMAIN Code, d.cmp + 1 <= j, j < d.hi
                 PROVE  Op(j) \notin {"b.hi", "b.ls"}
      OBVIOUS
    <3>1. j \in d.cmp .. d.br /\ j # d.hi BY <1>1, <1>3
    <3> QED BY <3>1, PiecesAre DEF RangeChecks
  <2>2. d.cmp + 1 \in Nat \ {0} /\ d.cmp + 1 <= d.hi /\ d.hi <= d.cmp + 1 + 4 - 1 BY <1>1
  <2> QED BY <2>1, <2>2, <1>1, <1>2, FirstOfIs
<1>6. FirstOf({"br"}, d.hi + 1, 16) = d.br
  <2>1. \A j \in DOMAIN Code : d.hi + 1 <= j /\ j < d.br => Op(j) \notin {"br"}
    <3> SUFFICES ASSUME NEW j \in DOMAIN Code, d.hi + 1 <= j, j < d.br
                 PROVE  Op(j) # "br"
      OBVIOUS
    <3>1. j \in d.cmp .. d.br /\ j # d.br BY <1>1, <1>3
    <3> QED BY <3>1, PiecesAre
  <2>2. d.hi + 1 \in Nat \ {0} /\ d.hi + 1 <= d.br /\ d.br <= d.hi + 1 + 16 - 1 BY <1>1
  <2> QED BY <2>1, <2>2, <1>1, <1>2, FirstOfIs
<1> QED BY <1>4, <1>5, <1>6 DEF Compare, CondBranch, IndirectBranch

\* And so are the table, the island and the size of its entries.
LEMMA TableFound ==
  ASSUME TypeInv, NEW d \in image.dispatches, IsDispatch(d)
  PROVE  /\ TableVa(d.hi + 1, d.br) = Table(d)
         /\ Island(d.hi + 1, d.br) = IF IsSlot(d) THEN Code[d.mid].imm ELSE 0
         /\ EntrySize(d.hi + 1, d.br) = IF Op(d.load) = "ldrb" THEN 1 ELSE 4
<1> DEFINE from == d.hi + 1
           to == d.br
<1>1. /\ d.cmp \in Nat \ {0} /\ d.hi \in Nat /\ d.adrp \in Nat /\ d.add \in Nat
      /\ d.mid \in Nat /\ d.load \in Nat /\ d.br \in Nat
      /\ d.cmp < d.hi /\ d.hi < d.adrp /\ d.adrp < d.add /\ d.add < d.load /\ d.load < d.br
      /\ d.hi < d.mid /\ d.mid < d.br
  BY Order
<1>2. /\ from \in Nat /\ to \in Nat /\ \A k \in from .. to : k \in d.cmp .. d.br
      /\ d.adrp \in from .. to /\ d.add \in from .. to /\ d.mid \in from .. to
      /\ d.load \in from .. to
  BY <1>1
<1>3. Op(d.adrp) = "adrp" /\ Op(d.add) = "add_imm" BY DEF IsDispatch
<1> HIDE DEF from, to
<1>4. \A k \in from .. to : d.adrp <= k => LastOf({"adrp"}, from, k) = d.adrp
  <2> SUFFICES ASSUME NEW k \in from .. to, d.adrp <= k PROVE LastOf({"adrp"}, from, k) = d.adrp
    OBVIOUS
  <2>1. d.adrp \in from .. k BY <1>1, <1>2
  <2>2. \A j \in from .. k : j \in d.cmp .. d.br BY <1>2
  <2>3. \A j \in from .. k : Op(j) \in {"adrp"} <=> j = d.adrp BY <2>2, <1>3, PiecesAre
  <2> QED BY <2>1, <2>3, LastOfOnly
<1>5. \A k \in from .. to : k < d.adrp => LastOf({"adrp"}, from, k) = 0
  <2> SUFFICES ASSUME NEW k \in from .. to, k < d.adrp PROVE LastOf({"adrp"}, from, k) = 0
    OBVIOUS
  <2>1. \A j \in from .. k : j \in d.cmp .. d.br /\ j # d.adrp BY <1>1, <1>2
  <2>2. \A j \in from .. k : Op(j) \notin {"adrp"} BY <2>1, PiecesAre
  <2> QED BY <2>2, LastOfNone
<1>6. \A k \in from .. to : Completes(k, from) <=> k = d.add
  <2>1. Completes(d.add, from)
    <3>1. LastOf({"adrp"}, from, d.add) = d.adrp BY <1>1, <1>2, <1>4
    <3>2. Code[d.add].rd = Code[d.adrp].rd /\ Code[d.add].rn = Code[d.adrp].rd
      BY DEF IsDispatch, Reg
    <3>3. d.adrp # 0 BY <1>1
    <3> QED BY <3>1, <3>2, <3>3, <1>3 DEF Completes
  <2>2. ASSUME NEW k \in from .. to, Completes(k, from), k # d.add PROVE FALSE
    <3>1. LastOf({"adrp"}, from, k) = d.adrp /\ Code[d.adrp].rd = Code[k].rd
      <4>1. LET p == LastOf({"adrp"}, from, k) IN p # 0 /\ Code[p].rd = Code[k].rd
        BY <2>2 DEF Completes
      <4>2. ~(k < d.adrp) BY <4>1, <1>5
      <4>3. d.adrp <= k BY <4>2, <1>1, <1>2
      <4> QED BY <4>1, <4>3, <1>4
    <3>2. Op(k) = "add_imm" BY <2>2 DEF Completes
    <3>3. k \notin Positions(d)
      <4>1. /\ Op(d.cmp) = "cmp" /\ Op(d.hi) = "b.hi"
            /\ Op(d.mid) \in {"adr", "add_lsl"}
            /\ Op(d.load) \in {"ldrb", "ldrsw"} /\ Op(d.sum) \in {"add_lsl", "add"}
            /\ Op(d.br) = "br"
        BY DEF IsDispatch, SelectsSlot, SelectsOffset
      <4> QED BY <4>1, <3>2, <1>3, <2>2 DEF Positions
    <3>4. Reg(k) \notin Uses(d) BY <3>2, <3>3, <1>2 DEF IsDispatch
    <3>5. Reg(d.adrp) \in Uses(d) BY DEF Uses
    <3> QED BY <3>1, <3>4, <3>5 DEF Reg
  <2> QED BY <2>1, <2>2
<1>7. TableVa(from, to) = Table(d)
  <2>1. {k \in from .. to : Completes(k, from)} = {d.add} BY <1>2, <1>6
  <2>2. Max({d.add}) = d.add
    <3>1. d.add \in Int BY <1>1
    <3> QED BY <3>1 DEF Max
  <2>3. LastOf({"adrp"}, from, d.add) = d.adrp BY <1>1, <1>2, <1>4
  <2> QED BY <2>1, <2>2, <2>3 DEF TableVa, Table
<1>8. Island(from, to) = IF IsSlot(d) THEN Code[d.mid].imm ELSE 0
  <2>1. CASE IsSlot(d)
    <3>1. \A j \in from .. to : Op(j) \in {"adr"} <=> j = d.mid
      BY <2>1, <1>2, PiecesAre DEF IsSlot
    <3>2. LastOf({"adr"}, from, to) = d.mid BY <3>1, <1>2, LastOfOnly
    <3>3. d.mid # 0 BY <1>1
    <3> QED BY <2>1, <3>2, <3>3 DEF Island
  <2>2. CASE ~IsSlot(d)
    <3>1. \A j \in from .. to : Op(j) \notin {"adr"} BY <2>2, <1>2, PiecesAre DEF IsSlot
    <3>2. LastOf({"adr"}, from, to) = 0 BY <3>1, LastOfNone
    <3> QED BY <2>2, <3>2 DEF Island
  <2> QED BY <2>1, <2>2
<1>9. EntrySize(from, to) = IF Op(d.load) = "ldrb" THEN 1 ELSE 4
  <2>1. Op(d.load) \in {"ldrb", "ldrsw"} BY DEF IsDispatch, SelectsSlot, SelectsOffset
  <2>2. \A j \in from .. to : Op(j) \in Loads <=> j = d.load
    BY <2>1, <1>2, PiecesAre DEF Loads
  <2>3. LastOf(Loads, from, to) = d.load BY <2>2, <1>2, LastOfOnly
  <2>4. d.load # 0 BY <1>1
  <2> QED BY <2>1, <2>3, <2>4 DEF EntrySize, Loads
<1> QED BY <1>7, <1>8, <1>9 DEF from, to

\* From the comparison of a dispatch the dispatch is recovered.
LEMMA RecoveredIs ==
  ASSUME TypeInv, NEW d \in image.dispatches, IsDispatch(d)
  PROVE  /\ Matches(d.cmp) /\ MatchedVa(d.cmp) = Table(d) /\ Top(d) \in Nat
         /\ Recovered(d.cmp).index = Index(d) /\ Recovered(d.cmp).default = Code[d.hi].imm
         /\ Recovered(d.cmp).br = d.br
         /\ Recovered(d.cmp).cases = CasesOf(d)
<1>1. Compare(d.cmp) = d.cmp /\ CondBranch(d.cmp) = d.hi /\ IndirectBranch(d.hi) = d.br
  BY BranchesFound
<1>2. /\ TableVa(d.hi + 1, d.br) = Table(d)
      /\ Island(d.hi + 1, d.br) = IF IsSlot(d) THEN Code[d.mid].imm ELSE 0
      /\ EntrySize(d.hi + 1, d.br) = IF Op(d.load) = "ldrb" THEN 1 ELSE 4
  BY TableFound
<1>3. d.cmp # 0 /\ d.hi # 0 /\ d.br # 0 BY Order
<1>4. Op(d.cmp) = "cmp" /\ Table(d) # 0 /\ Top(d) \in Nat BY DEF IsDispatch, Table, Top
<1>5. Matches(d.cmp) /\ MatchedVa(d.cmp) = Table(d)
  BY <1>1, <1>2, <1>3, <1>4 DEF Matches, MatchedVa
<1>6. Recovered(d.cmp) =
        [index |-> Index(d), max |-> Top(d), default |-> Code[d.hi].imm, br |-> d.br,
         cases |-> CasesOf(d)]
  BY <1>1, <1>2, Zenon DEF Recovered, Index, Top, CasesOf
<1> QED BY <1>4, <1>5, <1>6

\* What the scan takes for a dispatch of a regular function is one, and the
\* first comparison is the one it begins with.
LEMMA MatchIs ==
  ASSUME TypeInv, Regular, NEW i \in Nat \ {0}, Matches(i)
  PROVE  \E d \in image.dispatches :
           /\ IsDispatch(d) /\ Compare(i) = d.cmp
           /\ \A j \in DOMAIN Code : i <= j /\ j < d.cmp => Op(j) # "cmp"
           /\ Recovered(i) = Recovered(d.cmp) /\ MatchedVa(i) = MatchedVa(d.cmp)
<1> SUFFICES ASSUME NEW c, NEW h, NEW b,
                    c = Compare(i), h = CondBranch(c), b = IndirectBranch(h)
             PROVE  \E d \in image.dispatches :
                      /\ IsDispatch(d) /\ Compare(i) = d.cmp
                      /\ \A j \in DOMAIN Code : i <= j /\ j < d.cmp => Op(j) # "cmp"
                      /\ Recovered(i) = Recovered(d.cmp) /\ MatchedVa(i) = MatchedVa(d.cmp)
  OBVIOUS
<1>1. c # 0 /\ Op(c) = "cmp" /\ h # 0 /\ b # 0 BY DEF Matches
<1>2. /\ c \in Nat /\ c \in DOMAIN Code /\ i <= c
      /\ \A j \in DOMAIN Code : i <= j /\ j < c => Op(j) \notin {"cmp", "cmp_reg"}
  <2>1. c = FirstOf({"cmp", "cmp_reg"}, i, 12) BY DEF Compare
  <2>2. 12 \in Nat /\ c # 0 BY <1>1
  <2> QED BY <2>1, <2>2, FirstOfFound
<1>3. h \in Nat /\ h \in DOMAIN Code /\ c < h /\ h <= c + 4 /\ Op(h) \in {"b.hi", "b.ls"}
  <2>1. c + 1 \in Nat \ {0} BY <1>2
  <2>2. h = FirstOf({"b.hi", "b.ls"}, c + 1, 4) BY DEF CondBranch
  <2>3. /\ h \in Nat /\ h \in DOMAIN Code /\ c + 1 <= h /\ h <= c + 1 + 4 - 1
        /\ Op(h) \in {"b.hi", "b.ls"}
    <3>1. 4 \in Nat /\ h # 0 BY <1>1
    <3> QED BY <2>1, <2>2, <3>1, FirstOfFound
  <2> QED BY <2>3, <1>2
<1>4. b \in Nat /\ b \in DOMAIN Code /\ h < b /\ b <= h + 16 /\ Op(b) = "br"
  <2>1. h + 1 \in Nat \ {0} BY <1>3
  <2>2. b = FirstOf({"br"}, h + 1, 16) BY DEF IndirectBranch
  <2>3. /\ b \in Nat /\ b \in DOMAIN Code /\ h + 1 <= b /\ b <= h + 1 + 16 - 1
        /\ Op(b) \in {"br"}
    <3>1. 16 \in Nat /\ b # 0 BY <1>1
    <3> QED BY <2>1, <2>2, <3>1, FirstOfFound
  <2> QED BY <2>3, <1>3
<1>5. PICK d \in image.dispatches : h = d.hi BY <1>3, <1>4 DEF Regular
<1>6. IsDispatch(d) BY DEF Regular
<1>7. c = d.cmp BY <1>1, <1>2, <1>3, <1>5 DEF Regular
<1>8. Recovered(i) = Recovered(d.cmp) /\ MatchedVa(i) = MatchedVa(d.cmp)
  <2>1. Compare(i) = d.cmp /\ Compare(d.cmp) = d.cmp BY <1>6, <1>7, BranchesFound
  <2> QED BY <2>1 DEF Recovered, MatchedVa
<1>9. \A j \in DOMAIN Code : i <= j /\ j < d.cmp => Op(j) # "cmp" BY <1>2, <1>7
<1> QED BY <1>6, <1>7, <1>8, <1>9

\* Two dispatches of which one begins in the other are the same.
LEMMA Disjoint ==
  ASSUME TypeInv, Regular, NEW d \in image.dispatches, NEW e \in image.dispatches,
         d.cmp <= e.cmp, e.cmp <= d.br
  PROVE  e.cmp = d.cmp /\ e.br = d.br
<1>1. IsDispatch(d) /\ IsDispatch(e) BY DEF Regular
<1>2. d.cmp \in Nat /\ d.br \in Nat /\ e.cmp \in Nat BY <1>1, Order
<1>3. e.cmp \in d.cmp .. d.br BY <1>2
<1>4. Op(e.cmp) = "cmp" BY <1>1 DEF IsDispatch
<1>5. e.cmp = d.cmp BY <1>1, <1>3, <1>4, PiecesAre
<1>6. /\ CondBranch(d.cmp) = d.hi /\ IndirectBranch(d.hi) = d.br
      /\ CondBranch(e.cmp) = e.hi /\ IndirectBranch(e.hi) = e.br
  BY <1>1, BranchesFound
<1> QED BY <1>5, <1>6

-----------------------------------------------------------------------------
(* Where a recovered case leads *)

LEMMA BranchesAlign ==
  ASSUME TypeInv, NEW va \in Int, IsCode(va)
  PROVE  ResolveBranch(va) \in Int /\ 4 * (ResolveBranch(va) \div 4) = ResolveBranch(va)
<1>1. va % 4 = 0 /\ Code[va \div 4] \in Insn BY FileTypes DEF IsCode
<1>2. CASE ResolveBranch(va) = va
  <2>1. 4 * (va \div 4) = va BY <1>1, SMT
  <2> QED BY <1>2, <2>1
<1>3. CASE ResolveBranch(va) = va + BranchOffset(Code[va \div 4].imm)
  <2> DEFINE imm == Code[va \div 4].imm
             n == IF imm < 2^25 THEN imm ELSE imm - 2^26
  <2>1. imm \in Int BY <1>1 DEF Insn
  <2> HIDE DEF imm
  <2>2. n \in Int BY <2>1, SMT
  <2>3. BranchOffset(imm) = 4 * n BY DEF BranchOffset
  <2> HIDE DEF n
  <2>4. \A m \in Int : va = 4 * m => va + 4 * n = 4 * (m + n) BY <2>2, SMT
  <2>5. va \div 4 \in Int /\ va = 4 * (va \div 4) BY <1>1, SMT
  <2>6. \A m \in Int : (4 * m) \div 4 = m BY SMT
  <2>7. va + 4 * n \in Int BY <2>2
  <2> QED BY <1>3, <2>2, <2>3, <2>4, <2>5, <2>6, <2>7 DEF imm
<1> QED BY <1>2, <1>3 DEF ResolveBranch

\* A value whose entry is in the file has the case the processor would go to.
LEMMA CaseIs ==
  ASSUME TypeInv, NEW d \in image.dispatches, IsDispatch(d), InSection(Table(d)),
         NEW v \in 0 .. Top(d), InFile(Op(d.load), Entry(d, v))
  PROVE  LET cases == CasesOf(d)
         IN  /\ v \in DOMAIN cases
             /\ cases[v] = IF IsSlot(d) THEN ResolveBranch(Target(d, v)) ELSE Target(d, v)
<1> DEFINE size == IF Op(d.load) = "ldrb" THEN 1 ELSE 4
           island == IF IsSlot(d) THEN Code[d.mid].imm ELSE 0
           va == Table(d)
           len == (Top(d) + 1) * size
           read == ReadVa(va, len)
           known == IF island # 0 THEN CasesUpTo(Top(d))
                    ELSE {i \in CasesUpTo(Top(d)) : 4 * i + 4 <= Len(read)}
<1>1. Top(d) \in Nat /\ v \in Nat /\ v <= Top(d) BY RecoveredIs
<1>2. CasesOf(d) = [i \in known |-> CaseTarget(va, read, size, island, i)]
  BY DEF CasesOf, Cases
<1>3. va \in Int
  <2>1. d.adrp \in DOMAIN Code /\ d.add \in DOMAIN Code BY DEF IsDispatch, Positions
  <2>2. Code[d.adrp] \in Insn /\ Code[d.add] \in Insn BY <2>1, FileTypes
  <2> QED BY <2>2 DEF Insn, Table
<1>4. CASE Op(d.load) = "ldrb"
  <2>1. IsSlot(d) /\ island # 0 /\ size = 1
    BY <1>4, Order DEF SelectsSlot, SelectsOffset
  <2>2. len = Top(d) + 1 BY <1>1, <2>1
  <2>3. Byte(read, v + 1) = Byte(image.bytes, va - Data + (v + 1))
    <3>1. len \in Nat /\ v + 1 \in 1 .. len BY <1>1, <2>2
    <3>2. \A k \in 1 .. len : Byte(read, k) = Byte(image.bytes, va - Data + k)
      BY <3>1, <1>3, ReadBytes
    <3> HIDE DEF len, read, va
    <3> QED BY <3>1, <3>2
  <2>4. Load("ldrb", Entry(d, v)) = Byte(image.bytes, va + v - Data + 1)
    <3>1. Entry(d, v) = va + v BY <1>4 DEF Entry
    <3> HIDE DEF va
    <3>2. Load("ldrb", va + v) = Byte(image.bytes, va + v - Data + 1)
      BY <1>1, <1>3, DataAssumption DEF Load
    <3> QED BY <3>1, <3>2, Zenon
  <2>5. va - Data + (v + 1) = va + v - Data + 1 BY <1>1, <1>3, DataAssumption
  <2>6. Target(d, v) = island + 4 * Byte(read, v + 1)
    BY <1>4, <2>1, <2>3, <2>4, <2>5 DEF Target, Loaded
  <2>7. CaseTarget(va, read, size, island, v) = ResolveBranch(Target(d, v))
    BY <2>1, <2>6 DEF CaseTarget
  <2>8. v \in known BY <2>1, <1>1 DEF CasesUpTo
  <2> QED BY <1>2, <2>1, <2>7, <2>8
<1>5. CASE Op(d.load) # "ldrb"
  <2>1. Op(d.load) = "ldrsw" /\ size = 4 BY <1>5 DEF IsDispatch, SelectsSlot, SelectsOffset
  <2>2. len = 4 * Top(d) + 4 /\ len \in Nat /\ 4 * v + 4 <= len /\ 4 * v \in Nat BY <1>1, <2>1
  <2>3. va + 4 * v + 3 < Data + Len(image.bytes) /\ Entry(d, v) = va + 4 * v
    BY <2>1 DEF InFile, InSection, Entry
  <2>4. 4 * v + 4 <= Len(read) /\ read \in Seq(Octet)
    <3> DEFINE all == Len(image.bytes)
    <3>1. all \in Nat BY FileTypes
    <3>2. /\ Len(read) = IF va - Data + len <= all THEN len ELSE all - (va - Data)
          /\ read \in Seq(Octet)
      BY <1>3, <2>2, ReadBytes
    <3>3. va + 4 * v + 3 < Data + all BY <2>3
    <3> HIDE DEF all, read, len, va
    <3>4. 4 * v + 4 <= all - (va - Data) BY <3>1, <3>3, <1>1, <1>3, DataAssumption
    <3> QED BY <3>1, <3>2, <3>4, <2>2
  <2>5. /\ Word(read, 4 * v) = Word(image.bytes, va + 4 * v - Data)
        /\ SignedWord(read, 4 * v) = SignedWord(image.bytes, va + 4 * v - Data)
    BY <1>3, <2>2, ReadWords
  <2>6. Loaded(d, v) = SignedWord(image.bytes, va + 4 * v - Data)
    <3>1. Loaded(d, v) = Load("ldrsw", Entry(d, v)) BY <2>1 DEF Loaded
    <3>2. Entry(d, v) = va + 4 * v BY <2>3
    <3> HIDE DEF va
    <3>3. Load("ldrsw", va + 4 * v) = SignedWord(image.bytes, va + 4 * v - Data)
      BY <1>1, <1>3, DataAssumption DEF Load
    <3> QED BY <3>1, <3>2, <3>3, Zenon
  <2>7. CASE IsSlot(d)
    <3>1. SelectsSlot(d) BY <2>7, Order
    <3>2. island # 0 BY <2>7, <3>1 DEF SelectsSlot
    <3>3. Byte(image.bytes, va + 4 * v - Data + 4) < 128
      BY <2>1, <3>1, <1>1 DEF SelectsSlot, CasesUpTo, Table, Top
    <3>4. SignedWord(image.bytes, va + 4 * v - Data) = Word(image.bytes, va + 4 * v - Data)
      <4>1. va + 4 * v - Data \in Int BY <1>1, <1>3, DataAssumption
      <4> QED BY <4>1, <3>3, FileTypes, WordRange
    <3>5. WholeWord(read, 4 * v) = Loaded(d, v) BY <2>4, <2>5, <2>6, <3>4 DEF WholeWord
    <3>6. CaseTarget(va, read, size, island, v) = ResolveBranch(Target(d, v))
      BY <2>1, <2>7, <3>2, <3>5 DEF CaseTarget, Target
    <3>7. v \in known BY <3>2, <1>1 DEF CasesUpTo
    <3> QED BY <1>2, <2>7, <3>6, <3>7
  <2>8. CASE ~IsSlot(d)
    <3>1. island = 0 BY <2>8
    <3>2. CaseTarget(va, read, size, island, v) = Target(d, v)
      BY <2>5, <2>6, <2>8, <3>1 DEF CaseTarget, Target
    <3>3. v \in known BY <3>1, <2>4, <1>1 DEF CasesUpTo
    <3> QED BY <1>2, <2>8, <3>2, <3>3
  <2> QED BY <2>7, <2>8
<1> QED BY <1>4, <1>5

-----------------------------------------------------------------------------
(* The processor keeps what the pieces have put into the registers *)

\* What an instruction does, without the choice of Step.
LEMMA StepEffect ==
  ASSUME TypeInv, Step
  PROVE  /\ pc \in DOMAIN Code /\ pc' = pc + 1 /\ image' = image
         /\ Op(pc) \in Computes \cup CondBranches \cup {"cmp", "nop"}
         /\ Op(pc) \in Computes =>
              /\ compared' = compared
              /\ \A r \in Registers : regs'[r] = IF r = Reg(pc) THEN Value(Code[pc]) ELSE regs[r]
              /\ Op(pc) \in {"ldrb", "ldrsw"} =>
                   InFile(Op(pc), regs[Code[pc].rn] + Code[pc].imm * regs[Code[pc].rm])
         /\ Op(pc) \notin Computes => regs' = regs
         /\ Op(pc) = "cmp" => compared' = [reg |-> Code[pc].rn, value |-> regs[Code[pc].rn],
                                           imm |-> Code[pc].imm]
         /\ Op(pc) # "cmp" => compared' = compared
         /\ Op(pc) \in CondBranches => ~Condition(Op(pc))
<1>1. pc \in DOMAIN Code /\ pc' = pc + 1 /\ image' = image BY DEF Step, scanVars
<1>2. Code[pc] \in Insn BY <1>1, FileTypes
<1>3. \/ /\ Op(pc) \in Computes
         /\ Op(pc) \in {"ldrb", "ldrsw"} =>
              InFile(Op(pc), regs[Code[pc].rn] + Code[pc].imm * regs[Code[pc].rm])
         /\ regs' = [regs EXCEPT ![Reg(pc)] = Value(Code[pc])]
         /\ compared' = compared
      \/ /\ Op(pc) = "cmp"
         /\ compared' = [reg |-> Code[pc].rn, value |-> regs[Code[pc].rn], imm |-> Code[pc].imm]
         /\ regs' = regs
      \/ /\ Op(pc) = "nop" \/ (Op(pc) \in CondBranches /\ ~Condition(Op(pc)))
         /\ regs' = regs /\ compared' = compared
  BY DEF Step, Op, Reg
<1>4. CASE Op(pc) \in Computes
  <2>1. /\ regs' = [regs EXCEPT ![Reg(pc)] = Value(Code[pc])] /\ compared' = compared
        /\ Op(pc) \in {"ldrb", "ldrsw"} =>
             InFile(Op(pc), regs[Code[pc].rn] + Code[pc].imm * regs[Code[pc].rm])
    BY <1>3, <1>4 DEF Computes, CondBranches
  <2>2. \A r \in Registers : regs'[r] = IF r = Reg(pc) THEN Value(Code[pc]) ELSE regs[r]
    BY <2>1, <1>2 DEF TypeInv, Insn, Reg
  <2>3. Op(pc) # "cmp" /\ Op(pc) \notin CondBranches BY <1>4 DEF Computes, CondBranches
  <2> QED BY <1>1, <1>4, <2>1, <2>2, <2>3
<1>5. CASE Op(pc) \notin Computes
  <2>1. CASE Op(pc) = "cmp" BY <1>1, <1>3, <1>5, <2>1 DEF CondBranches
  <2>2. CASE Op(pc) # "cmp" BY <1>1, <1>3, <1>5, <2>2 DEF CondBranches
  <2> QED BY <2>1, <2>2
<1> QED BY <1>4, <1>5

LEMMA ValueType ==
  ASSUME TypeInv, NEW c \in Insn, c.op \in Computes
  PROVE  Value(c) \in Int
<1>1. c.imm \in Int /\ regs[c.rn] \in Int /\ regs[c.rm] \in Int BY DEF TypeInv, Insn
<1>2. CASE c.op \in {"adrp", "adr"}
  <2>1. Value(c) = c.imm BY <1>2 DEF Value
  <2> QED BY <1>1, <2>1
<1>3. CASE c.op = "add_imm"
  <2>1. Value(c) = regs[c.rn] + c.imm BY <1>3 DEF Value
  <2> QED BY <1>1, <2>1
<1>4. CASE c.op = "add_lsl"
  <2>1. Value(c) = regs[c.rn] + 4 * regs[c.rm] BY <1>4 DEF Value
  <2> QED BY <1>1, <2>1
<1>5. CASE c.op = "add"
  <2>1. Value(c) = regs[c.rn] + regs[c.rm] BY <1>5 DEF Value
  <2> QED BY <1>1, <2>1
<1>6. CASE c.op \in {"ldrb", "ldrsw"}
  <2>1. Value(c) = Load(c.op, regs[c.rn] + c.imm * regs[c.rm]) BY <1>6 DEF Value
  <2>2. regs[c.rn] + c.imm * regs[c.rm] \in Int BY <1>1
  <2> QED BY <1>6, <2>1, <2>2, LoadType
<1> QED BY <1>2, <1>3, <1>4, <1>5, <1>6 DEF Computes

\* The registers of a dispatch do not get in each other's way.
LEMMA RegistersAre ==
  ASSUME TypeInv, NEW d \in image.dispatches, IsDispatch(d)
  PROVE  /\ Index(d) \in Registers /\ Reg(d.adrp) \in Registers /\ Reg(d.mid) \in Registers
         /\ Reg(d.load) \in Registers /\ Reg(d.sum) \in Registers
         /\ Reg(d.adrp) # Index(d) /\ Reg(d.add) = Reg(d.adrp)
         /\ IsSlot(d) => Reg(d.mid) \notin {Index(d), Reg(d.adrp), Reg(d.load)}
         /\ ~IsSlot(d) => Reg(d.mid) = Reg(d.adrp) /\ Reg(d.load) # Reg(d.adrp)
         /\ Code[d.cmp].imm \in Int /\ Code[d.adrp].imm \in Int /\ Code[d.add].imm \in Int
         /\ Code[d.mid].imm \in Int /\ Code[d.hi].imm \in Int
<1>1. \A k \in Positions(d) : Code[k] \in Insn BY FileTypes DEF IsDispatch
<1>2. /\ Code[d.cmp] \in Insn /\ Code[d.adrp] \in Insn /\ Code[d.add] \in Insn
      /\ Code[d.mid] \in Insn /\ Code[d.load] \in Insn /\ Code[d.sum] \in Insn
      /\ Code[d.hi] \in Insn
  BY <1>1 DEF Positions
<1>3. /\ Index(d) \in Registers /\ Reg(d.adrp) \in Registers /\ Reg(d.mid) \in Registers
      /\ Reg(d.load) \in Registers /\ Reg(d.sum) \in Registers
      /\ Code[d.cmp].imm \in Int /\ Code[d.adrp].imm \in Int /\ Code[d.add].imm \in Int
      /\ Code[d.mid].imm \in Int /\ Code[d.hi].imm \in Int
  BY <1>2 DEF Insn, Index, Reg
<1>4. Reg(d.adrp) # Index(d) /\ Reg(d.add) = Reg(d.adrp) BY DEF IsDispatch, Index
<1>5. IsSlot(d) => Reg(d.mid) \notin {Index(d), Reg(d.adrp), Reg(d.load)}
  BY Order DEF SelectsSlot, Index
<1>6. ~IsSlot(d) => Reg(d.mid) = Reg(d.adrp) /\ Reg(d.load) # Reg(d.adrp)
  BY Order DEF SelectsOffset
<1> QED BY <1>3, <1>4, <1>5, <1>6

\* A step inside of a dispatch: one case for each of its pieces, and one for
\* what is in between.
LEMMA PassedStep ==
  ASSUME TypeInv, NEW d \in image.dispatches, IsDispatch(d), Step, Inside(d, pc + 1),
         Inside(d, pc) => Passed(d, pc, regs, compared)
  PROVE  Passed(d, pc + 1, regs', compared')
<1> DEFINE p == pc
           at == Reg(d.adrp)
<1>1. /\ d.cmp \in Nat \ {0} /\ d.hi \in Nat /\ d.adrp \in Nat /\ d.add \in Nat
      /\ d.mid \in Nat /\ d.load \in Nat /\ d.sum \in Nat /\ d.br \in Nat /\ p \in Int
      /\ d.cmp < d.hi /\ d.hi < d.adrp /\ d.adrp < d.add /\ d.add < d.load
      /\ d.load < d.sum /\ d.sum < d.br /\ d.hi < d.mid /\ d.mid < d.sum
      /\ ~IsSlot(d) => d.add < d.mid /\ d.mid < d.load
  BY Order DEF TypeInv
<1>2. d.cmp <= p /\ p < d.br BY <1>1 DEF Inside
<1>3. p # d.cmp => Passed(d, p, regs, compared) BY <1>1, <1>2 DEF Inside
<1>4. /\ Index(d) \in Registers /\ at \in Registers /\ Reg(d.mid) \in Registers
      /\ Reg(d.load) \in Registers /\ Reg(d.sum) \in Registers
      /\ at # Index(d) /\ Reg(d.add) = at
      /\ IsSlot(d) => Reg(d.mid) \notin {Index(d), at, Reg(d.load)}
      /\ ~IsSlot(d) => Reg(d.mid) = at /\ Reg(d.load) # at
  BY RegistersAre
<1>5. /\ Op(p) \in Computes =>
           /\ compared' = compared
           /\ \A r \in Registers : regs'[r] = IF r = Reg(p) THEN Value(Code[p]) ELSE regs[r]
      /\ Op(p) \notin Computes => regs' = regs
      /\ Op(p) # "cmp" => compared' = compared
  BY StepEffect
<1> HIDE DEF p, at
<1>6. CASE p = d.cmp
  <2>1. Op(p) = "cmp" BY <1>6 DEF IsDispatch
  <2>2. /\ compared' = [reg |-> Index(d), value |-> regs[Index(d)], imm |-> Top(d)]
        /\ regs' = regs
    BY <2>1, <1>6, StepEffect DEF p, Computes, Index, Top
  <2>3. regs[Index(d)] \in Int BY <1>4 DEF TypeInv
  <2> QED BY <1>1, <1>6, <2>2, <2>3 DEF Passed, p
<1>7. CASE p = d.hi
  <2>1. Op(p) = "b.hi" BY <1>7 DEF IsDispatch
  <2>2. ~Condition("b.hi") /\ regs' = regs /\ compared' = compared
    BY <2>1, StepEffect DEF p, CondBranches, Computes
  <2>3. Passed(d, p, regs, compared) BY <1>1, <1>3, <1>7
  <2>4. compared.value \in 0 .. Top(d) BY <2>2, <2>3 DEF Condition, Passed
  <2> QED BY <1>1, <1>7, <2>2, <2>3, <2>4 DEF Passed, p
<1>8. CASE p = d.adrp
  <2>1. Op(p) = "adrp" BY <1>8 DEF IsDispatch
  <2>2. Value(Code[p]) = Code[d.adrp].imm BY <2>1, <1>8 DEF Value, Op
  <2>3. /\ compared' = compared /\ regs'[at] = Code[d.adrp].imm
        /\ \A r \in Registers : r # at => regs'[r] = regs[r]
    BY <2>1, <2>2, <1>4, <1>5, <1>8 DEF Computes, at
  <2>4. Passed(d, p, regs, compared) BY <1>1, <1>3, <1>8
  <2> QED BY <1>1, <1>4, <1>8, <2>3, <2>4 DEF Passed, p, at
<1>9. CASE p = d.add
  <2>1. Op(p) = "add_imm" /\ Code[p].rn = at BY <1>9 DEF IsDispatch, at
  <2>2. Passed(d, p, regs, compared) BY <1>1, <1>3, <1>9
  <2>3. regs[at] = Code[d.adrp].imm BY <1>1, <1>9, <2>2 DEF Passed, at
  <2>4. Value(Code[p]) = Table(d) BY <2>1, <2>3, <1>9 DEF Value, Op, Table
  <2>5. /\ compared' = compared /\ regs'[at] = Table(d)
        /\ \A r \in Registers : r # at => regs'[r] = regs[r]
    BY <2>1, <2>4, <1>4, <1>5, <1>9 DEF Computes
  <2> QED BY <1>1, <1>4, <1>9, <2>2, <2>5 DEF Passed, p, at
<1>10. CASE p = d.mid
  <2>1. Passed(d, p, regs, compared) BY <1>1, <1>3, <1>10
  <2>2. CASE IsSlot(d)
    <3>1. Op(p) = "adr" /\ Value(Code[p]) = Code[d.mid].imm
      BY <1>10, <2>2 DEF IsSlot, Value, Op
    <3>2. /\ compared' = compared /\ regs'[Reg(d.mid)] = Code[d.mid].imm
          /\ \A r \in Registers : r # Reg(d.mid) => regs'[r] = regs[r]
      BY <3>1, <1>4, <1>5, <1>10 DEF Computes
    <3> QED BY <1>1, <1>4, <1>10, <2>1, <2>2, <3>2 DEF Passed, p, at
  <2>3. CASE ~IsSlot(d)
    <3>1. Op(p) = "add_lsl" /\ Code[p].rn = at /\ Code[p].rm = Index(d)
      BY <1>10, <2>3, Order DEF SelectsOffset, at, Index
    <3>2. regs[at] = Table(d) /\ regs[Index(d)] = compared.value
      BY <1>1, <1>10, <2>1, <2>3 DEF Passed, at
    <3>3. Value(Code[p]) = Table(d) + 4 * compared.value
      BY <3>1, <3>2 DEF Value, Op
    <3>4. /\ compared' = compared /\ regs'[at] = Table(d) + 4 * compared.value
          /\ \A r \in Registers : r # at => regs'[r] = regs[r]
      BY <3>1, <3>3, <1>4, <1>5, <1>10, <2>3 DEF Computes
    <3> QED BY <1>1, <1>4, <1>10, <2>1, <2>3, <3>4 DEF Passed, p, at
  <2> QED BY <2>2, <2>3
<1>11. CASE p = d.load
  <2>1. Passed(d, p, regs, compared) BY <1>1, <1>3, <1>11
  <2>2. /\ Op(p) \in {"ldrb", "ldrsw"} /\ Code[p].rn = at
        /\ InFile(Op(p), regs[Code[p].rn] + Code[p].imm * regs[Code[p].rm])
    <3>1. Op(p) \in {"ldrb", "ldrsw"} /\ Code[p].rn = at
      BY <1>11 DEF IsDispatch, SelectsSlot, SelectsOffset, at
    <3> QED BY <3>1, StepEffect DEF p, Computes
  <2>3. regs[Code[p].rn] + Code[p].imm * regs[Code[p].rm] = Entry(d, compared.value)
    <3>1. compared.value \in Int /\ regs[Index(d)] = compared.value
      BY <1>1, <1>11, <2>1 DEF Passed
    <3>2. Table(d) \in Int BY RegistersAre DEF Table
    <3>3. CASE IsSlot(d)
      <4>1. SelectsSlot(d) BY <3>3, Order
      <4>2. regs[at] = Table(d) BY <1>1, <1>11, <2>1, <3>3 DEF Passed, at
      <4>3. Code[p].rm = Index(d) BY <1>11, <4>1 DEF SelectsSlot, Index
      <4>4. \/ Op(d.load) = "ldrb" /\ Code[p].imm = 1
            \/ Op(d.load) = "ldrsw" /\ Code[p].imm = 4
        BY <1>11, <4>1 DEF SelectsSlot
      <4> QED BY <2>2, <3>1, <3>2, <4>2, <4>3, <4>4 DEF Entry
    <3>4. CASE ~IsSlot(d)
      <4>1. SelectsOffset(d) BY <3>4, Order
      <4>2. regs[at] = Table(d) + 4 * compared.value
        BY <1>1, <1>11, <2>1, <3>4 DEF Passed, at
      <4>3. Op(d.load) = "ldrsw" /\ Code[p].imm = 0 BY <1>11, <4>1 DEF SelectsOffset
      <4>4. regs[Code[p].rm] \in Int
        <5>1. Code[p] \in Insn BY FileTypes, StepEffect DEF p
        <5> QED BY <5>1 DEF Insn, TypeInv
      <4> QED BY <2>2, <3>1, <3>2, <4>2, <4>3, <4>4 DEF Entry
    <3> QED BY <3>3, <3>4
  <2>4. Value(Code[p]) = Loaded(d, compared.value)
    BY <2>2, <2>3, <1>11 DEF Value, Op, Loaded
  <2>5. InFile(Op(d.load), Entry(d, compared.value)) BY <2>2, <2>3, <1>11
  <2>6. /\ compared' = compared /\ regs'[Reg(d.load)] = Loaded(d, compared.value)
        /\ \A r \in Registers : r # Reg(d.load) => regs'[r] = regs[r]
    BY <2>2, <2>4, <1>4, <1>5, <1>11 DEF Computes
  <2> QED BY <1>1, <1>4, <1>11, <2>1, <2>5, <2>6 DEF Passed, p, at
<1>12. CASE p = d.sum
  <2>1. Passed(d, p, regs, compared) BY <1>1, <1>3, <1>12
  <2>2. Op(p) \in {"add_lsl", "add"} BY <1>12 DEF IsDispatch, SelectsSlot, SelectsOffset
  <2>3. regs[Reg(d.load)] = Loaded(d, compared.value) BY <1>1, <1>12, <2>1 DEF Passed
  <2>4. Value(Code[p]) = Target(d, compared.value)
    <3>1. CASE IsSlot(d)
      <4>1. Op(p) = "add_lsl" /\ Code[p].rn = Reg(d.mid) /\ Code[p].rm = Reg(d.load)
        BY <1>12, <3>1, Order DEF SelectsSlot
      <4>2. regs[Reg(d.mid)] = Code[d.mid].imm BY <1>1, <1>12, <2>1, <3>1 DEF Passed
      <4> QED BY <2>3, <3>1, <4>1, <4>2 DEF Value, Op, Target
    <3>2. CASE ~IsSlot(d)
      <4>1. Op(p) = "add" /\ Code[p].rn = at /\ Code[p].rm = Reg(d.load)
        BY <1>12, <3>2, Order DEF SelectsOffset, at
      <4>2. regs[at] = Table(d) + 4 * compared.value
        BY <1>1, <1>12, <2>1, <3>2 DEF Passed, at
      <4> QED BY <2>3, <3>2, <4>1, <4>2 DEF Value, Op, Target
    <3> QED BY <3>1, <3>2
  <2>5. compared' = compared /\ regs'[Reg(d.sum)] = Target(d, compared.value)
    BY <2>2, <2>4, <1>4, <1>5, <1>12 DEF Computes
  <2> QED BY <1>1, <1>12, <2>1, <2>5 DEF Passed, p
<1>13. CASE p \notin Positions(d)
  <2>1. p \in d.cmp .. d.br BY <1>1, <1>2
  <2>2. \/ Op(p) \in {"nop", "b.eq"}
        \/ Op(p) \in {"add_imm", "add_lsl", "add"} /\ Reg(p) \notin Uses(d)
    BY <2>1, <1>13 DEF IsDispatch
  <2>3. compared' = compared /\ \A r \in Uses(d) : r \in Registers /\ regs'[r] = regs[r]
    <3>1. \A r \in Uses(d) : r \in Registers BY <1>4 DEF Uses, Index, at
    <3>2. CASE Op(p) \in {"nop", "b.eq"} BY <3>1, <3>2, <1>5 DEF Computes
    <3>3. CASE Op(p) \in {"add_imm", "add_lsl", "add"} /\ Reg(p) \notin Uses(d)
      BY <3>1, <3>3, <1>5 DEF Computes
    <3> QED BY <2>2, <3>2, <3>3
  <2>4. {Index(d), at, Reg(d.mid), Reg(d.load), Reg(d.sum)} \subseteq Uses(d)
    BY DEF Uses, Index, at
  <2>5. /\ p # d.cmp /\ p # d.hi /\ p # d.adrp /\ p # d.add /\ p # d.mid /\ p # d.load
        /\ p # d.sum
    BY <1>13 DEF Positions
  <2>6. Passed(d, p, regs, compared) BY <1>3, <2>5
  <2> QED BY <1>1, <2>3, <2>4, <2>5, <2>6 DEF Passed, p, at
<1>14. p # d.br BY <1>1, <1>2
<1>15. p \in Positions(d) => \/ p = d.cmp \/ p = d.hi \/ p = d.adrp \/ p = d.add
                             \/ p = d.mid \/ p = d.load \/ p = d.sum
  BY <1>14 DEF Positions
<1> QED BY <1>6, <1>7, <1>8, <1>9, <1>10, <1>11, <1>12, <1>13, <1>15

-----------------------------------------------------------------------------
(* The invariants *)

\* What only speaks of the file stays as it is.
LEMMA SameFile ==
  ASSUME image' = image
  PROVE  /\ Regular' <=> Regular
         /\ \A d : Inside(d, pc)' <=> Inside(d, pc')
         /\ \A d : Passed(d, pc, regs, compared)' <=> Passed(d, pc', regs', compared')
         /\ \A d : Landed(d, via, pc, compared)' <=> Landed(d, via', pc', compared')
         /\ \A d, t : IsTable(d, t)' <=> IsTable(d, t)
         /\ \A d : Empty(d)' <=> Empty(d)
<1>1. Regular' <=> Regular
  BY DEF Regular, IsDispatch, SelectsSlot, SelectsOffset, Uses, Reg, Positions, Op, Code
<1>2. \A d : Inside(d, pc)' <=> Inside(d, pc') BY DEF Inside
<1>3. \A d : Passed(d, pc, regs, compared)' <=> Passed(d, pc', regs', compared')
  BY SMT DEF Passed, Index, Top, Table, Reg, IsSlot, Entry, Loaded, Target, Load, InFile, InSection,
             SignedWord, Low, Byte, Op, Code
<1>4. \A d : Landed(d, via, pc, compared)' <=> Landed(d, via', pc', compared')
  BY SMT DEF Landed, Index, Top, Table, Reg, IsSlot, Entry, Loaded, Target, Load, InFile, InSection,
             SignedWord, Low, Byte, Op, Code, IsCode, ResolveBranch
<1>5. \A d : CasesOf(d)' = CasesOf(d)
  BY SMT DEF CasesOf, Cases, CaseTarget, ReadVa, Table, Top, IsSlot, WholeWord, Word, SignedWord, Low,
             Byte, ResolveBranch, IsCode, Op, Code
<1>6. /\ \A d, t : IsTable(d, t)' <=> IsTable(d, t)
      /\ \A d : Empty(d)' <=> Empty(d)
  BY <1>5 DEF IsTable, Empty, InSection, Table, Index, Code
<1> QED BY <1>1, <1>2, <1>3, <1>4, <1>6

Inv == TypeInv /\ RunInv /\ LeftInv /\ ScanInv

LEMMA InitInv == Init => Inv
<1> SUFFICES ASSUME Init PROVE Inv OBVIOUS
<1>1. TypeInv
  <2>1. image \in Images /\ pc \in image.entries BY DEF Init
  <2>2. pc \in Nat BY <2>1, ImagesAssumption
  <2>3. PICK v \in Indices : regs = [r \in Registers |-> v] BY DEF Init
  <2>4. v \in Int BY IndicesAssumption
  <2> QED BY <2>1, <2>2, <2>3, <2>4 DEF TypeInv
<1>2. RunInv
  <2> SUFFICES ASSUME Regular, NEW d \in image.dispatches, Inside(d, pc) PROVE FALSE
    BY DEF RunInv
  <2>1. pc \in image.entries BY DEF Init
  <2>2. pc <= d.cmp \/ pc > d.br BY <2>1 DEF Regular
  <2>3. IsDispatch(d) BY DEF Regular
  <2>4. d.cmp \in Nat /\ d.br \in Nat BY <1>1, <2>3, Order
  <2> QED BY <1>1, <2>2, <2>4 DEF Inside, TypeInv
<1>3. LeftInv BY DEF Init, LeftInv
<1>4. ScanInv
  <2>1. start = 1 /\ phase = "scan" /\ tables = {} BY DEF Init
  <2>2. ASSUME Regular, NEW d \in image.dispatches, d.cmp < start PROVE FALSE
    <3>1. IsDispatch(d) BY <2>2 DEF Regular
    <3>2. d.cmp \in Nat \ {0} BY <1>1, <3>1, Order
    <3> QED BY <2>1, <2>2, <3>2
  <2> QED BY <2>1, <2>2 DEF ScanInv
<1> QED BY <1>1, <1>2, <1>3, <1>4 DEF Inv

\* The scan changes neither the file nor the processor.
LEMMA ScanKeeps ==
  ASSUME Inv, phase = "scan", image' = image, UNCHANGED runVars, phase' \in {"scan", "run"}
  PROVE  TypeInv' /\ RunInv' /\ LeftInv'
<1>1. pc' = pc /\ regs' = regs /\ compared' = compared BY DEF runVars
<1>2. TypeInv' BY <1>1 DEF Inv, TypeInv
<1>3. RunInv' BY <1>1, SameFile DEF Inv, RunInv
<1>4. LeftInv' BY DEF LeftInv
<1> QED BY <1>2, <1>3, <1>4

\* A dispatch the scan finds from where it is has no other between.
LEMMA RecoverKeeps == Inv /\ Recover => Inv'
<1> SUFFICES ASSUME Inv, Recover PROVE Inv' OBVIOUS
<1>1. /\ phase = "scan" /\ phase' = "scan" /\ image' = image /\ UNCHANGED runVars
      /\ Matches(start) /\ InSection(MatchedVa(start))
      /\ tables' = tables \cup {Recovered(start)} /\ start' = Recovered(start).br + 1
  BY DEF Recover
<1>2. TypeInv' /\ RunInv' /\ LeftInv' BY <1>1, ScanKeeps
<1>3. TypeInv /\ ScanInv /\ start \in Nat \ {0} BY DEF Inv, ScanInv
<1>4. start' \in Nat \ {0}
  <2> DEFINE c == Compare(start)
             h == CondBranch(c)
             b == IndirectBranch(h)
  <2>1. b # 0 /\ h # 0 /\ c # 0 BY <1>1 DEF Matches
  <2>2. c = FirstOf({"cmp", "cmp_reg"}, start, 12) /\ h = FirstOf({"b.hi", "b.ls"}, c + 1, 4)
        /\ b = FirstOf({"br"}, h + 1, 16)
    BY DEF Compare, CondBranch, IndirectBranch
  <2>3. Recovered(start).br = b BY DEF Recovered
  <2> HIDE DEF c, h, b
  <2>4. c \in Nat BY <1>3, <2>1, <2>2, FirstOfFound
  <2>5. h \in Nat BY <1>3, <2>1, <2>2, <2>4, FirstOfFound
  <2>6. b \in Nat BY <1>3, <2>1, <2>2, <2>5, FirstOfFound
  <2> QED BY <1>1, <2>3, <2>6
<1>5. ASSUME Regular
      PROVE  /\ \A t \in tables' : \E d \in image.dispatches : IsTable(d, t)
             /\ \A d \in image.dispatches :
                  d.cmp < start' => Empty(d) \/ \E t \in tables' : t.br = d.br
  <2>1. PICK d \in image.dispatches :
          /\ IsDispatch(d) /\ Compare(start) = d.cmp
          /\ \A j \in DOMAIN Code : start <= j /\ j < d.cmp => Op(j) # "cmp"
          /\ Recovered(start) = Recovered(d.cmp) /\ MatchedVa(start) = MatchedVa(d.cmp)
    BY <1>1, <1>3, <1>5, MatchIs
  <2>2. IsTable(d, Recovered(start)) /\ Recovered(start).br = d.br
    BY <1>1, <1>3, <2>1, RecoveredIs DEF IsTable
  <2>3. \A t \in tables' : \E e \in image.dispatches : IsTable(e, t)
    BY <1>1, <1>3, <1>5, <2>2 DEF ScanInv
  <2>4. ASSUME NEW e \in image.dispatches, e.cmp < start'
        PROVE  Empty(e) \/ \E t \in tables' : t.br = e.br
    <3>1. IsDispatch(e) BY <1>5 DEF Regular
    <3>2. /\ e.cmp \in Nat /\ d.cmp \in Nat /\ d.br \in Nat
          /\ e.cmp \in DOMAIN Code /\ Op(e.cmp) = "cmp"
      BY <1>3, <2>1, <3>1, Order DEF Positions, IsDispatch
    <3>3. CASE e.cmp < start BY <1>1, <1>3, <1>5, <3>3 DEF ScanInv
    <3>4. CASE ~(e.cmp < start)
      <4>1. start <= e.cmp /\ e.cmp <= d.br BY <1>1, <1>3, <2>2, <2>4, <3>2, <3>4
      <4>2. d.cmp <= e.cmp BY <2>1, <3>2, <4>1
      <4>3. e.br = d.br BY <1>3, <1>5, <4>1, <4>2, Disjoint
      <4> QED BY <1>1, <2>2, <4>3
    <3> QED BY <3>3, <3>4
  <2> QED BY <2>3, <2>4
<1>6. ScanInv' BY <1>1, <1>4, <1>5, SameFile DEF ScanInv
<1> QED BY <1>2, <1>6 DEF Inv

LEMMA AdvanceKeeps == Inv /\ Advance => Inv'
<1> SUFFICES ASSUME Inv, Advance PROVE Inv' OBVIOUS
<1>1. /\ phase = "scan" /\ phase' = "scan" /\ image' = image /\ UNCHANGED runVars
      /\ tables' = tables /\ start' = start + 1
      /\ \/ ~Matches(start)
         \/ InSection(MatchedVa(start)) /\ DOMAIN Recovered(start).cases = {}
  BY DEF Advance
<1>2. TypeInv' /\ RunInv' /\ LeftInv' BY <1>1, ScanKeeps
<1>3. TypeInv /\ ScanInv /\ start \in Nat \ {0} BY DEF Inv, ScanInv
<1>4. ASSUME Regular, NEW d \in image.dispatches, d.cmp < start'
      PROVE  Empty(d) \/ \E t \in tables : t.br = d.br
  <2>1. IsDispatch(d) BY <1>4 DEF Regular
  <2>2. d.cmp \in Nat BY <1>3, <2>1, Order
  <2>3. CASE d.cmp < start BY <1>1, <1>3, <1>4, <2>3 DEF ScanInv
  <2>4. CASE d.cmp = start
    <3>1. /\ Matches(d.cmp) /\ MatchedVa(d.cmp) = Table(d)
          /\ Recovered(d.cmp).cases = CasesOf(d)
      BY <1>3, <2>1, RecoveredIs
    <3> QED BY <1>1, <2>4, <3>1 DEF Empty
  <2> QED BY <1>1, <1>3, <1>4, <2>2, <2>3, <2>4
<1>5. start' \in Nat \ {0} BY <1>1, <1>3
<1>6. ScanInv' BY <1>1, <1>3, <1>4, <1>5, SameFile DEF ScanInv
<1> QED BY <1>2, <1>6 DEF Inv

\* After the scan has failed nothing is said of any table.
LEMMA FailKeeps == Inv /\ Fail => Inv'
<1> SUFFICES ASSUME Inv, Fail PROVE Inv' OBVIOUS
<1>1. /\ phase = "scan" /\ phase' = "run" /\ image' = image /\ UNCHANGED runVars
      /\ tables' = {} /\ start' = start /\ start <= Len(Code)
  BY DEF Fail
<1>2. TypeInv' /\ RunInv' /\ LeftInv' BY <1>1, ScanKeeps
<1>3. TypeInv /\ start \in Nat \ {0} BY DEF Inv, ScanInv
<1>4. Len(Code)' = Len(Code) /\ ~(start > Len(Code))
  <2>1. Len(Code)' = Len(Code) BY <1>1 DEF Code
  <2>2. Len(Code) \in Nat BY <1>3, FileTypes
  <2> QED BY <1>1, <1>3, <2>1, <2>2
<1>5. ScanInv' BY <1>1, <1>3, <1>4, SameFile DEF ScanInv
<1> QED BY <1>2, <1>5 DEF Inv

LEMMA ScanDoneKeeps == Inv /\ ScanDone => Inv'
<1> SUFFICES ASSUME Inv, ScanDone PROVE Inv' OBVIOUS
<1>1. /\ phase = "scan" /\ phase' = "run" /\ image' = image /\ UNCHANGED runVars
      /\ tables' = tables /\ start' = start
  BY DEF ScanDone, scanVars
<1>2. TypeInv' /\ RunInv' /\ LeftInv' BY <1>1, ScanKeeps
<1>3. ScanInv' BY <1>1, SameFile DEF Inv, ScanInv
<1> QED BY <1>2, <1>3 DEF Inv

LEMMA StepKeeps == Inv /\ Step => Inv'
<1> SUFFICES ASSUME Inv, Step PROVE Inv' OBVIOUS
<1>1. /\ phase = "run" /\ phase' = "run" /\ image' = image
      /\ tables' = tables /\ start' = start /\ pc \in DOMAIN Code
  BY DEF Step, scanVars
<1>2. TypeInv BY DEF Inv
<1>3. TypeInv'
  <2>1. Code[pc] \in Insn BY <1>1, <1>2, FileTypes
  <2>2. pc' \in Int BY <1>2, StepEffect DEF TypeInv
  <2>3. regs' = regs \/ regs' = [regs EXCEPT ![Code[pc].rd] = Value(Code[pc])] BY DEF Step
  <2>4. regs' \in [Registers -> Int]
    <3>1. CASE Op(pc) \notin Computes BY <1>2, <3>1, StepEffect DEF TypeInv
    <3>2. CASE Op(pc) \in Computes
      <4>1. Value(Code[pc]) \in Int BY <1>2, <2>1, <3>2, ValueType DEF Op
      <4> QED BY <1>2, <2>3, <4>1 DEF TypeInv
    <3> QED BY <3>1, <3>2
  <2> QED BY <1>1, <1>2, <2>2, <2>4 DEF TypeInv
<1>4. RunInv'
  <2> SUFFICES ASSUME Regular, NEW d \in image.dispatches, Inside(d, pc')
               PROVE  Passed(d, pc', regs', compared')
    BY <1>1, SameFile DEF RunInv
  <2>1. IsDispatch(d) BY DEF Regular
  <2>2. pc' = pc + 1 BY <1>2, StepEffect
  <2>3. Inside(d, pc) => Passed(d, pc, regs, compared) BY <1>1 DEF Inv, RunInv
  <2> QED BY <1>2, <2>1, <2>2, <2>3, PassedStep
<1>5. LeftInv' BY <1>1 DEF LeftInv
<1>6. ScanInv' BY <1>1, SameFile DEF Inv, ScanInv, Code
<1> QED BY <1>3, <1>4, <1>5, <1>6 DEF Inv

LEMMA LeaveKeeps == Inv /\ Leave => Inv'
<1> SUFFICES ASSUME Inv, Leave PROVE Inv' OBVIOUS
<1>1. /\ phase = "run" /\ phase' = "left" /\ image' = image /\ pc \in DOMAIN Code
      /\ tables' = tables /\ start' = start /\ regs' = regs /\ compared' = compared /\ via' = pc
  BY DEF Leave, scanVars
<1>2. TypeInv BY DEF Inv
<1>3. Code[pc] \in Insn BY <1>1, <1>2, FileTypes
<1>4. \/ /\ Op(pc) = "br" /\ IsCode(regs[Code[pc].rn])
         /\ pc' = ResolveBranch(regs[Code[pc].rn]) \div 4
      \/ Op(pc) \in CondBranches /\ Condition(Op(pc)) /\ pc' = Code[pc].imm \div 4
  BY DEF Leave, Op
<1>5. regs[Code[pc].rn] \in Int /\ Code[pc].imm \in Int BY <1>2, <1>3 DEF TypeInv, Insn
<1>6. TypeInv'
  <2>1. CASE Op(pc) = "br" /\ IsCode(regs[Code[pc].rn])
             /\ pc' = ResolveBranch(regs[Code[pc].rn]) \div 4
    <3>1. ResolveBranch(regs[Code[pc].rn]) \in Int BY <1>2, <1>5, BranchesAlign, <2>1
    <3> QED BY <1>1, <1>2, <2>1, <3>1 DEF TypeInv
  <2>2. CASE pc' = Code[pc].imm \div 4
    <3>1. pc' \in Int BY <1>5, <2>2
    <3> QED BY <1>1, <1>2, <3>1 DEF TypeInv
  <2> QED BY <1>4, <2>1, <2>2
<1>7. RunInv' BY <1>1 DEF RunInv
<1>8. LeftInv'
  <2> SUFFICES ASSUME Regular, NEW d \in image.dispatches PROVE Landed(d, pc, pc', compared)
    <3>1. DOMAIN Code' = DOMAIN Code BY <1>1 DEF Code
    <3> QED BY <1>1, <3>1, SameFile DEF LeftInv
  <2>1. IsDispatch(d) BY DEF Regular
  <2>2. /\ d.cmp \in Nat /\ d.hi \in Nat /\ d.br \in Nat /\ d.cmp < d.hi /\ d.hi < d.br
        /\ d.load \in Nat /\ d.sum \in Nat /\ d.load < d.br /\ d.sum < d.br
    BY <1>2, <2>1, Order
  <2>3. Inside(d, pc) => Passed(d, pc, regs, compared) BY <1>1 DEF Inv, RunInv
  <2>4. ASSUME pc = d.br
        PROVE  /\ compared.reg = Index(d) /\ compared.value \in 0 .. Top(d)
               /\ InFile(Op(d.load), Entry(d, compared.value))
               /\ Target(d, compared.value) \in Int /\ IsCode(Target(d, compared.value))
               /\ pc' = ResolveBranch(Target(d, compared.value)) \div 4
    <3>1. Passed(d, d.br, regs, compared) BY <2>2, <2>3, <2>4 DEF Inside
    <3>2. Op(pc) = "br" /\ Code[pc].rn = Reg(d.sum) BY <2>1, <2>4 DEF IsDispatch
    <3>3. regs[Reg(d.sum)] = Target(d, compared.value) BY <2>2, <3>1 DEF Passed
    <3>4. IsCode(Target(d, compared.value)) /\ pc' = ResolveBranch(Target(d, compared.value)) \div 4
      BY <1>4, <3>2, <3>3 DEF CondBranches
    <3>5. Target(d, compared.value) \in Int BY <1>5, <3>2, <3>3
    <3> QED BY <2>2, <3>1, <3>4, <3>5 DEF Passed
  <2>5. ASSUME pc = d.hi PROVE compared.value \notin 0 .. Top(d) /\ 4 * pc' = Code[d.hi].imm
    <3>1. Passed(d, d.hi, regs, compared) BY <2>2, <2>3, <2>5 DEF Inside
    <3>2. Op(pc) = "b.hi" /\ Code[pc].imm % 4 = 0 BY <2>1, <2>5 DEF IsDispatch
    <3>3. Condition("b.hi") /\ pc' = Code[pc].imm \div 4 BY <1>4, <3>2
    <3>4. compared.value \notin 0 .. Top(d) BY <3>1, <3>3 DEF Condition, Passed
    <3>5. 4 * pc' = Code[pc].imm BY <1>5, <3>2, <3>3
    <3> QED BY <2>5, <3>4, <3>5
  <2> QED BY <2>4, <2>5 DEF Landed
<1>9. ScanInv' BY <1>1, SameFile DEF Inv, ScanInv, Code
<1> QED BY <1>6, <1>7, <1>8, <1>9 DEF Inv

LEMMA InvInductive == Spec => []Inv
<1>1. Inv /\ UNCHANGED vars => Inv'
  <2> SUFFICES ASSUME Inv, UNCHANGED vars PROVE Inv' OBVIOUS
  <2>1. /\ image' = image /\ start' = start /\ tables' = tables /\ phase' = phase /\ via' = via
        /\ pc' = pc /\ regs' = regs /\ compared' = compared
    BY DEF vars, scanVars, runVars
  <2>2. TypeInv' BY <2>1 DEF Inv, TypeInv
  <2>3. RunInv' BY <2>1, SameFile DEF Inv, RunInv
  <2>4. LeftInv'
    <3>1. DOMAIN Code' = DOMAIN Code BY <2>1 DEF Code
    <3> QED BY <2>1, <3>1, SameFile DEF Inv, LeftInv
  <2>5. ScanInv' BY <2>1, SameFile DEF Inv, ScanInv, Code
  <2> QED BY <2>2, <2>3, <2>4, <2>5 DEF Inv
<1>2. Inv /\ [Next]_vars => Inv'
  BY <1>1, RecoverKeeps, AdvanceKeeps, FailKeeps, ScanDoneKeeps, StepKeeps, LeaveKeeps DEF Next
<1> QED BY <1>2, InitInv, PTL DEF Spec

-----------------------------------------------------------------------------
(* What a switch shows *)

\* The switch that is shown does what the processor does, for any code and
\* any table.
THEOREM SwitchIsRight == Spec => []SwitchAgrees
<1>1. Inv => SwitchAgrees
  <2> SUFFICES ASSUME Inv, phase = "left", Regular, NEW t \in tables
               PROVE  /\ via = t.br =>
                           /\ t.index = compared.reg
                           /\ compared.value \in DOMAIN t.cases
                           /\ 4 * pc \in {t.cases[compared.value],
                                          ResolveBranch(t.cases[compared.value])}
                      /\ Op(via) = "b.hi" /\ IndirectBranch(via) = t.br =>
                           /\ compared.value \notin DOMAIN t.cases
                           /\ t.default = 4 * pc
    BY DEF SwitchAgrees
  <2> DEFINE v == compared.value
  <2>1. TypeInv /\ via \in DOMAIN Code BY DEF Inv, LeftInv
  <2>2. PICK d \in image.dispatches : IsTable(d, t) BY DEF Inv, ScanInv
  <2>3. IsDispatch(d) /\ Landed(d, via, pc, compared) BY DEF Inv, LeftInv, Regular
  <2>4. /\ InSection(Table(d)) /\ t.index = Index(d) /\ t.default = Code[d.hi].imm
        /\ t.br = d.br /\ t.cases = CasesOf(d)
    BY <2>2 DEF IsTable
  <2>5. ASSUME via = t.br
        PROVE  /\ t.index = compared.reg
               /\ v \in DOMAIN t.cases
               /\ 4 * pc \in {t.cases[v], ResolveBranch(t.cases[v])}
    <3>1. /\ compared.reg = Index(d) /\ v \in 0 .. Top(d)
          /\ InFile(Op(d.load), Entry(d, v))
          /\ Target(d, v) \in Int /\ IsCode(Target(d, v))
          /\ pc = ResolveBranch(Target(d, v)) \div 4
      BY <2>3, <2>4, <2>5 DEF Landed
    <3>2. /\ v \in DOMAIN CasesOf(d)
          /\ CasesOf(d)[v] = IF IsSlot(d) THEN ResolveBranch(Target(d, v)) ELSE Target(d, v)
      BY <2>1, <2>3, <2>4, <3>1, CaseIs
    <3>3. 4 * pc = ResolveBranch(Target(d, v)) BY <2>1, <3>1, BranchesAlign
    <3> QED BY <2>4, <3>1, <3>2, <3>3
  <2>6. ASSUME Op(via) = "b.hi", IndirectBranch(via) = t.br
        PROVE  v \notin DOMAIN t.cases /\ t.default = 4 * pc
    <3>1. via \in Nat /\ via + 1 \in Nat \ {0} BY <2>1, FileTypes
    <3>2. d.br # 0 BY <2>1, <2>3, Order
    <3>3. /\ d.br \in Nat /\ d.br \in DOMAIN Code /\ via + 1 <= d.br /\ d.br <= via + 1 + 16 - 1
          /\ Op(d.br) \in {"br"}
      <4>1. d.br = FirstOf({"br"}, via + 1, 16) /\ 16 \in Nat BY <2>4, <2>6 DEF IndirectBranch
      <4> QED BY <2>1, <3>1, <3>2, <4>1, FirstOfFound
    <3>4. via < d.br /\ d.br <= via + 16 BY <3>1, <3>3
    <3>5. PICK e \in image.dispatches : via = e.hi BY <2>1, <2>6, <3>3, <3>4 DEF Regular
    <3>6. IsDispatch(e) /\ Landed(e, via, pc, compared) BY DEF Inv, LeftInv, Regular
    <3>7. e.br = d.br BY <2>1, <2>4, <2>6, <3>5, <3>6, BranchesFound
    <3>8. e.cmp = d.cmp /\ e.hi = d.hi
      <4>1. /\ d.cmp \in Nat /\ d.hi \in Nat /\ d.br \in Nat /\ d.cmp < d.hi /\ d.hi < d.br
            /\ e.cmp \in Nat /\ e.hi \in Nat /\ e.cmp < e.hi /\ e.hi < e.br
        BY <2>1, <2>3, <3>6, Order
      <4>2. e.cmp = d.cmp
        <5>1. CASE d.cmp <= e.cmp BY <2>1, <3>7, <4>1, <5>1, Disjoint
        <5>2. CASE e.cmp <= d.cmp BY <2>1, <3>7, <4>1, <5>2, Disjoint
        <5> QED BY <4>1, <5>1, <5>2
      <4> QED BY <2>1, <2>3, <3>6, <4>2, BranchesFound
    <3>9. v \notin 0 .. Top(d) /\ 4 * pc = Code[d.hi].imm
      BY <3>5, <3>6, <3>8 DEF Landed, Top
    <3>10. DOMAIN CasesOf(d) \subseteq 0 .. Top(d) BY DEF CasesOf, Cases, CasesUpTo
    <3> QED BY <2>4, <3>9, <3>10
  <2> QED BY <2>5, <2>6
<1> QED BY <1>1, InvInductive, PTL

\* Every indirect branch of a scan that has come to its end has its table.
THEOREM EveryDispatchFound == Spec => []NoDispatchMissed
<1>1. Inv => NoDispatchMissed
  <2> SUFFICES ASSUME Inv, phase = "left", Regular, Op(via) = "br", start > Len(Code)
               PROVE  \E t \in tables : t.br = via
    BY DEF NoDispatchMissed
  <2>1. TypeInv /\ via \in DOMAIN Code BY DEF Inv, LeftInv
  <2>2. PICK d \in image.dispatches : via = d.br BY <2>1 DEF Regular
  <2>3. IsDispatch(d) /\ Landed(d, via, pc, compared) BY DEF Inv, LeftInv, Regular
  <2>4. d.cmp < start
    <3>1. Len(Code) \in Nat /\ d.cmp \in 1 .. Len(Code)
      BY <2>1, <2>3, FileTypes DEF IsDispatch, Positions
    <3>2. start \in Nat BY DEF Inv, ScanInv
    <3> QED BY <3>1, <3>2
  <2>5. Empty(d) \/ \E t \in tables : t.br = d.br BY <2>4 DEF Inv, ScanInv
  <2>6. ~Empty(d)
    <3> SUFFICES ASSUME Empty(d) PROVE FALSE OBVIOUS
    <3>1. compared.value \in 0 .. Top(d) /\ InFile(Op(d.load), Entry(d, compared.value))
      BY <2>2, <2>3 DEF Landed
    <3>2. compared.value \in DOMAIN CasesOf(d) BY <2>1, <2>3, <3>1, CaseIs DEF Empty
    <3> QED BY <3>2 DEF Empty
  <2> QED BY <2>2, <2>5, <2>6
<1> QED BY <1>1, InvInductive, PTL
=============================================================================
