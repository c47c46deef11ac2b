---------------------------- MODULE XrefsProofs ----------------------------
(***************************************************************************)
(* Theorems about Xrefs and the batch it extends, for files with any       *)
(* symbols and any text.                                                   *)
(*                                                                         *)
(* Bounds and call graph are both minima or maxima of addresses, so the    *)
(* proofs go by what the start of one function says of the end of another. *)
(* The references go by the life of a page in its register (PageInv).      *)
(***************************************************************************)
EXTENDS Xrefs, FiniteSetTheorems, TLAPS

-----------------------------------------------------------------------------
(* Least and greatest numbers *)

LEMMA MinIsLeast ==
  ASSUME NEW S \in SUBSET Nat, S # {}
  PROVE  Min(S) \in S /\ \A x \in S : Min(S) <= x
<1>1. PICK m \in S : \A k \in S : <<k, m>> \notin OpToRel(<, Nat)
  BY NatLessThanWellFounded, WFMin
<1>2. \A k \in S : ~(k < m)
  BY <1>1 DEF OpToRel
<1>3. \E x \in S : \A y \in S : x =< y
  BY <1>2
<1> QED
  BY <1>3 DEF Min

LEMMA MaxIs ==
  ASSUME NEW S \in SUBSET Nat, NEW m \in S, \A x \in S : x <= m
  PROVE  Max(S) = m
<1>1. \E x \in S : \A y \in S : x >= y
  OBVIOUS
<1>2. Max(S) \in S /\ \A y \in S : Max(S) >= y
  BY <1>1 DEF Max
<1>3. Max(S) \in Nat /\ m \in Nat /\ Max(S) >= m /\ Max(S) <= m
  BY <1>2
<1> QED
  BY <1>3

-----------------------------------------------------------------------------
(* The file, which no step changes *)

FileInv ==
  /\ file \in Inputs /\ Size \in Nat
  /\ DOMAIN file.symbols \subseteq Nat
  /\ \A k \in DOMAIN file.symbols : file.symbols[k].va \in Nat
  /\ \A at \in FunctionStarts : at \in Nat
  /\ file.maxInsns \in Nat \ {0}

LEMMA NextKeepsFile == [Next]_vars => file' = file
  BY DEF Next, BatchNext, ListFunctions, DecompileNext, BatchDone, ScanInsn, PromoteStrings,
         CallGraph, vars

LEMMA FileInductive == Spec => []FileInv
<1>1. Init => FileInv
  <2> SUFFICES ASSUME Init PROVE FileInv
    OBVIOUS
  <2>1. file \in Inputs
    BY DEF Init, BatchInit
  <2>2. file.symbols \in Seq(Symbols) /\ file.code \in Seq(Insns)
    BY <2>1, InputsAssumption, CodeAssumption
  <2>3. Size \in Nat
    BY <2>2 DEF Size
  <2>4. DOMAIN file.symbols \subseteq Nat
    BY <2>2
  <2>5. Range(file.symbols) \subseteq Symbols
    BY <2>2 DEF Range
  <2>6. ASSUME NEW k \in DOMAIN file.symbols PROVE file.symbols[k].va \in Nat
    <3>1. file.symbols[k] \in Symbols
      BY <2>5 DEF Range
    <3> QED
      BY <3>1 DEF Symbols
  <2>7. file.starts \subseteq Nat /\ file.textOffset \in Nat \cup {-1} /\ file.maxInsns \in Nat \ {0}
    BY <2>1, InputsAssumption
  <2>8. \A at \in FunctionStarts : at \in Nat
    BY <2>7 DEF FunctionStarts, NoSegment
  <2> QED
    BY <2>1, <2>3, <2>4, <2>6, <2>7, <2>8 DEF FileInv
<1>2. FileInv /\ [Next]_vars => FileInv'
  BY NextKeepsFile DEF FileInv, Size, FunctionStarts
<1> QED
  BY <1>1, <1>2, PTL DEF Spec

-----------------------------------------------------------------------------
(* Bounds *)

\* An end comes after its start, within the text and up to the next start.
LEMMA EndFacts ==
  ASSUME FileInv, NEW start \in Nat, InText(start)
  PROVE  /\ End(start) \in Nat /\ start < End(start) /\ End(start) <= Size + 1
         /\ \A va \in Cuts(start) : End(start) <= va
<1> DEFINE ends == Cuts(start) \cup {Size + 1, start + file.maxInsns}
<1>1. \A s \in Range(file.symbols) : s.va \in Nat
  BY DEF FileInv, Range
<1>2. \A va \in Cuts(start) : va \in Nat /\ va > start
  BY <1>1 DEF Cuts, FileInv
<1>3. Size + 1 \in Nat /\ Size + 1 > start /\ start + file.maxInsns \in Nat
      /\ start + file.maxInsns > start
  BY DEF FileInv, InText
<1>4. ends \in SUBSET Nat /\ ends # {} /\ \A va \in ends : va > start
  BY <1>2, <1>3
<1>5. Min(ends) \in ends /\ \A va \in ends : Min(ends) <= va
  BY <1>4, MinIsLeast
<1>6. End(start) = Min(ends)
  BY DEF End
<1> QED
  BY <1>4, <1>5, <1>6

-----------------------------------------------------------------------------
(* The functions that are listed and their ranges *)

ListInv ==
  /\ phase \in {"list", "decompile", "scan", "graph", "done"}
  /\ phase = "list" => results = << >>
  /\ phase # "list" =>
       /\ listed \in Seq(Range(file.symbols))
       /\ \A k \in DOMAIN listed : listed[k] \in Range(file.symbols) /\ IsListed(listed[k])
       /\ results \in Seq([start : Nat, end : Nat]) /\ Len(results) <= Len(listed)
       /\ \A k \in DOMAIN results : results[k] = RangeOf(listed[k].name)

\* The symbol a name is looked up by: it has that name but for underscores.
LEMMA FoundSymbol ==
  ASSUME FileInv, NEW s \in Range(file.symbols)
  PROVE  \E t \in Range(file.symbols) : t.va = FindSymbol(s.name) /\ SameName(t, s) /\ t.va \in Nat
<1> DEFINE K == {k \in DOMAIN file.symbols :
                   file.symbols[k].name.rest = s.name.rest /\ file.symbols[k].name.form = s.name.form}
<1>1. K \in SUBSET Nat /\ K # {}
  BY DEF FileInv, Range
<1>2. Min(K) \in K
  BY <1>1, MinIsLeast
<1>3. file.symbols[Min(K)] \in Range(file.symbols) /\ file.symbols[Min(K)].va \in Nat
      /\ SameName(file.symbols[Min(K)], s)
  BY <1>2 DEF FileInv, Range, SameName
<1>4. FindSymbol(s.name) = file.symbols[Min(K)].va
  BY DEF FindSymbol
<1> QED
  BY <1>3, <1>4

\* The range of a listed function begins where its name is found.
LEMMA RangeFacts ==
  ASSUME FileInv, NEW s \in Range(file.symbols)
  PROVE  /\ RangeOf(s.name) \in [start : Nat, end : Nat]
         /\ \/ RangeOf(s.name) = Failed
            \/ \E t \in Range(file.symbols) :
                 /\ SameName(t, s) /\ t.va \in Nat /\ InText(t.va)
                 /\ RangeOf(s.name) = [start |-> t.va, end |-> End(t.va)]
<1>1. PICK t \in Range(file.symbols) : t.va = FindSymbol(s.name) /\ SameName(t, s) /\ t.va \in Nat
  BY FoundSymbol
<1>2. CASE InText(t.va)
  BY <1>1, <1>2, EndFacts DEF RangeOf
<1>3. CASE ~InText(t.va)
  BY <1>1, <1>3 DEF RangeOf, Failed
<1> QED
  BY <1>2, <1>3

LEMMA OperatorsKept ==
  ASSUME file' = file
  PROVE  /\ Range(file.symbols)' = Range(file.symbols)
         /\ \A s : IsListed(s)' = IsListed(s)
         /\ \A name : RangeOf(name)' = RangeOf(name)
  BY DEF IsListed, InText, Size, RangeOf, FindSymbol, End, Cuts, FunctionStarts

LEMMA ListInductive == Spec => []ListInv
<1>1. Init => ListInv
  BY DEF Init, BatchInit, ListInv
<1>2. FileInv /\ ListInv /\ [Next]_vars => ListInv'
  <2> SUFFICES ASSUME FileInv, ListInv, [Next]_vars PROVE ListInv'
    OBVIOUS
  <2>0. /\ file' = file /\ Range(file.symbols)' = Range(file.symbols)
        /\ \A s : IsListed(s)' = IsListed(s)
        /\ \A name : RangeOf(name)' = RangeOf(name)
    BY NextKeepsFile, OperatorsKept
  <2>1. CASE ListFunctions
    <3> DEFINE chosen == {k \in DOMAIN file.symbols : IsListed(file.symbols[k])}
               FirstAt(va) == file.symbols[Min({k \in chosen : file.symbols[k].va = va})]
    <3>1. PICK addresses \in InOrder({file.symbols[k].va : k \in chosen}) :
            listed' = [k \in DOMAIN addresses |-> FirstAt(addresses[k])]
      BY <2>1 DEF ListFunctions
    <3>2. phase' = "decompile" /\ results' = << >>
      BY <2>1 DEF ListFunctions, ListInv
    <3>3. PICK n \in Nat : addresses \in [1 .. n -> {file.symbols[k].va : k \in chosen}]
      <4>1. IsFiniteSet({file.symbols[k].va : k \in chosen})
        <5>1. {file.symbols[k].va : k \in chosen} \subseteq 1 .. Size
          BY DEF FileInv, IsListed, InText
        <5>2. IsFiniteSet(1 .. Size)
          BY FS_Interval DEF FileInv
        <5> QED
          BY <5>1, <5>2, FS_Subset
      <4>2. Cardinality({file.symbols[k].va : k \in chosen}) \in Nat
        BY <4>1, FS_CardinalityType
      <4> QED
        BY <4>2 DEF InOrder
    <3>4. ASSUME NEW k \in 1 .. n
          PROVE  FirstAt(addresses[k]) \in Range(file.symbols) /\ IsListed(FirstAt(addresses[k]))
      <4> DEFINE K == {j \in chosen : file.symbols[j].va = addresses[k]}
      <4>1. addresses[k] \in {file.symbols[j].va : j \in chosen}
        BY <3>3
      <4>2. K \in SUBSET Nat /\ K # {}
        BY <4>1 DEF FileInv
      <4>3. Min(K) \in K
        BY <4>2, MinIsLeast
      <4> QED
        BY <4>3 DEF Range
    <3>5. listed' = [k \in 1 .. n |-> FirstAt(addresses[k])]
      BY <3>1, <3>3
    <3> HIDE DEF FirstAt
    <3>6. listed' \in Seq(Range(file.symbols)) /\ DOMAIN listed' = 1 .. n
      BY <3>4, <3>5
    <3>7. \A k \in DOMAIN listed' : listed'[k] \in Range(file.symbols) /\ IsListed(listed'[k])
      BY <3>4, <3>5, <3>6
    <3>8. results' \in Seq([start : Nat, end : Nat]) /\ Len(results') = 0 /\ Len(listed') \in Nat
          /\ DOMAIN results' = {}
      BY <3>2, <3>6
    <3> QED
      BY <2>0, <3>2, <3>6, <3>7, <3>8 DEF ListInv
  <2>2. CASE DecompileNext
    <3>1. PICK n \in Nat : n = Len(results)
      BY <2>2 DEF DecompileNext, ListInv
    <3>2. /\ phase = "decompile" /\ phase' = phase /\ listed' = listed /\ n + 1 <= Len(listed)
          /\ results' = Append(results, RangeOf(listed[n + 1].name))
          /\ results \in Seq([start : Nat, end : Nat])
          /\ listed \in Seq(Range(file.symbols))
      BY <2>2, <3>1 DEF DecompileNext, ListInv
    <3>3. n + 1 \in DOMAIN listed
      BY <3>2
    <3>4. PICK r \in [start : Nat, end : Nat] : r = RangeOf(listed[n + 1].name)
      BY <3>2, <3>3, RangeFacts DEF ListInv
    <3>5. /\ results' \in Seq([start : Nat, end : Nat]) /\ Len(results') = n + 1
          /\ DOMAIN results' = 1 .. n + 1 /\ DOMAIN results = 1 .. n
          /\ results'[n + 1] = r /\ \A k \in 1 .. n : results'[k] = results[k]
      BY <3>1, <3>2, <3>4
    <3>6. ASSUME NEW k \in DOMAIN results' PROVE results'[k] = RangeOf(listed[k].name)
      <4>1. CASE k = n + 1
        BY <3>4, <3>5, <4>1
      <4>2. CASE k \in 1 .. n
        BY <3>2, <3>5, <4>2 DEF ListInv
      <4> QED
        BY <3>5, <4>1, <4>2
    <3> QED
      BY <2>0, <3>2, <3>5, <3>6 DEF ListInv
  <2>3. CASE /\ UNCHANGED <<listed, results>>
             /\ phase' = phase \/ (phase # "list" /\ phase' \in {"scan", "graph", "done"})
    BY <2>0, <2>3 DEF ListInv
  <2> QED
    BY <2>1, <2>2, <2>3 DEF Next, BatchNext, BatchDone, ScanInsn, PromoteStrings, CallGraph, vars, batch
<1> QED
  BY <1>1, <1>2, FileInductive, PTL DEF Spec

\* What a result is: failed, or the range of a symbol with a listed name.
LEMMA ResultFacts ==
  ASSUME FileInv, ListInv, NEW r \in Range(results)
  PROVE  \/ r = Failed
         \/ \E s, t \in Range(file.symbols) :
              /\ IsListed(s) /\ SameName(t, s) /\ t.va \in Nat /\ InText(t.va)
              /\ r = [start |-> t.va, end |-> End(t.va)]
<1>1. PICK k \in DOMAIN results : r = results[k]
  BY DEF Range
<1>2. /\ phase # "list" /\ r = RangeOf(listed[k].name)
      /\ listed[k] \in Range(file.symbols) /\ IsListed(listed[k])
  <2>1. phase # "list"
    BY <1>1 DEF ListInv
  <2>2. k \in DOMAIN listed
    BY <1>1, <2>1 DEF ListInv
  <2> QED
    BY <1>1, <2>1, <2>2 DEF ListInv
<1> QED
  BY <1>2, RangeFacts

\* Property RangesDisjoint: no two functions the batch decompiles share an
\* instruction, whatever the symbol table and LC_FUNCTION_STARTS hold, when no
\* private label is found in place of a listed function.
THEOREM RangesApart == Spec => []RangesDisjoint
<1>1. FileInv /\ ListInv => RangesDisjoint
  <2> SUFFICES ASSUME FileInv, ListInv PROVE RangesDisjoint
    OBVIOUS
  <2>1. ASSUME NEW r \in Range(results), r # Failed PROVE r.start < r.end /\ r.end <= Size + 1
    <3>1. PICK t \in Range(file.symbols) :
            t.va \in Nat /\ InText(t.va) /\ r = [start |-> t.va, end |-> End(t.va)]
      BY <2>1, ResultFacts
    <3> QED
      BY <3>1, EndFacts
  <2>2. ASSUME LabelsApart, NEW r1 \in Range(results), NEW r2 \in Range(results), r1.start < r2.start
        PROVE  r1.end <= r2.start
    <3>1. r2 # Failed
      BY <2>2, ResultFacts DEF Failed
    <3>2. PICK s, t \in Range(file.symbols) :
            /\ IsListed(s) /\ SameName(t, s) /\ t.va \in Nat /\ InText(t.va)
            /\ r2 = [start |-> t.va, end |-> End(t.va)]
      BY <3>1, ResultFacts
    <3>3. CASE r1 = Failed
      BY <3>2, <3>3 DEF Failed
    <3>4. ASSUME NEW t1 \in Range(file.symbols), t1.va \in Nat, InText(t1.va),
                 r1 = [start |-> t1.va, end |-> End(t1.va)]
          PROVE  r1.end <= r2.start
      <4>1. ~Private(t.name)
        BY <2>2, <3>2 DEF LabelsApart
      <4>2. t.va \in Cuts(t1.va)
        BY <2>2, <3>2, <3>4, <4>1 DEF Cuts
      <4> QED
        BY <3>2, <3>4, <4>2, EndFacts
    <3> QED
      BY <3>3, <3>4, ResultFacts
  <2>3. ASSUME NEW r1 \in Range(results), NEW r2 \in Range(results), r1.start = r2.start
        PROVE  r1 = r2
    BY <2>3, ResultFacts DEF Failed, InText
  <2>4. \A r \in Range(results) : r.start \in Nat
    BY ResultFacts DEF Failed
  <2>5. ASSUME LabelsApart, NEW r1 \in Range(results), NEW r2 \in Range(results)
        PROVE  r1 = r2 \/ r1.end <= r2.start \/ r2.end <= r1.start
    BY <2>2, <2>3, <2>4, <2>5
  <2> QED
    BY <2>1, <2>5 DEF RangesDisjoint
<1> QED
  BY <1>1, FileInductive, ListInductive, PTL

\* Property OwnAddress: the lookup by name finds the function that was listed,
\* whatever the symbol table holds, unless it is ambiguous.
THEOREM ListedAddress == Spec => []OwnAddress
<1>1. FileInv /\ ListInv => OwnAddress
  <2> SUFFICES ASSUME FileInv, ListInv, ~Ambiguous, NEW k \in DOMAIN results
               PROVE  results[k].start = listed[k].va
    BY DEF OwnAddress
  <2>1. phase # "list"
    BY DEF ListInv
  <2>2. k \in DOMAIN listed
    BY <2>1 DEF ListInv
  <2>3. listed[k] \in Range(file.symbols) /\ IsListed(listed[k]) /\ results[k] = RangeOf(listed[k].name)
    BY <2>1, <2>2 DEF ListInv
  <2>4. PICK t \in Range(file.symbols) : t.va = FindSymbol(listed[k].name) /\ SameName(t, listed[k])
    BY <2>3, FoundSymbol
  <2>5. t.va = listed[k].va
    BY <2>3, <2>4 DEF Ambiguous
  <2> QED
    BY <2>3, <2>4, <2>5 DEF RangeOf, IsListed
<1> QED
  BY <1>1, FileInductive, ListInductive, PTL

-----------------------------------------------------------------------------
(* The scan and the processor *)

\* What is scanned, and the references it has given.
ScanInv ==
  /\ pos \in Nat /\ pos <= Size
  /\ pending \in [Regs -> [at : Nat, page : Nat]]
  /\ regs \in [Regs -> SUBSET Int] /\ values \in Seq(SUBSET Int) /\ Len(values) = pos
  /\ \A x \in index : x.from \in 1 .. pos
  /\ \A e \in graph : e.site \in Nat /\ e.caller = Enclosing(FunctionStarts, e.site)

\* A register with a page has been loaded by the instruction remembered with
\* it, and nothing the code knows has ended the page.  So it is still in there
\* when nothing has been written over it and control came one by one.
PageInv ==
  \A r \in Regs : pending[r] # None =>
    /\ pending[r].at \in 1 .. pos
    /\ Loads(file.code[pending[r].at], r)
    /\ \A j \in pending[r].at + 1 .. pos : ~Ends(file.code[j], r)
    /\ (\A k \in pending[r].at + 1 .. pos : r \notin Clobbers(file.code[k]) /\ ~Joined(k))
         => regs[r] = {pending[r].page}

\* What one instruction does to the pages, the references and the processor.
LEMMA ScannedInsn ==
  ASSUME FileInv, ScanInv, ScanInsn
  PROVE  \E insn \in Insns :
           /\ insn = file.code[pos + 1] /\ pos + 1 <= Size /\ pos' = pos + 1
           /\ index' = index \cup RefsOf(pos + 1, insn)
           /\ pending' = Pending(pos + 1, insn)
           /\ Execute(pos + 1, insn)
           /\ UNCHANGED <<file, batch, phase, graph>>
<1>1. file.code \in Seq(Insns) /\ file \in Inputs
  BY CodeAssumption DEF FileInv
<1>2. pos \in Nat /\ pos < Len(file.code)
  BY DEF ScanInsn, ScanInv, Size
<1>3. file.code[pos + 1] \in Insns
  BY <1>1, <1>2
<1> QED
  BY <1>2, <1>3 DEF ScanInsn, Size, ScanInv

LEMMA HeldType ==
  ASSUME regs \in [Regs -> SUBSET Int], NEW at \in Nat
  PROVE  Held(at) \in [Regs -> SUBSET Int]
BY DEF Held, Unknown

LEMMA ResultType ==
  ASSUME NEW held \in [Regs -> SUBSET Int], NEW insn \in Insns
  PROVE  Result(insn, held) \in SUBSET Int
<1>1. insn.rn \in Regs /\ insn.n \in Nat
  BY DEF Insns
<1>2. \A value \in held[insn.rn] : value \in Int
  BY <1>1
<1>3. {value + insn.n : value \in held[insn.rn]} \in SUBSET Int
      /\ {value - insn.n : value \in held[insn.rn]} \in SUBSET Int
      /\ held[insn.rn] \in SUBSET Int
  BY <1>1, <1>2
<1>4. CASE insn.op \in {"adr", "adrp"}
  BY <1>1, <1>4 DEF Result
<1>5. CASE insn.op = "add"
  BY <1>3, <1>5 DEF Result
<1>6. CASE insn.op = "sub"
  BY <1>3, <1>6 DEF Result
<1>7. CASE insn.op = "orr"
  BY <1>3, <1>7 DEF Result
<1>8. CASE insn.op \notin {"adr", "adrp", "add", "sub", "orr"}
  BY <1>8 DEF Result, Unknown
<1> QED
  BY <1>4, <1>5, <1>6, <1>7, <1>8

LEMMA PendingType ==
  ASSUME pending \in [Regs -> [at : Nat, page : Nat]], NEW insn \in Insns, NEW at \in Nat
  PROVE  Pending(at, insn) \in [Regs -> [at : Nat, page : Nat]]
<1>1. insn.rd \in Regs /\ insn.rn \in Regs /\ [at |-> at, page |-> insn.n] \in [at : Nat, page : Nat]
  BY DEF Insns
<1>2. None \in [at : Nat, page : Nat]
  BY DEF None
<1> QED
  BY <1>1, <1>2 DEF Pending

\* Where the references of an instruction come from.
LEMMA RefsFrom ==
  ASSUME ScanInv, PageInv, NEW insn \in Insns
  PROVE  \A x \in RefsOf(pos + 1, insn) : x.from \in 1 .. pos + 1
<1>1. insn.rn \in Regs /\ pos \in Nat
  BY DEF Insns, ScanInv
<1>2. CASE insn.op \in {"bl", "b", "bcond", "adr", "ldr"}
  BY <1>1, <1>2 DEF RefsOf, Ref, UsesPage
<1>3. CASE UsesPage(insn)
  BY <1>1, <1>3 DEF RefsOf, Ref, UsesPage, PageInv
<1>4. CASE insn.op \notin {"bl", "b", "bcond", "adr", "ldr"} /\ ~UsesPage(insn)
  BY <1>4 DEF RefsOf
<1> QED
  BY <1>2, <1>3, <1>4

\* A step keeps each page in its register, or forgets it.
LEMMA PagesKept ==
  ASSUME FileInv, ScanInv, PageInv, ScanInsn
  PROVE  PageInv'
<1> PICK insn \in Insns :
      /\ insn = file.code[pos + 1] /\ pos + 1 <= Size /\ pos' = pos + 1
      /\ pending' = Pending(pos + 1, insn)
      /\ Execute(pos + 1, insn) /\ file' = file /\ FunctionStarts' = FunctionStarts
  BY ScannedInsn DEF FunctionStarts
<1>0. /\ pos \in Nat /\ insn.rd \in Regs /\ insn.rn \in Regs
      /\ pending \in [Regs -> [at : Nat, page : Nat]] /\ regs \in [Regs -> SUBSET Int]
  BY DEF Insns, ScanInv
<1> DEFINE Kept(r, at, to) == \A k \in at + 1 .. to : r \notin Clobbers(file.code[k]) /\ ~Joined(k)
<1>3. \A k : Joined(k)' <=> Joined(k)
  BY DEF Joined
<1> SUFFICES ASSUME NEW r \in Regs, pending'[r] # None
             PROVE  /\ pending'[r].at \in 1 .. pos'
                    /\ Loads(file.code[pending'[r].at], r)
                    /\ \A j \in pending'[r].at + 1 .. pos' : ~Ends(file.code[j], r)
                    /\ Kept(r, pending'[r].at, pos') => regs'[r] = {pending'[r].page}
  BY <1>3 DEF PageInv
<1>1. CASE Loads(insn, r)
  <2>1. pending'[r] = [at |-> pos + 1, page |-> insn.n]
    BY <1>0, <1>1 DEF Pending, Loads, UsesPage
  <2>2. regs'[r] = {insn.n}
    BY <1>0, <1>1 DEF Execute, Result, Clobbers, Loads
  <2> QED
    BY <1>0, <1>1, <2>1, <2>2
<1>2. CASE ~Loads(insn, r)
  <2>1. pending'[r] = pending[r] /\ ~Ends(insn, r)
    BY <1>0, <1>2 DEF Pending, Ends, Loads, UsesPage, None
  <2>2. /\ pending[r].at \in 1 .. pos
        /\ Loads(file.code[pending[r].at], r)
        /\ \A j \in pending[r].at + 1 .. pos : ~Ends(file.code[j], r)
        /\ Kept(r, pending[r].at, pos) => regs[r] = {pending[r].page}
    BY <2>1 DEF PageInv
  <2>3. \A j \in pending[r].at + 1 .. pos + 1 : ~Ends(file.code[j], r)
    BY <1>0, <2>1, <2>2
  <2>4. ASSUME Kept(r, pending[r].at, pos + 1) PROVE regs'[r] = {pending[r].page}
    <3>1. pos + 1 \in pending[r].at + 1 .. pos + 1
      BY <1>0, <2>2
    <3>2. r \notin Clobbers(insn) /\ ~Joined(pos + 1)
      BY <2>4, <3>1
    <3>3. regs'[r] = regs[r]
      BY <3>2 DEF Execute, Held
    <3>4. Kept(r, pending[r].at, pos)
      BY <1>0, <2>2, <2>4
    <3> QED
      BY <2>2, <3>3, <3>4
  <2> QED
    BY <1>0, <2>1, <2>2, <2>3, <2>4
<1> QED
  BY <1>1, <1>2

\* The target of a sum with a page is what the processor computes.
LEMMA NewTargets ==
  ASSUME FileInv, ScanInv, PageInv, ScanInsn, NEW x \in index' \ index,
         x.kind = "data", file.code[x.from].op \in {"add", "sub"},
         NEW a \in 1 .. x.from - 1, Loads(file.code[a], file.code[x.from].rn),
         Straight(a, x.from, file.code[x.from].rn)
  PROVE  x.to \in values'[x.from]
<1> PICK insn \in Insns :
      /\ insn = file.code[pos + 1]
      /\ index' = index \cup RefsOf(pos + 1, insn)
      /\ Execute(pos + 1, insn) /\ file' = file
  BY ScannedInsn
<1> DEFINE r == insn.rn
<1>0. /\ pos \in Nat /\ r \in Regs /\ insn.n \in Nat
      /\ pending \in [Regs -> [at : Nat, page : Nat]]
  BY DEF Insns, ScanInv
<1>1. x \in RefsOf(pos + 1, insn)
  OBVIOUS
<1>2. CASE UsesPage(insn)
  <2>1. insn.op \in {"add", "sub"} /\ pending[r] # None
    BY <1>2 DEF UsesPage
  <2>2. PICK loaded \in 1 .. pos :
        /\ loaded = pending[r].at /\ Loads(file.code[loaded], r)
        /\ \A j \in loaded + 1 .. pos : ~Ends(file.code[j], r)
        /\ (\A k \in loaded + 1 .. pos : r \notin Clobbers(file.code[k]) /\ ~Joined(k))
             => regs[r] = {pending[r].page}
    BY <1>0, <2>1 DEF PageInv
  <2>3. x \in {Ref(from, Target(insn), "data") : from \in {loaded, pos + 1}}
    BY <1>1, <1>2, <2>1, <2>2 DEF RefsOf
  <2>4. x.from = pos + 1 /\ x.to = Target(insn)
    <3>1. x.to = Target(insn) /\ x.from \in {loaded, pos + 1}
      BY <2>3 DEF Ref
    <3>2. file.code[loaded].op \in {"adr", "adrp"}
      BY <2>2 DEF Loads
    <3> QED
      BY <3>1, <3>2
  <2>5. PICK b \in 1 .. pos : Loads(file.code[b], r) /\ Straight(b, pos + 1, r)
    BY <1>0, <2>4
  <2>6. b <= loaded
    <3>1. Ends(file.code[b], r)
      BY <2>5 DEF Ends
    <3>2. b \notin loaded + 1 .. pos
      BY <2>2, <3>1
    <3> QED
      BY <1>0, <3>2
  <2>7. \A k \in loaded + 1 .. pos : r \notin Clobbers(file.code[k]) /\ ~Joined(k)
    <3>1. \A k \in loaded + 1 .. pos : k \in b + 1 .. pos /\ k \in b + 1 .. pos + 1
      BY <1>0, <2>6
    <3>2. \A k \in b + 1 .. pos : r \in Clobbers(file.code[k]) => Ends(file.code[k], r)
      BY <1>0, <2>5 DEF Straight
    <3>3. \A k \in b + 1 .. pos + 1 : ~Joined(k)
      BY <2>5 DEF Straight
    <3> QED
      BY <2>2, <3>1, <3>2, <3>3
  <2>8. Held(pos + 1)[r] = {pending[r].page}
    <3>1. pos + 1 \in b + 1 .. pos + 1
      BY <1>0, <2>5
    <3>2. ~Joined(pos + 1)
      BY <2>5, <3>1 DEF Straight
    <3> QED
      BY <1>0, <2>2, <2>7, <3>2 DEF Held
  <2>9. Target(insn) \in Result(insn, Held(pos + 1))
    BY <2>1, <2>8 DEF Target, Result
  <2>10. values'[pos + 1] = Result(insn, Held(pos + 1))
    <3>1. Held(pos + 1) \in [Regs -> SUBSET Int]
      BY <1>0, HeldType DEF ScanInv
    <3>2. Result(insn, Held(pos + 1)) \in SUBSET Int
      BY <3>1, ResultType
    <3>3. values' = Append(values, Result(insn, Held(pos + 1))) /\ values \in Seq(SUBSET Int)
          /\ Len(values) = pos
      BY DEF Execute, ScanInv
    <3> QED
      BY <3>2, <3>3
  <2> QED
    BY <2>4, <2>9, <2>10
<1>3. CASE ~UsesPage(insn)
  <2>1. x.from = pos + 1 /\ insn.op \in {"bl", "b", "bcond", "adr", "ldr"}
    BY <1>1, <1>3 DEF RefsOf, Ref
  <2> QED
    BY <2>1
<1> QED
  BY <1>2, <1>3

ScannedInv == ScanInv /\ PageInv /\ DataTargetsReal

LEMMA ScannedInductive == Spec => []ScannedInv
<1>1. Init => ScannedInv
  <2> SUFFICES ASSUME Init PROVE ScannedInv
    OBVIOUS
  <2>1. Size \in Nat
    <3>1. file.code \in Seq(Insns)
      BY CodeAssumption DEF Init, BatchInit
    <3> QED
      BY <3>1 DEF Size
  <2>2. ScanInv
    BY <2>1 DEF Init, ScanInv, None, Unknown
  <2>3. PageInv /\ DataTargetsReal
    BY DEF Init, PageInv, DataTargetsReal
  <2> QED
    BY <2>2, <2>3 DEF ScannedInv
<1>2. FileInv /\ ScannedInv /\ [Next]_vars => ScannedInv'
  <2> SUFFICES ASSUME FileInv, ScanInv, PageInv, DataTargetsReal, [Next]_vars PROVE ScannedInv'
    BY DEF ScannedInv
  <2>0. file' = file /\ Size' = Size /\ FunctionStarts' = FunctionStarts
    BY NextKeepsFile DEF Size, FunctionStarts
  <2>1. CASE ScanInsn
    <3>1. PICK insn \in Insns :
            /\ insn = file.code[pos + 1] /\ pos + 1 <= Size /\ pos' = pos + 1
            /\ index' = index \cup RefsOf(pos + 1, insn)
            /\ pending' = Pending(pos + 1, insn)
            /\ Execute(pos + 1, insn)
            /\ UNCHANGED <<file, batch, phase, graph>>
      BY <2>1, ScannedInsn
    <3>2. pos \in Nat /\ insn.rd \in Regs
      BY DEF ScanInv, Insns
    <3>3. pending' \in [Regs -> [at : Nat, page : Nat]]
      <4>1. pos + 1 \in Nat /\ pending \in [Regs -> [at : Nat, page : Nat]]
        BY <3>2 DEF ScanInv
      <4> QED
        BY <3>1, <4>1, PendingType
    <3>4. Held(pos + 1) \in [Regs -> SUBSET Int] /\ Result(insn, Held(pos + 1)) \in SUBSET Int
      <4>1. Held(pos + 1) \in [Regs -> SUBSET Int]
        BY <3>2, HeldType DEF ScanInv
      <4> QED
        BY <4>1, ResultType
    <3>5. /\ regs' \in [Regs -> SUBSET Int] /\ values' \in Seq(SUBSET Int) /\ Len(values') = pos + 1
          /\ \A k \in 1 .. pos : values'[k] = values[k]
      BY <3>1, <3>2, <3>4 DEF Execute, ScanInv, Unknown
    <3>6. \A x \in index' : x.from \in 1 .. pos + 1
      BY <3>1, <3>2, RefsFrom DEF ScanInv
    <3>7. ScanInv'
      BY <2>0, <3>1, <3>2, <3>3, <3>5, <3>6 DEF ScanInv
    <3>8. ASSUME NEW x \in index', x.kind = "data", file.code[x.from].op \in {"add", "sub"},
                 NEW a \in 1 .. x.from - 1, Loads(file.code[a], file.code[x.from].rn),
                 Straight(a, x.from, file.code[x.from].rn)
          PROVE  x.to \in values'[x.from]
      <4>1. CASE x \in index
        <5>1. x.to \in values[x.from] /\ x.from \in 1 .. pos
          BY <3>8, <4>1 DEF DataTargetsReal, ScanInv
        <5> QED
          BY <3>5, <5>1
      <4>2. CASE x \notin index
        BY <2>1, <3>8, <4>2, NewTargets
      <4> QED
        BY <4>1, <4>2
    <3>9. DataTargetsReal'
      BY <2>0, <3>8 DEF DataTargetsReal, Straight, Joined
    <3> QED
      BY <2>1, <3>7, <3>9, PagesKept DEF ScannedInv
  <2>2. ASSUME UNCHANGED <<pos, pending, processor>> PROVE PageInv'
    BY <2>0, <2>2 DEF PageInv, processor, Joined
  <2>3. CASE UNCHANGED <<pos, pending, index, graph, processor>>
    <3>1. ScanInv'
      BY <2>0, <2>3 DEF ScanInv, processor
    <3>2. DataTargetsReal'
      BY <2>0, <2>3 DEF DataTargetsReal, processor, Straight, Joined
    <3> QED
      BY <2>2, <2>3, <3>1, <3>2 DEF ScannedInv
  <2>4. CASE PromoteStrings
    <3>1. \A x \in index' : x \in index \/ \E y \in index : x = Ref(y.from, y.to, "string")
      BY <2>4 DEF PromoteStrings
    <3>2. UNCHANGED <<pos, pending, graph, processor>>
      BY <2>4 DEF PromoteStrings
    <3>3. \A x \in index' : x.from \in 1 .. pos /\ (x \in index \/ x.kind = "string")
      BY <3>1 DEF ScanInv, Ref
    <3>4. ScanInv'
      BY <2>0, <3>2, <3>3 DEF ScanInv, processor
    <3>5. DataTargetsReal'
      BY <2>0, <3>2, <3>3 DEF DataTargetsReal, processor, Straight, Joined
    <3> QED
      BY <2>2, <3>2, <3>4, <3>5 DEF ScannedInv
  <2>5. CASE CallGraph
    <3>1. UNCHANGED <<pos, pending, index, processor>>
      BY <2>5 DEF CallGraph
    <3>2. \A e \in graph' : e.site \in Nat /\ e.caller = Enclosing(FunctionStarts, e.site)
      <4>1. ASSUME NEW e \in graph'
            PROVE  e.site \in Nat /\ e.caller = Enclosing(FunctionStarts, e.site)
        <5>1. PICK x \in index :
                e = [caller |-> Enclosing(FunctionStarts, x.from), callee |-> x.to, site |-> x.from]
          BY <2>5 DEF CallGraph
        <5> QED
          BY <5>1 DEF ScanInv
      <4> QED
        BY <4>1
    <3>3. ScanInv'
      BY <2>0, <3>1, <3>2 DEF ScanInv, processor
    <3>4. DataTargetsReal'
      BY <2>0, <3>1 DEF DataTargetsReal, processor, Straight, Joined
    <3> QED
      BY <2>2, <3>1, <3>3, <3>4 DEF ScannedInv
  <2> QED
    BY <2>1, <2>3, <2>4, <2>5 DEF Next, vars
<1> QED
  BY <1>1, <1>2, FileInductive, PTL DEF Spec

\* Property DataTargetsReal: what an add or sub is said to refer to is the
\* address the processor computes there, for any text: wherever the way from an
\* instruction that loads its page is straight.
THEOREM DataTargets == Spec => []DataTargetsReal
<1>1. ScannedInv => DataTargetsReal
  BY DEF ScannedInv
<1> QED
  BY <1>1, ScannedInductive, PTL

-----------------------------------------------------------------------------
(* The call graph *)

\* Property CallersContainSites: the caller of an edge is the function whose
\* range has the call, for any symbols, function starts and text.
THEOREM CallersFound == Spec => []CallersContainSites
<1>1. FileInv /\ ListInv /\ ScannedInv => CallersContainSites
  <2> SUFFICES ASSUME FileInv, ListInv, ScanInv, {r.start : r \in Range(results)} \subseteq FunctionStarts,
                      NEW e \in graph, NEW r \in Range(results), r.start <= e.site, e.site < r.end
               PROVE  e.caller = r.start
    BY DEF CallersContainSites, ScannedInv
  <2> DEFINE before == {va \in FunctionStarts : va <= e.site}
  <2>1. e.site \in Nat /\ e.caller = Enclosing(FunctionStarts, e.site)
    BY DEF ScanInv
  <2>2. PICK start \in Nat : r.start = start /\ InText(start) /\ r.end = End(start)
    <3>1. r # Failed
      BY <2>1 DEF Failed
    <3> QED
      BY <3>1, ResultFacts
  <2>3. before \in SUBSET Nat /\ start \in before
    BY <2>2 DEF FileInv
  <2>4. ASSUME NEW va \in before, va > start PROVE FALSE
    <3>1. va \in Cuts(start)
      BY <2>4 DEF Cuts
    <3>2. End(start) <= va /\ End(start) \in Nat
      BY <2>2, <3>1, EndFacts
    <3> QED
      BY <2>1, <2>2, <2>3, <3>2
  <2>5. \A va \in before : va <= start
    BY <2>3, <2>4
  <2>6. Max(before) = start
    BY <2>3, <2>5, MaxIs
  <2> QED
    BY <2>1, <2>2, <2>3, <2>6 DEF Enclosing
<1> QED
  BY <1>1, FileInductive, ListInductive, ScannedInductive, PTL
=============================================================================
