------------------------------- MODULE Batch -------------------------------
(***************************************************************************)
(* The batch over a Mach-O file (decompile.rs): the functions to           *)
(* decompile are listed by their symbols, each is looked up again by its   *)
(* name, and its end is found from symbols and LC_FUNCTION_STARTS          *)
(* (bounds.rs).                                                            *)
(*                                                                         *)
(* Addresses count instructions; the text section is at 1 .. Size.         *)
(***************************************************************************)
EXTENDS Integers, Sequences, FiniteSetsExt, SequencesExt

CONSTANT Inputs   \* files, with the options they are decompiled under

VARIABLES
  file,      \* the file: symbols, starts, textOffset, code; and maxInsns
  listed,    \* the functions to decompile: address and name
  results,   \* the range of each, in order
  phase      \* what is done next

batch == <<listed, results>>

-----------------------------------------------------------------------------
(* Symbols (apple_metadata): a sequence of addresses with a name.  A name  *)
(* is its leading underscores and the rest, and `form` is what the rest    *)
(* starts with.                                                            *)

Forms == {"plain", "method", "l_", "ltmp", "mh_execute_header"}

Symbols == [va : Nat, name : [underscores : Nat, rest : STRING, form : Forms]]

\* A code is a sequence of instructions, one per address.
ASSUME InputsAssumption ==
  \A f \in Inputs :
    /\ f.symbols \in Seq(Symbols)
    /\ f.starts \subseteq Nat /\ f.maxInsns \in Nat \ {0} /\ f.textOffset \in Nat \cup {-1}

Label(name, form) == name.form = form /\ name.underscores = 0

\* A private label, or the symbol of the Mach-O header: no function.
Private(name) == Label(name, "l_") \/ (name.form = "mh_execute_header" /\ name.underscores = 2)

Size == Len(file.code)

InText(va) == 1 <= va /\ va <= Size

-----------------------------------------------------------------------------
(* Bounds (bounds.rs).                                                     *)

\* The file offset of the segment __TEXT, whose address is 0, if it has one.
NoSegment == -1

\* function_start_vaddrs: LC_FUNCTION_STARTS holds file offsets.
FunctionStarts ==
  IF file.textOffset = NoSegment THEN {}
  ELSE {IF at >= file.textOffset THEN at - file.textOffset ELSE at : at \in file.starts}

\* Mutant: only LC_FUNCTION_STARTS end a function.
CutsStarts(start) == {va \in FunctionStarts : va > start}

\* Where other functions begin: LC_FUNCTION_STARTS, and the symbols in the
\* text that are not private.
Cuts(start) ==
  {va \in FunctionStarts : va > start}
    \cup {s.va : s \in {s \in Range(file.symbols) : s.va > start /\ InText(s.va) /\ ~Private(s.name)}}

\* The end resolve_function_bounds finds: the first of all candidates.
End(start) == Min(Cuts(start) \cup {Size + 1, start + file.maxInsns})

-----------------------------------------------------------------------------
(* The batch (decompile.rs).                                               *)

\* Mutant: the end of the text counts as text.
IsListedEnd(s) ==
  /\ 1 <= s.va /\ s.va <= Size + 1
  /\ ~Private(s.name) /\ ~Label(s.name, "ltmp")
  /\ s.name.underscores > 0 \/ s.name.form = "method"

\* list_macho_functions takes C symbols and methods of the text.
IsListed(s) ==
  /\ InText(s.va)
  /\ ~Private(s.name) /\ ~Label(s.name, "ltmp")
  /\ s.name.underscores > 0 \/ s.name.form = "method"

\* The order addresses are sorted in: there is one such sequence.
InOrder(S) ==
  {l \in [1 .. Cardinality(S) -> S] : \A i, j \in DOMAIN l : i < j => l[i] < l[j]}

\* One function per address, the first symbol there, by address.
ListFunctions ==
  LET chosen == {k \in DOMAIN file.symbols : IsListed(file.symbols[k])}
      FirstAt(va) == file.symbols[Min({k \in chosen : file.symbols[k].va = va})]
  IN  /\ phase = "list"
      /\ \E addresses \in InOrder({file.symbols[k].va : k \in chosen}) :
           listed' = [k \in DOMAIN addresses |-> FirstAt(addresses[k])]
      /\ phase' = "decompile"
      /\ UNCHANGED <<file, results>>

\* find_symbol: the first that has the name, but for underscores at the front.
FindSymbol(name) ==
  file.symbols[Min({k \in DOMAIN file.symbols :
    file.symbols[k].name.rest = name.rest /\ file.symbols[k].name.form = name.form})].va

Failed == [start |-> 0, end |-> 0]

\* The range decompile_macho_symbol reads; a symbol outside of the text fails.
RangeOf(name) ==
  LET va == FindSymbol(name)
  IN  IF InText(va) THEN [start |-> va, end |-> End(va)] ELSE Failed

DecompileNext ==
  /\ phase = "decompile" /\ Len(results) < Len(listed)
  /\ results' = Append(results, RangeOf(listed[Len(results) + 1].name))
  /\ UNCHANGED <<file, listed, phase>>

BatchDone ==
  /\ phase = "decompile" /\ Len(results) = Len(listed)
  /\ phase' = "scan"
  /\ UNCHANGED <<file, batch>>

BatchInit == file \in Inputs /\ listed = << >> /\ results = << >> /\ phase = "list"

BatchNext == ListFunctions \/ DecompileNext \/ BatchDone

-----------------------------------------------------------------------------
(* Properties *)

SameName(s1, s2) == s1.name.rest = s2.name.rest /\ s1.name.form = s2.name.form

\* No private symbol has the name of a function but for the underscores.
LabelsApart ==
  \A s1, s2 \in Range(file.symbols) : Private(s1.name) /\ IsListed(s2) => ~SameName(s1, s2)

\* Functions of the batch are not empty, stay in the text and never share an
\* instruction: their ranges are disjoint, or they are one function.  A label
\* that is decompiled for a function cuts no other.
RangesDisjoint ==
  /\ \A r \in Range(results) : r # Failed => r.start < r.end /\ r.end <= Size + 1
  /\ LabelsApart =>
       \A r1, r2 \in Range(results) : r1 = r2 \/ r1.end <= r2.start \/ r2.end <= r1.start

Ambiguous == \E s1, s2 \in Range(file.symbols) : s1.va # s2.va /\ SameName(s1, s2)

\* The lookup by name finds the function that was listed, at its address,
\* unless two symbols have one name but for the underscores.
OwnAddress == ~Ambiguous => \A k \in DOMAIN results : results[k].start = listed[k].va
=============================================================================
