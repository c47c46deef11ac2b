------------------------------- MODULE Types -------------------------------
(***************************************************************************)
(* The types of locals and parameters (types.rs): the statements of a      *)
(* function are evidence for the types of the names in them, copies carry  *)
(* a type both ways, and conditions make an int of what is left.           *)
(*                                                                         *)
(* Expressions are one operator deep.  Blocks are read in address order    *)
(* and nothing depends on where one ends, so the code is one sequence.     *)
(***************************************************************************)
EXTENDS Integers, Sequences, FiniteSets

CONSTANTS
  Names,      \* the names of the function
  Self,       \* the name `self`
  Code,       \* the functions: sequences of statements
  MaxRounds   \* how often copies are gone over, 8 in the code

ASSUME SelfAssumption == Self \in Names
ASSUME MaxRoundsAssumption == MaxRounds \in Nat \ {0}

VARIABLES
  stmts,    \* block_stmts
  tested,   \* the names in conditions of branches
  phase,    \* what is done next
  pos,      \* the next statement
  types,    \* the type of each name; a name that is not in the map is Undefined
  round,    \* the round over the copies
  before,   \* the types before the round
  settled   \* has a round changed nothing?

input == <<stmts, tested>>
typeVars == <<input, phase, pos, types, round, before, settled>>

-----------------------------------------------------------------------------
(* Expressions and statements (ir.rs) *)

\* Operands.  "Int" and "Long" are immediates that fit 32 bits or do not,
\* "Fp" is a floating-point register, "Frame" is sp or x29.  `name` tells the
\* name or, for "Reg", which register.
Leaf == [k : {"Name", "Int", "Long", "Fp", "Frame", "Reg", "Mem"}, name : Names]

\* The operands of a call are its first two arguments, those of a message
\* its receiver and an argument; `fn` is what is called.
Fns == {"plain", "source", "sink", "sink first"}

Expr == [op : {"leaf", "div", "arith", "call", "send"}, fn : Fns, l : Leaf, r : Leaf]

\* Assignments to a name or a register, expressions, returns; a store is two
\* statements in a row, for its address and for its value.  `dst` is a name or
\* a register.
Stmt == [op : {"name", "reg", "address", "store", "expr", "return"}, dst : Names, e : Expr]

ASSUME CodeAssumption == \A c \in Code : c \in Seq(Stmt)

IsCopy(s) == s.op = "name" /\ s.e.op = "leaf" /\ s.e.l.k = "Name"

-----------------------------------------------------------------------------
(* The lattice *)

Ty == {"Undefined", "Int32", "Int64", "Float", "Double", "Ptr", "ObjCId"}

\* Mutant: what is known of a value wins over what else it was used as.
MergeLast(a, b) == IF b = "Undefined" THEN a ELSE b

\* Arm by arm: the first of these that is one of the two.
Merge(a, b) ==
  IF a = b THEN a
  ELSE IF a = "Undefined" THEN b
  ELSE IF b = "Undefined" THEN a
  ELSE IF "ObjCId" \in {a, b} THEN "ObjCId"
  ELSE IF "Ptr" \in {a, b} THEN "Ptr"
  ELSE IF "Double" \in {a, b} THEN "Double"
  ELSE IF "Float" \in {a, b} THEN "Float"
  ELSE IF "Int64" \in {a, b} THEN "Int64"
  ELSE "Int32"

\* One type is at most as specific as another.
Below(a, b) ==
  \/ a = b \/ a = "Undefined" \/ b = "ObjCId"
  \/ b = "Ptr" /\ a # "ObjCId"
  \/ b = "Double" /\ a \in {"Int32", "Int64", "Float"}
  \/ b = "Float" /\ a \in {"Int32", "Int64"}
  \/ b = "Int64" /\ a = "Int32"

Bump(ts, n, ty) == [ts EXCEPT ![n] = Merge(@, ty)]

-----------------------------------------------------------------------------
(* Evidence *)

Floating(ty) == ty \in {"Float", "Double"}

LeafTy(l, ts) ==
  CASE l.k = "Name" -> ts[l.name]
    [] l.k = "Int" -> "Int32"
    [] l.k = "Long" -> "Int64"
    [] l.k = "Fp" -> "Double"
    [] OTHER -> "Undefined"

\* ty_from_expr.
TyFromExpr(e, ts) ==
  LET l == LeafTy(e.l, ts)
      r == LeafTy(e.r, ts)
  IN  CASE e.op = "leaf" -> l
        [] e.op = "send" -> "ObjCId"
        [] e.op = "call" -> "Undefined"
        [] e.op \in {"div", "arith"} /\ e.l.k = "Frame" -> "Ptr"
        [] e.op = "div" /\ e.l.k # "Frame" ->
             IF Floating(l) \/ Floating(r) THEN Merge(Merge(l, r), "Double") ELSE "Int32"
        [] OTHER -> IF "Fp" \in {e.l.k, e.r.k} THEN "Double" ELSE "Int32"

\* mark_expr_uses: what the use in e says of the name n.
Use(e, n, ts) ==
  LET mentioned == \E l \in {e.l, e.r} : l.k = "Name" /\ l.name = n
      floatish  == \E l \in {e.l, e.r} : l.k = "Fp" \/ (l.k = "Name" /\ Floating(ts[l.name]))
  IN  CASE e.op = "send" -> IF e.l.k = "Name" /\ e.l.name = n THEN "ObjCId" ELSE "Undefined"
        [] e.op \in {"div", "arith"} /\ mentioned -> IF floatish THEN "Double" ELSE "Int32"
        [] OTHER -> "Undefined"

MarkExprUses(e, ts) == [n \in Names |-> Merge(ts[n], Use(e, n, ts))]

\* The type of what is assigned: `self` is an object.
AssignedTy(e, ts) ==
  IF e.op = "leaf" /\ e.l.k = "Name" /\ e.l.name = Self THEN "ObjCId" ELSE TyFromExpr(e, ts)

\* A sum that is returned makes ints of its operands: their use did already.
Infer(s, ts) ==
  MarkExprUses(s.e, IF s.op = "name" THEN Bump(ts, s.dst, AssignedTy(s.e, ts)) ELSE ts)

\* Mutant: a copy types its destination only.
CopyTypesForward(s, ts) == IF IsCopy(s) THEN Bump(ts, s.dst, ts[s.e.l.name]) ELSE ts

\* Both sides of a copy get what is known of either.
CopyTypes(s, ts) ==
  IF IsCopy(s)
  THEN LET t == Merge(ts[s.dst], ts[s.e.l.name]) IN Bump(Bump(ts, s.dst, t), s.e.l.name, t)
  ELSE ts

\* mark_address_temps.
MarkAddress(s, ts) ==
  IF s.op = "name" /\ s.e.op \in {"div", "arith"} /\ s.e.l.k = "Frame"
  THEN Bump(ts, s.dst, "Ptr")
  ELSE ts

-----------------------------------------------------------------------------
(* decompile_insns, as far as it computes types *)

TypesInit ==
  /\ stmts \in Code
  /\ tested \in SUBSET Names
  /\ phase = "infer"
  /\ pos = 1
  /\ types = [n \in Names |-> "Undefined"]
  /\ round = 0
  /\ before = types
  /\ settled = FALSE

\* One statement of a loop over all of them.
Visit(name, result) ==
  /\ phase = name /\ pos <= Len(stmts)
  /\ types' = result
  /\ pos' = pos + 1
  /\ UNCHANGED <<input, phase, round, before, settled>>

EndOf(name) == phase = name /\ pos > Len(stmts) /\ pos' = 1

InferStmt == Visit("infer", Infer(stmts[pos], types))

StartRounds ==
  /\ EndOf("infer")
  /\ phase' = "copies"
  /\ round' = 1
  /\ before' = types
  /\ UNCHANGED <<input, types, settled>>

CopyStmt == Visit("copies", CopyTypes(stmts[pos], types))

\* Mutant: the last round is left out.
MoreRoundsEarly == types # before /\ round < MaxRounds - 1

MoreRounds == types # before /\ round < MaxRounds

NextRound ==
  /\ EndOf("copies") /\ MoreRounds
  /\ round' = round + 1
  /\ before' = types
  /\ UNCHANGED <<input, phase, types, settled>>

LastRound ==
  /\ EndOf("copies") /\ ~MoreRounds
  /\ phase' = "address"
  /\ settled' = (types = before)
  /\ UNCHANGED <<input, types, round, before>>

AddressStmt == Visit("address", MarkAddress(stmts[pos], types))

\* infer_types_from_conditions: only what nothing is known of becomes an int.
\* A receiver is an object, also if it is never used.
TypeConditions(receiver) ==
  /\ EndOf("address")
  /\ LET ts == [n \in Names |-> IF n \in tested /\ types[n] = "Undefined" THEN "Int32" ELSE types[n]]
     IN  types' = IF receiver THEN [ts EXCEPT ![Self] = "ObjCId"] ELSE ts
  /\ phase' = "typed"
  /\ UNCHANGED <<input, round, before, settled>>

TypesNext ==
  \/ InferStmt \/ StartRounds \/ CopyStmt \/ NextRound \/ LastRound
  \/ AddressStmt \/ \E receiver \in BOOLEAN : TypeConditions(receiver)

TypesSpec == TypesInit /\ [][TypesNext]_typeVars

-----------------------------------------------------------------------------
(* Properties *)

\* Type invariant.
TypesTypeOK ==
  /\ stmts \in Seq(Stmt) /\ tested \subseteq Names
  /\ pos \in Nat \ {0} /\ round \in 0 .. MaxRounds
  /\ types \in [Names -> Ty] /\ before \in [Names -> Ty]
  /\ settled \in BOOLEAN

\* Evidence is never taken back: whatever a later statement, copy or
\* condition says of a name, its type is never less specific than before.  "Names
\* participating in arithmetic are ints (unless already ptr/id/float)".
TypesOnlyRise == [][\A n \in Names : Below(types[n], types'[n])]_typeVars

Copies == {i \in DOMAIN stmts : IsCopy(stmts[i])}

\* When a round has changed nothing the types are a fixpoint: both sides of
\* every copy have one type, although each was looked at once per round.
CopiesAgree ==
  phase = "address" /\ settled =>
    \A i \in Copies : types[stmts[i].dst] = types[stmts[i].e.l.name]

\* A type travels against the order of the copies one copy per round, so a
\* function with fewer copies than rounds is never left half way.  One with
\* more may be: nothing is said of that.
SettlesInTime == phase = "address" /\ Cardinality(Copies) < MaxRounds => settled
=============================================================================
