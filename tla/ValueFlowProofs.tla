-------------------------- MODULE ValueFlowProofs --------------------------
(***************************************************************************)
(* Theorems about Types and about ValueFlow, which goes on from it, for    *)
(* every function over any names and any number of rounds.                 *)
(*                                                                         *)
(* The evidence for the type of a name only rises in a chain.  The taint   *)
(* of a name is compared with the sources its value derives from in the    *)
(* run beside the analysis: it covers them whatever is skipped, and it is  *)
(* one of them when nothing is and every name is assigned once.            *)
(***************************************************************************)
EXTENDS ValueFlow, SequenceTheorems, FiniteSetTheorems, TLAPS

-----------------------------------------------------------------------------
(* Ty::merge is the join of a chain *)

LEMMA MergeTyped == \A a, b \in Ty : Merge(a, b) \in Ty
BY DEF Merge, Ty

LEMMA MergeCommutes == \A a, b \in Ty : Merge(a, b) = Merge(b, a)
BY DEF Merge, Ty

LEMMA MergeAbove == \A a, b \in Ty : Below(a, Merge(a, b)) /\ Below(b, Merge(a, b))
BY DEF Below, Merge, Ty

LEMMA BelowReflexive == \A a \in Ty : Below(a, a) /\ Below("Undefined", a)
BY DEF Below, Ty

LEMMA BelowTransitive ==
  \A a, b, c \in Ty : Below(a, b) /\ Below(b, c) => Below(a, c)
BY DEF Below, Ty

LEMMA BelowAntisymmetric == \A a, b \in Ty : Below(a, b) /\ Below(b, a) => a = b
BY DEF Below, Ty

LEMMA MergeAbsorbs == \A a, b \in Ty : Below(a, b) => Merge(a, b) = b
BY DEF Below, Merge, Ty

LEMMA ObjCIdIsTop == \A a \in Ty : Below(a, "ObjCId")
BY DEF Below, Ty

-----------------------------------------------------------------------------
(* Evidence is typed and rises *)

Typing == [Names -> Ty]

Rises(ts, us) == \A n \in Names : Below(ts[n], us[n])

LEMMA RisesReflexive == \A ts \in Typing : Rises(ts, ts)
BY BelowReflexive DEF Rises, Typing

LEMMA RisesTransitive ==
  ASSUME NEW ts \in Typing, NEW us \in Typing, NEW vs \in Typing,
         Rises(ts, us), Rises(us, vs)
  PROVE  Rises(ts, vs)
<1>1. SUFFICES ASSUME NEW n \in Names PROVE Below(ts[n], vs[n])
  BY DEF Rises
<1>2. ts[n] \in Ty /\ us[n] \in Ty /\ vs[n] \in Ty
  BY DEF Typing
<1>3. QED
  BY <1>2, BelowTransitive DEF Rises

LEMMA BumpRises ==
  ASSUME NEW ts \in Typing, NEW n \in Names, NEW ty \in Ty
  PROVE  Bump(ts, n, ty) \in Typing /\ Rises(ts, Bump(ts, n, ty))
<1>1. \A m \in Names : ts[m] \in Ty
  BY DEF Typing
<1>2. \A m \in Names : Bump(ts, n, ty)[m] = IF m = n THEN Merge(ts[n], ty) ELSE ts[m]
  BY DEF Bump, Typing
<1>3. QED
  BY <1>1, <1>2, MergeTyped, MergeAbove, BelowReflexive DEF Bump, Typing, Rises

LEMMA LeafTyTyped ==
  ASSUME NEW ts \in Typing, NEW l \in Leaf
  PROVE  LeafTy(l, ts) \in Ty
<1>1. l.name \in Names
  BY DEF Leaf
<1>2. ts[l.name] \in Ty
  BY <1>1 DEF Typing
<1>3. QED
  BY <1>2 DEF LeafTy, Ty

LEMMA AssignedTyTyped ==
  ASSUME NEW ts \in Typing, NEW e \in Expr
  PROVE  AssignedTy(e, ts) \in Ty
<1>1. LeafTy(e.l, ts) \in Ty /\ LeafTy(e.r, ts) \in Ty
  BY LeafTyTyped DEF Expr
<1>2. {"Undefined", "Int32", "Double", "Ptr", "ObjCId"} \subseteq Ty
  BY DEF Ty
<1>3. \A x, y \in Ty : Merge(Merge(x, y), "Double") \in Ty
  BY <1>2, MergeTyped
<1>4. TyFromExpr(e, ts) \in Ty
  BY <1>1, <1>2, <1>3 DEF TyFromExpr
<1>5. QED
  BY <1>2, <1>4 DEF AssignedTy

LEMMA UsesRise ==
  ASSUME NEW ts \in Typing, NEW e \in Expr
  PROVE  MarkExprUses(e, ts) \in Typing /\ Rises(ts, MarkExprUses(e, ts))
<1>1. \A n \in Names : Use(e, n, ts) \in Ty
  BY DEF Use, Ty
<1>2. \A n \in Names : ts[n] \in Ty
  BY DEF Typing
<1>3. QED
  BY <1>1, <1>2, MergeTyped, MergeAbove DEF MarkExprUses, Typing, Rises

LEMMA InferRises ==
  ASSUME NEW ts \in Typing, NEW s \in Stmt
  PROVE  Infer(s, ts) \in Typing /\ Rises(ts, Infer(s, ts))
<1> DEFINE us == IF s.op = "name" THEN Bump(ts, s.dst, AssignedTy(s.e, ts)) ELSE ts
<1>1. s.dst \in Names /\ s.e \in Expr
  BY DEF Stmt
<1>2. us \in Typing /\ Rises(ts, us)
  BY <1>1, AssignedTyTyped, BumpRises, RisesReflexive
<1>3. MarkExprUses(s.e, us) \in Typing /\ Rises(us, MarkExprUses(s.e, us))
  BY <1>1, <1>2, UsesRise
<1>4. QED
  BY <1>2, <1>3, RisesTransitive DEF Infer

LEMMA CopyRises ==
  ASSUME NEW ts \in Typing, NEW s \in Stmt
  PROVE  CopyTypes(s, ts) \in Typing /\ Rises(ts, CopyTypes(s, ts))
<1>1. CASE IsCopy(s)
  <2> DEFINE from == s.e.l.name
             t == Merge(ts[s.dst], ts[from])
             us == Bump(ts, s.dst, t)
  <2>1. s.dst \in Names /\ from \in Names
    BY DEF Stmt, Expr, Leaf
  <2>2. t \in Ty
    BY <2>1, MergeTyped DEF Typing
  <2>3. us \in Typing /\ Rises(ts, us)
    BY <2>1, <2>2, BumpRises
  <2>4. Bump(us, from, t) \in Typing /\ Rises(us, Bump(us, from, t))
    BY <2>1, <2>2, <2>3, BumpRises
  <2>5. CopyTypes(s, ts) = Bump(us, from, t)
    BY <1>1 DEF CopyTypes
  <2>6. QED
    BY <2>3, <2>4, <2>5, RisesTransitive
<1>2. CASE ~IsCopy(s)
  BY <1>2, RisesReflexive DEF CopyTypes
<1>3. QED
  BY <1>1, <1>2

LEMMA AddressRises ==
  ASSUME NEW ts \in Typing, NEW s \in Stmt
  PROVE  MarkAddress(s, ts) \in Typing /\ Rises(ts, MarkAddress(s, ts))
<1>1. s.dst \in Names /\ "Ptr" \in Ty
  BY DEF Stmt, Ty
<1>2. QED
  BY <1>1, BumpRises, RisesReflexive DEF MarkAddress

-----------------------------------------------------------------------------
(* Every step is typed and rises *)

LEMMA InitTyped == TypesInit => TypesTypeOK
<1>1. "Undefined" \in Ty
  BY DEF Ty
<1>2. TypesInit => stmts \in Seq(Stmt)
  BY CodeAssumption DEF TypesInit
<1>3. 0 \in 0 .. MaxRounds
  BY MaxRoundsAssumption
<1>4. TypesInit => types \in [Names -> Ty] /\ before = types
  BY <1>1 DEF TypesInit
<1>5. TypesInit => /\ tested \subseteq Names
                   /\ pos \in Nat \ {0} /\ round \in 0 .. MaxRounds
                   /\ settled \in BOOLEAN
  <2>1. TypesInit => tested \subseteq Names /\ pos = 1 /\ round = 0
    BY DEF TypesInit
  <2>2. TypesInit => settled \in BOOLEAN
    BY DEF TypesInit
  <2>3. QED
    BY <1>3, <2>1, <2>2
<1>6. QED
  BY <1>2, <1>3, <1>4, <1>5 DEF TypesTypeOK

\* What every step does to the types, and that it keeps the rest typed.
LEMMA StepRises ==
  ASSUME TypesTypeOK, [TypesNext]_typeVars
  PROVE  TypesTypeOK' /\ Rises(types, types')
<1> USE DEF TypesTypeOK
<1>0. types \in Typing
  BY DEF Typing
<1>1. ASSUME NEW name, NEW us \in Typing, Rises(types, us), Visit(name, us)
      PROVE  TypesTypeOK' /\ Rises(types, types')
  BY <1>1 DEF Visit, Typing, input
<1>2. ASSUME pos <= Len(stmts)
      PROVE  stmts[pos] \in Stmt
  BY <1>2, ElementOfSeq
<1>3. CASE InferStmt
  BY <1>0, <1>1, <1>2, <1>3, InferRises DEF InferStmt, Visit
<1>4. CASE CopyStmt
  BY <1>0, <1>1, <1>2, <1>4, CopyRises DEF CopyStmt, Visit
<1>5. CASE AddressStmt
  BY <1>0, <1>1, <1>2, <1>5, AddressRises DEF AddressStmt, Visit
<1>6. CASE StartRounds \/ NextRound \/ LastRound
  <2>1. round' \in 0 .. MaxRounds
    BY <1>6, MaxRoundsAssumption DEF StartRounds, NextRound, LastRound, MoreRounds
  <2>2. types' = types /\ before' \in [Names -> Ty] /\ settled' \in BOOLEAN /\ pos' = 1 /\ UNCHANGED input
    BY <1>6 DEF StartRounds, NextRound, LastRound, EndOf
  <2>3. QED
    BY <1>0, <2>1, <2>2, RisesReflexive DEF input
<1>7. ASSUME NEW receiver \in BOOLEAN, TypeConditions(receiver)
      PROVE  TypesTypeOK' /\ Rises(types, types')
  <2> DEFINE ts == [n \in Names |-> IF n \in tested /\ types[n] = "Undefined" THEN "Int32" ELSE types[n]]
  <2>1. {"Int32", "ObjCId"} \subseteq Ty
    BY DEF Ty
  <2>2. ts \in Typing /\ Rises(types, ts)
    BY <2>1, BelowReflexive DEF Typing, Rises
  <2>3. [ts EXCEPT ![Self] = "ObjCId"] \in Typing
    BY <2>1, <2>2 DEF Typing
  <2>4. Rises(ts, [ts EXCEPT ![Self] = "ObjCId"])
    BY <2>1, <2>2, BelowReflexive, ObjCIdIsTop DEF Typing, Rises
  <2>5. types' \in Typing /\ Rises(types, types')
    BY <1>0, <1>7, <2>2, <2>3, <2>4, RisesTransitive DEF TypeConditions
  <2>6. QED
    BY <1>7, <2>5 DEF TypeConditions, EndOf, Typing, input
<1>8. CASE UNCHANGED typeVars
  BY <1>0, <1>8, RisesReflexive DEF typeVars, input
<1>9. QED
  BY <1>3, <1>4, <1>5, <1>6, <1>7, <1>8 DEF TypesNext

(***************************************************************************)
(* Every reachable state of type inference is well typed: what an          *)
(* expression, a use or a copy says is a type.                             *)
(***************************************************************************)
THEOREM TypesTypeCorrect == TypesSpec => []TypesTypeOK
<1>1. TypesTypeOK /\ [TypesNext]_typeVars => TypesTypeOK'
  BY StepRises
<1>2. QED
  BY <1>1, InitTyped, PTL DEF TypesSpec

(***************************************************************************)
(* No step takes evidence back, whatever the statements, their order and   *)
(* the number of rounds: the type a name has absorbs every type it had.    *)
(***************************************************************************)
THEOREM EvidenceKept == TypesSpec => TypesOnlyRise
<1>1. TypesTypeOK /\ [TypesNext]_typeVars => [\A n \in Names : Below(types[n], types'[n])]_typeVars
  BY StepRises DEF Rises
<1>2. QED
  BY <1>1, TypesTypeCorrect, PTL DEF TypesSpec, TypesOnlyRise

-----------------------------------------------------------------------------
(* The rounds over the copies *)

Agree(i) == types[stmts[i].dst] = types[stmts[i].e.l.name]

IsAddress(s) == s.op = "name" /\ s.e.op \in {"div", "arith"} /\ s.e.l.k = "Frame"

\* Types only rise during a round, so if they are what they were before the
\* round no copy changed them, and those gone over so far agree.
RoundInv ==
  /\ phase \in {"infer", "copies", "address", "typed"}
  /\ phase = "copies" => Rises(before, types)
  /\ phase = "copies" /\ types = before => \A i \in Copies : i < pos => Agree(i)
  /\ phase = "address" /\ settled => \A i \in Copies : Agree(i)

\* Addresses of the frame are pointers when the statements have been read:
\* the last loop over them finds nothing new.
AddressInv ==
  \A i \in DOMAIN stmts :
    IsAddress(stmts[i]) /\ (phase # "infer" \/ i < pos) => Below("Ptr", types[stmts[i].dst])

LEMMA CopyAgrees ==
  ASSUME NEW ts \in Typing, NEW s \in Stmt, IsCopy(s)
  PROVE  CopyTypes(s, ts)[s.dst] = CopyTypes(s, ts)[s.e.l.name]
<1> DEFINE from == s.e.l.name
           t == Merge(ts[s.dst], ts[from])
<1>1. s.dst \in Names /\ from \in Names
  BY DEF Stmt, Expr, Leaf
<1>2. ts[s.dst] \in Ty /\ ts[from] \in Ty /\ t \in Ty
  BY <1>1, MergeTyped DEF Typing
<1>3. Merge(ts[s.dst], t) = t /\ Merge(ts[from], t) = t /\ Merge(t, t) = t
  BY <1>2, MergeTyped, MergeAbove, BelowReflexive, MergeAbsorbs
<1>4. QED
  BY <1>1, <1>2, <1>3 DEF CopyTypes, Bump, Typing

LEMMA AddressKnown ==
  ASSUME NEW ts \in Typing, NEW s \in Stmt, IsAddress(s)
  PROVE  Below("Ptr", Infer(s, ts)[s.dst])
<1> DEFINE us == Bump(ts, s.dst, "Ptr")
<1>1. s.dst \in Names /\ s.e \in Expr /\ "Ptr" \in Ty
  BY DEF Stmt, Ty
<1>2. AssignedTy(s.e, ts) = "Ptr"
  BY DEF IsAddress, AssignedTy, TyFromExpr
<1>3. us \in Typing /\ Below("Ptr", us[s.dst])
  BY <1>1, BumpRises, MergeAbove DEF Bump, Typing
<1>4. MarkExprUses(s.e, us) \in Typing /\ Rises(us, MarkExprUses(s.e, us))
  BY <1>1, <1>3, UsesRise
<1>5. Infer(s, ts) = MarkExprUses(s.e, us)
  BY <1>2 DEF Infer, IsAddress
<1>6. us[s.dst] \in Ty /\ Infer(s, ts)[s.dst] \in Ty
  BY <1>1, <1>3, <1>4, <1>5 DEF Typing
<1>7. QED
  BY <1>1, <1>3, <1>4, <1>5, <1>6, BelowTransitive DEF Rises

LEMMA AddressStep ==
  ASSUME TypesTypeOK, TypesTypeOK', Rises(types, types'), AddressInv, [TypesNext]_typeVars
  PROVE  AddressInv'
<1>1. stmts' = stmts
  BY DEF TypesNext, typeVars, input, InferStmt, CopyStmt, AddressStmt, Visit, StartRounds,
         NextRound, LastRound, TypeConditions
<1>2. SUFFICES ASSUME NEW i \in DOMAIN stmts, IsAddress(stmts[i]), phase' # "infer" \/ i < pos'
               PROVE  Below("Ptr", types'[stmts[i].dst])
  BY <1>1 DEF AddressInv
<1>3. stmts[i] \in Stmt /\ i \in 1 .. Len(stmts)
  BY ElementOfSeq, LenProperties DEF TypesTypeOK
<1>4. stmts[i].dst \in Names
  BY <1>3 DEF Stmt
<1>5. CASE InferStmt /\ i = pos
  <2>1. types' = Infer(stmts[i], types)
    BY <1>5 DEF InferStmt, Visit
  <2>2. types \in Typing
    BY DEF TypesTypeOK, Typing
  <2>3. QED
    BY <1>2, <1>3, <2>1, <2>2, AddressKnown
<1>6. CASE ~(InferStmt /\ i = pos)
  <2>1. phase # "infer" \/ i < pos
    BY <1>2, <1>3, <1>6 DEF TypesNext, typeVars, InferStmt, CopyStmt, AddressStmt, Visit, EndOf,
       StartRounds, NextRound, LastRound, TypeConditions, TypesTypeOK
  <2>2. Below("Ptr", types[stmts[i].dst])
    BY <1>2, <2>1 DEF AddressInv
  <2>3. "Ptr" \in Ty /\ types[stmts[i].dst] \in Ty /\ types'[stmts[i].dst] \in Ty
    BY <1>4 DEF TypesTypeOK, Ty
  <2>4. QED
    BY <1>4, <2>2, <2>3, BelowTransitive DEF Rises
<1>7. QED
  BY <1>5, <1>6

LEMMA RoundStep ==
  ASSUME TypesTypeOK, TypesTypeOK', Rises(types, types'), AddressInv, RoundInv,
         [TypesNext]_typeVars
  PROVE  RoundInv'
<1>0. types \in Typing /\ types' \in Typing /\ before \in Typing
  BY DEF TypesTypeOK, Typing
<1>1. CASE InferStmt \/ (\E receiver \in BOOLEAN : TypeConditions(receiver))
  BY <1>1 DEF InferStmt, TypeConditions, Visit, EndOf, RoundInv
<1>2. CASE StartRounds \/ NextRound
  <2>1. phase' = "copies" /\ before' = types' /\ pos' = 1 /\ stmts' = stmts
    BY <1>2 DEF StartRounds, NextRound, EndOf, RoundInv, input
  <2>2. Rises(before', types')
    BY <1>0, <2>1, RisesReflexive
  <2>3. \A i \in Copies' : ~(i < pos')
    BY <2>1 DEF Copies, TypesTypeOK
  <2>4. QED
    BY <2>1, <2>2, <2>3 DEF RoundInv
<1>3. CASE CopyStmt
  <2>1. /\ phase = "copies" /\ phase' = "copies" /\ pos' = pos + 1 /\ pos <= Len(stmts)
        /\ stmts' = stmts /\ before' = before
        /\ types' = CopyTypes(stmts[pos], types)
    BY <1>3 DEF CopyStmt, Visit, input
  <2>2. Rises(before, types')
    BY <1>0, <2>1, RisesTransitive DEF RoundInv
  <2>3. ASSUME types' = before, NEW i \in Copies, i < pos + 1
        PROVE  types'[stmts[i].dst] = types'[stmts[i].e.l.name]
    <3>1. types = before
      <4>1. ASSUME NEW n \in Names
            PROVE  types[n] = before[n]
        <5>1. Below(before[n], types[n]) /\ Below(types[n], before[n])
          BY <2>1, <2>3 DEF RoundInv, Rises
        <5>2. types[n] \in Ty /\ before[n] \in Ty
          BY <1>0 DEF Typing
        <5>3. QED
          BY <5>1, <5>2, BelowAntisymmetric
      <4>2. QED
        BY <1>0, <4>1 DEF Typing
    <3>2. CASE i < pos
      BY <2>1, <2>3, <3>1, <3>2 DEF RoundInv, Agree
    <3>3. CASE i = pos
      <4>1. stmts[pos] \in Stmt
        BY <2>1, ElementOfSeq DEF TypesTypeOK
      <4>2. QED
        BY <1>0, <2>1, <2>3, <3>3, <4>1, CopyAgrees DEF Copies
    <3>4. QED
      BY <2>3, <3>2, <3>3 DEF Copies, TypesTypeOK
  <2>4. QED
    BY <2>1, <2>2, <2>3 DEF RoundInv, Copies, Agree
<1>4. CASE LastRound
  <2>1. /\ phase = "copies" /\ pos > Len(stmts) /\ phase' = "address"
        /\ UNCHANGED <<stmts, types>> /\ settled' = (types = before)
    BY <1>4 DEF LastRound, EndOf, input
  <2>2. \A i \in Copies : i < pos
    BY <2>1, LenProperties DEF Copies, TypesTypeOK
  <2>3. QED
    BY <2>1, <2>2 DEF RoundInv, Copies, Agree
<1>5. CASE AddressStmt
  <2>1. /\ phase = "address" /\ phase' = "address" /\ UNCHANGED <<stmts, settled>>
        /\ pos <= Len(stmts) /\ types' = MarkAddress(stmts[pos], types)
    BY <1>5 DEF AddressStmt, Visit, input
  <2>2. stmts[pos] \in Stmt /\ pos \in DOMAIN stmts
    BY <2>1, ElementOfSeq, LenProperties DEF TypesTypeOK
  <2>3. types' = types
    <3> DEFINE n == stmts[pos].dst
    <3>1. CASE IsAddress(stmts[pos])
      <4>1. n \in Names /\ types[n] \in Ty /\ "Ptr" \in Ty
        BY <1>0, <2>2 DEF Stmt, Typing, Ty
      <4>2. Merge(types[n], "Ptr") = types[n]
        BY <2>1, <2>2, <3>1, <4>1, MergeCommutes, MergeAbsorbs DEF AddressInv, Ty
      <4>3. types' = [types EXCEPT ![n] = types[n]]
        BY <2>1, <3>1, <4>2 DEF MarkAddress, IsAddress, Bump
      <4>4. QED
        BY <1>0, <4>3 DEF Typing
    <3>2. CASE ~IsAddress(stmts[pos])
      BY <2>1, <3>2 DEF MarkAddress, IsAddress
    <3>3. QED
      BY <3>1, <3>2
  <2>4. QED
    BY <2>1, <2>3 DEF RoundInv, Copies, Agree
<1>6. CASE UNCHANGED typeVars
  BY <1>6 DEF typeVars, input, RoundInv, Copies, Agree, Rises
<1>7. QED
  BY <1>1, <1>2, <1>3, <1>4, <1>5, <1>6 DEF TypesNext

LEMMA RoundInvImplies == RoundInv => CopiesAgree
BY DEF RoundInv, CopiesAgree, Agree

(***************************************************************************)
(* A round that changes nothing has found a fixpoint, for every function   *)
(* and whatever evidence came before: both sides of every copy have one    *)
(* type, and looking for addresses of the frame afterwards does not part   *)
(* them.                                                                   *)
(***************************************************************************)
THEOREM FixpointAgrees == TypesSpec => []CopiesAgree
<1> DEFINE Inv == AddressInv /\ RoundInv
<1>1. ASSUME TypesInit
      PROVE  Inv
  <2>1. stmts \in Seq(Stmt)
    BY <1>1, InitTyped DEF TypesTypeOK
  <2>2. \A i \in DOMAIN stmts : ~(i < pos)
    BY <1>1, <2>1, LenProperties DEF TypesInit
  <2>3. AddressInv
    BY <1>1, <2>2 DEF TypesInit, AddressInv
  <2>4. RoundInv
    BY <1>1 DEF TypesInit, RoundInv
  <2>5. QED
    BY <2>3, <2>4
<1>2. TypesTypeOK /\ TypesTypeOK' /\ Inv /\ [TypesNext]_typeVars => Inv'
  BY StepRises, AddressStep, RoundStep
<1>3. Inv => CopiesAgree
  BY RoundInvImplies
<1>4. QED
  BY <1>1, <1>2, <1>3, TypesTypeCorrect, PTL DEF TypesSpec

-----------------------------------------------------------------------------
(* How many rounds are needed *)

\* Sets of names that no copy leaves, and what bounds their types.
CopyClosed(S) == \A i \in Copies : stmts[i].dst \in S <=> stmts[i].e.l.name \in S
Bounded(ts, S, ty) == \A n \in S : Below(ts[n], ty)

\* A copy is done when both sides have the type that bounds all they are
\* copied to and from: no later round changes them.
Top(i, ts) ==
  /\ ts[stmts[i].dst] = ts[stmts[i].e.l.name]
  /\ \E S \in SUBSET Names :
       CopyClosed(S) /\ stmts[i].dst \in S /\ Bounded(ts, S, ts[stmts[i].dst])

Tops(ts) == {i \in Copies : Top(i, ts)}

(***************************************************************************)
(* Every round but the last one finds another copy done.  Within a round,  *)
(* bounds hold on, a copy that was gone over has given the bound of one    *)
(* side to the other, and when every copy was done nothing changes.        *)
(***************************************************************************)
CountInv ==
  /\ phase = "copies" =>
       /\ Cardinality(Tops(before)) >= round - 1
       /\ \A S \in SUBSET Names, ty \in Ty :
            CopyClosed(S) /\ Bounded(before, S, ty) => Bounded(types, S, ty)
       /\ \A i \in Copies, S \in SUBSET Names :
            i < pos /\ CopyClosed(S) /\ stmts[i].dst \in S =>
              \A n \in {stmts[i].dst, stmts[i].e.l.name} :
                Bounded(before, S, before[n]) =>
                  types[stmts[i].dst] = before[n] /\ types[stmts[i].e.l.name] = before[n]
       /\ Tops(before) = Copies => types = before
  /\ phase = "address" => settled \/ Cardinality(Copies) >= MaxRounds

LEMMA MergeLeast == \A a, b, c \in Ty : Below(a, c) /\ Below(b, c) => Below(Merge(a, b), c)
BY DEF Below, Merge, Ty

\* The lattice is a chain: of any types one bounds the others.
LEMMA GreatestType ==
  ASSUME NEW T \in SUBSET Ty, T # {}
  PROVE  \E m \in T : \A t \in T : Below(t, m)
<1>1. CASE "ObjCId" \in T
  BY <1>1, ObjCIdIsTop
<1>2. CASE "ObjCId" \notin T /\ "Ptr" \in T
  BY <1>2 DEF Below, Ty
<1>3. CASE T \cap {"ObjCId", "Ptr"} = {} /\ "Double" \in T
  BY <1>3 DEF Below, Ty
<1>4. CASE T \cap {"ObjCId", "Ptr", "Double"} = {} /\ "Float" \in T
  BY <1>4 DEF Below, Ty
<1>5. CASE T \cap {"ObjCId", "Ptr", "Double", "Float"} = {} /\ "Int64" \in T
  BY <1>5 DEF Below, Ty
<1>6. CASE T \cap {"ObjCId", "Ptr", "Double", "Float", "Int64"} = {} /\ "Int32" \in T
  BY <1>6 DEF Below, Ty
<1>7. CASE T \subseteq {"Undefined"}
  BY <1>7 DEF Below, Ty
<1> QED
  BY <1>1, <1>2, <1>3, <1>4, <1>5, <1>6, <1>7 DEF Ty

LEMMA CopyEnds ==
  ASSUME TypesTypeOK, NEW i \in Copies
  PROVE  /\ i \in Nat /\ i <= Len(stmts)
         /\ stmts[i] \in Stmt /\ IsCopy(stmts[i])
         /\ stmts[i].dst \in Names /\ stmts[i].e.l.name \in Names
<1>1. stmts[i] \in Stmt /\ i \in 1 .. Len(stmts)
  BY ElementOfSeq, LenProperties DEF TypesTypeOK, Copies
<1> QED
  BY <1>1 DEF Copies, Stmt, Expr, Leaf

LEMMA CopiesFinite ==
  ASSUME TypesTypeOK
  PROVE  /\ IsFiniteSet(Copies) /\ Cardinality(Copies) \in Nat
         /\ \A ts : IsFiniteSet(Tops(ts)) /\ Cardinality(Tops(ts)) \in Nat
                      /\ Cardinality(Tops(ts)) <= Cardinality(Copies)
<1>1. Copies \in SUBSET (1 .. Len(stmts)) /\ Len(stmts) \in Nat
  BY LenProperties DEF TypesTypeOK, Copies
<1>2. IsFiniteSet(1 .. Len(stmts))
  BY <1>1, FS_Interval
<1>3. IsFiniteSet(Copies) /\ Cardinality(Copies) \in Nat
  BY <1>1, <1>2, FS_Subset, FS_CardinalityType
<1>4. \A ts : Tops(ts) \in SUBSET Copies
  BY DEF Tops
<1> QED
  BY <1>3, <1>4, FS_Subset, FS_CardinalityType

\* What a copy does: both sides get the merged type, nothing else changes.
LEMMA CopyEffect ==
  ASSUME NEW ts \in Typing, NEW s \in Stmt, IsCopy(s)
  PROVE  LET from == s.e.l.name
             t    == Merge(ts[s.dst], ts[from])
         IN  /\ s.dst \in Names /\ from \in Names
             /\ ts[s.dst] \in Ty /\ ts[from] \in Ty /\ t \in Ty
             /\ CopyTypes(s, ts)[s.dst] = t /\ CopyTypes(s, ts)[from] = t
             /\ \A n \in Names \ {s.dst, from} : CopyTypes(s, ts)[n] = ts[n]
<1> DEFINE from == s.e.l.name
           t == Merge(ts[s.dst], ts[from])
<1>1. s.dst \in Names /\ from \in Names
  BY DEF Stmt, Expr, Leaf
<1>2. ts[s.dst] \in Ty /\ ts[from] \in Ty /\ t \in Ty
  BY <1>1, MergeTyped DEF Typing
<1>3. Merge(ts[s.dst], t) = t /\ Merge(ts[from], t) = t /\ Merge(t, t) = t
  BY <1>2, MergeTyped, MergeAbove, BelowReflexive, MergeAbsorbs
<1> QED
  BY <1>1, <1>2, <1>3 DEF CopyTypes, Bump, Typing

\* A copy keeps the bounds of closed sets.
LEMMA CopyKeepsBounds ==
  ASSUME TypesTypeOK, NEW ts \in Typing, NEW i \in Copies,
         NEW S \in SUBSET Names, NEW ty \in Ty, CopyClosed(S), Bounded(ts, S, ty)
  PROVE  Bounded(CopyTypes(stmts[i], ts), S, ty)
<1> DEFINE s == stmts[i]
           from == s.e.l.name
<1>1. s \in Stmt /\ IsCopy(s)
  BY CopyEnds
<1>2. /\ s.dst \in Names /\ from \in Names /\ ts[s.dst] \in Ty /\ ts[from] \in Ty
      /\ CopyTypes(s, ts)[s.dst] = Merge(ts[s.dst], ts[from])
      /\ CopyTypes(s, ts)[from] = Merge(ts[s.dst], ts[from])
      /\ \A n \in Names \ {s.dst, from} : CopyTypes(s, ts)[n] = ts[n]
  BY <1>1, CopyEffect
<1>3. s.dst \in S <=> from \in S
  BY DEF CopyClosed
<1>4. ASSUME NEW n \in S PROVE Below(CopyTypes(s, ts)[n], ty)
  <2>1. CASE n \in {s.dst, from}
    <3>1. Below(ts[s.dst], ty) /\ Below(ts[from], ty)
      BY <1>3, <2>1 DEF Bounded
    <3> QED
      BY <1>2, <2>1, <3>1, MergeLeast
  <2>2. CASE n \notin {s.dst, from}
    BY <1>2, <2>2 DEF Bounded
  <2> QED
    BY <2>1, <2>2
<1> QED
  BY <1>4 DEF Bounded

(***************************************************************************)
(* Where a copy is not done there is one that one round will do: one side  *)
(* has the bound of everything around it and the other does not.           *)
(***************************************************************************)
LEMMA NextTop ==
  ASSUME TypesTypeOK, NEW ts \in Typing, NEW i \in Copies, ~Top(i, ts)
  PROVE  \E j \in Copies, S \in SUBSET Names :
           /\ CopyClosed(S) /\ stmts[j].dst \in S
           /\ \E n \in {stmts[j].dst, stmts[j].e.l.name} : Bounded(ts, S, ts[n])
           /\ ts[stmts[j].dst] # ts[stmts[j].e.l.name]
<1> DEFINE d == stmts[i].dst
           K == {n \in Names : \A S \in SUBSET Names : CopyClosed(S) /\ d \in S => n \in S}
           T == {ts[n] : n \in K}
<1>1. \A j \in Copies : stmts[j].dst \in Names /\ stmts[j].e.l.name \in Names
  BY CopyEnds
<1>2. d \in K /\ K \in SUBSET Names
  BY <1>1
<1>3. CopyClosed(K)
  <2> SUFFICES ASSUME NEW j \in Copies PROVE stmts[j].dst \in K <=> stmts[j].e.l.name \in K
    BY DEF CopyClosed
  <2>1. \A S \in SUBSET Names : CopyClosed(S) => (stmts[j].dst \in S <=> stmts[j].e.l.name \in S)
    BY DEF CopyClosed
  <2> QED
    BY <1>1, <2>1
<1>4. T \in SUBSET Ty /\ T # {}
  BY <1>2 DEF Typing
<1>5. PICK m \in T : \A t \in T : Below(t, m)
  BY <1>4, GreatestType
<1> DEFINE H == {n \in K : ts[n] = m}
<1>6. H # {} /\ H \in SUBSET Names /\ K \ H \in SUBSET Names
  BY <1>2, <1>5
<1>7. Bounded(ts, K, m)
  BY <1>5 DEF Bounded
<1>8. \A S \in SUBSET Names : CopyClosed(S) /\ d \in S => K \subseteq S
  OBVIOUS
<1>9. d \in Names /\ stmts[i].e.l.name \in K
  BY <1>1, <1>2, <1>3 DEF CopyClosed
<1> HIDE DEF K, T
<1>10. PICK j \in Copies : stmts[j].dst \in K /\ ~(stmts[j].dst \in H <=> stmts[j].e.l.name \in H)
  <2> SUFFICES ASSUME \A j \in Copies : stmts[j].dst \in K => (stmts[j].dst \in H <=> stmts[j].e.l.name \in H)
               PROVE  FALSE
    OBVIOUS
  <2>1. \A j \in Copies : stmts[j].dst \in K <=> stmts[j].e.l.name \in K
    BY <1>3 DEF CopyClosed
  <2>2. CASE d \in H
    <3>1. CopyClosed(H)
      BY <2>1 DEF CopyClosed
    <3>2. K \subseteq H
      BY <1>6, <1>8, <2>2, <3>1
    <3>3. ts[stmts[i].e.l.name] = m /\ ts[d] = m
      BY <1>9, <2>2, <3>2
    <3>4. Top(i, ts)
      BY <1>2, <1>3, <1>7, <3>3 DEF Top
    <3> QED
      BY <3>4
  <2>3. CASE d \notin H
    <3>1. CopyClosed(K \ H)
      BY <2>1 DEF CopyClosed
    <3>2. K \subseteq K \ H
      BY <1>2, <1>6, <1>8, <2>3, <3>1
    <3> QED
      BY <1>6, <3>2
  <2> QED
    BY <2>2, <2>3
<1>11. stmts[j].e.l.name \in K
  BY <1>3, <1>10 DEF CopyClosed
<1>12. /\ \E n \in {stmts[j].dst, stmts[j].e.l.name} : ts[n] = m
       /\ ts[stmts[j].dst] # ts[stmts[j].e.l.name]
  BY <1>10, <1>11
<1> QED
  BY <1>2, <1>3, <1>7, <1>10, <1>12

\* Tops stay, because bounds do and no type is taken back.
LEMMA TopsKept ==
  ASSUME TypesTypeOK, NEW ts \in Typing, NEW us \in Typing, Rises(ts, us),
         \A S \in SUBSET Names, ty \in Ty :
            CopyClosed(S) /\ Bounded(ts, S, ty) => Bounded(us, S, ty)
  PROVE  Tops(ts) \subseteq Tops(us)
<1> SUFFICES ASSUME NEW i \in Copies, Top(i, ts) PROVE Top(i, us)
  BY DEF Tops
<1> DEFINE d == stmts[i].dst
           from == stmts[i].e.l.name
<1>1. d \in Names /\ from \in Names
  BY CopyEnds
<1>2. ts[d] = ts[from] /\ ts[d] \in Ty /\ us[d] \in Ty /\ us[from] \in Ty
  BY <1>1 DEF Top, Typing
<1>3. PICK S \in SUBSET Names : CopyClosed(S) /\ d \in S /\ Bounded(ts, S, ts[d])
  BY DEF Top
<1>4. from \in S
  BY <1>3 DEF CopyClosed
<1>5. Bounded(us, S, ts[d])
  BY <1>2, <1>3
<1>6. Below(us[d], ts[d]) /\ Below(us[from], ts[d]) /\ Below(ts[d], us[d]) /\ Below(ts[from], us[from])
  BY <1>1, <1>3, <1>4, <1>5 DEF Bounded, Rises
<1>7. us[d] = ts[d] /\ us[from] = ts[d]
  BY <1>2, <1>6, BelowAntisymmetric
<1> QED
  BY <1>3, <1>5, <1>7 DEF Top

\* A round that has changed something has done another copy.
LEMMA RoundProgress ==
  ASSUME TypesTypeOK, RoundInv, CountInv, phase = "copies", pos > Len(stmts), types # before
  PROVE  Cardinality(Tops(types)) >= round
<1>0. types \in Typing /\ before \in Typing /\ round \in Nat
  BY MaxRoundsAssumption DEF TypesTypeOK, Typing
<1>1. /\ Cardinality(Tops(before)) >= round - 1
      /\ \A S \in SUBSET Names, ty \in Ty :
            CopyClosed(S) /\ Bounded(before, S, ty) => Bounded(types, S, ty)
      /\ \A i \in Copies, S \in SUBSET Names :
            i < pos /\ CopyClosed(S) /\ stmts[i].dst \in S =>
              \A n \in {stmts[i].dst, stmts[i].e.l.name} :
                Bounded(before, S, before[n]) =>
                  types[stmts[i].dst] = before[n] /\ types[stmts[i].e.l.name] = before[n]
      /\ Tops(before) # Copies
  BY DEF CountInv
<1>2. Tops(before) \subseteq Tops(types)
  BY <1>0, <1>1, TopsKept DEF RoundInv
<1>3. PICK i \in Copies : ~Top(i, before)
  BY <1>1 DEF Tops
<1>4. PICK j \in Copies, S \in SUBSET Names :
        /\ CopyClosed(S) /\ stmts[j].dst \in S
        /\ \E n \in {stmts[j].dst, stmts[j].e.l.name} : Bounded(before, S, before[n])
        /\ before[stmts[j].dst] # before[stmts[j].e.l.name]
  BY <1>0, <1>3, NextTop
<1>5. PICK n \in {stmts[j].dst, stmts[j].e.l.name} : Bounded(before, S, before[n])
  BY <1>4
<1>6. j < pos /\ n \in Names /\ before[n] \in Ty
  <2>1. j \in Nat /\ j <= Len(stmts) /\ Len(stmts) \in Nat /\ pos \in Nat /\ n \in Names
    BY <1>5, CopyEnds, LenProperties DEF TypesTypeOK
  <2> QED
    BY <1>0, <2>1 DEF Typing
<1>7. types[stmts[j].dst] = before[n] /\ types[stmts[j].e.l.name] = before[n]
  BY <1>1, <1>4, <1>5, <1>6
<1>8. Bounded(types, S, before[n])
  BY <1>1, <1>4, <1>5, <1>6
<1>9. j \in Tops(types)
  BY <1>4, <1>7, <1>8 DEF Tops, Top
<1>10. j \notin Tops(before)
  BY <1>4 DEF Tops, Top
<1>11. PICK A, B : A = Tops(before) /\ B = Tops(types)
  OBVIOUS
<1>12. IsFiniteSet(A) /\ IsFiniteSet(B) /\ Cardinality(A) \in Nat /\ Cardinality(B) \in Nat
  BY <1>11, CopiesFinite
<1>13. A \in SUBSET B /\ A # B
  BY <1>2, <1>9, <1>10, <1>11
<1>14. Cardinality(A) <= Cardinality(B) /\ Cardinality(A) # Cardinality(B)
  BY <1>12, <1>13, FS_Subset
<1> QED
  BY <1>0, <1>1, <1>11, <1>12, <1>14

\* The notions of this section depend on the statements only.
LEMMA StmtsKept ==
  ASSUME stmts' = stmts
  PROVE  /\ Copies' = Copies /\ \A S : CopyClosed(S)' = CopyClosed(S)
         /\ \A ts : Tops(ts)' = Tops(ts)
  BY DEF Copies, CopyClosed, Tops, Top, Bounded

LEMMA CountStep ==
  ASSUME TypesTypeOK, TypesTypeOK', RoundInv, AddressInv, CountInv, [TypesNext]_typeVars
  PROVE  CountInv'
<1>0. /\ types \in Typing /\ types' \in Typing /\ before \in Typing
      /\ Rises(types, types') /\ round \in Nat
  BY StepRises, MaxRoundsAssumption DEF TypesTypeOK, Typing
<1>s. /\ stmts' = stmts
      /\ Copies' = Copies /\ \A S : CopyClosed(S)' = CopyClosed(S)
      /\ \A ts : Tops(ts)' = Tops(ts)
  <2>1. stmts' = stmts
    BY DEF TypesNext, typeVars, input, InferStmt, CopyStmt, AddressStmt, Visit, StartRounds,
           NextRound, LastRound, TypeConditions
  <2> QED
    BY <2>1, StmtsKept
<1>b. PICK old \in Typing, new \in Typing : old = before /\ new = before'
  BY <1>0 DEF TypesTypeOK, Typing
<1>1. CASE InferStmt \/ (\E receiver \in BOOLEAN : TypeConditions(receiver))
  BY <1>1 DEF InferStmt, TypeConditions, Visit, EndOf, CountInv
<1>2. CASE StartRounds \/ NextRound
  <2>1. phase' = "copies" /\ before' = types /\ types' = types /\ pos' = 1
    BY <1>2 DEF StartRounds, NextRound, EndOf, RoundInv
  <2>2. Cardinality(Tops(types)) >= round' - 1
    <3>1. CASE StartRounds
      <4>1. round' = 1 /\ Cardinality(Tops(types)) \in Nat
        BY <3>1, CopiesFinite DEF StartRounds
      <4> QED
        BY <4>1
    <3>2. CASE NextRound
      <4>1. /\ round' = round + 1 /\ phase = "copies" /\ pos > Len(stmts) /\ types # before
        BY <3>2 DEF NextRound, MoreRounds, EndOf
      <4>2. Cardinality(Tops(types)) >= round /\ Cardinality(Tops(types)) \in Nat
        BY <4>1, RoundProgress, CopiesFinite
      <4> QED
        BY <1>0, <4>1, <4>2
    <3> QED
      BY <1>2, <3>1, <3>2
  <2>3. new = types /\ Tops(new)' = Tops(new)
    BY <1>b, <1>s, <2>1
  <2>4. Cardinality(Tops(before)') >= round' - 1
    BY <1>b, <2>2, <2>3
  <2>5. \A i \in Copies : ~(i < pos')
    BY <2>1, CopyEnds, LenProperties DEF Copies, TypesTypeOK
  <2>6. \A S, ty : Bounded(before, S, ty)' = Bounded(types, S, ty)' /\ before' = types'
    BY <2>1 DEF Bounded
  <2> QED
    BY <1>s, <2>1, <2>4, <2>5, <2>6 DEF CountInv
<1>3. CASE CopyStmt
  <2> DEFINE s == stmts[pos]
  <2>1. /\ phase = "copies" /\ phase' = "copies" /\ pos' = pos + 1 /\ pos <= Len(stmts)
        /\ before' = before /\ round' = round /\ types' = CopyTypes(s, types)
    BY <1>3 DEF CopyStmt, Visit
  <2>2. s \in Stmt /\ pos \in DOMAIN stmts /\ pos \in Nat
    BY <2>1, ElementOfSeq, LenProperties DEF TypesTypeOK
  <2>3. new = old /\ Tops(before)' = Tops(before)
    BY <1>b, <1>s, <2>1
  <2>4. ASSUME NEW S \in SUBSET Names, NEW ty \in Ty, CopyClosed(S), Bounded(types, S, ty)
        PROVE  Bounded(types', S, ty)
    <3>1. CASE IsCopy(s)
      BY <1>0, <2>1, <2>2, <2>4, <3>1, CopyKeepsBounds DEF Copies
    <3>2. CASE ~IsCopy(s)
      BY <2>1, <2>4, <3>2 DEF CopyTypes
    <3> QED
      BY <3>1, <3>2
  <2>5. ASSUME NEW S \in SUBSET Names, NEW ty \in Ty, CopyClosed(S), Bounded(before, S, ty)
        PROVE  Bounded(types, S, ty) /\ Bounded(types', S, ty)
    BY <2>1, <2>4, <2>5 DEF CountInv
  <2>6. ASSUME NEW i \in Copies, NEW S \in SUBSET Names, i < pos + 1, CopyClosed(S),
               stmts[i].dst \in S, NEW n \in {stmts[i].dst, stmts[i].e.l.name},
               Bounded(before, S, before[n])
        PROVE  types'[stmts[i].dst] = before[n] /\ types'[stmts[i].e.l.name] = before[n]
    <3> DEFINE d == stmts[i].dst
               from == stmts[i].e.l.name
    <3>1. /\ d \in Names /\ from \in Names /\ n \in Names /\ d \in S /\ from \in S
          /\ before[n] \in Ty /\ types[d] \in Ty /\ types[from] \in Ty
          /\ types'[d] \in Ty /\ types'[from] \in Ty /\ i \in Nat
      BY <1>0, <2>6, CopyEnds DEF Typing, CopyClosed
    <3>2. Below(types'[d], before[n]) /\ Below(types'[from], before[n])
      BY <2>5, <2>6, <3>1 DEF Bounded
    <3>3. CASE i < pos
      <4>1. types[d] = before[n] /\ types[from] = before[n]
        BY <2>1, <2>6, <3>3 DEF CountInv
      <4>2. Below(before[n], types'[d]) /\ Below(before[n], types'[from])
        BY <1>0, <3>1, <4>1 DEF Rises
      <4> QED
        BY <3>1, <3>2, <4>2, BelowAntisymmetric
    <3>4. CASE i = pos
      <4>1. IsCopy(s)
        BY <2>6, <3>4 DEF Copies
      <4>2. types'[d] = Merge(types[d], types[from]) /\ types'[from] = Merge(types[d], types[from])
        BY <1>0, <2>1, <2>2, <3>4, <4>1, CopyEffect
      <4>3. Below(before[n], types[n])
        BY <2>1, <3>1 DEF RoundInv, Rises
      <4>4. Below(types[n], types'[d]) /\ types[n] \in Ty
        BY <2>6, <3>1, <4>2, MergeAbove
      <4>5. Below(before[n], types'[d])
        BY <3>1, <4>3, <4>4, BelowTransitive
      <4> QED
        BY <3>1, <3>2, <4>2, <4>5, BelowAntisymmetric
    <3> QED
      BY <2>2, <2>6, <3>1, <3>3, <3>4
  <2>7. ASSUME Tops(before) = Copies PROVE types' = before
    <3>1. types = before
      BY <2>1, <2>7 DEF CountInv
    <3>2. CASE IsCopy(s)
      <4>1. types[s.dst] = types[s.e.l.name]
        BY <2>2, <2>7, <3>1, <3>2 DEF Tops, Top, Copies
      <4>2. /\ s.dst \in Names /\ s.e.l.name \in Names /\ types[s.dst] \in Ty
            /\ types'[s.dst] = Merge(types[s.dst], types[s.dst])
            /\ types'[s.e.l.name] = Merge(types[s.dst], types[s.dst])
            /\ \A n \in Names \ {s.dst, s.e.l.name} : types'[n] = types[n]
        BY <1>0, <2>1, <2>2, <3>2, <4>1, CopyEffect
      <4>3. Merge(types[s.dst], types[s.dst]) = types[s.dst]
        BY DEF Merge
      <4>4. \A n \in Names : types'[n] = types[n]
        BY <4>1, <4>2, <4>3
      <4> QED
        BY <1>0, <3>1, <4>4 DEF Typing
    <3>3. CASE ~IsCopy(s)
      BY <2>1, <3>1, <3>3 DEF CopyTypes
    <3> QED
      BY <3>2, <3>3
  <2>8. Cardinality(Tops(before)) >= round - 1
    BY <2>1 DEF CountInv
  <2>9. \A S, ty : Bounded(before, S, ty)' = Bounded(before, S, ty)
                   /\ Bounded(types, S, ty)' = Bounded(types', S, ty)
    BY <2>1 DEF Bounded
  <2>10. \A S \in SUBSET Names, ty \in Ty :
            CopyClosed(S)' /\ Bounded(before, S, ty)' => Bounded(types, S, ty)'
    BY <1>s, <2>5, <2>9
  <2>11. \A i \in Copies', S \in SUBSET Names :
            i < pos' /\ CopyClosed(S)' /\ stmts'[i].dst \in S =>
              \A n \in {stmts'[i].dst, stmts'[i].e.l.name} :
                Bounded(before', S, before'[n]) =>
                  types'[stmts'[i].dst] = before'[n] /\ types'[stmts'[i].e.l.name] = before'[n]
    BY <1>s, <2>1, <2>6
  <2>12. Cardinality(Tops(before)') >= round' - 1 /\ (Tops(before)' = Copies' => types' = before')
    BY <1>s, <2>1, <2>3, <2>7, <2>8
  <2> QED
    BY <2>1, <2>10, <2>11, <2>12 DEF CountInv
<1>4. CASE LastRound
  <2>1. /\ phase = "copies" /\ pos > Len(stmts) /\ phase' = "address"
        /\ settled' = (types = before) /\ ~(types # before /\ round < MaxRounds)
    BY <1>4 DEF LastRound, EndOf, MoreRounds
  <2>2. ASSUME types # before PROVE Cardinality(Copies) >= MaxRounds
    <3>1. round >= MaxRounds
      BY <1>0, <2>1, <2>2, MaxRoundsAssumption
    <3>2. Cardinality(Tops(types)) >= round
      BY <2>1, <2>2, RoundProgress
    <3>3. /\ Cardinality(Tops(types)) \in Nat /\ Cardinality(Copies) \in Nat
          /\ Cardinality(Tops(types)) <= Cardinality(Copies)
      BY CopiesFinite
    <3> QED
      BY <1>0, <3>1, <3>2, <3>3, MaxRoundsAssumption
  <2> QED
    BY <1>s, <2>1, <2>2 DEF CountInv
<1>5. CASE AddressStmt
  BY <1>s, <1>5 DEF AddressStmt, Visit, CountInv
<1>6. CASE UNCHANGED typeVars
  <2>1. UNCHANGED <<phase, pos, types, round, before, settled>>
    BY <1>6 DEF typeVars
  <2>2. \A S, ty : Bounded(before, S, ty)' = Bounded(before, S, ty)
                   /\ Bounded(types, S, ty)' = Bounded(types, S, ty)
    BY <2>1 DEF Bounded
  <2>3. Tops(before)' = Tops(before)
    BY <1>s, <1>b, <2>1
  <2> QED
    BY <1>s, <2>1, <2>2, <2>3 DEF CountInv
<1> QED
  BY <1>1, <1>2, <1>3, <1>4, <1>5, <1>6 DEF TypesNext

(***************************************************************************)
(* A function with fewer copies than rounds is never left half way, for    *)
(* every order of its copies: every round but the last gives the final     *)
(* type to both sides of a copy that did not have it.                      *)
(***************************************************************************)
THEOREM RoundsSuffice == TypesSpec => []SettlesInTime
<1> DEFINE Inv == AddressInv /\ RoundInv /\ CountInv
<1>1. ASSUME TypesInit
      PROVE  Inv
  <2>1. \A i \in DOMAIN stmts : ~(i < pos)
    BY <1>1, InitTyped, LenProperties DEF TypesInit, TypesTypeOK
  <2> QED
    BY <1>1, <2>1 DEF TypesInit, AddressInv, RoundInv, CountInv
<1>2. TypesTypeOK /\ TypesTypeOK' /\ Inv /\ [TypesNext]_typeVars => Inv'
  BY StepRises, AddressStep, RoundStep, CountStep
<1>3. TypesTypeOK /\ Inv => SettlesInTime
  <2> SUFFICES ASSUME TypesTypeOK, Inv, phase = "address", Cardinality(Copies) < MaxRounds
               PROVE  settled
    BY DEF SettlesInTime
  <2>1. Cardinality(Copies) \in Nat
    BY CopiesFinite
  <2> QED
    BY <2>1, MaxRoundsAssumption DEF CountInv
<1> QED
  BY <1>1, <1>2, <1>3, TypesTypeCorrect, PTL DEF TypesSpec

-----------------------------------------------------------------------------
(* Types and the steps before the flows *)

Sources == Nat \ {0}

FlowTypeOK ==
  /\ TypesTypeOK
  /\ tainted \in [Names -> Nat] /\ direct \in [Names -> SUBSET Sources]
  /\ real \in [Names -> SUBSET Sources] /\ held \in [Names -> SUBSET Sources]
  /\ \A n \in Names : direct[n] \subseteq real[n]

\* Nothing has been found or run before the flows are looked for.
Untouched ==
  /\ \A n \in Names : tainted[n] = Clean /\ direct[n] = {}
  /\ findings = {} /\ leaks = {}

\* A step is one of typing, of starting or of one statement.
LEMMA StepKinds ==
  ASSUME [Next]_vars
  PROVE  \/ [TypesNext]_typeVars /\ UNCHANGED <<tainted, findings, real, held, direct, leaks, skipped>>
                /\ (phase' = "flows" => phase = "flows" /\ pos' = pos)
         \/ StartFlows \/ FlowStmt
  BY DEF Next, vars, flowVars, runVars, typeVars, TypesNext, InferStmt, CopyStmt, AddressStmt, Visit,
         EndOf, StartRounds, NextRound, LastRound, TypeConditions

LEMMA NextKeepsStmts == [Next]_vars => stmts' = stmts
  BY DEF Next, vars, typeVars, input, TypesNext, InferStmt, CopyStmt, AddressStmt, Visit,
         StartRounds, NextRound, LastRound, TypeConditions, StartFlows, FlowStmt

LEMMA StmtAt ==
  ASSUME TypesTypeOK, FlowStmt
  PROVE  /\ pos \in DOMAIN stmts /\ pos \in Sources
         /\ stmts[pos] \in Stmt /\ stmts[pos].dst \in Names /\ stmts[pos].e \in Expr
         /\ pos' = pos + 1 /\ stmts' = stmts /\ phase = "flows" /\ phase' = "flows"
<1>1. pos \in 1 .. Len(stmts) /\ stmts[pos] \in Stmt
  BY ElementOfSeq DEF FlowStmt, TypesTypeOK
<1>2. pos \in DOMAIN stmts
  BY <1>1, LenProperties DEF TypesTypeOK
<1> QED
  BY <1>1, <1>2 DEF FlowStmt, Stmt, Sources, input

LEMMA NamesOfExpr ==
  ASSUME NEW e \in Expr
  PROVE  /\ ExprNames(e) \subseteq Names /\ SinkNames(e) \subseteq ExprNames(e)
         /\ \A l \in Given(e) : l.k = "Name" => l.name \in SinkNames(e)
         /\ \A n \in SinkNames(e) : \E l \in Given(e) : l.k = "Name" /\ l.name = n
         /\ \A n \in ExprNames(e) : \E l \in Operands(e) : l.k = "Name" /\ l.name = n
         /\ \A l \in Operands(e) : l \in Leaf
<1>1. e.l \in Leaf /\ e.r \in Leaf
  BY DEF Expr
<1>2. NameOf(e.l) \subseteq Names /\ NameOf(e.r) \subseteq Names
  BY <1>1 DEF NameOf, Leaf
<1>3. ExprNames(e) \subseteq Names
  BY <1>2 DEF ExprNames
<1>4. SinkNames(e) \subseteq ExprNames(e)
  BY DEF SinkNames, ExprNames
<1>5. \A n \in ExprNames(e) : \E l \in Operands(e) : l.k = "Name" /\ l.name = n
  BY DEF ExprNames, Operands, NameOf
<1>6. \A l \in Operands(e) : l \in Leaf
  BY <1>1 DEF Operands
<1>7. /\ \A l \in Given(e) : l.k = "Name" => l.name \in SinkNames(e)
      /\ \A n \in SinkNames(e) : \E l \in Given(e) : l.k = "Name" /\ l.name = n
  <2>1. CASE IsCall(e) /\ e.fn = "sink"
    <3>1. Given(e) = {e[port] : port \in {"l", "r"}}
      BY <2>1 DEF Given
    <3>2. Given(e) = {e.l, e.r}
      BY <3>1
    <3>3. SinkNames(e) = NameOf(e.l) \cup NameOf(e.r)
      BY <2>1 DEF SinkNames, ExprNames, IsCall
    <3> QED
      BY <3>2, <3>3 DEF NameOf
  <2>2. CASE IsCall(e) /\ e.fn = "sink first"
    <3>1. Given(e) = {e[port] : port \in {"l"}}
      BY <2>2 DEF Given
    <3>2. Given(e) = {e.l}
      BY <3>1
    <3>3. SinkNames(e) = NameOf(e.l)
      BY <2>2 DEF SinkNames
    <3> QED
      BY <3>2, <3>3 DEF NameOf
  <2>3. CASE ~(IsCall(e) /\ e.fn \in {"sink", "sink first"})
    <3>1. Given(e) = {e[port] : port \in {}}
      BY <2>3 DEF Given
    <3>2. Given(e) = {}
      BY <3>1
    <3>3. SinkNames(e) = {}
      BY <2>3 DEF SinkNames
    <3> QED
      BY <3>2, <3>3
  <2> QED
    BY <2>1, <2>2, <2>3
<1> QED
  BY <1>3, <1>4, <1>5, <1>6, <1>7

-----------------------------------------------------------------------------
(* What one statement does to the taint *)

\* The taint of an expression is that of one of its tainted names, if any.
LEMMA TaintOfExprFacts ==
  ASSUME NEW map \in [Names -> Nat], NEW e \in Expr
  PROVE  /\ TaintOfExpr(e, map) \in Nat
         /\ TaintOfExpr(e, map) # Clean =>
              \E n \in ExprNames(e) : TaintOfExpr(e, map) = map[n]
         /\ TaintOfExpr(e, map) = Clean => \A n \in ExprNames(e) : map[n] = Clean
<1> DEFINE left == {map[n] : n \in NameOf(e.l)} \ {Clean}
           all  == {map[n] : n \in ExprNames(e)} \ {Clean}
           some == IF left # {} THEN left ELSE all
<1>1. TaintOfExpr(e, map) = IF all = {} THEN Clean ELSE CHOOSE t \in some : TRUE
  BY DEF TaintOfExpr
<1>2. left \subseteq all /\ some \subseteq all
  BY DEF ExprNames
<1>3. CASE all = {}
  <2>1. \A n \in ExprNames(e) : map[n] = Clean
    BY <1>3
  <2>2. TaintOfExpr(e, map) = Clean /\ Clean \in Nat
    BY <1>1, <1>3 DEF Clean
  <2> QED
    BY <2>1, <2>2
<1>4. CASE all # {}
  <2>1. some # {}
    BY <1>4
  <2>2. TaintOfExpr(e, map) \in all
    <3> HIDE DEF some, all, left
    <3> QED
      BY <1>1, <1>2, <1>4, <2>1
  <2>3. all \subseteq Nat
    BY NamesOfExpr
  <2> QED
    BY <2>2, <2>3
<1> QED
  BY <1>3, <1>4

\* Only the name assigned changes its taint.  It is then that of a name in the
\* expression, the statement itself if that is a source, or what it was.
LEMMA TaintFacts ==
  ASSUME TypesTypeOK, FlowStmt, NEW map \in [Names -> Nat],
         NEW s, s = stmts[pos]
  PROVE  /\ Taint(s, map) \in [Names -> Nat]
         /\ \A n \in Names : (s.op = "name" /\ n = s.dst) \/ Taint(s, map)[n] = map[n]
         /\ \A n \in Names : map[n] # Clean => Taint(s, map)[n] # Clean
         /\ s.op = "name" =>
              /\ IsSource(s.e) => Taint(s, map)[s.dst] # Clean
              /\ \A n \in ExprNames(s.e) : map[n] # Clean => Taint(s, map)[s.dst] # Clean
              /\ s.dst \notin ExprNames(s.e) /\ map[s.dst] = Clean =>
                   \/ Taint(s, map)[s.dst] = Clean
                   \/ Taint(s, map)[s.dst] = pos /\ IsSource(s.e)
                   \/ \E n \in ExprNames(s.e) : map[n] # Clean /\ Taint(s, map)[s.dst] = map[n]
<1> DEFINE own == [map EXCEPT ![s.dst] = IF IsSource(s.e) THEN pos ELSE @]
           t   == TaintOfExpr(s.e, own)
<1>1. s \in Stmt /\ s.dst \in Names /\ s.e \in Expr /\ pos \in Nat /\ pos # Clean
  BY StmtAt DEF Sources, Clean
<1>2. CASE s.op # "name"
  <2>1. Taint(s, map) = map
    BY <1>2 DEF Taint
  <2> QED
    BY <1>2, <2>1
<1>3. CASE s.op = "name"
  <2>1. /\ own \in [Names -> Nat]
        /\ \A n \in Names : n # s.dst => own[n] = map[n]
        /\ own[s.dst] = IF IsSource(s.e) THEN pos ELSE map[s.dst]
    BY <1>1
  <2>2. /\ t \in Nat
        /\ t # Clean => \E n \in ExprNames(s.e) : t = own[n]
        /\ t = Clean => \A n \in ExprNames(s.e) : own[n] = Clean
    BY <1>1, <2>1, TaintOfExprFacts
  <2>3. Taint(s, map) = IF t = Clean THEN own ELSE [own EXCEPT ![s.dst] = t]
    BY <1>3 DEF Taint
  <2> HIDE DEF own, t
  <2>4. PICK us : us = Taint(s, map)
    OBVIOUS
  <2>5. /\ us \in [Names -> Nat]
        /\ \A n \in Names : n # s.dst => us[n] = map[n]
        /\ us[s.dst] = IF t = Clean THEN own[s.dst] ELSE t
    BY <1>1, <2>1, <2>2, <2>3, <2>4
  <2>6. \A n \in Names : map[n] # Clean => own[n] # Clean
    BY <1>1, <2>1
  <2>7. \A n \in Names : map[n] # Clean => us[n] # Clean
    BY <2>5, <2>6
  <2>8. IsSource(s.e) => us[s.dst] # Clean
    BY <1>1, <2>1, <2>5
  <2>9. ASSUME NEW n \in ExprNames(s.e), map[n] # Clean PROVE us[s.dst] # Clean
    <3>1. own[n] # Clean
      BY <1>1, <2>6, <2>9, NamesOfExpr
    <3> QED
      BY <2>2, <2>5, <3>1
  <2>10. ASSUME s.dst \notin ExprNames(s.e), map[s.dst] = Clean, us[s.dst] # Clean
         PROVE  \/ us[s.dst] = pos /\ IsSource(s.e)
                \/ \E n \in ExprNames(s.e) : map[n] # Clean /\ us[s.dst] = map[n]
    <3>1. CASE t = Clean
      BY <2>1, <2>5, <2>10, <3>1
    <3>2. CASE t # Clean
      <4>1. PICK n \in ExprNames(s.e) : t = own[n]
        BY <2>2, <3>2
      <4>2. n \in Names /\ n # s.dst
        BY <1>1, <2>10, <4>1, NamesOfExpr
      <4> QED
        BY <2>1, <2>5, <3>2, <4>1, <4>2
    <3> QED
      BY <3>1, <3>2
  <2>11. s.dst \notin ExprNames(s.e) /\ map[s.dst] = Clean =>
           \/ us[s.dst] = Clean
           \/ us[s.dst] = pos /\ IsSource(s.e)
           \/ \E n \in ExprNames(s.e) : map[n] # Clean /\ us[s.dst] = map[n]
    BY <2>10
  <2>12. \A n \in Names : (s.op = "name" /\ n = s.dst) \/ us[n] = map[n]
    BY <1>3, <2>5
  <2>13. us \in [Names -> Nat]
    BY <2>5
  <2>14. \A n \in ExprNames(s.e) : map[n] # Clean => us[s.dst] # Clean
    BY <2>9
  <2> QED
    BY <2>4, <2>7, <2>8, <2>11, <2>12, <2>13, <2>14
<1> QED
  BY <1>2, <1>3

LEMMA DerivesTyped ==
  ASSUME FlowTypeOK, FlowStmt
  PROVE  /\ Derives(stmts[pos].e) \in SUBSET Sources
         /\ ByNames(stmts[pos].e) \subseteq Derives(stmts[pos].e)
<1> DEFINE e == stmts[pos].e
<1>1. /\ ExprNames(e) \subseteq Names /\ pos \in Sources /\ \A l \in Operands(e) : l \in Leaf
      /\ \A n \in ExprNames(e) : \E l \in Operands(e) : l.k = "Name" /\ l.name = n
  BY StmtAt, NamesOfExpr DEF FlowTypeOK
<1>2. \A l \in Operands(e) : Value(l) \subseteq Sources
  BY <1>1 DEF FlowTypeOK, Value, Leaf
<1>3. UNION {Value(l) : l \in Operands(e)} \subseteq Sources
  BY <1>2
<1>4. Own(e) \subseteq Sources
  BY <1>1 DEF Own
<1>5. Derives(e) \subseteq Sources
  BY <1>3, <1>4 DEF Derives
<1>6. ASSUME NEW p \in ByNames(e) PROVE p \in Derives(e)
  <2>1. CASE p \in Own(e)
    BY <2>1 DEF Derives
  <2>2. CASE p \notin Own(e)
    <3>1. PICK n \in ExprNames(e) : p \in direct[n]
      BY <1>6, <2>2 DEF ByNames
    <3>2. PICK l \in Operands(e) : l.k = "Name" /\ l.name = n
      BY <1>1
    <3>3. n \in Names /\ direct[n] \subseteq real[n] /\ Value(l) = real[n]
      BY <1>1, <3>2 DEF FlowTypeOK, Value
    <3> QED
      BY <3>1, <3>3 DEF Derives
  <2> QED
    BY <2>1, <2>2
<1> QED
  BY <1>5, <1>6

LEMMA FlowStepTyped ==
  ASSUME FlowTypeOK, [Next]_vars
  PROVE  FlowTypeOK'
<1>1. CASE [TypesNext]_typeVars /\ UNCHANGED <<tainted, findings, real, held, direct, leaks, skipped>>
  BY <1>1, StepRises DEF FlowTypeOK
<1>2. CASE StartFlows
  BY <1>2 DEF StartFlows, FlowTypeOK, TypesTypeOK, input, flowVars, runVars
<1>3. CASE FlowStmt
  <2>1. TypesTypeOK'
    BY <1>3 DEF FlowStmt, FlowTypeOK, TypesTypeOK, input
  <2>2. tainted' \in [Names -> Nat]
    BY <1>3, TaintFacts DEF FlowStmt, Analyze, FlowTypeOK
  <2>3. /\ Derives(stmts[pos].e) \in SUBSET Sources /\ stmts[pos].dst \in Names
        /\ ByNames(stmts[pos].e) \subseteq Derives(stmts[pos].e)
        /\ direct \in [Names -> SUBSET Sources] /\ real \in [Names -> SUBSET Sources]
        /\ held \in [Names -> SUBSET Sources] /\ \A n \in Names : direct[n] \subseteq real[n]
    BY <1>3, StmtAt, DerivesTyped DEF FlowTypeOK
  <2>4. CASE Skip
    BY <2>1, <2>2, <2>3, <2>4 DEF Skip, FlowTypeOK
  <2>5. CASE Run(stmts[pos])
    <3>1. direct' \in [Names -> SUBSET Sources]
      BY <2>3, <2>5 DEF Run
    <3>2. real' \in [Names -> SUBSET Sources] /\ held' \in [Names -> SUBSET Sources]
      BY <2>3, <2>5 DEF Run
    <3>3. \A n \in Names : direct'[n] \subseteq real'[n]
      BY <2>3, <2>5 DEF Run
    <3> QED
      BY <2>1, <2>2, <3>1, <3>2, <3>3 DEF FlowTypeOK
  <2> QED
    BY <1>3, <2>4, <2>5 DEF FlowStmt
<1> QED
  BY <1>1, <1>2, <1>3, StepKinds

LEMMA FlowInit == Init => FlowTypeOK /\ Untouched
<1>1. Init => TypesTypeOK
  BY InitTyped DEF Init
<1> QED
  BY <1>1 DEF Init, FlowTypeOK, Untouched, Clean

LEMMA FlowTyped == Spec => []FlowTypeOK
BY FlowInit, FlowStepTyped, PTL DEF Spec

(***************************************************************************)
(* What is proved of the types holds of this specification, too, which     *)
(* goes on when they are known: looking for flows leaves the types alone.  *)
(***************************************************************************)
THEOREM TypedForFlows == Spec => [](CopiesAgree /\ SettlesInTime) /\ TypesOnlyRise
<1> DEFINE Inv == phase # "flows" => AddressInv /\ RoundInv /\ CountInv
<1>1. ASSUME Init PROVE Inv
  <2>1. \A i \in DOMAIN stmts : ~(i < pos)
    BY <1>1, InitTyped, LenProperties DEF Init, TypesInit, TypesTypeOK
  <2> QED
    BY <1>1, <2>1 DEF Init, TypesInit, AddressInv, RoundInv, CountInv
<1>2. ASSUME FlowTypeOK, FlowTypeOK', Inv, [Next]_vars PROVE Inv'
  <2>1. CASE StartFlows \/ FlowStmt
    BY <2>1 DEF StartFlows, FlowStmt
  <2>2. CASE phase = "flows" /\ [TypesNext]_typeVars
    <3>1. phase' = "flows"
      BY <2>2 DEF typeVars, TypesNext, InferStmt, CopyStmt, AddressStmt, Visit, EndOf, StartRounds,
             NextRound, LastRound, TypeConditions
    <3> QED
      BY <3>1
  <2>3. CASE phase # "flows" /\ [TypesNext]_typeVars
    BY <1>2, <2>3, StepRises, AddressStep, RoundStep, CountStep DEF FlowTypeOK
  <2> QED
    BY <1>2, <2>1, <2>2, <2>3, StepKinds
<1>3. FlowTypeOK /\ Inv => CopiesAgree /\ SettlesInTime
  <2>1. phase = "address" /\ FlowTypeOK => Cardinality(Copies) \in Nat /\ MaxRounds \in Nat
    BY CopiesFinite, MaxRoundsAssumption DEF FlowTypeOK
  <2> QED
    BY <2>1, RoundInvImplies DEF SettlesInTime, CountInv, CopiesAgree
<1>4. FlowTypeOK /\ [Next]_vars => [\A n \in Names : Below(types[n], types'[n])]_typeVars
  <2> SUFFICES ASSUME FlowTypeOK, [Next]_vars PROVE \A n \in Names : Below(types[n], types'[n])
    OBVIOUS
  <2>1. CASE [TypesNext]_typeVars
    BY <2>1, StepRises DEF Rises, FlowTypeOK
  <2>2. CASE StartFlows \/ FlowStmt
    BY <2>2, BelowReflexive DEF StartFlows, FlowStmt, FlowTypeOK, TypesTypeOK
  <2> QED
    BY <2>1, <2>2, StepKinds
<1> QED
  BY <1>1, <1>2, <1>3, <1>4, FlowTyped, PTL DEF Spec, TypesOnlyRise

-----------------------------------------------------------------------------
(* No flow by names is missed *)

(***************************************************************************)
(* A name whose value derives from a source by names alone is tainted: the *)
(* analysis reads every statement the run comes by, and what the run skips *)
(* can only taint more.                                                    *)
(***************************************************************************)
CoverInv ==
  /\ \A n \in Names : direct[n] # {} => tainted[n] # Clean
  /\ FlowsFound

LEMMA CoverStep ==
  ASSUME FlowTypeOK, CoverInv, [Next]_vars
  PROVE  CoverInv'
<1>1. CASE UNCHANGED <<tainted, findings, real, held, direct, leaks>>
  BY <1>1, NextKeepsStmts DEF CoverInv, FlowsFound, Found
<1>2. CASE FlowStmt
  <2> DEFINE s == stmts[pos]
  <2>1. /\ tainted \in [Names -> Nat] /\ TypesTypeOK
        /\ direct \in [Names -> SUBSET Sources]
    BY DEF FlowTypeOK
  <2>2. /\ s \in Stmt /\ s.dst \in Names /\ s.e \in Expr /\ stmts' = stmts
        /\ ExprNames(s.e) \subseteq Names /\ SinkNames(s.e) \subseteq ExprNames(s.e)
        /\ \A l \in Given(s.e) : l.k = "Name" => l.name \in SinkNames(s.e)
    BY <1>2, <2>1, StmtAt, NamesOfExpr
  <2>3. /\ tainted' = Taint(s, tainted)
        /\ findings' = findings \cup Findings(s, tainted')
    BY <1>2 DEF FlowStmt, Analyze
  <2>4. /\ \A n \in Names : tainted[n] # Clean => tainted'[n] # Clean
        /\ s.op = "name" =>
             /\ IsSource(s.e) => tainted'[s.dst] # Clean
             /\ \A n \in ExprNames(s.e) : tainted[n] # Clean => tainted'[s.dst] # Clean
    BY <1>2, <2>1, <2>3, TaintFacts
  <2>5. Found \subseteq Found'
    BY <2>3 DEF Found
  <2>6. CASE Skip
    BY <2>2, <2>4, <2>5, <2>6 DEF Skip, CoverInv, FlowsFound
  <2>7. CASE Run(s)
    <3>1. /\ direct' = IF s.op = "name" THEN [direct EXCEPT ![s.dst] = ByNames(s.e)] ELSE direct
          /\ leaks' = leaks \cup {Leak(pos, l) : l \in {m \in Given(s.e) : Value(m) # {}}}
      BY <2>7 DEF Run
    <3>2. ASSUME NEW n \in Names, direct'[n] # {} PROVE tainted'[n] # Clean
      <4>1. CASE s.op = "name" /\ n = s.dst
        <5>1. ByNames(s.e) # {}
          BY <2>1, <2>2, <3>1, <3>2, <4>1
        <5>2. IsSource(s.e) \/ \E m \in ExprNames(s.e) : direct[m] # {}
          BY <5>1 DEF ByNames, Own
        <5> QED
          BY <2>2, <2>4, <4>1, <5>2 DEF CoverInv
      <4>2. CASE ~(s.op = "name" /\ n = s.dst)
        <5>1. direct'[n] = direct[n]
          BY <2>1, <2>2, <3>1, <4>2
        <5> QED
          BY <2>4, <3>2, <5>1 DEF CoverInv
      <4> QED
        BY <4>1, <4>2
    <3>3. ASSUME NEW n \in SinkNames(s.e), direct[n] # {}, s.op \notin {"return", "address"}
          PROVE  [at |-> pos, name |-> n] \in Found'
      <4>1. n \in SinkNames(s.e) /\ n \in Names
        BY <2>2, <3>3
      <4>2. tainted'[n] # Clean
        BY <2>4, <3>3, <4>1 DEF CoverInv
      <4>3. s.op \in Searched
        BY <2>2, <3>3 DEF Stmt, Searched
      <4>4. Finding(pos, n, tainted'[n]) \in findings'
        BY <2>3, <4>1, <4>2, <4>3 DEF Findings
      <4> QED
        BY <4>4 DEF Found, Finding
    <3>4. ASSUME NEW k \in leaks', k.direct, stmts[k.at].op \notin {"return", "address"}
          PROVE  [at |-> k.at, name |-> k.given.name] \in Found'
      <4>1. CASE k \in leaks
        BY <2>5, <3>4, <4>1 DEF CoverInv, FlowsFound
      <4>2. CASE k \notin leaks
        <5>1. PICK l \in Given(s.e) : k = Leak(pos, l)
          BY <3>1, <4>2
        <5>2. k.at = pos /\ k.given = l /\ l.k = "Name" /\ direct[l.name] # {}
          BY <3>4, <5>1 DEF Leak
        <5>3. l.name \in SinkNames(s.e)
          BY <2>2, <5>2
        <5> QED
          BY <3>3, <3>4, <5>2, <5>3
      <4> QED
        BY <4>1, <4>2
    <3> QED
      BY <2>2, <3>2, <3>4 DEF CoverInv, FlowsFound
  <2> QED
    BY <1>2, <2>6, <2>7 DEF FlowStmt
<1> QED
  BY <1>1, <1>2, StepKinds DEF StartFlows, flowVars, runVars

(***************************************************************************)
(* No flow by names is missed, for every function and every path that only *)
(* branches forward: a sink that is given a value that derives from a      *)
(* source, and has come from name to name, is reported with the name that  *)
(* carried it there.  Of a value that was in a register on the way nothing *)
(* is said; the analysis does not follow it.                               *)
(***************************************************************************)
THEOREM AllFlowsFound == Spec => []FlowsFound
<1>1. Init => CoverInv
  BY FlowInit DEF Untouched, CoverInv, FlowsFound
<1>2. CoverInv => FlowsFound
  BY DEF CoverInv
<1> QED
  BY <1>1, <1>2, CoverStep, FlowTyped, PTL DEF Spec

-----------------------------------------------------------------------------
(* Nothing is made up *)

\* The statements before the next one in which n is assigned.
Assigned(n) == \E i \in DOMAIN stmts : i < pos /\ stmts[i].op = "name" /\ stmts[i].dst = n

Leaked(at, n) == \E k \in leaks : k.at = at /\ k.given.k = "Name" /\ k.given.name = n

\* A finding is about a name of its statement, and holds in the run.
Holds(f) ==
  /\ f.at \in DOMAIN stmts /\ f.at < pos /\ f.name \in ExprNames(stmts[f.at].e)
  /\ f.source \in direct[f.name] /\ Leaked(f.at, f.name)

(***************************************************************************)
(* When nothing is skipped and every name is assigned once, the taint of a *)
(* name is one of the sources its value derives from.  A name that is not  *)
(* assigned yet is clean, so the taint that an assignment leaves alone is  *)
(* none; and a name is not assigned after it was read, so what a finding   *)
(* said stays true.                                                        *)
(***************************************************************************)
RealInv ==
  /\ phase # "flows" => Untouched
  /\ AssignedOnce /\ ~skipped =>
       /\ \A n \in Names : tainted[n] # Clean => tainted[n] \in direct[n] /\ Assigned(n)
       /\ \A f \in findings : Holds(f)

LEMMA RealStep ==
  ASSUME FlowTypeOK, RealInv, [Next]_vars
  PROVE  RealInv'
<1>1. CASE /\ UNCHANGED <<tainted, findings, real, held, direct, leaks, skipped>>
           /\ phase' = "flows" => phase = "flows" /\ pos' = pos
  <2>1. CASE phase = "flows" /\ phase' = "flows"
    BY <1>1, <2>1, NextKeepsStmts DEF RealInv, AssignedOnce, Assigned, Holds, Leaked
  <2>2. CASE phase' # "flows"
    <3>1. phase # "flows"
      BY <2>2 DEF Next, vars, typeVars, TypesNext, InferStmt, CopyStmt, AddressStmt, Visit, EndOf,
             StartRounds, NextRound, LastRound, TypeConditions, StartFlows, FlowStmt
    <3>2. Untouched
      BY <3>1 DEF RealInv
    <3> QED
      BY <1>1, <3>2 DEF RealInv, Untouched
  <2> QED
    BY <1>1, <2>1, <2>2
<1>2. CASE StartFlows
  <2>1. Untouched /\ UNCHANGED <<tainted, findings, real, held, direct, leaks, skipped>> /\ phase' = "flows"
    BY <1>2 DEF StartFlows, RealInv, flowVars, runVars
  <2> QED
    BY <2>1 DEF RealInv, Untouched
<1>3. CASE FlowStmt
  <2> DEFINE s == stmts[pos]
  <2>1. phase' = "flows" /\ stmts' = stmts /\ pos' = pos + 1
    BY <1>3, StmtAt DEF FlowTypeOK
  <2>2. CASE Skip
    BY <2>1, <2>2 DEF Skip, RealInv
  <2>3. CASE Run(s)
    <3> SUFFICES ASSUME AssignedOnce, ~skipped
                 PROVE  /\ \A n \in Names : tainted'[n] # Clean => tainted'[n] \in direct'[n] /\ Assigned(n)'
                        /\ \A f \in findings' : Holds(f)'
      BY <2>1, <2>3 DEF RealInv, AssignedOnce, Run
    <3>0. /\ \A n \in Names : tainted[n] # Clean => tainted[n] \in direct[n] /\ Assigned(n)
          /\ \A f \in findings : Holds(f)
      BY DEF RealInv
    <3>1. /\ tainted \in [Names -> Nat] /\ TypesTypeOK
          /\ direct \in [Names -> SUBSET Sources]
      BY DEF FlowTypeOK
    <3>2. /\ s \in Stmt /\ s.dst \in Names /\ s.e \in Expr /\ pos \in DOMAIN stmts
          /\ ExprNames(s.e) \subseteq Names /\ SinkNames(s.e) \subseteq ExprNames(s.e)
          /\ \A n \in SinkNames(s.e) : \E l \in Given(s.e) : l.k = "Name" /\ l.name = n
          /\ pos \in Sources
      BY <1>3, <3>1, StmtAt, NamesOfExpr
    <3>3. /\ direct' = IF s.op = "name" THEN [direct EXCEPT ![s.dst] = ByNames(s.e)] ELSE direct
          /\ leaks' = leaks \cup {Leak(pos, l) : l \in {m \in Given(s.e) : Value(m) # {}}}
      BY <2>3 DEF Run
    <3>4. /\ tainted' = Taint(s, tainted)
          /\ findings' = findings \cup Findings(s, tainted')
      BY <1>3 DEF FlowStmt, Analyze
    <3>5. DOMAIN stmts \subseteq Nat /\ pos < pos + 1 /\ \A i \in DOMAIN stmts : i < pos => i < pos + 1
      <4>1. DOMAIN stmts = 1 .. Len(stmts) /\ pos \in Nat
        BY <3>1, LenProperties DEF TypesTypeOK
      <4> QED
        BY <4>1
    <3>6. \A n \in Names : Assigned(n) => Assigned(n)'
      BY <2>1, <3>5 DEF Assigned
    <3>d. PICK d \in Names : d = s.dst
      BY <3>2
    <3>7. s.op = "name" =>
            /\ Assigned(d)' /\ ~Assigned(s.dst)
            /\ \A j \in DOMAIN stmts : j <= pos => s.dst \notin ExprNames(stmts[j].e)
      <4>1. s.op = "name" => Assigned(d)'
        BY <2>1, <3>2, <3>5, <3>d DEF Assigned
      <4>2. s.op = "name" => ~Assigned(s.dst)
        <5> SUFFICES ASSUME s.op = "name", NEW i \in DOMAIN stmts, i < pos, stmts[i].op = "name",
                            stmts[i].dst = s.dst
                     PROVE  FALSE
          BY DEF Assigned
        <5>1. i = pos
          BY <3>2 DEF AssignedOnce
        <5> QED
          BY <3>5, <5>1
      <4>3. s.op = "name" => \A j \in DOMAIN stmts : j <= pos => s.dst \notin ExprNames(stmts[j].e)
        BY <3>2 DEF AssignedOnce
      <4> QED
        BY <4>1, <4>2, <4>3
    <3>8. ASSUME NEW n \in Names, ~(s.op = "name" /\ n = s.dst)
          PROVE  tainted'[n] = tainted[n] /\ direct'[n] = direct[n]
      BY <1>3, <3>1, <3>2, <3>3, <3>4, <3>8, TaintFacts
    <3>9. ASSUME s.op = "name", tainted'[s.dst] # Clean PROVE tainted'[s.dst] \in direct'[s.dst]
      <4>1. direct'[s.dst] = ByNames(s.e)
        BY <3>1, <3>2, <3>3, <3>9
      <4>2. s.dst \notin ExprNames(s.e) /\ tainted[s.dst] = Clean
        <5>1. pos <= pos
          BY <3>2 DEF Sources
        <5> QED
          BY <3>0, <3>2, <3>7, <3>9, <5>1
      <4>3. \/ tainted'[s.dst] = pos /\ IsSource(s.e)
            \/ \E n \in ExprNames(s.e) : tainted[n] # Clean /\ tainted'[s.dst] = tainted[n]
        BY <1>3, <3>1, <3>4, <3>9, <4>2, TaintFacts
      <4>4. CASE tainted'[s.dst] = pos /\ IsSource(s.e)
        BY <4>1, <4>4 DEF ByNames, Own
      <4>5. CASE \E n \in ExprNames(s.e) : tainted[n] # Clean /\ tainted'[s.dst] = tainted[n]
        <5>1. PICK n \in ExprNames(s.e) : tainted[n] # Clean /\ tainted'[s.dst] = tainted[n]
          BY <4>5
        <5>2. tainted[n] \in direct[n]
          BY <3>0, <3>2, <5>1
        <5> QED
          BY <4>1, <5>1, <5>2 DEF ByNames, Own
      <4> QED
        BY <4>3, <4>4, <4>5
    <3>10. ASSUME NEW n \in Names, tainted'[n] # Clean
           PROVE  tainted'[n] \in direct'[n] /\ Assigned(n)'
      BY <3>0, <3>6, <3>7, <3>8, <3>9, <3>10, <3>d
    <3>11. ASSUME NEW f \in findings PROVE Holds(f)'
      <4>1. /\ f.at \in DOMAIN stmts /\ f.at < pos /\ f.name \in ExprNames(stmts[f.at].e)
            /\ f.source \in direct[f.name] /\ Leaked(f.at, f.name)
        BY <3>0 DEF Holds
      <4>2. f.at <= pos /\ f.at < pos + 1
        BY <3>2, <3>5, <4>1 DEF Sources
      <4>3. f.name \in Names
        <5>1. stmts[f.at] \in Stmt
          BY <3>1, <4>1, ElementOfSeq, LenProperties DEF TypesTypeOK
        <5> QED
          BY <4>1, <5>1, NamesOfExpr DEF Stmt
      <4>4. direct'[f.name] = direct[f.name]
        BY <3>7, <3>8, <4>1, <4>2, <4>3
      <4> QED
        BY <2>1, <3>3, <4>1, <4>2, <4>4 DEF Holds, Leaked
    <3>12. ASSUME NEW f \in Findings(s, tainted') PROVE Holds(f)'
      <4>1. PICK n \in SinkNames(s.e) : tainted'[n] # Clean /\ f = Finding(pos, n, tainted'[n])
        BY <3>12 DEF Findings
      <4>2. n \in ExprNames(s.e) /\ n \in Names /\ pos <= pos
        BY <3>2, <4>1 DEF Sources
      <4>3. tainted'[n] = tainted[n] /\ direct'[n] = direct[n]
        BY <3>2, <3>7, <3>8, <4>2
      <4>4. tainted'[n] \in direct'[n] /\ direct[n] # {}
        BY <3>10, <4>1, <4>2, <4>3
      <4>5. \E k \in leaks' : k.at = pos /\ k.given.k = "Name" /\ k.given.name = n
        <5>1. PICK l \in Given(s.e) : l.k = "Name" /\ l.name = n
          BY <3>2, <4>1
        <5>2. Value(l) # {}
          BY <4>2, <4>4, <5>1 DEF Value, FlowTypeOK
        <5>3. Leak(pos, l) \in leaks' /\ Leak(pos, l).at = pos /\ Leak(pos, l).given = l
          BY <3>3, <5>2 DEF Leak
        <5> QED
          BY <5>1, <5>3
      <4>6. f.at = pos /\ f.name = n /\ f.source = tainted'[n]
        BY <4>1 DEF Finding
      <4> QED
        BY <2>1, <3>2, <3>5, <4>2, <4>4, <4>5, <4>6 DEF Holds, Leaked
    <3> QED
      BY <3>4, <3>10, <3>11, <3>12
  <2> QED
    BY <1>3, <2>2, <2>3 DEF FlowStmt
<1> QED
  BY <1>1, <1>2, <1>3, StepKinds

(***************************************************************************)
(* Nothing is made up, for every function in which each name is assigned   *)
(* once and before it is read: a finding names a sink that is given the    *)
(* value and a source the value derives from.                              *)
(***************************************************************************)
THEOREM NoFlowMadeUp == Spec => []FlowsReal
<1>1. Init => RealInv
  BY FlowInit DEF Untouched, RealInv, Init, TypesInit
<1>2. FlowTypeOK /\ RealInv => FlowsReal
  <2> SUFFICES ASSUME FlowTypeOK, RealInv, AssignedOnce, ~skipped, NEW f \in findings
               PROVE  f.source \in real[f.name] /\ Leaked(f.at, f.name)
    BY DEF FlowsReal, Leaked
  <2>1. Holds(f)
    BY DEF RealInv
  <2>2. f.name \in Names
    <3>1. stmts[f.at] \in Stmt
      BY <2>1, ElementOfSeq, LenProperties DEF Holds, FlowTypeOK, TypesTypeOK
    <3> QED
      BY <2>1, <3>1, NamesOfExpr DEF Stmt, Holds
  <2> QED
    BY <2>1, <2>2 DEF Holds, FlowTypeOK
<1> QED
  BY <1>1, <1>2, RealStep, FlowTyped, PTL DEF Spec
=============================================================================
