---------------------------- MODULE BlockPasses ----------------------------
(***************************************************************************)
(* The statement passes of pass.rs, ssa.rs and locals.rs.  Those of the    *)
(* pass framework and most of ssa.rs are functions from the statements of  *)
(* one block to its statements.  Naming, the results of calls and the      *)
(* frame look at all of the blocks, which follow one another here.         *)
(***************************************************************************)
EXTENDS BlockIr

\* The largest SSA version a function of the instance needs.
CONSTANT MaxVer

Vars == Regs \X (0 .. MaxVer)

\* The binding that leaves every variable alone.
Unbound == [v \in Vars |-> Var(v)]

-----------------------------------------------------------------------------
(* PassRunner::default_pipeline (pass.rs) *)

RedundantMovPass(s) == SelectSeq(s, LAMBDA t : ~(t.op = "reg" /\ t.e = Var(t.dst)))

RECURSIVE SimplifyExpr(_)
SimplifyExpr(e) ==
  IF e[1] # "BinOp" THEN e
  ELSE LET l == SimplifyExpr(e[2])
           r == SimplifyExpr(e[3])
       IN  IF Imm(0) \in {l, r} THEN l ELSE Add(l, r)

ExprSimplifyPass(s) ==
  [i \in DOMAIN s |-> IF s[i].op \in {"reg", "local"} THEN With(s[i], SimplifyExpr(s[i].e)) ELSE s[i]]

\* Mutant: a binding outlives the next assignment to its register.
BindNamesLonger(acc, t) ==
  LET e == Subst(t.e, acc.binds)
  IN  [binds |-> IF t.op = "reg" /\ (IsName(e) \/ e[1] = "Imm") THEN [acc.binds EXCEPT ![t.dst] = e]
                 ELSE acc.binds,
       out |-> Append(acc.out, With(t, e))]

\* First part of LocalCopyPropPass: names and immediates into later uses.
BindNames(acc, t) ==
  LET e == Subst(t.e, acc.binds)
  IN  [binds |-> IF t.op # "reg" THEN acc.binds
                 ELSE [acc.binds EXCEPT ![t.dst] = IF IsName(e) \/ e[1] = "Imm" THEN e ELSE Var(t.dst)],
       out |-> Append(acc.out, With(t, e))]

PropagateNames(s) == FoldLeft(BindNames, [binds |-> Unbound, out |-> << >>], s).out

\* Second part: `x = e; local = x` becomes `local = e`.
FoldTemp(out, t) ==
  IF t.op = "local" /\ out # << >> /\ Last(out).op = "reg" /\ t.e = Var(Last(out).dst)
  THEN Append(Front(out), With(t, Last(out).e))
  ELSE Append(out, t)

FoldTempIntoLocal(s) == FoldLeft(FoldTemp, << >>, s)

Mentions(t) == RegsOf(t.e) \cup (IF t.op = "reg" THEN {Reg(t.dst)} ELSE {})

SubstReg(e, r, with) == Subst(e, [v \in Vars |-> IF Reg(v) = r THEN with ELSE Var(v)])

(***************************************************************************)
(* Third part: the last assignment to a register the Return reads moves    *)
(* into the Return, unless the register is mentioned in between.  A Return *)
(* of just that register ends the search, any other is searched again.     *)
(***************************************************************************)
EndsInReturn(s) == s # << >> /\ Last(s).op = "return"

FoldableInto(s) ==
  {i \in 1 .. Len(s) - 1 :
     /\ EndsInReturn(s)
     /\ s[i].op = "reg"
     /\ Reg(s[i].dst) \in RegsOf(Last(s).e)
     /\ \A j \in i + 1 .. Len(s) - 1 : Reg(s[i].dst) \notin Mentions(s[j])}

RECURSIVE FoldAssignReturn(_)
FoldAssignReturn(s) ==
  IF FoldableInto(s) = {} THEN s
  ELSE LET i   == Max(FoldableInto(s))
           ret == Return(SubstReg(Last(s).e, Reg(s[i].dst), s[i].e))
           out == Append(RemoveAt(Front(s), i), ret)
       IN  IF IsVar(Last(s).e) THEN out ELSE FoldAssignReturn(out)

\* It is tried at most four times.
FoldReturns(s) == FoldLeft(LAMBDA out, i : FoldAssignReturn(out), s, <<1, 2, 3, 4>>)

LocalCopyPropPass(s) == FoldReturns(FoldTempIntoLocal(PropagateNames(s)))

\* The assignments whose right side is a call, after position i.
NextCalls(s, i) == {j \in i + 1 .. Len(s) : s[j].op \in {"reg", "local"} /\ IsCall(s[j].e)}

\* Mutant: the arguments of the call are not looked at.
RedundantArgLoadAny(s, i) ==
  /\ NextCalls(s, i) # {}
  /\ s[i].op = "reg" /\ s[Min(NextCalls(s, i))].op = "reg"
  /\ Reg(s[i].dst) = Reg(s[Min(NextCalls(s, i))].dst)

RedundantArgLoad(s, i) ==
  /\ NextCalls(s, i) # {}
  /\ LET call == s[Min(NextCalls(s, i))]
     IN  /\ s[i].op = "reg" /\ call.op = "reg"
         /\ Reg(s[i].dst) = Reg(call.dst)
         /\ s[i].e \in ToSet(call.e[2])

RedundantArgLoadPass(s) ==
  FoldLeftDomain(LAMBDA out, i : IF RedundantArgLoad(s, i) THEN out ELSE Append(out, s[i]), << >>, s)

\* Mutant: only assignments to registers make what they read live.
DropDeadLocals(t, acc) ==
  IF t.op = "reg" /\ Reg(t.dst) \notin acc.live /\ ~HasSideEffects(t.e) THEN acc
  ELSE [live |-> IF t.op = "reg" THEN (acc.live \ {Reg(t.dst)}) \cup RegsOf(t.e) ELSE acc.live,
        out  |-> <<t>> \o acc.out]

\* Backwards, by register and not by version; force_live_out gives the start.
DropDead(t, acc) ==
  IF t.op = "reg" /\ Reg(t.dst) \notin acc.live /\ ~HasSideEffects(t.e) THEN acc
  ELSE [live |-> (IF t.op = "reg" THEN acc.live \ {Reg(t.dst)} ELSE acc.live) \cup RegsOf(t.e),
        out  |-> <<t>> \o acc.out]

ForcedLive(s) == UNION {RegsOf(s[i].e) : i \in {j \in DOMAIN s : s[j].op \in {"store", "return"}}}

DeadAssignPass(s) == FoldRight(DropDead, s, [live |-> ForcedLive(s), out |-> << >>]).out

-----------------------------------------------------------------------------
(* SSA without branches, and the passes on versions (ssa.rs) *)

\* Mutant: the new version is not kept as the current one.
RenameStale(acc, t) ==
  LET e == Subst(t.e, [v \in Vars |-> Var(<<Reg(v), acc.cur[Reg(v)]>>)])
  IN  [acc EXCEPT !.out = Append(@, IF t.op = "reg"
                                    THEN AssignReg(<<Reg(t.dst), acc.cur[Reg(t.dst)] + 1>>, e)
                                    ELSE With(t, e))]

\* Uses get the current version of their register, definitions the next.
Rename(acc, t) ==
  LET e == Subst(t.e, [v \in Vars |-> Var(<<Reg(v), acc.cur[Reg(v)]>>)])
  IN  IF t.op # "reg" THEN [acc EXCEPT !.out = Append(@, With(t, e))]
      ELSE LET cur == [acc.cur EXCEPT ![Reg(t.dst)] = @ + 1]
           IN  [cur |-> cur,
                out |-> Append(acc.out, AssignReg(<<Reg(t.dst), cur[Reg(t.dst)]>>, e))]

\* blocks[b] for a sequence of blocks: no block has two predecessors, so there
\* are no phis, and the dominator tree is the sequence.
RenameBlock(acc, block) ==
  LET end == FoldLeft(Rename, [cur |-> acc.cur, out |-> << >>], block)
  IN  [cur |-> end.cur, out |-> Append(acc.out, end.out)]

ConstructSsa(blocks) ==
  FoldLeft(RenameBlock, [cur |-> [r \in Regs |-> 0], out |-> << >>], blocks).out

\* Mutant: a copy of one version stands for all versions of the register.
BindCopiesByReg(acc, t) ==
  LET e == Subst(t.e, acc.copies)
  IN  [copies |-> IF t.op = "reg" /\ IsVar(e) /\ Reg(e[2]) # Reg(t.dst)
                  THEN [v \in Vars |-> IF Reg(v) = Reg(t.dst) THEN e ELSE acc.copies[v]]
                  ELSE acc.copies,
       out |-> Append(acc.out, With(t, e))]

BindCopies(acc, t) ==
  LET e == Subst(t.e, acc.copies)
  IN  [copies |-> IF t.op # "reg" THEN acc.copies
                  ELSE [acc.copies EXCEPT ![t.dst] =
                          IF IsVar(e) /\ Reg(e[2]) # Reg(t.dst) THEN e ELSE Var(t.dst)],
       out |-> Append(acc.out, With(t, e))]

SsaCopyProp(s) == FoldLeft(BindCopies, [copies |-> Unbound, out |-> << >>], s).out

\* Calls, names and immediates into an assignment of a local.
InlineDef(acc, t) ==
  LET def == acc.defs[t.e[2]]
      u   == IF t.op = "local" /\ IsVar(t.e) /\ (IsCall(def) \/ IsName(def) \/ def[1] = "Imm")
             THEN With(t, def) ELSE t
  IN  [defs |-> IF u.op = "reg" THEN [acc.defs EXCEPT ![u.dst] = u.e] ELSE acc.defs,
       out  |-> Append(acc.out, u)]

InlineSsaRegDefs(s) == FoldLeft(InlineDef, [defs |-> Unbound, out |-> << >>], s).out

DeadSsaVersionAssigns(s) ==
  LET used == UNION {VarsOf(s[i].e) : i \in DOMAIN s}
  IN  SelectSeq(s, LAMBDA t : t.op = "reg" => t.dst \in used \/ HasSideEffects(t.e))

\* A version whose definition equals the last call assigned to its register
\* loses its number.
FoldCallRef(acc, t) ==
  LET last(v) == IsCall(acc.defs[v]) /\ acc.defs[v] = acc.call[Reg(v)]
      u == With(t, Subst(t.e, [v \in Vars |-> Var(IF last(v) THEN <<Reg(v), 0>> ELSE v)]))
  IN  [defs |-> IF u.op = "reg" THEN [acc.defs EXCEPT ![u.dst] = u.e] ELSE acc.defs,
       call |-> IF u.op = "reg" /\ IsCall(u.e) THEN [acc.call EXCEPT ![Reg(u.dst)] = u.e] ELSE acc.call,
       out  |-> Append(acc.out, u)]

\* What is known of versions and calls is carried from block to block.
FoldBlockCallRefs(acc, block) ==
  LET end == FoldLeft(FoldCallRef, [acc EXCEPT !.out = << >>], block)
  IN  [end EXCEPT !.out = Append(acc.out, end.out)]

FoldCallResultRefs(blocks) ==
  FoldLeft(FoldBlockCallRefs,
           [defs |-> Unbound, call |-> [r \in Regs |-> Imm(0)], out |-> << >>], blocks).out

LaterRegDefs(s, i) == {Reg(s[j].dst) : j \in {k \in i + 1 .. Len(s) : s[k].op = "reg"}}

\* Definitions lose their version, uses only if the register is not defined
\* again later in the block.
Collapse(s, i) ==
  LET e == Subst(s[i].e, [v \in Vars |-> Var(IF Reg(v) \in LaterRegDefs(s, i) THEN v ELSE <<Reg(v), 0>>)])
  IN  IF s[i].op = "reg" THEN AssignReg(<<Reg(s[i].dst), 0>>, e) ELSE With(s[i], e)

CollapseSsaVersions(s) == [i \in DOMAIN s |-> Collapse(s, i)]

-----------------------------------------------------------------------------
(* recover_frame (locals.rs) *)

(***************************************************************************)
(* The slot of the first store of x0 in the entry block, whatever its      *)
(* version and whatever was assigned before it, is that of param_1, and    *)
(* every store of x0 to it stores param_1.  Further parameters are those   *)
(* of x1 to x7.                                                            *)
(***************************************************************************)
SpillsX0(t) == t.op = "store" /\ IsVar(t.e) /\ Reg(t.e[2]) = 0

ParamSlots(entry) ==
  LET spills == {i \in DOMAIN entry : SpillsX0(entry[i])}
  IN  IF spills = {} THEN {} ELSE {entry[Min(spills)].slot}

RECURSIVE RewriteExpr(_)
RewriteExpr(e) ==
  CASE e[1] = "Slot"  -> Local(e[2])
    [] e[1] = "BinOp" -> Add(RewriteExpr(e[2]), RewriteExpr(e[3]))
    [] e[1] = "Call"  -> Call([i \in DOMAIN e[2] |-> RewriteExpr(e[2][i])])
    [] OTHER          -> e

RewriteStmt(t, params) ==
  IF t.op = "store"
  THEN AssignLocal(t.slot, IF SpillsX0(t) /\ t.slot \in params THEN Param ELSE RewriteExpr(t.e))
  ELSE With(t, RewriteExpr(t.e))

\* `x0 = local; return x0` becomes `return local`.
FoldReturnLocal(s) ==
  IF /\ Len(s) > 1 /\ EndsInReturn(s)
     /\ LET def == s[Len(s) - 1] IN def.op = "reg" /\ Reg(def.dst) = 0 /\ IsName(def.e)
     /\ IsVar(Last(s).e) /\ Reg(Last(s).e[2]) = 0
  THEN Append(Front(Front(s)), Return(s[Len(s) - 1].e))
  ELSE s

\* The statements of all blocks, before the return is folded.
RewriteStmts(blocks) ==
  LET params == ParamSlots(blocks[1])
  IN  [b \in DOMAIN blocks |-> [i \in DOMAIN blocks[b] |-> RewriteStmt(blocks[b][i], params)]]

\* Mutant: the first name a register gets in the block is kept.
FirstNamesOf(s) ==
  FoldRight(LAMBDA t, names : IF t.op = "reg" /\ IsName(t.e) THEN [names EXCEPT ![Reg(t.dst)] = t.e] ELSE names,
            s, [r \in Regs |-> X(r)])

\* reg_to_name_map: the last name a register gets in the block.
NamesOf(s) ==
  FoldLeft(LAMBDA names, t : IF t.op = "reg" /\ IsName(t.e) THEN [names EXCEPT ![Reg(t.dst)] = t.e] ELSE names,
           [r \in Regs |-> X(r)], s)

\* rewrite_cfg_conditions, for the register a block's condition shows.
RewriteCondition(shown, s) == IF IsVar(shown) THEN NamesOf(s)[Reg(shown[2])] ELSE shown

RecoverFrame(blocks) ==
  LET renamed == RewriteStmts(blocks)
  IN  [b \in DOMAIN blocks |-> FoldReturnLocal(renamed[b])]
=============================================================================
