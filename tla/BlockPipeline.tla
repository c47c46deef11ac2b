--------------------------- MODULE BlockPipeline ---------------------------
(***************************************************************************)
(* The statements of a function whose branches go to the next instruction  *)
(* on their way through decompile_insns (decompile.rs): cut into blocks    *)
(* and lifted, cleaned up by the default passes, put into SSA form, given  *)
(* a frame, cleaned up again, taken out of SSA form.  Each pass is an      *)
(* action.  The conditions of the blocks are no statements: only the frame *)
(* changes them.                                                           *)
(***************************************************************************)
EXTENDS BlockPasses

CONSTANTS
  Body,     \* the instructions to build functions of
  MaxLen    \* the longest function, without its ret

ASSUME BodyAssumption == Body \subseteq Lifted
ASSUME MaxLenAssumption == MaxLen \in 1 .. MaxVer

VARIABLES
  lifted,   \* what lift_block made of the instructions
  stmts,    \* block_stmts
  conds,    \* the register each block ends by testing, and what its condition shows for it
  todo      \* the passes still to run

vars == <<lifted, stmts, conds, todo>>

\* PassRunner::default_pipeline, used twice.
DefaultPipeline == <<"RedundantMov", "ExprSimplify", "LocalCopyProp", "RedundantArgLoad", "DeadAssign">>

Pipeline ==
  DefaultPipeline \o <<"ConstructSsa", "SsaCopyProp", "RecoverFrame">> \o DefaultPipeline \o
  <<"InlineSsaRegDefs", "RedundantArgLoad", "DeadSsaVersionAssigns", "FoldCallResultRefs", "CollapseSsaVersions">>

Transfers == {Jump} \cup Tests

\* FunctionCfg::build: calls, jumps and tests end a block.
AddInsn(blocks, insn) ==
  Append(Front(blocks), Append(Last(blocks), insn))
    \o (IF insn \in Calls \cup Transfers THEN << << >> >> ELSE << >>)

Cut(insns) == FoldLeft(AddInsn, << << >> >>, insns)

LiftBlocks(insns) ==
  LET blocks == [b \in DOMAIN Cut(insns) |->
                   TrimCallArgs(SelectSeq(Cut(insns)[b], LAMBDA insn : insn \notin Transfers))]
  IN  Append(Front(blocks), Append(Last(blocks), Return(X(0))))

Tested(block) == IF block # << >> /\ Last(block) \in Tests THEN {Last(block).reg} ELSE {}

\* Per block at most one: the register and, for the text, the register again.
Conditions(insns) ==
  [b \in DOMAIN Cut(insns) |-> {[reg |-> r, shown |-> X(r)] : r \in Tested(Cut(insns)[b])}]

Init ==
  /\ \E insns \in BoundedSeq(Body, MaxLen) : lifted = LiftBlocks(insns) /\ conds = Conditions(insns)
  /\ stmts = lifted
  /\ todo = Pipeline

Step(name, result) ==
  /\ todo # << >> /\ Head(todo) = name
  /\ stmts' = result
  /\ todo' = Tail(todo)
  /\ UNCHANGED lifted

Pass(name, result) == Step(name, result) /\ UNCHANGED conds

\* Most passes run on each block by itself.
BlockWise(P(_), blocks) == [b \in DOMAIN blocks |-> P(blocks[b])]

BlockPass(name, P(_)) == Pass(name, BlockWise(P, stmts))

RunRedundantMov == BlockPass("RedundantMov", RedundantMovPass)
RunExprSimplify == BlockPass("ExprSimplify", ExprSimplifyPass)
RunLocalCopyProp == BlockPass("LocalCopyProp", LocalCopyPropPass)
RunRedundantArgLoad == BlockPass("RedundantArgLoad", RedundantArgLoadPass)
RunDeadAssign == BlockPass("DeadAssign", DeadAssignPass)
RunConstructSsa == Pass("ConstructSsa", ConstructSsa(stmts))
RunSsaCopyProp == BlockPass("SsaCopyProp", SsaCopyProp)
RunRecoverFrame ==
  /\ Step("RecoverFrame", RecoverFrame(stmts))
  /\ conds' = [b \in DOMAIN conds |->
                 {[c EXCEPT !.shown = RewriteCondition(@, RewriteStmts(stmts)[b])] : c \in conds[b]}]
RunInlineSsaRegDefs == BlockPass("InlineSsaRegDefs", InlineSsaRegDefs)
RunDeadSsaVersionAssigns == BlockPass("DeadSsaVersionAssigns", DeadSsaVersionAssigns)
RunFoldCallResultRefs == Pass("FoldCallResultRefs", FoldCallResultRefs(stmts))
RunCollapseSsaVersions == BlockPass("CollapseSsaVersions", CollapseSsaVersions)

Next ==
  \/ RunRedundantMov \/ RunExprSimplify \/ RunLocalCopyProp \/ RunRedundantArgLoad \/ RunDeadAssign
  \/ RunConstructSsa \/ RunSsaCopyProp \/ RunRecoverFrame
  \/ RunInlineSsaRegDefs \/ RunDeadSsaVersionAssigns \/ RunFoldCallResultRefs \/ RunCollapseSsaVersions

Spec == Init /\ [][Next]_vars

-----------------------------------------------------------------------------
(* Properties *)

Means(blocks) == Meaning(FlattenSeq(blocks), Vars)
Calls_(blocks) == CallsMade(FlattenSeq(blocks), Vars)

At(names) == todo # << >> /\ Head(todo) \in names

FirstRun == "ConstructSsa" \in ToSet(todo)

InSsa == todo # << >> /\ ~FirstRun

All == FlattenSeq(stmts)

Defs(s) == {i \in DOMAIN s : s[i].op = "reg"}

\* "Only same-block defs are inlined into local stores to avoid duplicating
\* calls" (inline_ssa_reg_defs), and no pass drops one: whatever is folded,
\* inlined or removed as dead, the function makes the calls its instructions do.
CallsKept == Calls_(stmts) = Calls_(lifted)

\* From construct_ssa to collapse_ssa_versions no version is assigned twice,
\* although two rounds of passes move and remove assignments in between.
SingleAssignment ==
  InSsa => \A i, j \in Defs(All) : All[i].dst = All[j].dst => i = j

\* A load that is dropped is dropped for a call that follows it, and memory
\* texts in between name other registers.
DropsUnseen(s) ==
  \A i \in DOMAIN s : RedundantArgLoad(s, i) =>
    \A j \in i + 1 .. Min(NextCalls(s, i)) - 1 : s[j].e # Deref(Reg(s[i].dst))

\* Giving the registers versions, propagating copies of versions and removing
\* `x = x` change nothing the rest of the program can see, not even when the
\* copied register is assigned again before the copy is read.  Nor does dropping
\* the load of an argument of the next call, although the pass does not ask what
\* reads the register before the call: the load has been bound to what reads
\* it, unless that is a memory text (is_redundant_arg_load does not look for
\* those, and then the read is of an older value).
PassesKeepMeaning ==
  [][(\/ At({"ConstructSsa", "SsaCopyProp", "RedundantMov"})
      \/ At({"RedundantArgLoad"}) /\ (\A b \in DOMAIN stmts : DropsUnseen(stmts[b])))
        => Means(stmts') = Means(stmts)]_vars

\* A block leaves nothing in a register for a later one but the result of its
\* call.
CarriesOnlyResults ==
  \A b, c \in DOMAIN stmts : \A i \in Defs(stmts[b]) :
    \/ b >= c
    \/ IsCall(stmts[b][i].e)
    \/ \E j \in Defs(stmts[b]) : j > i /\ Reg(stmts[b][j].dst) = Reg(stmts[b][i].dst)
    \/ \A j \in DOMAIN stmts[c] : Reg(stmts[b][i].dst) \notin RegsOf(stmts[c][j].e)

\* No memory text names a register.
NoTextNamesRegister ==
  \A b \in DOMAIN lifted : \A i \in DOMAIN lifted[b] : lifted[b][i].e[1] # "Deref"

\* As long as no register is carried into another block, dead_assign removes
\* only dead code before there are versions, and dead_ssa_version_assigns does
\* after, unless a memory text names a register.
DeadCodeKeepsMeaning ==
  [][ /\ At({"DeadSsaVersionAssigns"}) \/ (FirstRun /\ At({"DeadAssign"}))
      /\ CarriesOnlyResults /\ NoTextNamesRegister
      => Means(stmts') = Means(stmts) ]_vars

\* What e reads is assigned by t.
RECURSIVE Disturbs(_, _)
Disturbs(t, e) ==
  CASE e[1] = "Var"            -> t.op = "reg" /\ Reg(t.dst) = Reg(e[2])
    [] e[1] \in {"Slot", "Local"} -> t.op \in {"store", "local"} /\ t.slot = e[2]
    [] e[1] = "BinOp"          -> Disturbs(t, e[2]) \/ Disturbs(t, e[3])
    [] e[1] = "Call"           -> \E i \in DOMAIN e[2] : Disturbs(t, e[2][i])
    [] OTHER                   -> FALSE

Undisturbed(s) ==
  \A i \in Defs(s) : \A j \in i + 1 .. Len(s) : ~Disturbs(s[j], s[i].e)

\* A register copied into a local by the next statement is not read after it.
TempsReadOnce(s) ==
  \A i \in Defs(s) : i < Len(s) /\ s[i + 1].op = "local" /\ s[i + 1].e = Var(s[i].dst) =>
    \A k \in i + 2 .. Len(s) :
      Reg(s[i].dst) \in RegsOf(s[k].e) =>
        \E j \in i + 2 .. k - 1 : s[j].op = "reg" /\ Reg(s[j].dst) = Reg(s[i].dst)

\* Propagating `xN = local` into later uses, folding a temporary into the local
\* it is copied to and moving assignments into the return keep the meaning as
\* long as what a register was computed from is not assigned after it in the
\* block, the temporary is not read again and no memory text names a register:
\* the bindings of a register end when it is assigned again.
CopiesKeepMeaning ==
  [][ /\ At({"LocalCopyProp"})
      /\ CarriesOnlyResults /\ NoTextNamesRegister
      /\ \A b \in DOMAIN stmts : Undisturbed(stmts[b]) /\ TempsReadOnce(stmts[b])
      => Means(stmts') = Means(stmts) ]_vars

\* A register loaded from a slot is assigned otherwise, or the slot is stored
\* to, before the block ends.
Outdated(s, r) ==
  \E i \in Defs(s) : \E j \in i + 1 .. Len(s) :
    /\ Reg(s[i].dst) = r /\ s[i].e[1] = "Slot"
    /\ \/ Disturbs(s[j], s[i].e)
       \/ s[j].op = "reg" /\ Reg(s[j].dst) = r /\ s[j].e[1] # "Slot"

\* The condition of a block shows the value its instruction tests, unless the
\* register was loaded from a slot and that has changed: the register gets the
\* name of its last load, whatever the passes before recover_frame moved or
\* removed.
ConditionsKept ==
  \A b \in DOMAIN conds : \A c \in conds[b] :
    ~Outdated(lifted[b], c.reg) =>
      LET end == FoldLeft(Run, Start(Vars), FlattenSeq(SubSeq(lifted, 1, b)))
      IN  Eval(c.shown, end).v = end.reg[c.reg]
=============================================================================
