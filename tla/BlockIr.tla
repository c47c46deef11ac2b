------------------------------ MODULE BlockIr ------------------------------
(***************************************************************************)
(* Statements and expressions of a basic block (ir.rs), what lifting makes *)
(* of an instruction, and the meaning of a sequence of statements.         *)
(*                                                                         *)
(* Two registers are enough to tell the passes apart: x0, which holds the  *)
(* argument and the result, and x19, which a call keeps.  The frame has    *)
(* two slots, memory outside it is only read, and sums stand for all of    *)
(* the binary operators.                                                   *)
(***************************************************************************)
EXTENDS Integers, FiniteSets, SequencesExt

Regs == {0, 19}
Slots == {8, 16}

\* VarId: a register and its SSA version; version 0 until there are versions.
Reg(v) == v[1]
Ver(v) == v[2]

(***************************************************************************)
(* Expr.  Slot and Deref are the two uses of Mem, a text the passes do not *)
(* look into: *(sp+..) of a frame slot, *(xN) of a register.  Local and    *)
(* Param are the names recover_frame gives a slot and the spilled x0.      *)
(***************************************************************************)
Var(v)    == <<"Var", v>>
Imm(k)    == <<"Imm", k>>
Add(a, b) == <<"BinOp", a, b>>
Call(as)  == <<"Call", as>>
Slot(k)   == <<"Slot", k>>
Deref(r)  == <<"Deref", r>>
Local(k)  == <<"Local", k>>
Param     == <<"Param">>

X(r) == Var(<<r, 0>>)

IsVar(e)  == e[1] = "Var"
IsCall(e) == e[1] = "Call"
IsMem(e)  == e[1] \in {"Slot", "Deref"}
IsName(e) == e[1] \in {"Local", "Param"}

(***************************************************************************)
(* Stmt: assignment to a register or to a local, store to a slot, return.  *)
(* The statements no pass looks into (Raw, Branch, Label) are left out.    *)
(***************************************************************************)
AssignReg(v, e)   == [op |-> "reg", dst |-> v, e |-> e]
AssignLocal(k, e) == [op |-> "local", slot |-> k, e |-> e]
Store(k, e)       == [op |-> "store", slot |-> k, e |-> e]
Return(e)         == [op |-> "return", e |-> e]

With(s, e) == [s EXCEPT !.e = e]

-----------------------------------------------------------------------------
(* Expressions: subst_expr and its copies, and the registers it mentions *)

\* b gives an expression for every VarId.
RECURSIVE Subst(_, _)
Subst(e, b) ==
  CASE e[1] = "Var"   -> b[e[2]]
    [] e[1] = "BinOp" -> Add(Subst(e[2], b), Subst(e[3], b))
    [] e[1] = "Call"  -> Call([i \in DOMAIN e[2] |-> Subst(e[2][i], b)])
    [] OTHER          -> e

RECURSIVE VarsOf(_)
VarsOf(e) ==
  CASE e[1] = "Var"   -> {e[2]}
    [] e[1] = "BinOp" -> VarsOf(e[2]) \cup VarsOf(e[3])
    [] e[1] = "Call"  -> UNION {VarsOf(e[2][i]) : i \in DOMAIN e[2]}
    [] OTHER          -> {}

RegsOf(e) == {Reg(v) : v \in VarsOf(e)}

\* Mutant: a call has no side effect.
HasSideEffectsMem(e) == IsMem(e)

HasSideEffects(e) == IsCall(e) \/ IsMem(e)

-----------------------------------------------------------------------------
(* Lifting *)

(***************************************************************************)
(* The statements lift.rs makes of one instruction: mov, add, ldr and str  *)
(* of a slot, ldr through a register, bl.  The arguments of a call are     *)
(* filled in by TrimCallArgs.  A jump to the next instruction makes no     *)
(* statement and ends its block, as a call does.  So does a comparison of  *)
(* a register with its conditional branch, to the next instruction too:    *)
(* they leave no statement but the condition of the block.                 *)
(***************************************************************************)
Moves  == {AssignReg(<<d, 0>>, e) : d \in Regs, e \in {Imm(0), Imm(1)} \cup {X(r) : r \in Regs}}
Sums   == {AssignReg(<<d, 0>>, Add(X(a), e)) :
             d \in Regs, a \in Regs, e \in {Imm(0), Imm(1)} \cup {X(r) : r \in Regs}}
Loads  == {AssignReg(<<d, 0>>, Slot(k)) : d \in Regs, k \in Slots}
Stores == {Store(k, X(r)) : k \in Slots, r \in Regs}
Derefs == {AssignReg(<<d, 0>>, Deref(b)) : d \in Regs, b \in Regs}
Calls  == {AssignReg(<<0, 0>>, Call(<< >>))}

Jump   == [op |-> "jump"]
Tests  == {[op |-> "test", reg |-> r] : r \in Regs}

Lifted == Moves \cup Sums \cup Loads \cup Stores \cup Derefs \cup Calls \cup {Jump} \cup Tests

\* A call gets x0 as an argument if the block has assigned x0 before it.
TrimCallArgs(s) ==
  [i \in DOMAIN s |->
     IF s[i].op = "reg" /\ IsCall(s[i].e) /\ \E j \in 1 .. i-1 : s[j].op = "reg" /\ Reg(s[j].dst) = 0
     THEN With(s[i], Call(<<X(0)>>)) ELSE s[i]]

-----------------------------------------------------------------------------
(* Meaning *)

(***************************************************************************)
(* Running statements: the value of every VarId, of each register, of the  *)
(* slots, the arguments of each call so far and the value returned.        *)
(* Arithmetic is modulo a prime, and the values that come from outside are *)
(* far apart, so that different sums of a few of them differ.  The text    *)
(* Deref(r) reads the register, whatever its versions.                     *)
(***************************************************************************)
Prime == 30011
InitialX == [r \in Regs |-> IF r = 0 THEN 16 ELSE 256]
HeapAt(a) == (a * a + 7) % Prime
Result(k) == (4099 + 977 * k * k) % Prime

Start(vars) == [val |-> [v \in vars |-> InitialX[Reg(v)]],
                reg |-> InitialX, slot |-> [k \in Slots |-> 500 * k], calls |-> << >>, ret |-> 0]

RECURSIVE Eval(_, _)    \* the value and the environment after the calls in e
Eval(e, env) ==
  CASE e[1] = "Var"   -> [v |-> env.val[e[2]], env |-> env]
    [] e[1] = "Imm"   -> [v |-> e[2], env |-> env]
    [] e[1] = "Param" -> [v |-> InitialX[0], env |-> env]
    [] e[1] = "Deref" -> [v |-> HeapAt(env.reg[e[2]]), env |-> env]
    [] e[1] = "BinOp" -> LET a == Eval(e[2], env)
                             b == Eval(e[3], a.env)
                         IN  [v |-> (a.v + b.v) % Prime, env |-> b.env]
    [] e[1] = "Call"  -> LET arg(acc, a) == LET r == Eval(a, acc.env)
                                             IN  [vs |-> Append(acc.vs, r.v), env |-> r.env]
                             args == FoldLeft(arg, [vs |-> << >>, env |-> env], e[2])
                             done == Append(args.env.calls, args.vs)
                         IN  [v |-> Result(Len(done)), env |-> [args.env EXCEPT !.calls = done]]
    [] OTHER          -> [v |-> env.slot[e[2]], env |-> env]

Run(env, s) ==
  LET r == Eval(s.e, env)
  IN  CASE s.op = "reg"    -> [r.env EXCEPT !.val[s.dst] = r.v, !.reg[Reg(s.dst)] = r.v]
        [] s.op = "return" -> [r.env EXCEPT !.ret = r.v]
        [] OTHER           -> [r.env EXCEPT !.slot[s.slot] = r.v]

\* What the rest of the program sees of statements that end in a return.
Meaning(s, vars) ==
  LET end == FoldLeft(Run, Start(vars), s)
  IN  [calls |-> end.calls, slot |-> end.slot, ret |-> end.ret]

\* How many calls they make.
CallsMade(s, vars) == Len(FoldLeft(Run, Start(vars), s).calls)
=============================================================================
