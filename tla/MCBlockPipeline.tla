-------------------------- MODULE MCBlockPipeline --------------------------
(* The instructions TLC builds functions of. *)
EXTENDS BlockPipeline

Mov(d, e) == AssignReg(<<d, 0>>, e)

MCBody ==
  {Mov(0, Imm(0)), Mov(19, Imm(1)), Mov(0, X(0)), Mov(0, X(19)), Mov(19, X(0)),
   Mov(0, Add(X(0), X(19))), Mov(19, Add(X(0), X(0))),
   Mov(0, Slot(8)), Mov(0, Slot(16)), Mov(19, Slot(8)), Store(8, X(0)), Store(16, X(0)), Store(8, X(19)),
   Mov(0, Deref(19)), Mov(19, Deref(0)), Jump, [op |-> "test", reg |-> 0]}
  \cup Calls
=============================================================================
