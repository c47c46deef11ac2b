--------------------------- MODULE StructuredCode ---------------------------
(***************************************************************************)
(* The graphs of programs written with structured statements, laid out the *)
(* way compilers lay them out: the test of an `if` branches over the arm   *)
(* that follows it, a `while` is tested at its top and jumped back to, a   *)
(* `do` is tested at its bottom.  Arms, bodies and what follows a compound *)
(* statement begin with a plain statement.  `break` and `continue` end the *)
(* first arm of an `if`.                                                   *)
(***************************************************************************)
EXTENDS FunctionCfg, TLC

CONSTANTS
  Size,         \* blocks in a program
  Constructs    \* the compound statements programs use

\* A program is built from pieces: ends and full blocks of a range of blocks.
Pieces(b, end, fulls) == {[cfg |-> b :> end, full |-> f] : f \in fulls}
Glue(P, Q) == {[cfg |-> p.cfg @@ q.cfg, full |-> p.full \cup q.full] : p \in P, q \in Q}
Maybe(b)   == {{}, {b}}

NotInLoop == [header |-> -1, exit |-> -1]

RECURSIVE Code(_, _, _, _)

\* Below: code in the blocks a .. b-1 that goes on to block `out`, in `loop`.
Plain(a, b, out, loop) ==
  IF a + 1 = b THEN Pieces(a, Goto(out), {{a}})
  ELSE Glue(Pieces(a, Goto(a+1), {{a}}), Code(a+1, b, out, loop))

Jumps(a, b, loop) ==
  UNION {Pieces(a, Goto(loop[j]), Maybe(a)) :
           j \in {x \in {"header", "exit"} : a + 1 = b /\ loop # NotInLoop /\ "jump" \in Constructs}}

IfElse(a, b, out, loop) ==
  UNION {Glue(Glue(Pieces(a, Conditional(m, a+1), Maybe(a)),
                   Plain(a+1, m, e, loop) \cup Jumps(a+1, m, loop)),
              Glue(Plain(m, e, e, loop), Plain(e, b, out, loop))) :
           <<m, e>> \in {p \in (a+2 .. b-2) \X (a+3 .. b-1) : p[1] < p[2]}}

If_(a, b, out, loop) ==
  UNION {Glue(Glue(Pieces(a, Conditional(e, a+1), Maybe(a)), Plain(a+1, e, e, loop)),
              Plain(e, b, out, loop)) : e \in a+2 .. b-1}

While(a, b, out, loop) ==
  UNION {Glue(Glue(Pieces(a, Conditional(e, a+1), {{}}),
                   Plain(a+1, e, a, [header |-> a, exit |-> e])),
              Plain(e, b, out, loop)) : e \in a+2 .. b-1}

Do(a, b, out, loop) ==
  UNION {Glue(Glue({[cfg |-> [i \in a .. e-2 |-> Goto(i+1)], full |-> a .. e-2]},
                   Pieces(e-1, Conditional(a, e), Maybe(e-1))),
              Plain(e, b, out, loop)) : e \in a+2 .. b-1}

Code(a, b, out, loop) ==
  UNION {Plain(a, b, out, loop),
         IF "ifelse" \in Constructs THEN IfElse(a, b, out, loop) ELSE {},
         IF "if"     \in Constructs THEN If_(a, b, out, loop) ELSE {},
         IF "while"  \in Constructs THEN While(a, b, out, loop) ELSE {},
         IF "do"     \in Constructs THEN Do(a, b, out, loop) ELSE {}}

StructuredPrograms ==
  Glue(Plain(0, Size-1, Size-1, NotInLoop), Pieces(Size-1, Exit, {{Size-1}}))
=============================================================================
