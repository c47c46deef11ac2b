----------------------------- MODULE ValueFlow -----------------------------
(***************************************************************************)
(* Flows from sources to sinks (value_flow.rs), reported for the           *)
(* statements whose names have been typed.  Names are tainted by one pass  *)
(* in address order.  Beside it runs the function: where code branches     *)
(* forward it skips statements, and a run takes some of them in order.     *)
(*                                                                         *)
(* A source is told by the position of its statement, which stands for its *)
(* kind and label.                                                         *)
(***************************************************************************)
EXTENDS Types

VARIABLES
  tainted,    \* the source each name is tainted by
  findings,   \* what is reported
  real,       \* the sources the value of each name derives from
  held,       \* those the value of each register derives from
  direct,     \* those of each name that have come by names alone
  leaks,      \* the operands with a source's value that a sink was given
  skipped     \* has the run left out a statement?

flowVars == <<tainted, findings>>
runVars == <<real, held, direct, leaks, skipped>>
vars == <<typeVars, flowVars, runVars>>

Clean == 0

-----------------------------------------------------------------------------
(* analyze_flows *)

NameOf(l) == IF l.k = "Name" THEN {l.name} ELSE {}

IsCall(e) == e.op \in {"call", "send"}

\* expr_names: those of arguments and receivers, too.
ExprNames(e) == NameOf(e.l) \cup (IF e.op = "leaf" THEN {} ELSE NameOf(e.r))

\* source_from_expr.
IsSource(e) == IsCall(e) /\ e.fn = "source"

\* Mutant: a sink with a port is fed by every argument.
SinkNamesAny(e) == IF IsCall(e) /\ e.fn \in {"sink", "sink first"} THEN ExprNames(e) ELSE {}

\* check_args: the names in the arguments that are a port of the sink.
SinkNames(e) ==
  CASE IsCall(e) /\ e.fn = "sink" -> ExprNames(e)
    [] IsCall(e) /\ e.fn = "sink first" -> NameOf(e.l)
    [] OTHER -> {}

\* taint_of_expr: that of the first tainted name.
TaintOfExpr(e, map) ==
  LET left == {map[n] : n \in NameOf(e.l)} \ {Clean}
      all  == {map[n] : n \in ExprNames(e)} \ {Clean}
  IN  IF all = {} THEN Clean ELSE CHOOSE t \in IF left # {} THEN left ELSE all : TRUE

\* Mutant: what a call is given does not taint its result.
TaintThroughValues(s, map) ==
  LET own == [map EXCEPT ![s.dst] = IF IsSource(s.e) THEN pos ELSE @]
      t   == IF IsCall(s.e) THEN Clean ELSE TaintOfExpr(s.e, own)
  IN  IF s.op # "name" THEN map ELSE IF t = Clean THEN own ELSE [own EXCEPT ![s.dst] = t]

\* Only assignments to a name taint, and none makes a name clean again.
Taint(s, map) ==
  LET own == [map EXCEPT ![s.dst] = IF IsSource(s.e) THEN pos ELSE @]
      t   == TaintOfExpr(s.e, own)
  IN  IF s.op # "name" THEN map ELSE IF t = Clean THEN own ELSE [own EXCEPT ![s.dst] = t]

\* The statements in which sinks are looked for.
Searched == {"name", "reg", "store", "expr"}

Finding(at, n, src) == [at |-> at, name |-> n, source |-> src]

Findings(s, map) ==
  IF s.op \in Searched
  THEN {Finding(pos, n, map[n]) : n \in {m \in SinkNames(s.e) : map[m] # Clean}}
  ELSE {}

Analyze(s) ==
  /\ tainted' = Taint(s, tainted)
  /\ findings' = findings \cup Findings(s, tainted')

-----------------------------------------------------------------------------
(* The function, running *)

\* What the value of an operand derives from.  What is in memory or in a
\* floating-point register is not traced.
Value(l) ==
  CASE l.k = "Name" -> real[l.name]
    [] l.k = "Reg" -> held[l.name]
    [] OTHER -> {}

Operands(e) == IF e.op = "leaf" THEN {e.l} ELSE {e.l, e.r}

\* The operands a sink is given: `fn` says which.
Given(e) ==
  {e[port] : port \in CASE IsCall(e) /\ e.fn = "sink" -> {"l", "r"}
                        [] IsCall(e) /\ e.fn = "sink first" -> {"l"}
                        [] OTHER -> {}}

Own(e) == {p \in {pos} : IsSource(e)}

\* A value derives from the operands it is computed from and, as the result
\* of a source, from that.
Derives(e) == (UNION {Value(l) : l \in Operands(e)}) \cup Own(e)

ByNames(e) == (UNION {direct[n] : n \in ExprNames(e)}) \cup Own(e)

Leak(at, l) == [at |-> at, given |-> l, direct |-> l.k = "Name" /\ direct[l.name] # {}]

Run(s) ==
  /\ real' = IF s.op = "name" THEN [real EXCEPT ![s.dst] = Derives(s.e)] ELSE real
  /\ held' = IF s.op = "reg" THEN [held EXCEPT ![s.dst] = Derives(s.e)] ELSE held
  /\ direct' = IF s.op = "name" THEN [direct EXCEPT ![s.dst] = ByNames(s.e)] ELSE direct
  /\ leaks' = leaks \cup {Leak(pos, l) : l \in {m \in Given(s.e) : Value(m) # {}}}
  /\ UNCHANGED skipped

Skip == skipped' = TRUE /\ UNCHANGED <<real, held, direct, leaks>>

-----------------------------------------------------------------------------

Init ==
  /\ TypesInit
  /\ tainted = [n \in Names |-> Clean]
  /\ findings = {}
  /\ real = [n \in Names |-> {}]
  /\ held = [n \in Names |-> {}]
  /\ direct = [n \in Names |-> {}]
  /\ leaks = {}
  /\ skipped = FALSE

StartFlows ==
  /\ phase = "typed"
  /\ phase' = "flows"
  /\ UNCHANGED <<input, pos, types, round, before, settled, flowVars, runVars>>

\* The analysis reads every statement, the run may not come by it.
FlowStmt ==
  /\ phase = "flows" /\ pos <= Len(stmts)
  /\ Analyze(stmts[pos])
  /\ Run(stmts[pos]) \/ Skip
  /\ pos' = pos + 1
  /\ UNCHANGED <<input, phase, types, round, before, settled>>

Next == (TypesNext /\ UNCHANGED <<flowVars, runVars>>) \/ StartFlows \/ FlowStmt

Spec == Init /\ [][Next]_vars

-----------------------------------------------------------------------------
(* Properties *)

Found == {[at |-> f.at, name |-> f.name] : f \in findings}

\* A flow by names is not missed: on every path that only branches forward, a
\* sink that is given a name whose value derives from a source, by names alone,
\* is reported with that name, unless it is called in the operand of a return
\* or in the address of a store.  Flows through a register are not followed.
FlowsFound ==
  \A k \in leaks :
    k.direct /\ stmts[k.at].op \notin {"return", "address"} =>
      [at |-> k.at, name |-> k.given.name] \in Found

\* Every name is assigned once, and not read before.
AssignedOnce ==
  \A i, j \in DOMAIN stmts :
    stmts[i].op = "name" =>
      /\ stmts[j].op = "name" /\ stmts[i].dst = stmts[j].dst => i = j
      /\ j <= i => stmts[i].dst \notin ExprNames(stmts[j].e)

\* Nothing is made up: when every statement is run, a finding names a sink
\* that was given the value, and a source the name derives from.  A name that
\* is assigned anew stays tainted, so this is about functions that assign each
\* name once.
FlowsReal ==
  AssignedOnce /\ ~skipped =>
    \A f \in findings :
      /\ f.source \in real[f.name]
      /\ \E k \in leaks : k.at = f.at /\ k.given.k = "Name" /\ k.given.name = f.name
=============================================================================
