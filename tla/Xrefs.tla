------------------------------- MODULE Xrefs -------------------------------
(***************************************************************************)
(* Cross references and the call graph (xrefs.rs) of the file whose        *)
(* functions the batch has decompiled.  The text is scanned instruction by *)
(* instruction; `values` is what the processor computes on the way, as far *)
(* as the text tells.                                                      *)
(***************************************************************************)
EXTENDS Batch

CONSTANT
  Regs,      \* general registers
  CallSaved, \* those a call keeps, x19 to x28
  Strings    \* addresses of C strings

VARIABLES
  pos,       \* instructions scanned
  pending,   \* pending_adrp: registers with the address of an adrp and its page
  index,     \* the references
  graph,     \* the edges of the call graph
  regs,      \* registers of the processor
  values     \* what each add or sub has computed

processor == <<regs, values>>
vars == <<file, batch, phase, pos, pending, index, graph, processor>>

None == [at |-> 0, page |-> 0]

\* An instruction, as far as collect_insn_xrefs looks at it: what it is,
\* registers, and the address or number in it (near_branch_target, op2_imm),
\* 0 for none.  "bl" and "b" without an address are blr, br and ret.  "mov"
\* is a move of a number (movz, movk, movn, orr_imm, and_imm), "orr" one of a
\* register, "other" writes rd in some other way, "str" writes no register.
Insns == [op : {"bl", "b", "bcond", "adr", "adrp", "add", "sub", "mov", "orr", "ldr", "str", "other"},
          rd : Regs, rn : Regs, n : Nat]

ASSUME CodeAssumption == \A f \in Inputs : f.code \in Seq(Insns)

-----------------------------------------------------------------------------
(* The processor.  It runs the text from its start to its end, and where   *)
(* control may come from elsewhere it forgets what the registers hold.     *)

\* What a register holds, as the set of that value, or nothing when the
\* text alone does not tell.
Unknown == {}

\* Control comes here by a branch, by a call, or as a function starts.
Joined(at) ==
  \/ \E k \in DOMAIN file.code : file.code[k].op \in {"bl", "b", "bcond"} /\ file.code[k].n = at
  \/ \E s \in Range(file.symbols) : s.va = at
  \/ at \in FunctionStarts

\* The registers that do not hold what they held when the next instruction
\* is reached.  Behind an unconditional jump they hold what somebody else left.
Clobbers(insn) ==
  CASE insn.op = "bl" -> Regs \ CallSaved
    [] insn.op = "b" -> Regs
    [] insn.op \in {"bcond", "str"} -> {}
    [] OTHER -> {insn.rd}

Held(at) == [r \in Regs |-> IF Joined(at) THEN Unknown ELSE regs[r]]

Result(insn, held) ==
  CASE insn.op \in {"adr", "adrp"} -> {insn.n}
    [] insn.op = "add" -> {value + insn.n : value \in held[insn.rn]}
    [] insn.op = "sub" -> {value - insn.n : value \in held[insn.rn]}
    [] insn.op = "orr" -> held[insn.rn]
    [] OTHER -> Unknown

Execute(at, insn) ==
  LET held == Held(at)
      result == Result(insn, held)
  IN  /\ regs' = [r \in Regs |->
                   IF r \notin Clobbers(insn) THEN held[r]
                   ELSE IF insn.op \in {"bl", "b"} THEN Unknown ELSE result]
      /\ values' = Append(values, result)

-----------------------------------------------------------------------------
(* The scan (collect_insn_xrefs).                                          *)

Ref(from, to, kind) == [from |-> from, to |-> to, kind |-> kind]

UsesPage(insn) == insn.op \in {"add", "sub"} /\ pending[insn.rn] # None

Target(insn) ==
  IF insn.op = "add" THEN pending[insn.rn].page + insn.n ELSE pending[insn.rn].page - insn.n

\* Mutant: a register keeps its page when a number is moved into it.
PendingKept(at, insn) ==
  CASE insn.op \in {"adr", "adrp"} ->
         IF insn.n # 0 THEN [pending EXCEPT ![insn.rd] = [at |-> at, page |-> insn.n]] ELSE pending
    [] UsesPage(insn) -> [pending EXCEPT ![insn.rn] = None]
    [] OTHER -> pending

\* A page is used once, and forgotten when a number is moved over it.
Pending(at, insn) ==
  CASE insn.op \in {"adr", "adrp"} ->
         IF insn.n # 0 THEN [pending EXCEPT ![insn.rd] = [at |-> at, page |-> insn.n]] ELSE pending
    [] UsesPage(insn) -> [pending EXCEPT ![insn.rn] = None]
    [] insn.op = "mov" -> [pending EXCEPT ![insn.rd] = None]
    [] OTHER -> pending

RefsOf(at, insn) ==
  CASE insn.op = "bl" /\ insn.n # 0 -> {Ref(at, insn.n, "call")}
    [] insn.op \in {"b", "bcond"} /\ insn.n # 0 -> {Ref(at, insn.n, "branch")}
    [] insn.op = "adr" /\ insn.n # 0 -> {Ref(at, insn.n, "data")}
    [] insn.op = "ldr" /\ insn.n \notin {0, at} -> {Ref(at, insn.n, "data")}
    [] UsesPage(insn) -> {Ref(from, Target(insn), "data") : from \in {pending[insn.rn].at, at}}
    [] OTHER -> {}

ScanInsn ==
  LET at   == pos + 1
      insn == file.code[at]
  IN  /\ phase = "scan" /\ pos < Size
      /\ pos' = at
      /\ index' = index \cup RefsOf(at, insn)
      /\ pending' = Pending(at, insn)
      /\ Execute(at, insn)
      /\ UNCHANGED <<file, batch, phase, graph>>

\* build_macho_xrefs: what refers to a string refers to it as a string, too.
PromoteStrings ==
  /\ phase = "scan" /\ pos = Size
  /\ index' = index \cup {Ref(x.from, x.to, "string") :
                            x \in {x \in index : x.kind = "data" /\ x.to \in Strings}}
  /\ phase' = "graph"
  /\ UNCHANGED <<file, batch, pos, pending, graph, processor>>

\* Mutant: a call in the first instruction belongs to the function before.
EnclosingBefore(starts, at) ==
  LET before == {va \in starts : va < at} IN IF before = {} THEN at ELSE Max(before)

\* enclosing_func: the last start up to the call, or the call itself.
Enclosing(starts, at) ==
  LET before == {va \in starts : va <= at} IN IF before = {} THEN at ELSE Max(before)

\* call_graph, with the starts function_start_vaddrs has found.
CallGraph ==
  /\ phase = "graph"
  /\ graph' = {[caller |-> Enclosing(FunctionStarts, x.from), callee |-> x.to, site |-> x.from] :
                 x \in {x \in index : x.kind = "call"}}
  /\ phase' = "done"
  /\ UNCHANGED <<file, batch, pos, pending, index, processor>>

Init ==
  /\ BatchInit
  /\ pos = 0
  /\ pending = [r \in Regs |-> None]
  /\ index = {}
  /\ graph = {}
  /\ regs = [r \in Regs |-> Unknown]
  /\ values = << >>

Next ==
  \/ BatchNext /\ UNCHANGED <<pos, pending, index, graph, processor>>
  \/ ScanInsn
  \/ PromoteStrings
  \/ CallGraph

Spec == Init /\ [][Next]_vars

-----------------------------------------------------------------------------
(* Properties *)

\* The instruction loads a page, or the address itself, into r.
Loads(insn, r) == insn.op \in {"adr", "adrp"} /\ insn.rd = r /\ insn.n # 0

\* What the code knows to end the life of a page in r.
Ends(insn, r) ==
  \/ Loads(insn, r)
  \/ insn.op = "mov" /\ insn.rd = r
  \/ insn.op \in {"add", "sub"} /\ insn.rn = r

\* From `from` on, control comes to `at` only instruction by instruction, and
\* if r is changed on the way then by what the code knows to change it.
Straight(from, at, r) ==
  /\ \A k \in from + 1 .. at : ~Joined(k)
  /\ \A k \in from + 1 .. at - 1 : r \in Clobbers(file.code[k]) => Ends(file.code[k], r)

\* What an add or sub is said to refer to is the address it computes, as long
\* as the way from the page is straight: a page is not taken for that of
\* another adrp, not used twice, and not used past a move of a number.
DataTargetsReal ==
  \A x \in index :
    x.kind = "data" /\ file.code[x.from].op \in {"add", "sub"} =>
      LET r == file.code[x.from].rn
      IN  \A a \in 1 .. x.from - 1 :
            Loads(file.code[a], r) /\ Straight(a, x.from, r) => x.to \in values[x.from]

\* The caller the call graph names is the function whose range has the call,
\* when LC_FUNCTION_STARTS lists the functions that were decompiled: bounds
\* and call graph cut the text alike.
CallersContainSites ==
  ({r.start : r \in Range(results)} \subseteq FunctionStarts) =>
    \A e \in graph, r \in Range(results) : r.start <= e.site /\ e.site < r.end => e.caller = r.start
=============================================================================
