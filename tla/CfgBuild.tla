------------------------------ MODULE CfgBuild ------------------------------
(***************************************************************************)
(* `FunctionCfg::build` (cfg.rs): from the instructions of one function to *)
(* its basic blocks, their ends and the set of loop headers.  Addresses    *)
(* are positions in the instruction list, from 0.  When the graph is built *)
(* the module executes the instructions, so that the properties can ask    *)
(* whether the graph follows every transfer of control.                    *)
(***************************************************************************)
EXTENDS Integers, FiniteSets, Sequences

CONSTANT MaxInsns     \* bound on the length of the function
ASSUME MaxInsnsAssumption == MaxInsns \in Nat \ {0}

VARIABLES
  insns,      \* the instructions, as a function on 0 .. Len-1
  pc,         \* "leaders", "blocks", "headers", "run"
  i,          \* position of the loop that `pc` is in
  leaders,    \* `leaders`
  blocks,     \* `blocks`, block id b is blocks[b+1]
  headers,    \* `loop_headers`
  ip          \* the instruction that is executed

vars == <<insns, pc, i, leaders, blocks, headers, ip>>

Out == -1       \* a branch target that is not an instruction of the function

(***************************************************************************)
(* Instructions, by what the predicates of cfg.rs tell apart: "call" is    *)
(* is_call, "ret" is is_return, "br" an indirect jump, "b" an              *)
(* unconditional and "bcond" a conditional jump; the authenticated forms   *)
(* (pac.rs) belong to the same kinds.                                      *)
(***************************************************************************)
Insns(n) ==
  [op : {"plain", "call", "ret", "br"}, target : {Out}]
    \cup [op : {"b", "bcond"}, target : {Out} \cup 0 .. n-1]

Len0 == Cardinality(DOMAIN insns)
Positions == DOMAIN insns

IsBranch(in) == in.op \in {"ret", "br", "b", "bcond"}
IsUnconditional(in) == in.op = "b"
IsReturn(in) == in.op = "ret"
IsCall(in) == in.op = "call"

Functions == UNION {[0 .. n-1 -> Insns(n)] : n \in 1 .. MaxInsns}

Init ==
  /\ insns \in Functions
  /\ pc = "leaders"
  /\ i = 0
  /\ leaders = {0}
  /\ blocks = << >>
  /\ headers = {}
  /\ ip = 0

-----------------------------------------------------------------------------
(* Leaders *)

TargetLeader(in) == {p \in Positions : IsBranch(in) /\ p = in.target}

\* Mutant: only a call makes a leader of the next instruction.
NextIsLeaderCall(in) == IsCall(in)

NextIsLeader(in) ==
  \/ IsBranch(in) /\ ~IsUnconditional(in) /\ ~IsReturn(in)
  \/ IsCall(in)

ScanInsn ==
  /\ pc = "leaders" /\ i \in Positions
  /\ leaders' = leaders \cup TargetLeader(insns[i])
                        \cup {p \in {i + 1} \cap Positions : NextIsLeader(insns[i])}
  /\ i' = i + 1
  /\ UNCHANGED <<insns, pc, blocks, headers, ip>>

LeadersDone ==
  /\ pc = "leaders" /\ i \notin Positions
  /\ pc' = "blocks" /\ i' = 0
  /\ UNCHANGED <<insns, leaders, blocks, headers, ip>>

-----------------------------------------------------------------------------
(* Blocks and classify_end *)

\* `block_by_start`: the id of the block that starts at leader p.
IdOf(p) == Cardinality({q \in leaders : q < p})

Exit              == [kind |-> "Exit", to |-> << >>]
FallThrough       == [kind |-> "FallThrough", to |-> << >>]
Goto(t)           == [kind |-> "Goto", to |-> <<t>>]
Conditional(t, f) == [kind |-> "Conditional", to |-> <<t, f>>]

FallEnd(p) == IF p + 1 \in leaders THEN Goto(IdOf(p + 1)) ELSE FallThrough

\* Mutant: the targets of a conditional branch are swapped.
ClassifyEndSwapped(p) ==
  LET in == insns[p] IN
  CASE in.op \in {"ret", "br"} -> Exit
    [] in.op = "b" -> IF in.target \in leaders THEN Goto(IdOf(in.target)) ELSE Exit
    [] in.op = "bcond" /\ in.target \in leaders /\ p + 1 \in leaders ->
         Conditional(IdOf(p + 1), IdOf(in.target))
    [] OTHER -> FallEnd(p)

\* Mutant: a jump out of the function falls through.
ClassifyEndTailFalls(p) ==
  LET in == insns[p] IN
  CASE in.op \in {"ret", "br"} -> Exit
    [] in.op = "b" /\ in.target \in leaders -> Goto(IdOf(in.target))
    [] in.op = "bcond" /\ in.target \in leaders /\ p + 1 \in leaders ->
         Conditional(IdOf(in.target), IdOf(p + 1))
    [] OTHER -> FallEnd(p)

ClassifyEnd(p) ==
  LET in == insns[p] IN
  CASE in.op \in {"ret", "br"} -> Exit
    [] in.op = "b" -> IF in.target \in leaders THEN Goto(IdOf(in.target)) ELSE Exit
    [] in.op = "bcond" /\ in.target \in leaders /\ p + 1 \in leaders ->
         Conditional(IdOf(in.target), IdOf(p + 1))
    [] OTHER -> FallEnd(p)

\* Mutant: the next leader is included (`>` for `>=`).
BlockLastClosed(p) ==
  CHOOSE q \in Positions :
    /\ q >= p
    /\ \A l \in leaders : l > p => q <= l
    /\ q = Len0 - 1 \/ q \in leaders

\* The instructions of the block at leader p go on until the next leader.
BlockLast(p) ==
  CHOOSE q \in Positions :
    /\ q >= p
    /\ \A l \in leaders : l > p => q < l
    /\ q + 1 \in leaders \cup {Len0}

\* `for (bi, &start) in leader_list`
BuildBlock ==
  /\ pc = "blocks" /\ i < Cardinality(leaders)
  /\ LET start == CHOOSE p \in leaders : Cardinality({q \in leaders : q < p}) = i
         last  == BlockLast(start)
     IN  blocks' = Append(blocks, [first |-> start, last |-> last, end |-> ClassifyEnd(last)])
  /\ i' = i + 1
  /\ UNCHANGED <<insns, pc, leaders, headers, ip>>

BlocksDone ==
  /\ pc = "blocks" /\ i = Cardinality(leaders)
  /\ pc' = "headers" /\ i' = 0
  /\ UNCHANGED <<insns, leaders, blocks, headers, ip>>

-----------------------------------------------------------------------------
(* Loop headers: the targets of jumps that do not go forward in the layout *)

BlockIds == 0 .. Len(blocks) - 1
Succ(b) == {blocks[b+1].end.to[k] : k \in DOMAIN blocks[b+1].end.to}

\* Mutant: a block that jumps to itself is not seen.
ScanBlockStrict ==
  /\ pc = "headers" /\ i \in BlockIds
  /\ headers' = headers \cup {s \in Succ(i) : s < i}
  /\ i' = i + 1
  /\ UNCHANGED <<insns, pc, leaders, blocks, ip>>

ScanBlock ==
  /\ pc = "headers" /\ i \in BlockIds
  /\ headers' = headers \cup {s \in Succ(i) : s <= i}
  /\ i' = i + 1
  /\ UNCHANGED <<insns, pc, leaders, blocks, ip>>

HeadersDone ==
  /\ pc = "headers" /\ i \notin BlockIds
  /\ pc' = "run" /\ i' = 0
  /\ UNCHANGED <<insns, leaders, blocks, headers, ip>>

-----------------------------------------------------------------------------
(* The processor executes the function: it leaves it by ret and by jumps   *)
(* out of it, and comes back from calls.  An indirect jump leaves it, or   *)
(* goes to some instruction of it, as that of a switch does.               *)

\* Where the instruction itself says that control goes next.
InsnSucc(p) ==
  LET in == insns[p]
      next == IF in.op \in {"b", "ret", "br"} THEN {} ELSE {p + 1}
  IN  (next \cup {in.target}) \cap Positions

Execute ==
  /\ pc = "run"
  /\ ip' \in IF insns[ip].op = "br" THEN Positions ELSE InsnSucc(ip)
  /\ UNCHANGED <<insns, pc, i, leaders, blocks, headers>>

Stop ==
  /\ pc = "run" /\ InsnSucc(ip) = {}
  /\ UNCHANGED vars

Next ==
  \/ ScanInsn \/ LeadersDone \/ BuildBlock \/ BlocksDone
  \/ ScanBlock \/ HeadersDone \/ Execute \/ Stop

Spec == Init /\ [][Next]_vars

-----------------------------------------------------------------------------
(* Properties *)

Built == pc \in {"headers", "run"}

InBlock(p, b) == blocks[b+1].first <= p /\ p <= blocks[b+1].last

(***************************************************************************)
(* The blocks cut the function into consecutive, nonempty pieces, and the  *)
(* id under which a leader was registered is the id of its block: the      *)
(* numbers in the edges name the blocks they were meant for.               *)
(***************************************************************************)
BlocksPartition ==
  Built =>
    /\ \A p \in Positions : \E b \in BlockIds : InBlock(p, b)
    /\ \A p \in Positions : \A b, c \in BlockIds : InBlock(p, b) /\ InBlock(p, c) => b = c
    /\ \A p \in leaders : blocks[IdOf(p) + 1].first = p

(***************************************************************************)
(* The graph is one `Dominators` and `SsaConstruct` are checked on.        *)
(***************************************************************************)
Graph(n) == INSTANCE FunctionCfg WITH N <- n

BuiltIsCfg ==
  Built => [b \in BlockIds |-> blocks[b+1].end] \in Graph(Len(blocks))!Cfgs

(***************************************************************************)
(* `build` makes no leader of what follows a jump or a return.  When it is *)
(* no target of a branch either, as the cases of a switch are not, and     *)
(* neither is unreachable code, the block goes on behind the jump.         *)
(***************************************************************************)
Buried(p) == insns[p].op \in {"b", "ret"} /\ \A b \in BlockIds : p # blocks[b+1].last

\* A conditional branch at the end of the function, which has no next one.
Dangling(p) == insns[p].op = "bcond" /\ p + 1 \notin Positions

(***************************************************************************)
(* The edges are the transfers of control.  Every step the processor makes *)
(* inside the function stays in the block or goes along an edge to the     *)
(* start of the block it names (classify_end and the choice of leaders),   *)
(* and what the graph follows out of a block that executes, its last       *)
(* instruction can do.  This is so for each instruction but an indirect    *)
(* jump, a jump or return inside of a block, and a conditional branch      *)
(* behind which the function ends.                                         *)
(***************************************************************************)
Follows(p, q) ==
  \E b \in BlockIds :
    /\ InBlock(p, b)
    /\ \/ InBlock(q, b) /\ q = p + 1
       \/ p = blocks[b+1].last /\ \E s \in Succ(b) : blocks[s+1].first = q

EdgesHaveTransfers ==
  pc = "run" /\ ~Dangling(ip) =>
    \A b \in BlockIds : ip = blocks[b+1].last =>
      {blocks[s+1].first : s \in Succ(b)} = InsnSucc(ip)

StepFollows ==
  pc = "run" /\ ip' # ip /\ insns[ip].op # "br" /\ ~Buried(ip) /\ ~Dangling(ip) => Follows(ip, ip')

TransfersAreEdges == [][StepFollows /\ EdgesHaveTransfers']_vars

(***************************************************************************)
(* Every cycle of the graph goes through a loop header.                    *)
(***************************************************************************)
HeadersCutCycles ==
  pc = "run" =>
    \A S \in (SUBSET BlockIds) \ {{}} :
      (\A b \in S : Succ(b) \cap S # {}) => S \cap headers # {}
=============================================================================
