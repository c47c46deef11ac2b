---------------------------- MODULE FunctionCfg ----------------------------
(***************************************************************************)
(* The control-flow graph of one function, as `FunctionCfg` keeps it:      *)
(* blocks are numbered 0 .. N-1 in address order, block 0 is the entry,    *)
(* and each block has a BlockEnd that names its successors in order.       *)
(* Block contents are the business of the modules that use the graph.      *)
(***************************************************************************)
EXTENDS Integers, FiniteSets, Sequences

CONSTANT N      \* number of basic blocks
ASSUME NAssumption == N \in Nat \ {0}

Blocks == 0 .. N-1
Entry  == 0

(***************************************************************************)
(* BlockEnd.  `to` is the list `successors` returns for that end: Exit and *)
(* FallThrough have none, a Conditional lists the branch target first.     *)
(***************************************************************************)
Exit              == [kind |-> "Exit", to |-> << >>]
FallThrough       == [kind |-> "FallThrough", to |-> << >>]
Goto(t)           == [kind |-> "Goto", to |-> <<t>>]
Conditional(t, f) == [kind |-> "Conditional", to |-> <<t, f>>]

BlockEnd == [kind : {"Exit", "FallThrough", "Goto", "Conditional"},
             to   : Seq(Blocks)]

(***************************************************************************)
(* The ends `classify_end` can give block b: the fall-through of a         *)
(* conditional branch is the next instruction, so the next block, and only *)
(* the last block can run off the end of the function.                     *)
(***************************************************************************)
EndsOf(b) ==
  {Exit} \cup {Goto(t) : t \in Blocks}
         \cup {Conditional(t, b+1) : t \in {s \in Blocks : b+1 \in Blocks}}
         \cup {e \in {FallThrough} : b+1 \notin Blocks}

SuccSet(e, b) == {e[b].to[i] : i \in DOMAIN e[b].to}
Preds(e, b)   == {p \in Blocks : b \in SuccSet(e, p)}

(***************************************************************************)
(* Every choice of ends can be built: a jump in the middle of a block adds *)
(* a leader without adding an edge, so no block needs a predecessor.       *)
(***************************************************************************)
Cfgs == {e \in [Blocks -> UNION {EndsOf(b) : b \in Blocks}] :
           \A b \in Blocks : e[b] \in EndsOf(b)}

(***************************************************************************)
(* Reference notions, stated with closed sets of blocks.                   *)
(***************************************************************************)
Closed(e, S) == \A p \in S : SuccSet(e, p) \subseteq S

Reachable(e) ==
  {b \in Blocks : \A S \in SUBSET Blocks : Entry \in S /\ Closed(e, S) => b \in S}

\* d lies on every path from the entry to b: the blocks reachable without
\* passing through d fit in a set that holds neither d nor b.
Dominates(e, d, b) ==
  \E S \in SUBSET (Blocks \ {d, b}) :
    /\ d # Entry => Entry \in S
    /\ \A p \in S : SuccSet(e, p) \subseteq S \cup {d}
=============================================================================
