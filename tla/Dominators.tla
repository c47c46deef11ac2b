----------------------------- MODULE Dominators -----------------------------
(***************************************************************************)
(* `FunctionCfg::immediate_dominators` (cfg.rs): a depth-first search that *)
(* numbers the blocks in postorder, then sweeps over the blocks in reverse *)
(* postorder until nothing changes.  In a sweep the candidate dominator of *)
(* a block is the meeting point of its predecessors in the tree built so   *)
(* far (`intersect`, two fingers that climb).  The table starts as all     *)
(* zeroes, that is with the entry as everybody's dominator.                *)
(***************************************************************************)
EXTENDS FunctionCfg

VARIABLES
  ends,     \* BlockEnd of every block; the input, never changed
  pc,       \* "dfs", "sweep", "preds", "climb" or "done"
  path,     \* active `dfs_post` calls, outermost first
  seen,     \* `seen`
  nxt,      \* next successor to look at, in each block's `dfs_post` call
  num,      \* position in `post` from 1, 0 when not pushed yet
  posted,   \* length of `post`
  idom,     \* `idom`
  changed,  \* `changed`
  at,       \* the sweep is at the block whose postorder number is `at`
  todo,     \* predecessors of that block still to be folded in
  cand,     \* `new_idom`, None before the first reached predecessor
  x, y      \* the fingers `a` and `b` of `intersect`

dfsVars   == <<path, seen, nxt, num, posted>>
sweepVars == <<idom, changed, at>>
foldVars  == <<todo, cand, x, y>>
vars      == <<ends, pc, dfsVars, sweepVars, foldVars>>

None == -1

TypeOK ==
  /\ ends \in [Blocks -> BlockEnd]
  /\ pc \in {"dfs", "sweep", "preds", "climb", "done"}
  /\ path \in Seq(Blocks)
  /\ seen \in SUBSET Blocks
  /\ nxt \in [Blocks -> Nat \ {0}]
  /\ num \in [Blocks -> 0 .. posted]
  /\ posted \in Nat
  /\ idom \in [Blocks -> Blocks]
  /\ changed \in BOOLEAN
  /\ at \in Nat /\ (at = 0 \/ at < posted)
  /\ todo \in SUBSET Blocks
  /\ cand \in Blocks \cup {None}
  /\ x \in Blocks /\ y \in Blocks

Reached == {b \in Blocks : num[b] # 0}

\* Mutant: the postorder is not reversed.
PostIdx(b) == IF num[b] = 0 THEN 0 ELSE num[b] - 1

\* `rpo_idx`: position in the reversed postorder, 0 for a block that is not in it.
RpoIdx(b) == IF num[b] = 0 THEN 0 ELSE posted - num[b]

BlockAt == CHOOSE b \in Blocks : num[b] = at

Init ==
  /\ ends \in Cfgs
  /\ pc = "dfs"
  /\ path = <<Entry>>
  /\ seen = {Entry}
  /\ nxt = [b \in Blocks |-> 1]
  /\ num = [b \in Blocks |-> 0]
  /\ posted = 0
  /\ idom = [b \in Blocks |-> Entry]
  /\ changed = TRUE
  /\ at = 0
  /\ todo = {}
  /\ cand = None
  /\ x = Entry /\ y = Entry

-----------------------------------------------------------------------------
(* reverse_postorder: dfs_post with an explicit call stack *)

Top == path[Len(path)]

DfsEnter ==
  /\ pc = "dfs" /\ path # << >>
  /\ nxt[Top] \in DOMAIN ends[Top].to
  /\ LET s == ends[Top].to[nxt[Top]]
     IN  /\ s \notin seen
         /\ seen' = seen \cup {s}
         /\ path' = Append(path, s)
  /\ nxt' = [nxt EXCEPT ![Top] = @ + 1]
  /\ UNCHANGED <<ends, pc, num, posted, sweepVars, foldVars>>

DfsSkip ==
  /\ pc = "dfs" /\ path # << >>
  /\ nxt[Top] \in DOMAIN ends[Top].to
  /\ ends[Top].to[nxt[Top]] \in seen
  /\ nxt' = [nxt EXCEPT ![Top] = @ + 1]
  /\ UNCHANGED <<ends, pc, path, seen, num, posted, sweepVars, foldVars>>

DfsLeave ==
  /\ pc = "dfs" /\ path # << >>
  /\ nxt[Top] \notin DOMAIN ends[Top].to
  /\ num' = [num EXCEPT ![Top] = posted + 1]
  /\ posted' = posted + 1
  /\ path' = SubSeq(path, 1, Len(path) - 1)
  /\ UNCHANGED <<ends, pc, seen, nxt, sweepVars, foldVars>>

-----------------------------------------------------------------------------
(* immediate_dominators: `while changed { for b in rpo.skip(1) { .. } }` *)

StartSweep ==
  /\ \/ pc = "dfs" /\ path = << >>
     \/ pc = "sweep" /\ at = 0 /\ changed
  /\ pc' = "sweep"
  /\ changed' = FALSE
  /\ at' = posted - 1
  /\ UNCHANGED <<ends, dfsVars, idom, foldVars>>

NextBlock ==
  /\ pc = "sweep" /\ at > 0
  /\ pc' = "preds"
  /\ todo' = Preds(ends, BlockAt)
  /\ cand' = None
  /\ UNCHANGED <<ends, dfsVars, sweepVars, x, y>>

\* `for &p in pred_list`: ascending block ids.  Folding in the same
\* predecessor a second time (a doubled edge) changes nothing and is left out.
NextPred(p) ==
  /\ pc = "preds" /\ p \in todo
  /\ \A q \in todo : p <= q
  /\ todo' = todo \ {p}

SkipUnreached ==
  /\ \E p \in todo : NextPred(p) /\ num[p] = 0
  /\ UNCHANGED <<ends, pc, dfsVars, sweepVars, cand, x, y>>

\* Mutant: the fold starts at the dominator of the first predecessor.
FirstPredAbove ==
  /\ cand = None
  /\ \E p \in todo : NextPred(p) /\ num[p] # 0 /\ cand' = idom[p]
  /\ UNCHANGED <<ends, pc, dfsVars, sweepVars, x, y>>

FirstPred ==
  /\ cand = None
  /\ \E p \in todo : NextPred(p) /\ num[p] # 0 /\ cand' = p
  /\ UNCHANGED <<ends, pc, dfsVars, sweepVars, x, y>>

BeginIntersect ==
  /\ cand # None
  /\ \E p \in todo : NextPred(p) /\ num[p] # 0 /\ y' = p
  /\ x' = cand
  /\ pc' = "climb"
  /\ UNCHANGED <<ends, dfsVars, sweepVars, cand>>

ClimbX ==
  /\ pc = "climb" /\ RpoIdx(x) > RpoIdx(y)
  /\ x' = idom[x]
  /\ UNCHANGED <<ends, pc, dfsVars, sweepVars, todo, cand, y>>

ClimbY ==
  /\ pc = "climb" /\ RpoIdx(y) > RpoIdx(x)
  /\ y' = idom[y]
  /\ UNCHANGED <<ends, pc, dfsVars, sweepVars, todo, cand, x>>

Meet ==
  /\ pc = "climb" /\ x = y
  /\ cand' = x
  /\ pc' = "preds"
  /\ UNCHANGED <<ends, dfsVars, sweepVars, todo, x, y>>

\* Mutant: the loop over the predecessors stops at the first reached one.
SetIdomEarly ==
  /\ pc = "preds" /\ cand # None
  /\ IF idom[BlockAt] # cand
     THEN /\ idom' = [idom EXCEPT ![BlockAt] = cand]
          /\ changed' = TRUE
     ELSE UNCHANGED <<idom, changed>>
  /\ at' = at - 1
  /\ pc' = "sweep"
  /\ UNCHANGED <<ends, dfsVars, foldVars>>

\* Mutant: `changed` is set even if the entry of the table stays the same.
SetIdomAlwaysChanged ==
  /\ pc = "preds" /\ todo = {}
  /\ idom' = [idom EXCEPT ![BlockAt] = IF cand = None THEN @ ELSE cand]
  /\ changed' = TRUE
  /\ at' = at - 1
  /\ pc' = "sweep"
  /\ UNCHANGED <<ends, dfsVars, foldVars>>

SetIdom ==
  /\ pc = "preds" /\ todo = {}
  /\ IF cand # None /\ idom[BlockAt] # cand
     THEN /\ idom' = [idom EXCEPT ![BlockAt] = cand]
          /\ changed' = TRUE
     ELSE UNCHANGED <<idom, changed>>
  /\ at' = at - 1
  /\ pc' = "sweep"
  /\ UNCHANGED <<ends, dfsVars, foldVars>>

Finish ==
  /\ pc = "sweep" /\ at = 0 /\ ~changed
  /\ pc' = "done"
  /\ UNCHANGED <<ends, dfsVars, sweepVars, foldVars>>

\* The function has returned.
Returned == pc = "done" /\ UNCHANGED vars

Next ==
  \/ DfsEnter \/ DfsSkip \/ DfsLeave
  \/ StartSweep \/ NextBlock \/ SkipUnreached \/ FirstPred
  \/ BeginIntersect \/ ClimbX \/ ClimbY \/ Meet
  \/ SetIdom \/ Finish \/ Returned

Spec == Init /\ [][Next]_vars

\* A sequential function: the only way not to take a step is to have returned.
FairSpec == Spec /\ WF_vars(Next)

-----------------------------------------------------------------------------
(* Properties *)

(***************************************************************************)
(* The reverse postorder lists exactly the blocks reachable from the entry *)
(* and gives every one but the entry a predecessor that comes before it;   *)
(* without that predecessor the first sweep would meet a block whose       *)
(* predecessors are all below it (cfg.rs, dfs_post).                       *)
(***************************************************************************)
RpoSound ==
  pc # "dfs" =>
    /\ Reached = Reachable(ends)
    /\ RpoIdx(Entry) = 0
    /\ \A b \in Reached \ {Entry} :
         \E p \in Preds(ends, b) \cap Reached : RpoIdx(p) < RpoIdx(b)

(***************************************************************************)
(* Each entry of `idom` points to a block strictly earlier in reverse      *)
(* postorder at every moment, in the middle of a sweep included.  It is    *)
(* what makes a finger of `intersect` that climbs come to the entry.       *)
(***************************************************************************)
ClimbsAscend ==
  pc # "dfs" => \A b \in Reached \ {Entry} : RpoIdx(idom[b]) < RpoIdx(b)

(***************************************************************************)
(* `intersect` never spins: while the fingers differ one of them is        *)
(* strictly below the other, so an inner loop has work to do.              *)
(***************************************************************************)
FingersProgress ==
  pc = "climb" => (x = y \/ RpoIdx(x) # RpoIdx(y))

(***************************************************************************)
(* The table that is returned is sound: idom[b] lies on every path from    *)
(* the entry to b.                                                         *)
(***************************************************************************)
IdomSound ==
  pc = "done" => \A b \in Reached : Dominates(ends, idom[b], b)

\* The chain b, idom[b], idom[idom[b]], ... as the least set closed upwards.
UpClosed(S) == \A b \in S : idom[b] \in S

Above(b) == {a \in Blocks : \A S \in SUBSET Blocks : b \in S /\ UpClosed(S) => a \in S}

(***************************************************************************)
(* What SSA renaming needs of the returned table: on every edge p -> b the *)
(* dominator of b is p or above p, so that the names on the renaming stack *)
(* when the walk enters b are those of a block every predecessor inherits  *)
(* from.                                                                   *)
(***************************************************************************)
EdgesRespectTree ==
  pc = "done" =>
    \A b \in Reached \ {Entry} :
      \A p \in Preds(ends, b) \cap Reached : idom[b] \in Above(p)

(***************************************************************************)
(* The function returns, on every graph (cfg.rs, the `while changed` loop  *)
(* and the climbing loops inside it).                                      *)
(***************************************************************************)
Terminates == <>(pc = "done")

\* Among the strict dominators of b, idom[b] is the one all others dominate.
Immediate ==
  \A b \in Reached \ {Entry} :
    \A d \in Reached \ {b} :
      Dominates(ends, d, b) => Dominates(ends, d, idom[b])

(***************************************************************************)
(* The table is exact on a function without loops: it is only a retreating *)
(* edge, whose source still has the initial zero when its target is first  *)
(* visited, that makes it less precise than the comment says.              *)
(***************************************************************************)
IdomImmediateIfAcyclic ==
  pc = "done" /\ (\A p \in Reached : \A b \in SuccSet(ends, p) : RpoIdx(p) < RpoIdx(b))
    => Immediate
=============================================================================
