---------------------------- MODULE SsaConstruct ----------------------------
(***************************************************************************)
(* `construct_ssa` (ssa.rs) for one register, on top of the dominator      *)
(* table of `Dominators`: dominance frontiers, placement of the phi        *)
(* statements, and renaming by a walk over the dominator tree.  Registers  *)
(* do not interact: each has its own definition sites, phis, counter and   *)
(* stack, so one register stands for all.                                  *)
(*                                                                         *)
(* Every block reads the register once and then, if it is a member of      *)
(* `defs`, assigns it once.  When renaming is done the module follows the  *)
(* program along every path of the graph and carries the version that was  *)
(* assigned last; the properties compare it with the versions the renaming *)
(* wrote into the reads and into the phi operands.                         *)
(***************************************************************************)
EXTENDS Dominators, SequencesExt

CONSTANT EntryIsTarget  \* are branches back to the first instruction allowed
ASSUME EntryIsTargetAssumption == EntryIsTarget \in BOOLEAN

VARIABLES
  stage,     \* "dominators", "frontiers", "place", "rename" or "run"
  defs,      \* blocks that assign the register (`def_sites`)
  df,        \* `df`: dominance frontier of every block
  work,      \* `work`, popped from its end
  phis,      \* `has_phi`: blocks that start with a phi
  calls,     \* active `rename_block` calls, outermost first
  entered,   \* blocks renamed so far
  nextVer,   \* `next_ver`
  stack,     \* the stack of versions
  phiVer, useVer, defVer,   \* versions written into each block
  arg,       \* arg[p][b]: operand for predecessor p in the phi of b
  cur,       \* the block the program runs
  from,      \* the block it came from
  carried,   \* the version that was assigned last when it left `from`
  last       \* the version assigned last when it reads the register in `cur`

placeVars  == <<df, work, phis>>
renameVars == <<calls, entered, nextVer, stack, phiVer, useVer, defVer, arg>>
runVars    == <<cur, from, carried, last>>
ssaVars    == <<vars, stage, defs, placeVars, renameVars, runVars>>

SsaInit ==
  /\ Init
  /\ EntryIsTarget \/ Preds(ends, Entry) = {}
  /\ stage = "dominators"
  /\ defs = {}
  /\ df = [b \in Blocks |-> {}]
  /\ work = << >> /\ phis = {}
  /\ calls = << >> /\ entered = {}
  /\ nextVer = 0
  /\ stack = <<0>>
  /\ phiVer = [b \in Blocks |-> 0]
  /\ useVer = [b \in Blocks |-> 0]
  /\ defVer = [b \in Blocks |-> 0]
  /\ arg = [p \in Blocks |-> [b \in Blocks |-> 0]]
  /\ cur = Entry /\ from = None
  /\ carried = 0 /\ last = 0

-----------------------------------------------------------------------------
(* dominance_frontiers *)

ComputeDominators ==
  /\ pc # "done" /\ Next
  /\ UNCHANGED <<stage, defs, placeVars, renameVars, runVars>>

\* The block's body is chosen once the graph has its dominator table.
PickBody ==
  /\ pc = "done" /\ stage = "dominators"
  /\ defs' \in SUBSET Blocks
  /\ stage' = "frontiers"
  /\ UNCHANGED <<vars, placeVars, renameVars, runVars>>

\* Edges into b; a Conditional whose two targets coincide counts twice.
EdgesInto(b) ==
  {e \in Blocks \X {1, 2} : e[2] \in DOMAIN ends[e[1]].to /\ ends[e[1]].to[e[2]] = b}

\* The blocks `runner` visits from p: up the tree, stopping before idom[b].
Runners(p, b) ==
  {r \in Above(p) : ~(idom[b] \in Above(p) /\ r \in Above(idom[b]))}

Frontier(r) ==
  {b \in Blocks : /\ Cardinality(EdgesInto(b)) >= 2
                  /\ \E p \in Preds(ends, b) : r \in Runners(p, b)}

\* The order a BTreeSet of blocks is listed in: there is one such sequence.
InOrder(S) ==
  {l \in [1 .. Cardinality(S) -> S] : \A i, j \in DOMAIN l : i < j => l[i] < l[j]}

ComputeFrontiers ==
  /\ stage = "frontiers"
  /\ df' = [r \in Blocks |-> Frontier(r)]
  /\ work' \in InOrder(defs)
  /\ stage' = "place"
  /\ UNCHANGED <<vars, defs, phis, renameVars, runVars>>

-----------------------------------------------------------------------------
(* Insert phis at the dominance frontiers *)

\* Mutant: a block that got a phi is not put on the worklist.
PlacePhisOnce ==
  /\ stage = "place" /\ work # << >>
  /\ phis' = phis \cup df[Last(work)]
  /\ work' = Front(work)
  /\ UNCHANGED <<vars, stage, defs, df, renameVars, runVars>>

\* Mutant: a frontier is put on the worklist whether or not it has its phis.
PlacePhisAgain ==
  /\ stage = "place" /\ work # << >>
  /\ LET fresh == df[Last(work)]
     IN  /\ phis' = phis \cup fresh
         /\ \E l \in InOrder(fresh) : work' = Front(work) \o l
  /\ UNCHANGED <<vars, stage, defs, df, renameVars, runVars>>

PlacePhis ==
  /\ stage = "place" /\ work # << >>
  /\ LET fresh == df[Last(work)] \ phis
     IN  /\ phis' = phis \cup fresh
         /\ \E l \in InOrder(fresh) : work' = Front(work) \o l
  /\ UNCHANGED <<vars, stage, defs, df, renameVars, runVars>>

-----------------------------------------------------------------------------
(* rename_block *)

\* Mutant: `new_name` counts from the top of the stack.
NewNameFromStack(k) == Last(stack) + k

\* `new_name`: the k-th fresh version of this step.
NewName(k) == nextVer + k

PhiDefs(b) == (IF b \in phis THEN 1 ELSE 0)
BodyDefs(b) == (IF b \in defs THEN 1 ELSE 0)

\* The part of `rename_block` before the recursion: the phi and the
\* assignment of b push fresh versions, the read takes the top of the stack,
\* and the phis of the successors get the version b ends with.
RenameBlock(b) ==
  LET atUse == IF b \in phis THEN NewName(1) ELSE Last(stack)
      atEnd == IF b \in defs THEN NewName(PhiDefs(b) + 1) ELSE atUse
  IN  /\ nextVer' = NewName(PhiDefs(b) + BodyDefs(b))
      /\ stack' = stack \o (IF b \in phis THEN <<atUse>> ELSE << >>)
                        \o (IF b \in defs THEN <<atEnd>> ELSE << >>)
      /\ phiVer' = [phiVer EXCEPT ![b] = IF b \in phis THEN atUse ELSE @]
      /\ useVer' = [useVer EXCEPT ![b] = atUse]
      /\ defVer' = [defVer EXCEPT ![b] = IF b \in defs THEN atEnd ELSE @]
      /\ arg' = [arg EXCEPT ![b] =
                   [s \in Blocks |-> IF s \in SuccSet(ends, b) \cap phis
                                     THEN atEnd ELSE @[s]]]
      /\ calls' = Append(calls, b)
      /\ entered' = entered \cup {b}
      /\ UNCHANGED <<vars, defs, placeVars, runVars>>

Children(b) == {c \in Blocks : c # b /\ idom[c] = b}

Pending == Children(Last(calls)) \ entered

StartRename ==
  /\ stage = "place" /\ work = << >>
  /\ stage' = "rename"
  /\ RenameBlock(Entry)

RenameChild ==
  /\ stage = "rename" /\ calls # << >>
  /\ \E c \in Pending : (\A d \in Pending : c <= d) /\ RenameBlock(c)
  /\ UNCHANGED stage

\* Mutant: a register pushed twice is popped once.
PushedOnce(b) == IF b \in phis \cup defs THEN 1 ELSE 0

\* `for reg in pushed { st.pop() }`
Pushed(b) == PhiDefs(b) + BodyDefs(b)

LeaveBlock ==
  /\ stage = "rename" /\ calls # << >> /\ Pending = {}
  /\ stack' = SubSeq(stack, 1, Len(stack) - Pushed(Last(calls)))
  /\ calls' = Front(calls)
  /\ UNCHANGED <<vars, stage, defs, placeVars, entered, nextVer,
                 phiVer, useVer, defVer, arg, runVars>>

FinishRename ==
  /\ stage = "rename" /\ calls = << >>
  /\ stage' = "run"
  /\ UNCHANGED <<vars, defs, placeVars, renameVars, runVars>>

-----------------------------------------------------------------------------
(* The renamed program runs *)

TakeEdge(s) ==
  /\ stage = "run" /\ s \in SuccSet(ends, cur)
  /\ from' = cur /\ cur' = s
  /\ carried' = IF cur \in defs THEN defVer[cur] ELSE last
  /\ last' = IF s \in phis THEN phiVer[s] ELSE carried'
  /\ UNCHANGED <<vars, stage, defs, placeVars, renameVars>>

Leave ==
  /\ stage = "run" /\ SuccSet(ends, cur) = {}
  /\ UNCHANGED ssaVars

SsaNext ==
  \/ ComputeDominators \/ PickBody \/ ComputeFrontiers \/ PlacePhis
  \/ StartRename \/ RenameChild \/ LeaveBlock \/ FinishRename
  \/ (\E s \in Blocks : TakeEdge(s)) \/ Leave

SsaSpec == SsaInit /\ [][SsaNext]_ssaVars

\* Sequential code: the only way not to take a step is to have returned.
SsaFairSpec == SsaSpec /\ WF_ssaVars(SsaNext)

-----------------------------------------------------------------------------
(* Properties *)

(***************************************************************************)
(* On every path, the version a renamed read names is the one assigned     *)
(* last: the renaming preserves which definition reaches each use          *)
(* (ssa.rs, rename_block and the placement of phis).                       *)
(***************************************************************************)
ReadsReachingDef == stage = "run" => useVer[cur] = last

(***************************************************************************)
(* The same once a branch has been taken, so also in a loop through the    *)
(* first block: "phi at join points; versioned VarId"                      *)
(* (docs/ARM64_DECOMPILER_PLAN.md).  `construct_ssa` places phis only in   *)
(* blocks with two predecessors and does not count the call of the         *)
(* function as one, so a loop back to the entry reads version 0 for ever.  *)
(***************************************************************************)
LoopReadsReachingDef == stage = "run" /\ from # None => useVer[cur] = last

(***************************************************************************)
(* On every path, the phi operand for the edge that is taken is the        *)
(* version that was live at the end of the block it comes from.            *)
(***************************************************************************)
PhiTakesReachingDef ==
  stage = "run" /\ from # None /\ cur \in phis => arg[from][cur] = carried

(***************************************************************************)
(* Static single assignment: no version is assigned in two places, and     *)
(* none reuses 0, the value on entry.                                      *)
(***************************************************************************)
Assigned == {<<"phi", b>> : b \in entered \cap phis} \cup
            {<<"def", b>> : b \in entered \cap defs}
VersionAt(a) == IF a[1] = "phi" THEN phiVer[a[2]] ELSE defVer[a[2]]

SingleAssignment ==
  /\ \A a1, a2 \in Assigned : VersionAt(a1) = VersionAt(a2) => a1 = a2
  /\ \A a \in Assigned : VersionAt(a) # 0

(***************************************************************************)
(* Construction ends, on every graph and for every choice of assignments:  *)
(* the dominators (cfg.rs), the worklist of phis, which a block in its own *)
(* frontier would keep busy for ever if it could join it twice, and the    *)
(* walk over the dominator tree (ssa.rs).                                  *)
(***************************************************************************)
ConstructEnds == <>(stage = "run")
=============================================================================
