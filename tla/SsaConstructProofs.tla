------------------------- MODULE SsaConstructProofs -------------------------
(***************************************************************************)
(* Theorems about SsaConstruct, for every number of blocks, every graph    *)
(* and every choice of the blocks that assign the register.                *)
(*                                                                         *)
(* Single assignment needs only the counter.  That reads name the version  *)
(* assigned last is shown in four layers, one for each stage: TableInv     *)
(* (the dominator table is complete and says what DominatorsProofs shows   *)
(* of it), PlaceInv (the frontier of every definition has its phis), then  *)
(* RenameInv (stack and walk hand each block the version its dominator     *)
(* leaves behind), and RunInv (so does every path of the program).         *)
(***************************************************************************)
EXTENDS SsaConstruct, DominatorsProofs, FiniteSetTheorems

(***************************************************************************)
(* SSA construction computes its dominators by the steps of `Dominators`   *)
(* and leaves the table alone afterwards: what is proved of the table      *)
(* there holds of the one that `construct_ssa` works on.                   *)
(***************************************************************************)
THEOREM RunsDominators == SsaSpec => Spec
<1>1. SsaInit => Init
  BY DEF SsaInit
<1>2. [SsaNext]_ssaVars => [Next]_vars
  BY DEF SsaNext, ssaVars, ComputeDominators, PickBody, ComputeFrontiers, PlacePhis,
         StartRename, RenameChild, RenameBlock, LeaveBlock, FinishRename, TakeEdge, Leave
<1>3. QED
  BY <1>1, <1>2, PTL DEF SsaSpec, Spec

(***************************************************************************)
(* So the frontiers and the renaming walk of `construct_ssa` see only      *)
(* dominators, and a tree that respects every edge.                        *)
(***************************************************************************)
COROLLARY RenamesOverSoundTree == SsaSpec => [](IdomSound /\ EdgesRespectTree)
BY RunsDominators, TableSound, EdgesRespected, PTL

-----------------------------------------------------------------------------
(* Single assignment *)

\* Renaming has not begun while the graph, the assignments and the phis are
\* still chosen.
Unrenamed == stage \in {"dominators", "frontiers", "place"} => entered = {}

\* The counter is ahead of every version that was written.
VersionsBounded ==
  /\ nextVer \in Nat
  /\ \A b \in entered \cap phis : phiVer[b] \in 1 .. nextVer
  /\ \A b \in entered \cap defs : defVer[b] \in 1 .. nextVer

VersionsDistinct ==
  /\ \A b, c \in entered \cap phis : phiVer[b] = phiVer[c] => b = c
  /\ \A b, c \in entered \cap defs : defVer[b] = defVer[c] => b = c
  /\ \A b \in entered \cap phis, c \in entered \cap defs : phiVer[b] # defVer[c]

VersionTables ==
  /\ phiVer \in [Blocks -> Nat]
  /\ defVer \in [Blocks -> Nat]

VersionInv == Unrenamed /\ VersionTables /\ VersionsBounded /\ VersionsDistinct

LEMMA DistinctIsSingle == VersionInv => SingleAssignment
BY DEF VersionInv, VersionsBounded, VersionsDistinct, SingleAssignment, Assigned, VersionAt

(***************************************************************************)
(* Renaming a block that has none of its versions yet keeps the invariant. *)
(***************************************************************************)
LEMMA RenameKeeps ==
  ASSUME VersionInv, NEW b \in Blocks, b \notin entered, RenameBlock(b), stage' = "rename"
  PROVE  VersionInv'
<1>1. /\ PhiDefs(b) \in {0, 1} /\ BodyDefs(b) \in {0, 1}
      /\ b \in phis => PhiDefs(b) = 1
      /\ b \in defs => BodyDefs(b) = 1
  BY DEF PhiDefs, BodyDefs
<1>2. /\ nextVer' = nextVer + (PhiDefs(b) + BodyDefs(b))
      /\ phiVer' = [phiVer EXCEPT ![b] = IF b \in phis THEN nextVer + 1 ELSE @]
      /\ defVer' = [defVer EXCEPT ![b] = IF b \in defs THEN nextVer + (PhiDefs(b) + 1) ELSE @]
      /\ entered' = entered \cup {b} /\ phis' = phis /\ defs' = defs
  BY DEF RenameBlock, NewName, placeVars
<1>3. nextVer \in Nat
  BY DEF VersionInv, VersionsBounded
<1>4. VersionTables'
  BY <1>1, <1>2, <1>3 DEF VersionInv, VersionTables
<1>5. /\ \A c \in entered \cap phis : phiVer'[c] = phiVer[c] /\ phiVer[c] \in 1 .. nextVer
      /\ \A c \in entered \cap defs : defVer'[c] = defVer[c] /\ defVer[c] \in 1 .. nextVer
      /\ b \in phis => phiVer'[b] = nextVer + 1
      /\ b \in defs => defVer'[b] = nextVer + (PhiDefs(b) + 1)
  BY <1>2 DEF VersionInv, VersionTables, VersionsBounded
<1>6. VersionsBounded'
  BY <1>1, <1>2, <1>3, <1>5 DEF VersionsBounded
<1>7. VersionsDistinct'
  BY <1>1, <1>2, <1>3, <1>5 DEF VersionInv, VersionsDistinct
<1>8. Unrenamed'
  BY DEF Unrenamed
<1>9. QED
  BY <1>4, <1>6, <1>7, <1>8 DEF VersionInv

LEMMA VersionStep ==
  ASSUME VersionInv, [SsaNext]_ssaVars
  PROVE  VersionInv'
<1> USE DEF VersionInv
<1>0. Entry \in Blocks
  BY NAssumption DEF Entry, Blocks
<1>1. CASE ComputeDominators \/ PickBody \/ ComputeFrontiers \/ PlacePhis
  BY <1>1 DEF ComputeDominators, PickBody, ComputeFrontiers, PlacePhis, renameVars, placeVars,
       Unrenamed, VersionTables, VersionsBounded, VersionsDistinct
<1>2. CASE StartRename
  BY <1>0, <1>2, RenameKeeps DEF StartRename, Unrenamed
<1>3. CASE RenameChild
  <2>1. PICK c \in Blocks : c \notin entered /\ RenameBlock(c)
    BY <1>3 DEF RenameChild, Pending, Children
  <2>2. QED
    BY <1>3, <2>1, RenameKeeps DEF RenameChild
<1>4. CASE LeaveBlock \/ FinishRename \/ (\E s \in Blocks : TakeEdge(s)) \/ UNCHANGED ssaVars
  BY <1>4 DEF LeaveBlock, FinishRename, TakeEdge, ssaVars, renameVars, placeVars,
       Unrenamed, VersionTables, VersionsBounded, VersionsDistinct
<1>5. QED
  BY <1>1, <1>2, <1>3, <1>4 DEF SsaNext, Leave

(***************************************************************************)
(* The result of `construct_ssa` is in static single assignment form, in   *)
(* every function: no two assignments or phis of the register get the same *)
(* version, and none gets that of the value on entry.                      *)
(***************************************************************************)
THEOREM VersionsSingle == SsaSpec => []SingleAssignment
<1>1. SsaInit => VersionInv
  BY DEF SsaInit, VersionInv, Unrenamed, VersionTables, VersionsBounded, VersionsDistinct
<1>2. VersionInv /\ [SsaNext]_ssaVars => VersionInv'
  BY VersionStep
<1>3. VersionInv => SingleAssignment
  BY DistinctIsSingle
<1>4. QED
  BY <1>1, <1>2, <1>3, PTL DEF SsaSpec
-----------------------------------------------------------------------------
(* The table, as the rest of the construction uses it *)

\* Construction begins when the table is complete.
TableReady == stage # "dominators" => pc = "done"

\* The graph is one that `FunctionCfg::build` makes, and its entry no target.
GraphInv == ends \in Cfgs /\ Preds(ends, Entry) = {}

TableInv == IInv /\ FixInv /\ SoleInv /\ TableReady /\ GraphInv

LEMMA TableInductive == ASSUME ~EntryIsTarget PROVE SsaSpec => []TableInv
<1>1. SsaInit => TableReady /\ GraphInv
  BY DEF SsaInit, Init, TableReady, GraphInv
<1>2. TableReady /\ [SsaNext]_ssaVars => TableReady'
  BY DEF SsaNext, ssaVars, vars, ComputeDominators, PickBody, ComputeFrontiers, PlacePhis,
         StartRename, RenameChild, RenameBlock, LeaveBlock, FinishRename, TakeEdge, Leave,
         TableReady
<1>3. [SsaNext]_ssaVars => UNCHANGED ends
  <2>1. Next => UNCHANGED ends
    BY DEF Next, DfsEnter, DfsSkip, DfsLeave, StartSweep, NextBlock, SkipUnreached,
           FirstPred, BeginIntersect, ClimbX, ClimbY, Meet, SetIdom, Finish, Returned, vars
  <2> QED
    BY <2>1 DEF SsaNext, ssaVars, vars, ComputeDominators, PickBody, ComputeFrontiers,
         PlacePhis, StartRename, RenameChild, RenameBlock, LeaveBlock, FinishRename,
         TakeEdge, Leave
<1>4. GraphInv /\ [SsaNext]_ssaVars => GraphInv'
  BY <1>3 DEF GraphInv, Preds, SuccSet
<1> QED
  BY <1>1, <1>2, <1>4, RunsDominators, FixInductive, SoleInductive, PTL DEF SsaSpec, TableInv

\* Once the body is chosen the graph and the table stay as they are.
Fixed == UNCHANGED <<ends, idom, num>>

LEMMA FixedKeeps ==
  ASSUME Fixed
  PROVE  /\ Reached' = Reached
         /\ \A b : EdgesInto(b)' = EdgesInto(b)
         /\ \A b : SuccSet(ends, b)' = SuccSet(ends, b)
         /\ \A b : Above(b)' = Above(b)
         /\ \A r : Frontier(r)' = Frontier(r)
         /\ \A b : Children(b)' = Children(b)
<1>1. UNCHANGED <<ends, idom, num>>
  BY DEF Fixed
<1>2. Reached' = Reached
  BY <1>1 DEF Reached
<1>3. \A b : EdgesInto(b)' = EdgesInto(b) /\ SuccSet(ends, b)' = SuccSet(ends, b)
           /\ Preds(ends, b)' = Preds(ends, b)
  BY <1>1 DEF EdgesInto, SuccSet, Preds
<1>4. \A b : Above(b)' = Above(b)
  BY <1>1, AboveKept
<1>5. \A p, b : Runners(p, b)' = Runners(p, b)
  BY <1>1, <1>4 DEF Runners
<1>6. \A r : Frontier(r)' = Frontier(r)
  BY <1>3, <1>5 DEF Frontier
<1>7. \A b : Children(b)' = Children(b)
  BY <1>1 DEF Children
<1> QED
  BY <1>2, <1>3, <1>4, <1>6, <1>7

LEMMA TreeFacts ==
  ASSUME TableInv, stage # "dominators"
  PROVE  /\ idom \in [Blocks -> Blocks] /\ EntryRoot
         /\ Entry \in Reached /\ Reached \subseteq Blocks
         /\ \A b \in Reached : num[b] \in Nat /\ SuccSet(ends, b) \subseteq Reached
         /\ \A b \in Reached \ {Entry} :
              /\ idom[b] \in Reached /\ num[idom[b]] > num[b]
              /\ \A p \in Preds(ends, b) \cap Reached : idom[b] \in Above(p)
              /\ \A p \in Blocks : OnlyPred(b, p) => idom[b] = p
<1>1. pc = "done" /\ path = << >> /\ at = 0 /\ ~changed
  BY DEF TableInv, TableReady, IInv, DfsDone, FixInv
<1>2. idom \in [Blocks -> Blocks] /\ EntryRoot /\ TreeUp /\ Reached \subseteq Blocks
  BY <1>1 DEF TableInv, IInv, TypeOK, SweepInv, Reached
<1>3. Reached = seen /\ Entry \in seen /\ \A b \in Reached : num[b] \in Nat /\ num[b] > 0
  BY <1>1, NumFacts DEF TableInv, IInv, DfsInv, PathFromEntry, Reached
<1>4. \A b \in Reached : SuccSet(ends, b) \subseteq Reached
  BY <1>1, <1>3, SeenClosed DEF TableInv, Closed
<1>5. \A b \in Reached \ {Entry} : idom[b] \in Reached /\ num[idom[b]] > num[b]
  BY <1>2 DEF TreeUp, InReach, Reached
<1>6. \A b \in Reached \ {Entry} :
        /\ \A p \in Preds(ends, b) \cap Reached : idom[b] \in Above(p)
        /\ \A p \in Blocks : OnlyPred(b, p) => idom[b] = p
  BY <1>1, <1>3 DEF TableInv, FixInv, SoleInv, SoleSwept
<1> QED
  BY <1>2, <1>3, <1>4, <1>5, <1>6

\* What is above a block of the tree comes later in postorder.
LEMMA AboveLater ==
  ASSUME TableInv, stage # "dominators", NEW c \in Reached, NEW a \in Above(c), a # c
  PROVE  a \in Reached /\ num[a] > num[c]
<1> DEFINE S == {c} \cup {d \in Reached : num[d] > num[c]}
<1>1. S \in SUBSET Blocks
  BY TreeFacts
<1>2. UpClosed(S)
  <2>1. ASSUME NEW d \in S PROVE idom[d] \in S
    <3>1. CASE d = Entry
      BY <3>1, TreeFacts DEF EntryRoot
    <3>2. CASE d # Entry
      <4>1. d \in Reached /\ idom[d] \in Reached /\ num[idom[d]] > num[d]
        BY <3>2, TreeFacts
      <4>2. num[d] \in Nat /\ num[c] \in Nat /\ num[idom[d]] \in Nat
        BY <4>1, TreeFacts
      <4>3. num[d] = num[c] \/ num[d] > num[c]
        OBVIOUS
      <4> QED
        BY <4>1, <4>2, <4>3
    <3> QED
      BY <3>1, <3>2
  <2> QED
    BY <2>1 DEF UpClosed
<1>3. a \in S
  BY <1>1, <1>2 DEF Above
<1> QED
  BY <1>3

\* A block with a single edge into it has a single predecessor.
LEMMA CfgEdges == ASSUME NEW e \in Cfgs, NEW b \in Blocks PROVE DOMAIN e[b].to \subseteq {1, 2}
<1>1. e[b] \in EndsOf(b)
  BY DEF Cfgs
<1>2. \/ e[b].to = << >>
      \/ \E t \in Blocks : e[b].to = <<t>>
      \/ \E t \in Blocks : e[b].to = <<t, b+1>>
  BY <1>1 DEF EndsOf, Exit, FallThrough, Goto, Conditional
<1> QED
  BY <1>2

LEMMA EdgesFinite == ASSUME NEW b PROVE IsFiniteSet(EdgesInto(b))
<1>1. IsFiniteSet(Blocks)
  BY NAssumption, FS_Interval DEF Blocks
<1>2. IsFiniteSet({1, 2})
  <2>1. IsFiniteSet({1}) /\ {1, 2} = {1} \cup {2}
    BY FS_Singleton
  <2> QED
    BY <2>1, FS_AddElement
<1>3. IsFiniteSet(Blocks \X {1, 2})
  BY <1>1, <1>2, FS_Product
<1> QED
  BY <1>3, FS_Subset DEF EdgesInto

LEMMA TwoEdges ==
  ASSUME NEW b, NEW e1 \in EdgesInto(b), NEW e2 \in EdgesInto(b), e1 # e2
  PROVE  Cardinality(EdgesInto(b)) >= 2
<1>1. IsFiniteSet({e1}) /\ Cardinality({e1}) = 1
  BY FS_Singleton
<1>2. Cardinality({e1} \cup {e2}) = 2
  BY <1>1, FS_AddElement
<1>3. {e1} \cup {e2} \in SUBSET EdgesInto(b) /\ IsFiniteSet(EdgesInto(b))
  BY EdgesFinite
<1>4. Cardinality({e1} \cup {e2}) <= Cardinality(EdgesInto(b))
  BY <1>3, FS_Subset
<1>5. Cardinality(EdgesInto(b)) \in Nat
  BY <1>3, FS_CardinalityType
<1> QED
  BY <1>2, <1>4, <1>5

LEMMA SingleEdge ==
  ASSUME GraphInv, NEW b \in Blocks, NEW p \in Preds(ends, b),
         ~(Cardinality(EdgesInto(b)) >= 2)
  PROVE  OnlyPred(b, p)
<1>1. ASSUME NEW q \in Preds(ends, b) PROVE \E i \in {1, 2} : <<q, i>> \in EdgesInto(b)
  <2>1. q \in Blocks
    BY DEF Preds
  <2>2. PICK i \in DOMAIN ends[q].to : b = ends[q].to[i]
    BY DEF Preds, SuccSet
  <2>3. i \in {1, 2}
    BY <2>1, CfgEdges DEF GraphInv
  <2> QED
    BY <2>1, <2>2, <2>3 DEF EdgesInto
<1>2. ASSUME NEW q \in Preds(ends, b), q # p PROVE FALSE
  BY <1>1, <1>2, TwoEdges
<1> QED
  BY <1>2 DEF OnlyPred

LEMMA EntryNoJoin == GraphInv => ~(Cardinality(EdgesInto(Entry)) >= 2)
<1> SUFFICES ASSUME GraphInv PROVE ~(Cardinality(EdgesInto(Entry)) >= 2)
  OBVIOUS
<1>1. EdgesInto(Entry) = {}
  BY DEF GraphInv, Preds, SuccSet, EdgesInto
<1> QED
  BY <1>1, FS_EmptySet

-----------------------------------------------------------------------------
(* Placement of the phis *)

(***************************************************************************)
(* A block with a phi has several edges into it, and a block that assigns  *)
(* the register or has its phi is still on the worklist unless its         *)
(* frontier has all its phis.                                              *)
(***************************************************************************)
JoinsOnly == \A b \in phis : b \in Blocks /\ Cardinality(EdgesInto(b)) >= 2

Queued(r) == stage = "place" /\ \E i \in DOMAIN work : work[i] = r

Placed(r) == Frontier(r) \subseteq phis

PlaceInv ==
  /\ defs \subseteq Blocks /\ JoinsOnly
  /\ stage \in {"dominators", "frontiers"} => phis = {}
  /\ stage = "place" => work \in Seq(Blocks)
  /\ stage \notin {"dominators", "frontiers"} =>
       /\ df = [r \in Blocks |-> Frontier(r)]
       /\ \A r \in defs \cup phis : Placed(r) \/ Queued(r)

\* A listing of a set of blocks is a sequence of exactly its members.
LEMMA InOrderLists ==
  ASSUME NEW S \in SUBSET Blocks, NEW l \in InOrder(S)
  PROVE  /\ l \in Seq(Blocks) /\ \A i \in DOMAIN l : l[i] \in S
         /\ \A r \in S : \E i \in DOMAIN l : l[i] = r
<1> DEFINE n == Cardinality(S)
<1>1. IsFiniteSet(Blocks)
  BY NAssumption, FS_Interval DEF Blocks
<1>2. IsFiniteSet(S) /\ n \in Nat
  BY <1>1, FS_Subset, FS_CardinalityType
<1>3. IsFiniteSet(1 .. n) /\ Cardinality(1 .. n) = n
  <2>1. 1 \in Int /\ n \in Int /\ (1 > n => n = 0)
    BY <1>2
  <2> HIDE DEF n
  <2> QED
    BY <2>1, FS_Interval, <1>2
<1>4. l \in [1 .. n -> S] /\ DOMAIN l = 1 .. n
  BY DEF InOrder
<1>5. \A i, j \in 1 .. n : i < j => l[i] < l[j]
  BY <1>4 DEF InOrder
<1>6. \A i, j \in 1 .. n : l[i] = l[j] => i = j
  <2>1. ASSUME NEW i \in 1 .. n, NEW j \in 1 .. n, l[i] = l[j] PROVE i = j
    <3>0. Blocks \subseteq Int
      BY NAssumption DEF Blocks
    <3>1. l[i] \in S /\ l[j] \in S /\ l[i] \in Int /\ l[j] \in Int
      BY <1>4, <3>0
    <3>3. i \in Int /\ j \in Int
      BY <1>2
    <3>2. ~(i < j) /\ ~(j < i)
      BY <1>5, <2>1, <3>1
    <3> QED
      BY <3>3, <3>2
  <2> QED
    BY <2>1
<1>7. l \in Injection(1 .. n, S)
  BY <1>4, <1>6 DEF Injection, IsInjective
<1>8. l \in Surjection(1 .. n, S)
  BY <1>2, <1>3, <1>7, FS_Injection
<1>9. l \in Seq(Blocks)
  BY <1>2, <1>4
<1> QED
  BY <1>4, <1>8, <1>9 DEF Surjection

LEMMA FrontOfWork ==
  ASSUME NEW w \in Seq(Blocks), w # << >>, NEW l \in Seq(Blocks),
         NEW v \in Seq(Blocks), v = Front(w) \o l
  PROVE  /\ Last(w) \in Blocks
         /\ \A i \in DOMAIN w : w[i] = Last(w) \/ \E j \in DOMAIN v : v[j] = w[i]
         /\ \A i \in DOMAIN l : \E j \in DOMAIN v : v[j] = l[i]
<1>1. Len(w) \in Nat /\ Len(w) > 0 /\ DOMAIN w = 1 .. Len(w) /\ Last(w) = w[Len(w)]
  BY DEF Last
<1>2. Front(w) \in Seq(Blocks) /\ Len(Front(w)) = Len(w) - 1
      /\ \A i \in 1 .. Len(w) - 1 : Front(w)[i] = w[i]
  <2>1. PICK q : q = SubSeq(w, 1, Len(w) - 1)
    OBVIOUS
  <2>2. q \in Seq(Blocks) /\ Len(q) = Len(w) - 1 /\ \A i \in 1 .. Len(q) : q[i] = w[i]
    BY <2>1, PopPath
  <2>3. Front(w) = q
    BY <2>1 DEF Front
  <2> QED
    BY <2>2, <2>3
<1>3. /\ v \in Seq(Blocks) /\ Len(v) = Len(w) - 1 + Len(l)
      /\ \A i \in 1 .. Len(w) - 1 : v[i] = w[i]
      /\ \A i \in 1 .. Len(l) : v[Len(w) - 1 + i] = l[i]
  <2> DEFINE f == Front(w)
  <2>1. f \in Seq(Blocks) /\ v = f \o l
    BY <1>2
  <2>2. /\ f \o l \in Seq(Blocks) /\ Len(f \o l) = Len(f) + Len(l)
        /\ \A i \in 1 .. Len(f) : (f \o l)[i] = f[i]
        /\ \A i \in 1 .. Len(l) : (f \o l)[Len(f) + i] = l[i]
    <3> HIDE DEF f
    <3> QED
      BY <2>1
  <2> QED
    BY <1>2, <2>1, <2>2
<1>4. Len(l) \in Nat /\ DOMAIN l = 1 .. Len(l) /\ DOMAIN v = 1 .. Len(v)
  BY <1>3
<1>5. ASSUME NEW i \in DOMAIN w PROVE w[i] = Last(w) \/ \E j \in DOMAIN v : v[j] = w[i]
  <2>1. CASE i = Len(w)
    BY <2>1, <1>1
  <2>2. CASE i # Len(w)
    <3>1. i \in 1 .. Len(w) - 1 /\ i \in DOMAIN v
      BY <2>2, <1>1, <1>3, <1>4
    <3> QED
      BY <3>1, <1>3
  <2> QED
    BY <2>1, <2>2
<1>6. ASSUME NEW i \in DOMAIN l PROVE \E j \in DOMAIN v : v[j] = l[i]
  <2>1. i \in 1 .. Len(l)
    BY <1>4
  <2>2. Len(w) - 1 + i \in DOMAIN v
    BY <1>1, <1>3, <1>4, <2>1
  <2>3. v[Len(w) - 1 + i] = l[i]
    BY <1>3, <2>1
  <2> QED
    BY <2>2, <2>3
<1> QED
  BY <1>1, <1>3, <1>5, <1>6

LEMMA PlaceStep ==
  ASSUME TableInv, PlaceInv, PlacePhis PROVE PlaceInv'
<1> DEFINE r == Last(work)
           fresh == df[r] \ phis
<1>1. /\ stage = "place" /\ work # << >> /\ work \in Seq(Blocks)
      /\ phis' = phis \cup fresh /\ UNCHANGED <<vars, stage, defs, df>>
  BY DEF PlacePhis, PlaceInv
<1>2. PICK l \in InOrder(fresh) : work' = Front(work) \o l
  BY DEF PlacePhis
<1>3. Fixed /\ df = [b \in Blocks |-> Frontier(b)]
  BY <1>1 DEF vars, dfsVars, sweepVars, Fixed, PlaceInv
<1>4. r \in Blocks
  BY <1>1 DEF Last
<1>5. df[r] = Frontier(r) /\ fresh \in SUBSET Blocks
  BY <1>3, <1>4 DEF Frontier
<1>6. l \in Seq(Blocks) /\ \A q \in fresh : \E i \in DOMAIN l : l[i] = q
  BY <1>2, <1>5, InOrderLists
<1>7. /\ work' \in Seq(Blocks)
      /\ \A i \in DOMAIN work : work[i] = r \/ \E j \in DOMAIN work' : work'[j] = work[i]
      /\ \A i \in DOMAIN l : \E j \in DOMAIN work' : work'[j] = l[i]
  <2>1. l \in Seq(Blocks) /\ work \in Seq(Blocks) /\ work # << >>
    BY <1>1, <1>6
  <2> HIDE DEF fresh
  <2> DEFINE v == work'
  <2>2. v = Front(work) \o l
    BY <1>2
  <2>4. v \in Seq(Blocks)
    <3>1. Front(work) \in Seq(Blocks)
      BY <2>1, PopPath DEF Front
    <3> QED
      BY <3>1, <2>1, <2>2
  <2> HIDE DEF v
  <2>3. /\ v \in Seq(Blocks)
        /\ \A i \in DOMAIN work : work[i] = Last(work) \/ \E j \in DOMAIN v : v[j] = work[i]
        /\ \A i \in DOMAIN l : \E j \in DOMAIN v : v[j] = l[i]
    BY <2>1, <2>2, <2>4, FrontOfWork
  <2> QED
    BY <2>3 DEF v
<1>8. JoinsOnly'
  <2>1. \A b \in fresh : b \in Blocks /\ Cardinality(EdgesInto(b)) >= 2
    BY <1>5 DEF Frontier
  <2> QED
    BY <1>1, <1>3, <2>1, FixedKeeps DEF PlaceInv, JoinsOnly
<1>9. ASSUME NEW q \in defs' \cup phis' PROVE Placed(q)' \/ Queued(q)'
  <2>1. CASE q = r
    BY <2>1, <1>1, <1>3, <1>5, FixedKeeps DEF Placed
  <2>2. CASE q \in fresh
    BY <2>2, <1>1, <1>6, <1>7 DEF Queued
  <2>3. CASE q # r /\ q \in defs \cup phis
    <3>1. Placed(q) \/ Queued(q)
      BY <2>3, <1>1 DEF PlaceInv
    <3>2. CASE Placed(q)
      BY <3>2, <1>1, <1>3, FixedKeeps DEF Placed
    <3>3. CASE Queued(q)
      BY <3>3, <2>3, <1>1, <1>7 DEF Queued
    <3> QED
      BY <3>1, <3>2, <3>3
  <2> QED
    BY <2>1, <2>2, <2>3, <1>1
<1> HIDE DEF r, fresh
<1> QED
  BY <1>1, <1>3, <1>7, <1>8, <1>9, FixedKeeps DEF PlaceInv

LEMMA PlaceKept ==
  ASSUME PlaceInv, Fixed, UNCHANGED <<defs, df, phis>>,
         stage \notin {"dominators", "frontiers"}, stage' \in {"rename", "run"},
         stage = "place" => work = << >>
  PROVE  PlaceInv'
<1>1. JoinsOnly'
  BY FixedKeeps DEF PlaceInv, JoinsOnly
<1>2. \A r \in defs \cup phis : Placed(r)
  BY DEF PlaceInv, Queued
<1>3. \A r \in defs' \cup phis' : Placed(r)'
  BY <1>2, FixedKeeps DEF Placed
<1> QED
  BY <1>1, <1>3, FixedKeeps DEF PlaceInv

LEMMA NextPlaceInv == TableInv /\ PlaceInv /\ [SsaNext]_ssaVars => PlaceInv'
<1> SUFFICES ASSUME TableInv, PlaceInv, [SsaNext]_ssaVars PROVE PlaceInv'
  OBVIOUS
<1>1. CASE ComputeDominators \/ PickBody
  <2>1. stage \in {"dominators", "frontiers"} /\ stage' \in {"dominators", "frontiers"}
        /\ phis' = {} /\ defs' \in SUBSET Blocks
    BY <1>1 DEF ComputeDominators, PickBody, TableInv, TableReady, PlaceInv, placeVars
  <2> QED
    BY <2>1 DEF PlaceInv, JoinsOnly
<1>2. CASE ComputeFrontiers
  <2>1. /\ stage = "frontiers" /\ stage' = "place" /\ UNCHANGED <<vars, defs, phis>>
        /\ df' = [r \in Blocks |-> Frontier(r)] /\ work' \in InOrder(defs)
        /\ phis = {} /\ defs \in SUBSET Blocks
    BY <1>2 DEF ComputeFrontiers, PlaceInv
  <2>2. work' \in Seq(Blocks) /\ \A r \in defs : \E i \in DOMAIN work' : work'[i] = r
    BY <2>1, InOrderLists
  <2>3. Fixed
    BY <2>1 DEF Fixed, vars, dfsVars, sweepVars
  <2> QED
    BY <2>1, <2>2, <2>3, FixedKeeps DEF PlaceInv, JoinsOnly, Queued
<1>3. CASE PlacePhis
  BY <1>3, PlaceStep
<1>4. CASE StartRename \/ RenameChild \/ LeaveBlock \/ FinishRename
           \/ \E s \in Blocks : TakeEdge(s)
  <2>1. /\ UNCHANGED <<vars, defs, df, phis>>
        /\ stage \in {"place", "rename", "run"} /\ stage' \in {"rename", "run"}
        /\ stage = "place" => work = << >>
    BY <1>4 DEF StartRename, RenameChild, RenameBlock, LeaveBlock, FinishRename, TakeEdge,
                placeVars
  <2> QED
    BY <2>1, PlaceKept DEF Fixed, vars, dfsVars, sweepVars
<1>5. CASE UNCHANGED ssaVars
  <2>1. Fixed /\ UNCHANGED <<stage, defs, df, phis, work>>
    BY <1>5 DEF ssaVars, vars, dfsVars, sweepVars, placeVars, Fixed
  <2>2. JoinsOnly' /\ \A r : Placed(r)' = Placed(r) /\ Queued(r)' = Queued(r)
    BY <2>1, FixedKeeps DEF PlaceInv, JoinsOnly, Placed, Queued
  <2> QED
    BY <2>1, <2>2, FixedKeeps DEF PlaceInv
<1> QED
  BY <1>1, <1>2, <1>3, <1>4, <1>5 DEF SsaNext, Leave

LEMMA PlaceInductive == ASSUME ~EntryIsTarget PROVE SsaSpec => []PlaceInv
<1>1. SsaInit => PlaceInv
  BY DEF SsaInit, PlaceInv, JoinsOnly
<1> QED
  BY <1>1, NextPlaceInv, TableInductive, PTL DEF SsaSpec

-----------------------------------------------------------------------------
(* Renaming *)

\* The version a block leaves behind.
VerOut(b) == IF b \in defs THEN defVer[b] ELSE useVer[b]

InCall(b) == \E i \in DOMAIN calls : calls[i] = b

RenameTypes ==
  /\ calls \in Seq(Blocks) /\ entered \subseteq Blocks
  /\ stack \in Seq(Nat) /\ nextVer \in Nat
  /\ phiVer \in [Blocks -> Nat] /\ useVer \in [Blocks -> Nat] /\ defVer \in [Blocks -> Nat]
  /\ arg \in [Blocks -> [Blocks -> Nat]]

(***************************************************************************)
(* Each active call has pushed its versions on those of the calls outside  *)
(* it; h[k] is the height of the stack when the first k have.              *)
(***************************************************************************)
Heights(h) ==
  /\ Len(stack) = IF calls = << >> THEN 1 ELSE h[Len(calls)]
  /\ \A k \in 1 .. Len(calls) :
       /\ h[k] = (IF k = 1 THEN 1 ELSE h[k-1]) + Pushed(calls[k])
       /\ h[k] \in 1 .. Len(stack)
       /\ stack[h[k]] = VerOut(calls[k])
  /\ \A j, k \in 1 .. Len(calls) : j <= k => h[j] <= h[k]

StackInv == \E h \in [1 .. Len(calls) -> Nat] : Heights(h)

(***************************************************************************)
(* A block that was entered read the version its dominator left behind, or *)
(* that of its phi, and passed its own on to the phis of its successors;   *)
(* one that was left has had all its children entered.                     *)
(***************************************************************************)
WalkInv ==
  /\ Entry \in entered /\ useVer[Entry] = 0
  /\ \A b \in entered \ {Entry} :
       idom[b] \in entered /\ (b \notin phis => useVer[b] = VerOut(idom[b]))
  /\ \A b \in entered \cap phis : useVer[b] = phiVer[b]
  /\ \A b \in entered : \A s \in SuccSet(ends, b) \cap phis : arg[b][s] = VerOut(b)
  /\ \A b \in entered : InCall(b) \/ Children(b) \subseteq entered

Renaming == stage \in {"rename", "run"}

RenameInv ==
  /\ RenameTypes /\ StackInv
  /\ \A i \in DOMAIN calls : calls[i] \in entered
  /\ ~Renaming => entered = {} /\ stack = <<0>> /\ calls = << >>
  /\ Renaming => WalkInv
  /\ stage = "run" => calls = << >>

\* What the part of `rename_block` before the recursion does to each block.
LEMMA RenameEffect ==
  ASSUME RenameTypes, stack # << >>, NEW b \in Blocks, RenameBlock(b)
  PROVE  /\ RenameTypes'
         /\ Len(stack') = Len(stack) + Pushed(b)
         /\ \A i \in 1 .. Len(stack) : stack'[i] = stack[i]
         /\ stack'[Len(stack')] = VerOut(b)'
         /\ b \in phis => useVer'[b] = phiVer'[b]
         /\ b \notin phis => useVer'[b] = stack[Len(stack)]
         /\ \A s \in SuccSet(ends, b) \cap phis : s \in Blocks => arg'[b][s] = VerOut(b)'
         /\ \A c \in Blocks \ {b} :
              /\ VerOut(c)' = VerOut(c) /\ useVer'[c] = useVer[c]
              /\ phiVer'[c] = phiVer[c] /\ arg'[c] = arg[c]
<1> DEFINE atUse == IF b \in phis THEN NewName(1) ELSE Last(stack)
           atEnd == IF b \in defs THEN NewName(PhiDefs(b) + 1) ELSE atUse
<1>1. /\ nextVer' = NewName(PhiDefs(b) + BodyDefs(b))
      /\ stack' = stack \o (IF b \in phis THEN <<atUse>> ELSE << >>)
                        \o (IF b \in defs THEN <<atEnd>> ELSE << >>)
      /\ phiVer' = [phiVer EXCEPT ![b] = IF b \in phis THEN atUse ELSE @]
      /\ useVer' = [useVer EXCEPT ![b] = atUse]
      /\ defVer' = [defVer EXCEPT ![b] = IF b \in defs THEN atEnd ELSE @]
      /\ arg' = [arg EXCEPT ![b] =
                   [s \in Blocks |-> IF s \in SuccSet(ends, b) \cap phis THEN atEnd ELSE @[s]]]
      /\ calls' = Append(calls, b) /\ entered' = entered \cup {b}
      /\ defs' = defs /\ phis' = phis
  BY DEF RenameBlock, placeVars
<1>2. /\ Len(stack) \in Nat /\ Len(stack) > 0 /\ Last(stack) = stack[Len(stack)]
      /\ stack[Len(stack)] \in Nat
  BY DEF RenameTypes, Last
<1>3. /\ atUse \in Nat /\ atEnd \in Nat /\ nextVer' \in Nat
  BY <1>1, <1>2 DEF NewName, PhiDefs, BodyDefs, RenameTypes
<1>4. atUse = IF b \in phis THEN atUse ELSE stack[Len(stack)]
  BY <1>2
<1>5. atEnd = IF b \in defs THEN atEnd ELSE atUse
  OBVIOUS
<1> HIDE DEF atUse, atEnd
<1>6. RenameTypes'
  BY <1>1, <1>3 DEF RenameTypes
<1>7. VerOut(b)' = atEnd /\ useVer'[b] = atUse /\ (b \in phis => phiVer'[b] = atUse)
  BY <1>1, <1>5 DEF RenameTypes, VerOut
<1>8. \A c \in Blocks \ {b} :
        /\ VerOut(c)' = VerOut(c) /\ useVer'[c] = useVer[c]
        /\ phiVer'[c] = phiVer[c] /\ arg'[c] = arg[c]
  BY <1>1 DEF RenameTypes, VerOut
<1>9. \A s \in SuccSet(ends, b) \cap phis : s \in Blocks => arg'[b][s] = atEnd
  BY <1>1 DEF RenameTypes
<1>10. /\ Len(stack') = Len(stack) + Pushed(b)
       /\ \A i \in 1 .. Len(stack) : stack'[i] = stack[i]
       /\ stack'[Len(stack')] = atEnd
  <2>1. stack \in Seq(Nat)
    BY DEF RenameTypes
  <2>2. CASE b \in phis /\ b \in defs
    <3>1. stack' = stack \o <<atUse>> \o <<atEnd>> /\ Pushed(b) = 2
      BY <2>2, <1>1 DEF Pushed, PhiDefs, BodyDefs
    <3> QED
      BY <3>1, <2>1, <1>2, <1>3
  <2>3. CASE b \in phis /\ b \notin defs
    <3>1. stack' = stack \o <<atUse>> \o << >> /\ Pushed(b) = 1
      BY <2>3, <1>1 DEF Pushed, PhiDefs, BodyDefs
    <3> QED
      BY <3>1, <2>1, <2>3, <1>2, <1>3, <1>5
  <2>4. CASE b \notin phis /\ b \in defs
    <3>1. stack' = stack \o << >> \o <<atEnd>> /\ Pushed(b) = 1
      BY <2>4, <1>1 DEF Pushed, PhiDefs, BodyDefs
    <3> QED
      BY <3>1, <2>1, <1>2, <1>3
  <2>5. CASE b \notin phis /\ b \notin defs
    <3>1. stack' = stack \o << >> \o << >> /\ Pushed(b) = 0
      BY <2>5, <1>1 DEF Pushed, PhiDefs, BodyDefs
    <3>2. stack' = stack
      BY <3>1, <2>1
    <3> QED
      BY <3>1, <3>2, <2>1, <2>5, <1>2, <1>4, <1>5
  <2> QED
    BY <2>2, <2>3, <2>4, <2>5
<1> QED
  BY <1>4, <1>6, <1>7, <1>8, <1>9, <1>10

LEMMA PushedRange == ASSUME NEW b PROVE Pushed(b) \in 0 .. 2
  BY DEF Pushed, PhiDefs, BodyDefs

\* A call that begins finds on top of the stack what its caller left there.
LEMMA StackPush ==
  ASSUME RenameInv, NEW b \in Blocks \ entered, RenameBlock(b)
  PROVE  StackInv'
<1>0. PICK h \in [1 .. Len(calls) -> Nat] : Heights(h)
  BY DEF RenameInv, StackInv
<1>1. /\ calls \in Seq(Blocks) /\ Len(calls) \in Nat /\ DOMAIN calls = 1 .. Len(calls)
      /\ stack \in Seq(Nat) /\ Len(stack) \in Nat
  BY DEF RenameInv, RenameTypes
<1>2. Len(stack) >= 1 /\ stack # << >>
  <2>1. CASE calls = << >>
    BY <2>1, <1>0, <1>1 DEF Heights
  <2>2. CASE calls # << >>
    <3>1. Len(calls) \in 1 .. Len(calls)
      BY <2>2, <1>1
    <3> QED
      BY <2>2, <3>1, <1>0, <1>1 DEF Heights
  <2> QED
    BY <2>1, <2>2
<1>3. /\ calls' = Append(calls, b) /\ phis' = phis /\ defs' = defs
  BY DEF RenameBlock, placeVars
<1>4. PICK n \in Nat : n = Len(calls)
  BY <1>1
<1>5. /\ calls' # << >> /\ Len(calls') = n + 1 /\ calls'[n+1] = b
      /\ \A k \in 1 .. n : calls'[k] = calls[k] /\ calls[k] \in Blocks
  BY <1>1, <1>3, <1>4
<1>6. \A k \in 1 .. n : calls[k] # b
  BY <1>1, <1>4 DEF RenameInv
<1>7. /\ Len(stack') = Len(stack) + Pushed(b)
      /\ \A i \in 1 .. Len(stack) : stack'[i] = stack[i]
      /\ stack'[Len(stack')] = VerOut(b)'
      /\ \A c \in Blocks \ {b} : VerOut(c)' = VerOut(c)
  BY <1>2, RenameEffect DEF RenameInv
<1>8. Pushed(b) \in 0 .. 2
  BY PushedRange
<1>9. PICK top \in Nat : top = Len(stack') /\ top >= Len(stack)
  BY <1>1, <1>7, <1>8
<1> DEFINE g == [k \in 1 .. n + 1 |-> IF k = n + 1 THEN top ELSE h[k]]
<1>10. g \in [1 .. n + 1 -> Nat] /\ g[n+1] = top
  BY <1>0, <1>4
<1>11. ASSUME NEW k \in 1 .. n + 1
       PROVE /\ g[k] = (IF k = 1 THEN 1 ELSE g[k-1]) + Pushed(calls[k])'
             /\ g[k] \in 1 .. Len(stack')
             /\ stack'[g[k]] = VerOut(calls[k])'
  <2>1. CASE k = n + 1
    <3>1. g[k] = top /\ calls'[k] = b
      BY <2>1, <1>5
    <3>2. (IF k = 1 THEN 1 ELSE g[k-1]) = Len(stack)
      <4>1. CASE n = 0
        <5>1. calls = << >> /\ k = 1
          BY <4>1, <2>1, <1>1, <1>4
        <5> QED
          BY <5>1, <1>0 DEF Heights
      <4>2. CASE n # 0
        <5>1. calls # << >>
          BY <4>2, <1>4
        <5>2. k # 1 /\ k - 1 = n /\ n \in 1 .. n + 1 /\ n # n + 1
          BY <4>2, <2>1
        <5>3. g[k-1] = h[n] /\ h[n] = Len(stack)
          BY <5>1, <5>2, <1>0, <1>4 DEF Heights
        <5> QED
          BY <5>2, <5>3
      <4> QED
        BY <4>1, <4>2
    <3>3. Pushed(calls[k])' = Pushed(b)
      BY <3>1, <1>3 DEF Pushed, PhiDefs, BodyDefs
    <3>4. VerOut(calls[k])' = VerOut(b)'
      BY <3>1 DEF VerOut
    <3> QED
      BY <3>1, <3>2, <3>3, <3>4, <1>1, <1>2, <1>7, <1>8, <1>9
  <2>2. CASE k # n + 1
    <3>1. k \in 1 .. n /\ g[k] = h[k] /\ (k # 1 => g[k-1] = h[k-1])
      BY <2>2
    <3>2. /\ h[k] = (IF k = 1 THEN 1 ELSE h[k-1]) + Pushed(calls[k])
          /\ h[k] \in 1 .. Len(stack)
          /\ stack[h[k]] = VerOut(calls[k])
      BY <3>1, <1>0, <1>4 DEF Heights
    <3>3. PICK c \in Blocks \ {b} : calls[k] = c /\ calls'[k] = c
      BY <3>1, <1>5, <1>6
    <3>4. Pushed(calls[k])' = Pushed(calls[k])
      BY <3>3, <1>3 DEF Pushed, PhiDefs, BodyDefs
    <3>5. VerOut(calls[k])' = VerOut(calls[k])
      <4>1. VerOut(c)' = VerOut(c)
        BY <1>7
      <4> QED
        BY <4>1, <3>3 DEF VerOut
    <3> QED
      BY <3>1, <3>2, <3>4, <3>5, <1>1, <1>7, <1>9
  <2> QED
    BY <2>1, <2>2
<1>13. \A j, k \in 1 .. n + 1 : j <= k => g[j] <= g[k]
  <2>1. \A j \in 1 .. n : h[j] <= top
    <3>1. \A j \in 1 .. n : h[j] \in 1 .. Len(stack)
      BY <1>0, <1>4 DEF Heights
    <3> QED
      BY <3>1, <1>1, <1>9
  <2>2. \A j, k \in 1 .. n : j <= k => h[j] <= h[k]
    BY <1>0, <1>4 DEF Heights
  <2>3. \A j \in 1 .. n : g[j] = h[j] /\ h[j] \in Nat
    BY <1>0, <1>4
  <2>4. ASSUME NEW j \in 1 .. n + 1, NEW k \in 1 .. n + 1, j <= k PROVE g[j] <= g[k]
    <3> HIDE DEF g
    <3>1. CASE k = n + 1
      <4>1. CASE j = n + 1
        BY <3>1, <4>1, <1>10
      <4>2. CASE j # n + 1
        <5>1. j \in 1 .. n
          BY <4>2
        <5> QED
          BY <5>1, <3>1, <2>1, <2>3, <1>10
      <4> QED
        BY <4>1, <4>2
    <3>2. CASE k # n + 1
      <4>1. j \in 1 .. n /\ k \in 1 .. n
        BY <3>2, <2>4
      <4> QED
        BY <4>1, <2>2, <2>3, <2>4
    <3> QED
      BY <3>1, <3>2
  <2> QED
    BY <2>4
<1> HIDE DEF g
<1>12. Heights(g)'
  BY <1>5, <1>9, <1>10, <1>11, <1>13 DEF Heights
<1> QED
  BY <1>5, <1>10, <1>12 DEF StackInv

LEMMA StackTop ==
  ASSUME RenameInv, calls # << >>
  PROVE  stack[Len(stack)] = VerOut(Last(calls)) /\ Last(calls) \in entered
         /\ stack # << >> /\ Last(calls) \in Blocks
<1>0. PICK h \in [1 .. Len(calls) -> Nat] : Heights(h)
  BY DEF RenameInv, StackInv
<1>1. /\ Len(calls) \in 1 .. Len(calls) /\ Last(calls) = calls[Len(calls)]
      /\ DOMAIN calls = 1 .. Len(calls) /\ calls[Len(calls)] \in Blocks
      /\ stack \in Seq(Nat)
  BY DEF RenameInv, RenameTypes, Last
<1>2. Len(stack) = h[Len(calls)] /\ h[Len(calls)] \in 1 .. Len(stack)
      /\ stack[h[Len(calls)]] = VerOut(calls[Len(calls)])
  BY <1>0, <1>1 DEF Heights
<1>3. stack # << >>
  BY <1>1, <1>2
<1> QED
  BY <1>1, <1>2, <1>3 DEF RenameInv

\* Entering a block whose dominator has just been renamed keeps WalkInv.
LEMMA WalkPush ==
  ASSUME RenameInv, Fixed, GraphInv, NEW b \in Blocks \ entered, RenameBlock(b), stack # << >>,
         idom \in [Blocks -> Blocks],
         Renaming => WalkInv,
         ~Renaming => b = Entry /\ b \notin phis /\ stack[Len(stack)] = 0,
         Renaming => idom[b] \in entered /\ stack[Len(stack)] = VerOut(idom[b])
  PROVE  WalkInv' /\ \A i \in DOMAIN calls' : calls'[i] \in entered'
<1>1. /\ entered' = entered \cup {b} /\ calls' = Append(calls, b)
      /\ phis' = phis /\ defs' = defs /\ UNCHANGED <<ends, idom>>
  BY DEF RenameBlock, placeVars, Fixed
<1>2. /\ calls \in Seq(Blocks) /\ entered \subseteq Blocks
      /\ \A i \in DOMAIN calls : calls[i] \in entered
      /\ ~Renaming => entered = {}
  BY DEF RenameInv, RenameTypes
<1>3. /\ b \in phis => useVer'[b] = phiVer'[b]
      /\ b \notin phis => useVer'[b] = stack[Len(stack)]
      /\ \A s \in SuccSet(ends, b) \cap phis : s \in Blocks => arg'[b][s] = VerOut(b)'
      /\ \A c \in Blocks \ {b} :
           /\ VerOut(c)' = VerOut(c) /\ useVer'[c] = useVer[c]
           /\ phiVer'[c] = phiVer[c] /\ arg'[c] = arg[c]
  BY RenameEffect DEF RenameInv
<1>4. /\ DOMAIN calls' = DOMAIN calls \cup {Len(calls) + 1}
      /\ \A i \in DOMAIN calls : calls'[i] = calls[i]
      /\ calls'[Len(calls) + 1] = b
  BY <1>1, <1>2
<1>5. \A i \in DOMAIN calls' : calls'[i] \in entered'
  BY <1>1, <1>2, <1>4
<1>6. Entry \in entered' /\ useVer'[Entry] = 0
  BY <1>1, <1>3, EntryIsBlock DEF WalkInv
<1>7. ASSUME NEW c \in entered' \ {Entry}
      PROVE  idom'[c] \in entered' /\ (c \notin phis' => useVer'[c] = VerOut(idom[c])')
  <2>1. PICK d \in Blocks : d = idom[c] /\ d = idom'[c]
    BY <1>1, <1>2
  <2>2. VerOut(idom[c])' = VerOut(d)'
    BY <2>1 DEF VerOut
  <2>3. Renaming
    BY <1>1, <1>2
  <2>4. d \in entered /\ (c \notin phis => useVer'[c] = VerOut(d))
    <3>1. CASE c = b
      <4>1. VerOut(idom[b]) = VerOut(d)
        BY <2>1, <3>1
      <4> QED
        BY <2>1, <2>3, <3>1, <4>1, <1>3
    <3>2. CASE c # b
      <4>1. VerOut(idom[c]) = VerOut(d) /\ c \in entered \ {Entry}
        BY <2>1, <3>2, <1>1
      <4> QED
        BY <2>1, <2>3, <3>2, <4>1, <1>2, <1>3 DEF WalkInv
    <3> QED
      BY <3>1, <3>2
  <2>5. VerOut(d)' = VerOut(d)
    BY <2>4, <1>3
  <2> QED
    BY <2>1, <2>2, <2>4, <2>5, <1>1
<1>8. ASSUME NEW c \in entered' \cap phis' PROVE useVer'[c] = phiVer'[c]
  <2>1. CASE c = b
    BY <2>1, <1>1, <1>3
  <2>2. CASE c # b
    BY <2>2, <1>1, <1>2, <1>3 DEF WalkInv
  <2> QED
    BY <2>1, <2>2
<1>9. ASSUME NEW c \in entered', NEW s \in SuccSet(ends, c)' \cap phis'
      PROVE  arg'[c][s] = VerOut(c)'
  <2>1. s \in SuccSet(ends, c) \cap phis /\ c \in Blocks
    BY <1>1, <1>2 DEF SuccSet
  <2>2. s \in Blocks
    BY <2>1, SuccIsBlock, CfgType DEF GraphInv
  <2>3. CASE c = b
    BY <2>1, <2>2, <2>3, <1>3
  <2>4. CASE c # b
    BY <2>1, <2>4, <1>1, <1>2, <1>3 DEF WalkInv
  <2> QED
    BY <2>3, <2>4
<1>10. ASSUME NEW c \in entered' PROVE InCall(c)' \/ Children(c)' \subseteq entered'
  <2>1. CASE c = b
    BY <2>1, <1>4 DEF InCall
  <2>2. CASE c # b
    <3>1. InCall(c) \/ Children(c) \subseteq entered
      BY <2>2, <1>1, <1>2 DEF WalkInv
    <3>2. InCall(c) => InCall(c)'
      BY <1>4 DEF InCall
    <3>3. Children(c)' = Children(c)
      BY <1>1 DEF Children
    <3> QED
      BY <3>1, <3>2, <3>3, <1>1
  <2> QED
    BY <2>1, <2>2
<1>11. WalkInv'
  BY <1>6, <1>7, <1>8, <1>9, <1>10 DEF WalkInv
<1> QED
  BY <1>5, <1>11

LEMMA StartRenameKeeps ==
  ASSUME TableInv, PlaceInv, RenameInv, StartRename PROVE RenameInv'
<1>1. /\ stage = "place" /\ stage' = "rename" /\ RenameBlock(Entry) /\ UNCHANGED vars
  BY DEF StartRename, RenameBlock
<1>2. /\ entered = {} /\ stack = <<0>> /\ ~Renaming /\ Renaming' /\ Entry \in Blocks \ entered
  BY <1>1, EntryIsBlock DEF RenameInv, Renaming
<1>3. Fixed /\ GraphInv /\ idom \in [Blocks -> Blocks]
  BY <1>1, TreeFacts DEF Fixed, vars, dfsVars, sweepVars, TableInv
<1>4. Entry \notin phis
  BY <1>3, EntryNoJoin DEF PlaceInv, JoinsOnly
<1>5. stack # << >> /\ stack[Len(stack)] = 0
  BY <1>2
<1>6. RenameTypes'
  BY <1>1, <1>5, EntryIsBlock, RenameEffect DEF RenameInv
<1>7. StackInv'
  BY <1>1, <1>2, StackPush
<1>8. WalkInv' /\ \A i \in DOMAIN calls' : calls'[i] \in entered'
  BY <1>1, <1>2, <1>3, <1>4, <1>5, WalkPush
<1> QED
  BY <1>1, <1>2, <1>6, <1>7, <1>8 DEF RenameInv

LEMMA RenameChildKeeps ==
  ASSUME TableInv, PlaceInv, RenameInv, RenameChild PROVE RenameInv'
<1>1. /\ stage = "rename" /\ stage' = "rename" /\ calls # << >> /\ UNCHANGED vars
      /\ Renaming /\ Renaming'
  BY DEF RenameChild, RenameBlock, Renaming
<1>2. PICK b \in Children(Last(calls)) \ entered : RenameBlock(b)
  BY DEF RenameChild, Pending
<1>3. b \in Blocks \ entered /\ idom[b] = Last(calls)
  BY <1>2 DEF Children
<1>4. Fixed /\ GraphInv /\ idom \in [Blocks -> Blocks]
  BY <1>1, TreeFacts DEF Fixed, vars, dfsVars, sweepVars, TableInv
<1>5. stack # << >> /\ idom[b] \in entered /\ stack[Len(stack)] = VerOut(idom[b])
  BY <1>1, <1>3, StackTop
<1>6. RenameTypes'
  BY <1>2, <1>3, <1>5, RenameEffect DEF RenameInv
<1>7. StackInv'
  BY <1>2, <1>3, StackPush
<1>8. WalkInv' /\ \A i \in DOMAIN calls' : calls'[i] \in entered'
  BY <1>1, <1>2, <1>3, <1>4, <1>5, WalkPush DEF RenameInv
<1> QED
  BY <1>1, <1>6, <1>7, <1>8 DEF RenameInv

\* A call that ends takes its versions off the stack again.
LEMMA LeaveBlockKeeps ==
  ASSUME TableInv, RenameInv, LeaveBlock PROVE RenameInv'
<1>1. /\ stage = "rename" /\ calls # << >> /\ Pending = {}
      /\ stack' = SubSeq(stack, 1, Len(stack) - Pushed(Last(calls))) /\ calls' = Front(calls)
      /\ UNCHANGED <<vars, stage, defs, phis, entered, nextVer, phiVer, useVer, defVer, arg>>
  BY DEF LeaveBlock, placeVars
<1>2. PICK h \in [1 .. Len(calls) -> Nat] : Heights(h)
  BY DEF RenameInv, StackInv
<1>3. /\ calls \in Seq(Blocks) /\ Len(calls) \in Nat /\ DOMAIN calls = 1 .. Len(calls)
      /\ stack \in Seq(Nat) /\ Len(stack) \in Nat
  BY DEF RenameInv, RenameTypes
<1>4. PICK n \in Nat \ {0} : n = Len(calls)
  <2>1. Len(calls) # 0
    BY <1>1, <1>3
  <2> QED
    BY <2>1, <1>3
<1>5. Last(calls) = calls[n] /\ calls[n] \in Blocks /\ Pushed(Last(calls)) \in 0 .. 2
  BY <1>3, <1>4, PushedRange DEF Last
<1>6. /\ h[n] = Len(stack) /\ h[n] = (IF n = 1 THEN 1 ELSE h[n-1]) + Pushed(calls[n])
  BY <1>1, <1>2, <1>4 DEF Heights
<1>7. PICK m \in Nat : m = Len(stack) - Pushed(Last(calls)) /\ m = (IF n = 1 THEN 1 ELSE h[n-1])
  <2>1. (IF n = 1 THEN 1 ELSE h[n-1]) \in Nat
    BY <1>2, <1>4
  <2> QED
    BY <2>1, <1>5, <1>6
<1>8. /\ calls' \in Seq(Blocks) /\ Len(calls') = n - 1 /\ DOMAIN calls' = 1 .. n - 1
      /\ \A k \in 1 .. n - 1 : calls'[k] = calls[k]
      /\ n = 1 <=> calls' = << >>
  <2>1. /\ calls' \in Seq(Blocks) /\ Len(calls') = n - 1
        /\ \A k \in 1 .. n - 1 : calls'[k] = calls[k]
    BY <1>1, <1>3, <1>4, PopPath DEF Front
  <2> QED
    BY <2>1
<1>9. /\ stack' \in Seq(Nat) /\ Len(stack') = m /\ \A i \in 1 .. m : stack'[i] = stack[i]
  <2>1. m <= Len(stack) /\ stack' = SubSeq(stack, 1, m)
    BY <1>1, <1>3, <1>5, <1>7
  <2>2. \A i \in 1 .. m : stack[i] \in Nat
    BY <2>1, <1>3
  <2> QED
    BY <2>1, <2>2, SubSeqProperties
<1>10. RenameTypes'
  BY <1>1, <1>8, <1>9 DEF RenameInv, RenameTypes
<1> DEFINE g == [k \in 1 .. n - 1 |-> h[k]]
<1>11. ASSUME NEW k \in 1 .. n - 1
       PROVE  /\ g[k] = (IF k = 1 THEN 1 ELSE g[k-1]) + Pushed(calls[k])'
              /\ g[k] \in 1 .. Len(stack') /\ stack'[g[k]] = VerOut(calls[k])'
  <2>1. k \in 1 .. Len(calls) /\ g[k] = h[k] /\ (k # 1 => g[k-1] = h[k-1])
    BY <1>4
  <2>2. /\ h[k] = (IF k = 1 THEN 1 ELSE h[k-1]) + Pushed(calls[k])
        /\ h[k] \in 1 .. Len(stack) /\ stack[h[k]] = VerOut(calls[k])
    BY <2>1, <1>2 DEF Heights
  <2>3. Pushed(calls[k])' = Pushed(calls[k]) /\ VerOut(calls[k])' = VerOut(calls[k])
    BY <1>1, <1>8 DEF Pushed, PhiDefs, BodyDefs, VerOut
  <2>4. h[k] <= m
    <3>1. n # 1 /\ k <= n - 1 /\ n - 1 \in 1 .. Len(calls)
      BY <1>4
    <3>2. h[k] <= h[n-1]
      BY <3>1, <2>1, <1>2 DEF Heights
    <3> QED
      BY <3>1, <3>2, <1>7
  <2> QED
    BY <2>1, <2>2, <2>3, <2>4, <1>9
<1>12. \A j, k \in 1 .. n - 1 : j <= k => g[j] <= g[k]
  <2>1. \A j, k \in 1 .. n : j <= k => h[j] <= h[k]
    BY <1>2, <1>4 DEF Heights
  <2>2. \A j \in 1 .. n - 1 : g[j] = h[j] /\ j \in 1 .. n
    OBVIOUS
  <2> QED
    BY <2>1, <2>2
<1>13. Len(stack') = IF calls' = << >> THEN 1 ELSE g[Len(calls')]
  <2>1. CASE n = 1
    BY <2>1, <1>7, <1>8, <1>9
  <2>2. CASE n # 1
    <3>1. n - 1 \in 1 .. n - 1 /\ calls' # << >>
      BY <2>2, <1>8
    <3> QED
      BY <3>1, <2>2, <1>7, <1>8, <1>9
  <2> QED
    BY <2>1, <2>2
<1>14. g \in [1 .. n - 1 -> Nat]
  BY <1>2, <1>4
<1> HIDE DEF g
<1>15. StackInv'
  <2>1. Heights(g)'
    BY <1>8, <1>11, <1>12, <1>13 DEF Heights
  <2> QED
    BY <2>1, <1>8, <1>14 DEF StackInv
<1>16. \A i \in DOMAIN calls' : calls'[i] \in entered'
  <2>1. \A i \in 1 .. n - 1 : i \in DOMAIN calls
    BY <1>3, <1>4
  <2> QED
    BY <2>1, <1>1, <1>8 DEF RenameInv
<1>17. WalkInv'
  <2>1. WalkInv
    BY <1>1 DEF RenameInv, Renaming
  <2>2. /\ \A c : VerOut(c)' = VerOut(c) /\ Children(c)' = Children(c)
        /\ \A c : SuccSet(ends, c)' = SuccSet(ends, c)
        /\ UNCHANGED <<idom, ends>>
    BY <1>1 DEF VerOut, Children, SuccSet, vars, dfsVars, sweepVars
  <2>3. ASSUME NEW c \in entered PROVE VerOut(idom[c])' = VerOut(idom[c])
    BY <1>1, <2>2 DEF VerOut
  <2>4. ASSUME NEW c \in entered PROVE InCall(c)' \/ Children(c)' \subseteq entered'
    <3>1. CASE InCall(c)
      <4>1. PICK i \in 1 .. n : calls[i] = c
        BY <3>1, <1>3, <1>4 DEF InCall
      <4>2. CASE i = n
        BY <4>1, <4>2, <2>2, <1>1, <1>5 DEF Pending
      <4>3. CASE i # n
        <5>1. i \in 1 .. n - 1
          BY <4>3
        <5> QED
          BY <5>1, <4>1, <1>8 DEF InCall
      <4> QED
        BY <4>2, <4>3
    <3>2. CASE ~InCall(c)
      BY <3>2, <2>1, <2>2, <1>1 DEF WalkInv
    <3> QED
      BY <3>1, <3>2
  <2> QED
    BY <2>1, <2>2, <2>3, <2>4, <1>1 DEF WalkInv
<1> QED
  BY <1>1, <1>10, <1>15, <1>16, <1>17 DEF RenameInv, Renaming

\* Nothing else touches what renaming writes.
LEMMA RenameKept ==
  ASSUME RenameInv, UNCHANGED renameVars,
         Renaming => UNCHANGED <<ends, idom, defs, phis>>,
         Renaming' <=> Renaming, stage' = "run" => calls = << >>
  PROVE  RenameInv'
<1>1. UNCHANGED <<calls, entered, nextVer, stack, phiVer, useVer, defVer, arg>>
  BY DEF renameVars
<1>2. RenameTypes' /\ (\A i \in DOMAIN calls' : calls'[i] \in entered')
  BY <1>1 DEF RenameInv, RenameTypes
<1>3. CASE ~Renaming
  <2>1. entered' = {} /\ stack' = <<0>> /\ calls' = << >>
    BY <1>1, <1>3 DEF RenameInv
  <2>2. StackInv'
    <3> DEFINE g == [k \in 1 .. 0 |-> 1]
    <3>1. g \in [1 .. 0 -> Nat] /\ Len(stack') = 1 /\ Len(calls') = 0
      BY <2>1
    <3>2. Heights(g)'
      BY <2>1, <3>1 DEF Heights
    <3> HIDE DEF g
    <3> QED
      BY <3>1, <3>2 DEF StackInv
  <2> QED
    BY <2>1, <2>2, <1>2, <1>3 DEF RenameInv, Renaming
<1>4. CASE Renaming
  <2>1. /\ \A c : VerOut(c)' = VerOut(c) /\ Children(c)' = Children(c) /\ InCall(c)' = InCall(c)
        /\ \A c : SuccSet(ends, c)' = SuccSet(ends, c) /\ Pushed(c)' = Pushed(c)
        /\ UNCHANGED <<idom, ends, defs, phis>>
    BY <1>1, <1>4 DEF VerOut, Children, SuccSet, InCall, Pushed, PhiDefs, BodyDefs
  <2>2. StackInv'
    <3>1. PICK h \in [1 .. Len(calls) -> Nat] : Heights(h)
      BY DEF RenameInv, StackInv
    <3>2. Heights(h)'
      BY <3>1, <2>1, <1>1 DEF Heights, VerOut, Pushed, PhiDefs, BodyDefs
    <3> QED
      BY <3>1, <3>2, <1>1 DEF StackInv
  <2>3. WalkInv'
    <3>1. WalkInv
      BY <1>4 DEF RenameInv
    <3>2. \A c \in entered : VerOut(idom[c])' = VerOut(idom[c])
      BY <1>1, <2>1 DEF VerOut
    <3> QED
      BY <3>1, <3>2, <2>1, <1>1 DEF WalkInv
  <2> QED
    BY <2>2, <2>3, <1>2, <1>4, <1>1 DEF RenameInv
<1> QED
  BY <1>3, <1>4

LEMMA NextRenameInv == TableInv /\ PlaceInv /\ RenameInv /\ [SsaNext]_ssaVars => RenameInv'
<1> SUFFICES ASSUME TableInv, PlaceInv, RenameInv, [SsaNext]_ssaVars PROVE RenameInv'
  OBVIOUS
<1>1. CASE StartRename
  BY <1>1, StartRenameKeeps
<1>2. CASE RenameChild
  BY <1>2, RenameChildKeeps
<1>3. CASE LeaveBlock
  BY <1>3, LeaveBlockKeeps
<1>4. CASE \/ ComputeDominators \/ PickBody \/ ComputeFrontiers \/ PlacePhis
           \/ FinishRename \/ (\E s \in Blocks : TakeEdge(s)) \/ UNCHANGED ssaVars
  <2>1. UNCHANGED renameVars
    BY <1>4 DEF ComputeDominators, PickBody, ComputeFrontiers, PlacePhis, FinishRename,
                TakeEdge, ssaVars
  <2>2. Renaming' <=> Renaming
    BY <1>4 DEF ComputeDominators, PickBody, ComputeFrontiers, PlacePhis, FinishRename,
                TakeEdge, ssaVars, Renaming
  <2>3. Renaming => UNCHANGED <<ends, idom, defs, phis>>
    BY <1>4 DEF ComputeDominators, PickBody, ComputeFrontiers, PlacePhis, FinishRename,
                TakeEdge, ssaVars, vars, sweepVars, placeVars, Renaming, TableInv, TableReady
  <2>4. stage' = "run" => calls = << >>
    BY <1>4 DEF ComputeDominators, PickBody, ComputeFrontiers, PlacePhis, FinishRename,
                TakeEdge, ssaVars, RenameInv
  <2> QED
    BY <2>1, <2>2, <2>3, <2>4, RenameKept
<1> QED
  BY <1>1, <1>2, <1>3, <1>4 DEF SsaNext, Leave

LEMMA RenameInductive == ASSUME ~EntryIsTarget PROVE SsaSpec => []RenameInv
<1>1. SsaInit => RenameInv
  <2> SUFFICES ASSUME SsaInit PROVE RenameInv
    OBVIOUS
  <2>1. /\ stage = "dominators" /\ calls = << >> /\ entered = {} /\ nextVer = 0 /\ stack = <<0>>
        /\ phiVer = [b \in Blocks |-> 0] /\ useVer = [b \in Blocks |-> 0]
        /\ defVer = [b \in Blocks |-> 0]
        /\ arg = [p \in Blocks |-> [b \in Blocks |-> 0]]
    BY DEF SsaInit
  <2>2. RenameTypes
    BY <2>1 DEF RenameTypes
  <2>3. StackInv
    <3> DEFINE g == [k \in 1 .. 0 |-> 1]
    <3>1. g \in [1 .. 0 -> Nat] /\ Len(stack) = 1 /\ Len(calls) = 0
      BY <2>1
    <3>2. Heights(g)
      BY <2>1, <3>1 DEF Heights
    <3> HIDE DEF g
    <3> QED
      BY <3>1, <3>2 DEF StackInv
  <2> QED
    BY <2>1, <2>2, <2>3 DEF RenameInv, Renaming
<1> QED
  BY <1>1, NextRenameInv, TableInductive, PlaceInductive, PTL DEF SsaSpec

-----------------------------------------------------------------------------
(* The renamed program runs *)

(***************************************************************************)
(* The block that runs was entered by the walk, its read names the version *)
(* assigned last, and the edge taken carried what its source left behind.  *)
(***************************************************************************)
RunInv ==
  /\ stage # "run" => cur = Entry /\ from = None /\ last = 0
  /\ stage = "run" =>
       /\ cur \in Reached /\ cur \in entered /\ useVer[cur] = last
       /\ from # None =>
            from \in entered /\ cur \in SuccSet(ends, from) /\ carried = VerOut(from)

LEMMA EnteredAbove ==
  ASSUME TableInv, stage # "dominators", WalkInv, entered \subseteq Blocks, NEW b \in entered
  PROVE  Above(b) \subseteq entered
<1>1. UpClosed(entered)
  BY TreeFacts DEF UpClosed, WalkInv, EntryRoot
<1> QED
  BY <1>1 DEF Above

(***************************************************************************)
(* A version travels down the tree past blocks that neither assign the     *)
(* register nor have its phi.  The blocks between a and b that leave       *)
(* behind what b does would be closed upwards if a were not among them.    *)
(***************************************************************************)
LEMMA Inherited ==
  ASSUME TableInv, stage # "dominators", WalkInv, entered \subseteq Blocks,
         NEW b \in entered \cap Reached, NEW a \in Above(b),
         \A r \in Above(b) : r \notin Above(a) => r \notin defs \cup phis
  PROVE  VerOut(b) = VerOut(a)
<1> DEFINE S == {c \in Above(b) : VerOut(c) = VerOut(b) /\ a \in Above(c)}
<1>1. SUFFICES ASSUME VerOut(b) # VerOut(a) PROVE FALSE
  OBVIOUS
<1>2. idom \in [Blocks -> Blocks] /\ b \in Blocks /\ Above(b) \subseteq entered
  BY TreeFacts, EnteredAbove
<1>3. b \in S /\ S \in SUBSET Blocks
  BY <1>2, AboveSelf
<1>4. UpClosed(S)
  <2>1. ASSUME NEW c \in S PROVE idom[c] \in S
    <3>1. c # a /\ c \in Above(b) /\ c \in Blocks /\ a \in Above(c) /\ c \in entered
      BY <1>1, <1>2, <1>3
    <3>2. c \in Reached /\ a \in Reached /\ num[a] > num[c]
      BY <3>1, AboveLater
    <3>3. c \notin Above(a)
      <4>1. c \in Above(a) => num[c] > num[a]
        BY <3>1, <3>2, AboveLater
      <4>2. num[c] \in Nat /\ num[a] \in Nat
        BY <3>2, TreeFacts
      <4> QED
        BY <4>1, <4>2, <3>2
    <3>4. c \notin defs /\ c \notin phis
      BY <3>1, <3>3
    <3>5. c # Entry
      BY <3>1, AboveEntry, TreeFacts
    <3>6. VerOut(c) = VerOut(idom[c])
      BY <3>1, <3>4, <3>5 DEF VerOut, WalkInv
    <3>7. idom[c] \in Above(b)
      BY <1>2, <3>1, AboveUp
    <3>8. a \in Above(idom[c])
      BY <1>2, <3>1, AboveStep
    <3> QED
      BY <3>6, <3>7, <3>8
  <2> QED
    BY <2>1 DEF UpClosed
<1>5. a \in S
  BY <1>3, <1>4 DEF Above
<1> QED
  BY <1>1, <1>5

\* What a block without a phi reads is what each of its predecessors leaves behind.
LEMMA EdgeCarries ==
  ASSUME TableInv, PlaceInv, WalkInv, stage = "run", entered \subseteq Blocks, calls = << >>,
         NEW p \in entered \cap Reached, NEW s \in SuccSet(ends, p)
  PROVE  /\ s \in entered \cap Reached
         /\ s \notin phis => useVer[s] = VerOut(p)
<1>1. s \in Reached /\ s \in Blocks /\ p \in Blocks /\ p \in Preds(ends, s)
  BY TreeFacts DEF Preds
<1>2. s # Entry
  BY <1>1 DEF TableInv, GraphInv
<1> DEFINE d == idom[s]
<1>3. d \in Above(p) /\ d # s /\ (OnlyPred(s, p) => d = p) /\ d \in Blocks
  <2>1. d \in Above(p) /\ (OnlyPred(s, p) => d = p) /\ d \in Reached
    BY <1>1, <1>2, TreeFacts
  <2>2. d # s
    <3>1. num[d] > num[s] /\ num[s] \in Nat
      BY <1>1, <1>2, TreeFacts
    <3> QED
      BY <3>1
  <2> QED
    BY <2>1, <2>2, TreeFacts
<1>4. d \in entered
  BY <1>3, EnteredAbove
<1>5. s \in entered
  <2>1. ~InCall(d)
    BY DEF InCall
  <2>2. s \in Children(d)
    BY <1>1, <1>3 DEF Children
  <2> QED
    BY <1>4, <2>1, <2>2 DEF WalkInv
<1>6. ASSUME s \notin phis PROVE useVer[s] = VerOut(p)
  <2>1. useVer[s] = VerOut(d)
    BY <1>2, <1>5, <1>6 DEF WalkInv
  <2>2. CASE Cardinality(EdgesInto(s)) >= 2
    <3>1. ASSUME NEW r \in Above(p), r \notin Above(d) PROVE r \notin defs \cup phis
      <4>1. r \in Runners(p, s)
        BY <3>1 DEF Runners
      <4>2. s \in Frontier(r)
        BY <4>1, <1>1, <2>2 DEF Frontier
      <4> QED
        BY <4>2, <1>6 DEF PlaceInv, Placed, Queued
    <3>2. VerOut(p) = VerOut(d)
      BY <3>1, <1>3, Inherited
    <3> QED
      BY <2>1, <3>2
  <2>3. CASE ~(Cardinality(EdgesInto(s)) >= 2)
    <3>1. d = p
      BY <2>3, <1>1, <1>3, SingleEdge DEF TableInv
    <3> QED
      BY <2>1, <3>1
  <2> QED
    BY <2>2, <2>3
<1> QED
  BY <1>1, <1>5, <1>6

LEMMA TakeEdgeKeeps ==
  ASSUME TableInv, PlaceInv, RenameInv, RunInv, NEW s \in Blocks, TakeEdge(s) PROVE RunInv'
<1>1. /\ stage = "run" /\ stage' = "run" /\ s \in SuccSet(ends, cur) /\ from' = cur /\ cur' = s
      /\ carried' = VerOut(cur)
      /\ last' = IF s \in phis THEN phiVer[s] ELSE carried'
      /\ UNCHANGED <<vars, defs, useVer, defVer, entered>>
  BY DEF TakeEdge, RunInv, VerOut, renameVars
<1>2. cur \in entered \cap Reached /\ WalkInv /\ calls = << >> /\ entered \subseteq Blocks
  BY <1>1 DEF RunInv, RenameInv, RenameTypes, Renaming
<1>3. s \in entered \cap Reached /\ (s \notin phis => useVer[s] = VerOut(cur))
  BY <1>1, <1>2, EdgeCarries
<1>4. s \in phis => useVer[s] = phiVer[s]
  BY <1>2, <1>3 DEF WalkInv
<1>5. Reached' = Reached /\ SuccSet(ends, from)' = SuccSet(ends, cur)
      /\ VerOut(from)' = VerOut(cur)
  BY <1>1 DEF vars, dfsVars, Reached, SuccSet, VerOut
<1> QED
  BY <1>1, <1>2, <1>3, <1>4, <1>5 DEF RunInv

LEMMA NextRunInv == TableInv /\ PlaceInv /\ RenameInv /\ RunInv /\ [SsaNext]_ssaVars => RunInv'
<1> SUFFICES ASSUME TableInv, PlaceInv, RenameInv, RunInv, [SsaNext]_ssaVars PROVE RunInv'
  OBVIOUS
<1>1. CASE \E s \in Blocks : TakeEdge(s)
  BY <1>1, TakeEdgeKeeps
<1>2. CASE FinishRename
  <2>1. /\ stage = "rename" /\ UNCHANGED <<vars, defs, entered, useVer, defVer, cur, from, last>>
    BY <1>2 DEF FinishRename, renameVars, runVars
  <2>2. WalkInv /\ cur = Entry /\ from = None /\ last = 0 /\ Entry \in Reached
    BY <2>1, TreeFacts DEF RenameInv, Renaming, RunInv
  <2>3. Reached' = Reached
    BY <2>1 DEF vars, dfsVars, Reached
  <2> QED
    BY <1>2, <2>1, <2>2, <2>3 DEF RunInv, WalkInv, FinishRename
<1>3. CASE \/ ComputeDominators \/ PickBody \/ ComputeFrontiers \/ PlacePhis
           \/ StartRename \/ RenameChild \/ LeaveBlock
  <2>1. UNCHANGED runVars /\ stage # "run" /\ stage' # "run"
    BY <1>3 DEF ComputeDominators, PickBody, ComputeFrontiers, PlacePhis, StartRename,
                RenameChild, RenameBlock, LeaveBlock, TableInv, TableReady
  <2> QED
    BY <2>1 DEF RunInv, runVars
<1>4. CASE UNCHANGED ssaVars
  <2>1. UNCHANGED <<ends, num, stage, defs, entered, useVer, defVer, cur, from, carried, last>>
    BY <1>4 DEF ssaVars, vars, dfsVars, renameVars, runVars
  <2> QED
    BY <2>1 DEF RunInv, Reached, SuccSet, VerOut
<1> QED
  BY <1>1, <1>2, <1>3, <1>4 DEF SsaNext, Leave

LEMMA RunInductive == ASSUME ~EntryIsTarget PROVE SsaSpec => []RunInv
<1>1. SsaInit => RunInv
  BY DEF SsaInit, RunInv
<1> QED
  BY <1>1, NextRunInv, TableInductive, PlaceInductive, RenameInductive, PTL DEF SsaSpec

(***************************************************************************)
(* Every read names the version assigned last, along every path of every   *)
(* function whose first block is no branch target, whatever blocks assign  *)
(* the register: `construct_ssa` preserves which definition reaches each   *)
(* use.                                                                    *)
(***************************************************************************)
THEOREM ReadsPreserved == ASSUME ~EntryIsTarget PROVE SsaSpec => []ReadsReachingDef
<1>1. RunInv => ReadsReachingDef
  BY DEF RunInv, ReadsReachingDef
<1> QED
  BY <1>1, RunInductive, PTL

(***************************************************************************)
(* And every phi has, for the edge that was taken, the version its source  *)
(* ended with.                                                             *)
(***************************************************************************)
THEOREM PhisPreserved == ASSUME ~EntryIsTarget PROVE SsaSpec => []PhiTakesReachingDef
<1>1. RenameInv /\ RunInv => PhiTakesReachingDef
  BY DEF RenameInv, Renaming, WalkInv, RunInv, PhiTakesReachingDef
<1> QED
  BY <1>1, RenameInductive, RunInductive, PTL
=============================================================================
