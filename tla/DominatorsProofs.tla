-------------------------- MODULE DominatorsProofs --------------------------
(***************************************************************************)
(* Proofs about Dominators for every number of blocks and every graph.     *)
(*                                                                         *)
(* The depth-first search establishes DfsInv, whose consequences for the   *)
(* numbers of the blocks are all the sweeps need; SweepInv says that the   *)
(* table always points upwards in the reverse postorder; FixInv and        *)
(* SoleInv are what a sweep without a change has shown of it; ExactInv is  *)
(* what one sweep makes of a function whose edges all go down the order.   *)
(***************************************************************************)
EXTENDS Dominators, TLAPS, SequenceTheorems, WellFoundedInduction

LEMMA CfgType == ASSUME NEW e \in Cfgs PROVE e \in [Blocks -> BlockEnd]
<1>1. \A b \in Blocks : e[b] \in EndsOf(b)
  BY DEF Cfgs
<1>2. ASSUME NEW b \in Blocks, NEW d \in EndsOf(b) PROVE d \in BlockEnd
  <2>1. ASSUME NEW k \in {"Exit", "FallThrough", "Goto", "Conditional"},
               NEW t \in Seq(Blocks)
        PROVE  [kind |-> k, to |-> t] \in BlockEnd
    BY DEF BlockEnd
  <2>2. Exit \in BlockEnd /\ FallThrough \in BlockEnd
    <3>1. << >> \in Seq(Blocks)
      OBVIOUS
    <3> QED
      BY <2>1, <3>1 DEF Exit, FallThrough
  <2>3. ASSUME NEW t \in Blocks PROVE Goto(t) \in BlockEnd
    <3>1. <<t>> \in Seq(Blocks)
      OBVIOUS
    <3> QED
      BY <2>1, <3>1 DEF Goto
  <2>4. ASSUME NEW t \in Blocks, NEW f \in Blocks PROVE Conditional(t, f) \in BlockEnd
    <3>1. <<t, f>> \in Seq(Blocks)
      OBVIOUS
    <3> QED
      BY <2>1, <3>1 DEF Conditional
  <2>5. \/ d \in {Exit, FallThrough}
        \/ \E t \in Blocks : d = Goto(t)
        \/ \E t \in Blocks : b + 1 \in Blocks /\ d = Conditional(t, b+1)
    BY Zenon DEF EndsOf
  <2> QED
    BY <2>2, <2>3, <2>4, <2>5
<1>3. e \in [Blocks -> UNION {EndsOf(b) : b \in Blocks}]
  BY DEF Cfgs
<1> QED
  BY <1>1, <1>2, <1>3

LEMMA EntryIsBlock == Entry \in Blocks
  BY NAssumption DEF Entry, Blocks

LEMMA SuccIsBlock ==
  ASSUME NEW e \in [Blocks -> BlockEnd], NEW b \in Blocks
  PROVE  /\ SuccSet(e, b) \subseteq Blocks
         /\ \A i \in DOMAIN e[b].to : e[b].to[i] \in SuccSet(e, b)
<1>1. e[b].to \in Seq(Blocks)
  BY DEF BlockEnd
<1>2. \A i \in DOMAIN e[b].to : e[b].to[i] \in Blocks
  BY <1>1
<1> QED
  BY <1>2 DEF SuccSet

\* What a new innermost call adds.
LEMMA PushPath ==
  ASSUME NEW p \in Seq(Blocks), NEW c \in Blocks
  PROVE  /\ Append(p, c) \in Seq(Blocks) /\ Append(p, c) # << >>
         /\ Len(Append(p, c)) = Len(p) + 1
         /\ \A i \in 1 .. Len(p) : Append(p, c)[i] = p[i]
         /\ Append(p, c)[Len(p) + 1] = c
  OBVIOUS

\* What popping the innermost call leaves.
LEMMA PopPath ==
  ASSUME NEW p \in Seq(Blocks), p # << >>, NEW q, q = SubSeq(p, 1, Len(p) - 1)
  PROVE  /\ q \in Seq(Blocks)
         /\ Len(q) = Len(p) - 1
         /\ \A i \in 1 .. Len(q) : q[i] = p[i]
<1>1. Len(p) \in Nat /\ Len(p) > 0
  OBVIOUS
<1>2. \A i \in 1 .. Len(p) - 1 : p[i] \in Blocks
  OBVIOUS
<1>3. 1 \in Int /\ Len(p) - 1 \in Int
  BY <1>1
<1> DEFINE m == Len(p) - 1
<1>4. m \in Int /\ m >= 0 /\ \A i \in 1 .. m : p[i] \in Blocks
  BY <1>1, <1>2
<1>5. q = SubSeq(p, 1, m)
  OBVIOUS
<1> HIDE DEF m
<1>6. SubSeq(p, 1, m) \in Seq(Blocks)
  BY <1>3, <1>4, SubSeqProperties
<1>7. Len(SubSeq(p, 1, m)) = m
  BY <1>3, <1>4, SubSeqProperties
<1>8. \A i \in 1 .. m : SubSeq(p, 1, m)[i] = p[i]
  BY <1>3, <1>4, SubSeqProperties
<1> QED
  BY <1>5, <1>6, <1>7, <1>8 DEF m

-----------------------------------------------------------------------------

(***************************************************************************)
(* The depth-first search.  The calls that are active are the blocks seen  *)
(* but not numbered, each a successor of the one that called it; numbers   *)
(* are handed out once; and a numbered block has a predecessor that will   *)
(* be, or is, numbered later.                                              *)
(***************************************************************************)
PathActive ==
  /\ \A i \in DOMAIN path : path[i] \in seen /\ num[path[i]] = 0
  /\ \A i, j \in DOMAIN path : path[i] = path[j] => i = j
  /\ \A b \in seen : num[b] = 0 => \E i \in DOMAIN path : path[i] = b

PathFromEntry ==
  /\ Entry \in seen
  /\ path # << >> => path[1] = Entry
  /\ \A i \in DOMAIN path : i > 1 => path[i] \in SuccSet(ends, path[i-1])

Numbering ==
  /\ \A b \in Blocks : num[b] # 0 => b \in seen
  /\ \A a, b \in Blocks : num[a] # 0 /\ num[a] = num[b] => a = b
  /\ \A k \in 1 .. posted : \E b \in Blocks : num[b] = k
  /\ num[Entry] # 0 => path = << >> /\ num[Entry] = posted

ParentLater ==
  \A b \in Blocks \ {Entry} : num[b] # 0 =>
    \E p \in Preds(ends, b) \cap seen : num[p] = 0 \/ num[p] > num[b]

SuccSeen ==
  /\ \A b \in seen :
       /\ \A i \in DOMAIN ends[b].to : i < nxt[b] => ends[b].to[i] \in seen
       /\ num[b] # 0 => nxt[b] \notin DOMAIN ends[b].to
  /\ \A b \in Blocks \ seen : nxt[b] = 1

SeenReachable ==
  \A S \in SUBSET Blocks : Entry \in S /\ Closed(ends, S) => seen \subseteq S

DfsInv ==
  /\ PathActive /\ PathFromEntry /\ Numbering
  /\ ParentLater /\ SuccSeen /\ SeenReachable

DfsDone == pc # "dfs" => path = << >>

\* While the search runs, the table is as it was initialised.
DfsFirst == pc = "dfs" => at = 0 /\ idom = [b \in Blocks |-> Entry]

(***************************************************************************)
(* The sweeps.  A block's entry in the table comes later in postorder than *)
(* the block.  While the predecessors of a block are folded, one that      *)
(* comes later than the block is still to come or is at or below the       *)
(* candidate; so is the candidate itself once all are folded.              *)
(***************************************************************************)
InReach(b) == b \in Blocks /\ num[b] # 0

TreeUp ==
  \A b \in Blocks \ {Entry} : num[b] # 0 => InReach(idom[b]) /\ num[idom[b]] > num[b]

EntryRoot == idom[Entry] = Entry

LatePending == \E p \in todo : num[p] > at

FoldInv ==
  /\ pc \in {"preds", "climb"} => at > 0
  /\ pc = "preds" =>
       /\ cand # None => InReach(cand)
       /\ LatePending \/ (cand # None /\ num[cand] > at)
  /\ pc = "climb" =>
       /\ InReach(x) /\ InReach(y)
       /\ LatePending \/ num[x] > at \/ num[y] > at

SweepInv == pc # "dfs" => TreeUp /\ EntryRoot /\ FoldInv

(***************************************************************************)
(* What has been established since the last change of the table.           *)
(***************************************************************************)
Folded(b) == (Preds(ends, b) \cap Reached) \ todo

FixInv ==
  /\ pc = "preds" => \A p \in Folded(BlockAt) : cand # None /\ cand \in Above(p)
  /\ pc = "climb" => \A p \in Folded(BlockAt) : x \in Above(p) \/ y \in Above(p)
  /\ pc # "dfs" /\ ~changed =>
       \A b \in Reached \ {Entry} : num[b] > at =>
         \A p \in Preds(ends, b) \cap Reached : idom[b] \in Above(p)
  /\ pc = "done" => at = 0 /\ ~changed

-----------------------------------------------------------------------------
(* The depth-first search keeps DfsInv. *)

LEMMA DfsInit == Init => DfsInv
<1> SUFFICES ASSUME Init PROVE DfsInv
  OBVIOUS
<1>1. path = <<Entry>> /\ seen = {Entry} /\ posted = 0
  BY DEF Init
<1>2. num = [b \in Blocks |-> 0] /\ nxt = [b \in Blocks |-> 1]
  BY DEF Init
<1>3. DOMAIN path = {1} /\ path[1] = Entry /\ path # << >>
  BY <1>1
<1>4. PathActive
  BY <1>1, <1>2, <1>3, EntryIsBlock DEF PathActive
<1>5. PathFromEntry
  BY <1>1, <1>3 DEF PathFromEntry
<1>6. Numbering /\ ParentLater
  BY <1>1, <1>2, EntryIsBlock DEF Numbering, ParentLater
<1>7. SuccSeen
  <2>1. ends[Entry].to \in Seq(Blocks)
    BY CfgType, EntryIsBlock DEF Init, BlockEnd
  <2>2. \A i \in DOMAIN ends[Entry].to : ~(i < 1)
    BY <2>1
  <2> QED
    BY <1>1, <1>2, <2>2, EntryIsBlock DEF SuccSeen
<1>8. SeenReachable
  BY <1>1 DEF SeenReachable
<1> QED
  BY <1>4, <1>5, <1>6, <1>7, <1>8 DEF DfsInv

\* The call that is active.
LEMMA TopFacts ==
  ASSUME TypeOK, DfsInv, path # << >>
  PROVE  /\ Len(path) \in DOMAIN path
         /\ Top \in Blocks /\ Top \in seen /\ num[Top] = 0
         /\ ends[Top].to \in Seq(Blocks)
<1>1. path \in Seq(Blocks) /\ Len(path) \in DOMAIN path
  BY DEF TypeOK
<1>2. Top \in Blocks /\ Top \in seen /\ num[Top] = 0
  BY <1>1 DEF Top, DfsInv, PathActive
<1> QED
  BY <1>1, <1>2 DEF TypeOK, BlockEnd

LEMMA DfsEnterKeeps ==
  ASSUME TypeOK, DfsInv, DfsEnter PROVE DfsInv'
<1> DEFINE s == ends[Top].to[nxt[Top]]
<1>1. /\ path # << >> /\ nxt[Top] \in DOMAIN ends[Top].to /\ s \notin seen
      /\ seen' = seen \cup {s} /\ path' = Append(path, s)
      /\ nxt' = [nxt EXCEPT ![Top] = @ + 1]
      /\ UNCHANGED <<ends, num, posted>>
  BY DEF DfsEnter
<1>2. /\ Len(path) \in DOMAIN path /\ Top \in Blocks /\ Top \in seen /\ num[Top] = 0
      /\ ends[Top].to \in Seq(Blocks)
  BY <1>1, TopFacts
<1>3. s \in Blocks /\ s \in SuccSet(ends, Top)
  BY <1>1, <1>2, SuccIsBlock DEF TypeOK
<1>4. num[s] = 0
  BY <1>1, <1>3 DEF DfsInv, Numbering
<1>5. /\ path' \in Seq(Blocks) /\ Len(path') = Len(path) + 1
      /\ \A i \in DOMAIN path : path'[i] = path[i]
      /\ path'[Len(path) + 1] = s
      /\ DOMAIN path' = DOMAIN path \cup {Len(path) + 1}
      /\ DOMAIN path = 1 .. Len(path) /\ Len(path) \in Nat
      /\ path' # << >>
  <2>1. path \in Seq(Blocks)
    BY DEF TypeOK
  <2>2. /\ path' \in Seq(Blocks) /\ path' # << >>
        /\ Len(path') = Len(path) + 1
        /\ \A i \in 1 .. Len(path) : path'[i] = path[i]
        /\ path'[Len(path) + 1] = s
    BY <2>1, <1>1, <1>3, PushPath
  <2>3. DOMAIN path = 1 .. Len(path) /\ Len(path) \in Nat /\ DOMAIN path' = 1 .. Len(path')
    BY <2>1, <2>2, LenProperties
  <2> QED
    BY <2>2, <2>3
<1>6. PathActive'
  <2>1. \A i \in DOMAIN path : path[i] \in seen /\ num[path[i]] = 0
    BY DEF DfsInv, PathActive
  <2>2. \A i, j \in DOMAIN path : path[i] = path[j] => i = j
    BY DEF DfsInv, PathActive
  <2>3. \A b \in seen : num[b] = 0 => \E i \in DOMAIN path : path[i] = b
    BY DEF DfsInv, PathActive
  <2>4. \A i \in DOMAIN path' : path'[i] \in seen' /\ num'[path'[i]] = 0
    BY <2>1, <1>1, <1>4, <1>5
  <2>5. \A i, j \in DOMAIN path' : path'[i] = path'[j] => i = j
    BY <2>1, <2>2, <1>1, <1>5
  <2>6. \A b \in seen' : num'[b] = 0 => \E i \in DOMAIN path' : path'[i] = b
    BY <2>3, <1>1, <1>5
  <2> QED
    BY <2>4, <2>5, <2>6 DEF PathActive
<1>7. PathFromEntry'
  <2>1. Entry \in seen' /\ path'[1] = Entry
    BY <1>1, <1>2, <1>5 DEF DfsInv, PathFromEntry
  <2>2. ASSUME NEW i \in DOMAIN path', i > 1
        PROVE  path'[i] \in SuccSet(ends', path'[i-1])
    <3>1. CASE i \in DOMAIN path
      <4>1. i - 1 \in DOMAIN path
        BY <3>1, <2>2, <1>5
      <4> QED
        BY <3>1, <4>1, <2>2, <1>1, <1>5 DEF DfsInv, PathFromEntry
    <3>2. CASE i = Len(path) + 1
      <4>1. path'[i-1] = Top
        BY <3>2, <1>2, <1>5 DEF Top
      <4> QED
        BY <3>2, <4>1, <1>1, <1>3, <1>5
    <3> QED
      BY <3>1, <3>2, <1>5
  <2> QED
    BY <2>1, <2>2 DEF PathFromEntry
<1>8. Numbering'
  <2>1. num[Entry] = 0
    BY <1>1 DEF DfsInv, Numbering
  <2> QED
    BY <2>1, <1>1 DEF DfsInv, Numbering
<1>9. ParentLater'
  BY <1>1 DEF DfsInv, ParentLater, Preds
<1>10. SuccSeen'
  <2>1. ASSUME NEW b \in seen' PROVE
          /\ \A i \in DOMAIN ends[b].to : i < nxt'[b] => ends[b].to[i] \in seen'
          /\ num[b] # 0 => nxt'[b] \notin DOMAIN ends[b].to
    <3>1. CASE b = Top
      <4>1. nxt'[Top] = nxt[Top] + 1 /\ nxt[Top] \in Nat
        BY <1>1, <1>2 DEF TypeOK
      <4>2. \A i \in DOMAIN ends[Top].to : i < nxt[Top] + 1 => i < nxt[Top] \/ i = nxt[Top]
        BY <4>1, <1>2
      <4> QED
        BY <3>1, <4>1, <4>2, <1>1, <1>2 DEF DfsInv, SuccSeen
    <3>2. CASE b = s
      <4>1. nxt'[s] = nxt[s] /\ s # Top
        BY <1>1, <1>2, <1>3 DEF TypeOK
      <4>2. \A i \in DOMAIN ends[s].to : ~(i < nxt[s])
        <5>1. ends[s].to \in Seq(Blocks)
          BY <1>3 DEF TypeOK, BlockEnd
        <5> QED
          BY <5>1, <1>1, <1>3 DEF DfsInv, SuccSeen
      <4> QED
        BY <3>2, <4>1, <4>2, <1>4
    <3>3. CASE b \in seen /\ b # Top
      BY <3>3, <1>1 DEF DfsInv, SuccSeen, TypeOK
    <3> QED
      BY <3>1, <3>2, <3>3, <1>1
  <2>2. \A b \in Blocks \ seen' : nxt'[b] = 1
    BY <1>1, <1>2 DEF DfsInv, SuccSeen, TypeOK
  <2> QED
    BY <2>1, <2>2, <1>1 DEF SuccSeen
<1>11. SeenReachable'
  <2>1. ASSUME NEW S \in SUBSET Blocks, Entry \in S, Closed(ends, S) PROVE seen' \subseteq S
    <3>1. seen \subseteq S
      BY <2>1 DEF DfsInv, SeenReachable
    <3>2. s \in S
      BY <3>1, <2>1, <1>2, <1>3 DEF Closed
    <3> QED
      BY <3>1, <3>2, <1>1
  <2> QED
    BY <2>1, <1>1 DEF SeenReachable, Closed, SuccSet
<1> QED
  BY <1>6, <1>7, <1>8, <1>9, <1>10, <1>11 DEF DfsInv

LEMMA DfsSkipKeeps ==
  ASSUME TypeOK, DfsInv, DfsSkip PROVE DfsInv'
<1>1. /\ path # << >> /\ ends[Top].to[nxt[Top]] \in seen
      /\ nxt' = [nxt EXCEPT ![Top] = @ + 1]
      /\ nxt[Top] \in DOMAIN ends[Top].to
      /\ UNCHANGED <<ends, path, seen, num, posted>>
  BY DEF DfsSkip
<1>2. /\ Top \in Blocks /\ Top \in seen /\ num[Top] = 0
      /\ ends[Top].to \in Seq(Blocks)
  BY <1>1, TopFacts
<1>3. PathActive' /\ PathFromEntry' /\ Numbering' /\ ParentLater' /\ SeenReachable'
  BY <1>1 DEF DfsInv, PathActive, PathFromEntry, Numbering, ParentLater, SeenReachable,
              Preds, SuccSet, Closed
<1>4. SuccSeen'
  <2>1. ASSUME NEW b \in seen PROVE
          /\ \A i \in DOMAIN ends[b].to : i < nxt'[b] => ends[b].to[i] \in seen
          /\ num[b] # 0 => nxt'[b] \notin DOMAIN ends[b].to
    <3>1. CASE b = Top
      <4>1. nxt'[Top] = nxt[Top] + 1 /\ nxt[Top] \in Nat
        BY <1>1, <1>2 DEF TypeOK
      <4>2. \A i \in DOMAIN ends[Top].to : i < nxt[Top] + 1 => i < nxt[Top] \/ i = nxt[Top]
        BY <4>1, <1>2
      <4> QED
        BY <3>1, <4>1, <4>2, <1>1, <1>2 DEF DfsInv, SuccSeen
    <3>2. CASE b # Top
      BY <3>2, <1>1 DEF DfsInv, SuccSeen, TypeOK
    <3> QED
      BY <3>1, <3>2
  <2>2. \A b \in Blocks \ seen : nxt'[b] = 1
    BY <1>1, <1>2 DEF DfsInv, SuccSeen, TypeOK
  <2> QED
    BY <2>1, <2>2, <1>1 DEF SuccSeen
<1> QED
  BY <1>3, <1>4 DEF DfsInv

LEMMA DfsLeaveKeeps ==
  ASSUME TypeOK, DfsInv, DfsLeave PROVE DfsInv'
<1>1. /\ path # << >> /\ nxt[Top] \notin DOMAIN ends[Top].to
      /\ num' = [num EXCEPT ![Top] = posted + 1]
      /\ posted' = posted + 1
      /\ path' = SubSeq(path, 1, Len(path) - 1)
      /\ UNCHANGED <<ends, seen, nxt>>
  BY DEF DfsLeave
<1>2. /\ Len(path) \in DOMAIN path /\ Top \in Blocks /\ Top \in seen /\ num[Top] = 0
      /\ ends[Top].to \in Seq(Blocks)
  BY <1>1, TopFacts
<1>3. /\ path' \in Seq(Blocks) /\ Len(path') = Len(path) - 1
      /\ \A i \in DOMAIN path' : path'[i] = path[i]
      /\ DOMAIN path' = 1 .. Len(path) - 1
      /\ DOMAIN path = 1 .. Len(path) /\ Len(path) \in Nat /\ Len(path) > 0
  <2>1. path \in Seq(Blocks)
    BY DEF TypeOK
  <2>2. /\ path' \in Seq(Blocks) /\ Len(path') = Len(path) - 1
        /\ \A i \in 1 .. Len(path') : path'[i] = path[i]
    BY <2>1, <1>1, PopPath
  <2>3. DOMAIN path = 1 .. Len(path) /\ Len(path) \in Nat /\ DOMAIN path' = 1 .. Len(path')
    BY <2>1, <2>2, LenProperties
  <2> QED
    BY <2>2, <2>3, <1>2
<1>4. /\ posted \in Nat /\ num \in [Blocks -> 0 .. posted]
      /\ \A b \in Blocks : b # Top => num'[b] = num[b]
      /\ num'[Top] = posted + 1
  BY <1>1, <1>2 DEF TypeOK
<1>5. \A b \in Blocks : num[b] \in Nat /\ num[b] <= posted
  BY <1>4
<1>6. seen \subseteq Blocks
  BY DEF TypeOK
<1>7. PathActive'
  <2>1. \A i \in DOMAIN path : path[i] \in seen /\ num[path[i]] = 0
    BY DEF DfsInv, PathActive
  <2>2. \A i, j \in DOMAIN path : path[i] = path[j] => i = j
    BY DEF DfsInv, PathActive
  <2>3. \A b \in seen : num[b] = 0 => \E i \in DOMAIN path : path[i] = b
    BY DEF DfsInv, PathActive
  <2>4. \A i \in DOMAIN path' : i \in DOMAIN path /\ i # Len(path) /\ path'[i] = path[i]
    BY <1>3
  <2>5. \A i \in DOMAIN path' : path'[i] # Top
    BY <2>2, <2>4, <1>2 DEF Top
  <2>6. \A i \in DOMAIN path' : path'[i] \in seen' /\ num'[path'[i]] = 0
    BY <2>1, <2>4, <2>5, <1>1, <1>4, <1>6
  <2>7. \A i, j \in DOMAIN path' : path'[i] = path'[j] => i = j
    BY <2>2, <2>4
  <2>8. ASSUME NEW b \in seen', num'[b] = 0 PROVE \E i \in DOMAIN path' : path'[i] = b
    <3>1. b # Top /\ b \in seen /\ num[b] = 0
      BY <2>8, <1>1, <1>4, <1>6
    <3>2. PICK i \in DOMAIN path : path[i] = b
      BY <3>1, <2>3
    <3>3. i \in DOMAIN path'
      BY <3>1, <3>2, <1>3 DEF Top
    <3> QED
      BY <3>2, <3>3, <1>3
  <2> QED
    BY <2>6, <2>7, <2>8 DEF PathActive
<1>8. PathFromEntry'
  <2>1. Entry \in seen' /\ (path' # << >> => path'[1] = Entry)
    <3>1. path' # << >> => 1 \in DOMAIN path'
      BY <1>3
    <3> QED
      BY <3>1, <1>1, <1>3 DEF DfsInv, PathFromEntry
  <2>2. ASSUME NEW i \in DOMAIN path', i > 1
        PROVE  path'[i] \in SuccSet(ends', path'[i-1])
    <3>1. i \in DOMAIN path /\ i - 1 \in DOMAIN path'
      BY <2>2, <1>3
    <3> QED
      BY <2>2, <3>1, <1>1, <1>3 DEF DfsInv, PathFromEntry
  <2> QED
    BY <2>1, <2>2 DEF PathFromEntry
<1>9. Numbering'
  <2>1. \A b \in Blocks : num'[b] # 0 => b \in seen'
    BY <1>1, <1>2, <1>4 DEF DfsInv, Numbering
  <2>2. ASSUME NEW a \in Blocks, NEW b \in Blocks, num'[a] # 0, num'[a] = num'[b]
        PROVE  a = b
    BY <2>2, <1>4, <1>5 DEF DfsInv, Numbering
  <2>3. ASSUME NEW k \in 1 .. posted' PROVE \E b \in Blocks : num'[b] = k
    <3>1. CASE k = posted + 1
      BY <3>1, <1>2, <1>4
    <3>2. CASE k \in 1 .. posted
      <4>1. PICK b \in Blocks : num[b] = k
        BY <3>2 DEF DfsInv, Numbering
      <4>2. b # Top
        BY <3>2, <4>1, <1>2
      <4> QED
        BY <4>1, <4>2, <1>4
    <3> QED
      BY <3>1, <3>2, <1>1, <1>4
  <2>4. ASSUME num'[Entry] # 0 PROVE path' = << >> /\ num'[Entry] = posted'
    <3>1. num[Entry] = 0
      BY <1>1 DEF DfsInv, Numbering
    <3>2. Entry = Top
      BY <2>4, <3>1, <1>4, EntryIsBlock
    <3>3. path[1] = Entry /\ 1 \in DOMAIN path
      BY <1>1, <1>3 DEF DfsInv, PathFromEntry
    <3>4. Len(path) = 1
      <4>1. path[Len(path)] = Entry /\ Len(path) \in DOMAIN path
        BY <3>2, <1>2 DEF Top
      <4>2. \A i, j \in DOMAIN path : path[i] = path[j] => i = j
        BY DEF DfsInv, PathActive
      <4> QED
        BY <3>3, <4>1, <4>2
    <3> QED
      BY <3>2, <3>4, <1>1, <1>3, <1>4
  <2> QED
    BY <2>1, <2>2, <2>3, <2>4 DEF Numbering
<1>10. ParentLater'
  <2>1. ASSUME NEW b \in Blocks \ {Entry}, num'[b] # 0
        PROVE  \E p \in Preds(ends, b) \cap seen : num'[p] = 0 \/ num'[p] > num'[b]
    <3>1. CASE b = Top
      <4>1. Len(path) > 1
        BY <3>1, <1>1, <1>2, <1>3 DEF DfsInv, PathFromEntry, Top
      <4>2. Len(path) - 1 \in DOMAIN path'
        BY <4>1, <1>3
      <4> DEFINE p == path[Len(path) - 1]
      <4>3. p \in seen /\ num'[p] = 0
        <5>1. path'[Len(path) - 1] \in seen' /\ num'[path'[Len(path) - 1]] = 0
          BY <4>2, <1>7 DEF PathActive
        <5>2. path'[Len(path) - 1] = p /\ seen' = seen
          BY <4>2, <1>1, <1>3
        <5> QED
          BY <5>1, <5>2
      <4>4. Top \in SuccSet(ends, p)
        BY <4>1, <1>2 DEF DfsInv, PathFromEntry, Top
      <4> QED
        BY <3>1, <4>3, <4>4, <1>6 DEF Preds
    <3>2. CASE b # Top
      <4>1. PICK p \in Preds(ends, b) \cap seen : num[p] = 0 \/ num[p] > num[b]
        BY <3>2, <2>1, <1>4 DEF DfsInv, ParentLater
      <4>2. num'[p] = 0 \/ num'[p] > num[b]
        BY <4>1, <1>4, <1>5, <1>6
      <4> QED
        BY <3>2, <4>1, <4>2, <1>4
    <3> QED
      BY <3>1, <3>2
  <2> QED
    BY <2>1, <1>1 DEF ParentLater, Preds
<1>11. SuccSeen'
  BY <1>1, <1>2, <1>4, <1>6 DEF DfsInv, SuccSeen
<1>12. SeenReachable'
  BY <1>1 DEF DfsInv, SeenReachable, Closed, SuccSet
<1> QED
  BY <1>7, <1>8, <1>9, <1>10, <1>11, <1>12 DEF DfsInv

LEMMA SweepKeepsDfs ==
  ASSUME DfsInv, UNCHANGED <<ends, dfsVars>> PROVE DfsInv'
  BY DEF dfsVars, DfsInv, PathActive, PathFromEntry, Numbering, ParentLater,
         SuccSeen, SeenReachable, Preds, SuccSet, Closed

-----------------------------------------------------------------------------
(* What the sweeps know of the numbers. *)

LEMMA NumFacts ==
  ASSUME TypeOK, DfsInv, path = << >>
  PROVE  /\ Reached = seen
         /\ num[Entry] = posted /\ posted \in Nat \ {0}
         /\ \A b \in Blocks : num[b] \in Nat /\ num[b] <= posted
         /\ \A b \in Blocks \ {Entry} : num[b] < posted
         /\ \A b \in Reached \ {Entry} :
              \E p \in Preds(ends, b) : InReach(p) /\ num[p] > num[b]
<1>1. posted \in Nat /\ \A b \in Blocks : num[b] \in 0 .. posted
  BY DEF TypeOK
<1>2. \A b \in seen : num[b] # 0
  BY DEF DfsInv, PathActive
<1>3. Reached = seen
  BY <1>2 DEF Reached, DfsInv, Numbering, TypeOK
<1>4. num[Entry] = posted /\ posted # 0
  BY <1>2 DEF DfsInv, Numbering, PathFromEntry
<1>5. ASSUME NEW b \in Blocks \ {Entry} PROVE num[b] < posted
  BY <1>1, <1>4, EntryIsBlock DEF DfsInv, Numbering
<1>6. ASSUME NEW b \in Reached \ {Entry}
      PROVE  \E p \in Preds(ends, b) : InReach(p) /\ num[p] > num[b]
  BY <1>2, <1>6 DEF DfsInv, ParentLater, Reached, InReach, Preds
<1> QED
  BY <1>1, <1>3, <1>4, <1>5, <1>6

\* The block the sweep is at.
LEMMA AtFacts ==
  ASSUME TypeOK, DfsInv, path = << >>, at > 0
  PROVE  BlockAt \in Reached \ {Entry} /\ BlockAt \in Blocks /\ num[BlockAt] = at
<1>1. at \in 1 .. posted /\ at < posted
  BY DEF TypeOK
<1>2. \E b \in Blocks : num[b] = at
  BY <1>1 DEF DfsInv, Numbering
<1>3. BlockAt \in Blocks /\ num[BlockAt] = at
  BY <1>2 DEF BlockAt
<1> QED
  BY <1>1, <1>3, NumFacts DEF Reached

-----------------------------------------------------------------------------

\* The inductive invariant.
IInv == TypeOK /\ DfsInv /\ DfsDone /\ DfsFirst /\ SweepInv

LEMMA InitIInv == Init => IInv
<1> SUFFICES ASSUME Init PROVE IInv
  OBVIOUS
<1>1. ends \in [Blocks -> BlockEnd]
  BY CfgType DEF Init
<1>2. <<Entry>> \in Seq(Blocks)
  BY EntryIsBlock
<1>3. TypeOK
  BY <1>1, <1>2, EntryIsBlock DEF Init, TypeOK, None
<1> QED
  BY <1>3, DfsInit DEF Init, IInv, DfsDone, DfsFirst, SweepInv

\* Entering, skipping and leaving: the table is untouched.
LEMMA DfsKeeps ==
  ASSUME IInv, DfsEnter \/ DfsSkip \/ DfsLeave PROVE IInv'
<1>1. DfsInv'
  BY DfsEnterKeeps, DfsSkipKeeps, DfsLeaveKeeps DEF IInv
<1>2. pc = "dfs" /\ UNCHANGED <<ends, pc, sweepVars, foldVars>> /\ path # << >>
  BY DEF DfsEnter, DfsSkip, DfsLeave
<1>3. /\ Top \in Blocks /\ ends[Top].to \in Seq(Blocks)
  BY <1>2, TopFacts DEF IInv
<1>4. TypeOK'
  <2> DEFINE bumped == [nxt EXCEPT ![Top] = @ + 1]
  <2>0. bumped \in [Blocks -> Nat \ {0}]
    <3>1. nxt \in [Blocks -> Nat \ {0}] /\ nxt[Top] + 1 \in Nat \ {0}
      BY <1>3 DEF IInv, TypeOK
    <3> QED
      BY <3>1
  <2>1. CASE DfsEnter
    <3>0. nxt' = bumped
      BY <2>1 DEF DfsEnter
    <3>1. ends[Top].to[nxt[Top]] \in Blocks
      BY <2>1, <1>3 DEF DfsEnter
    <3>2. Append(path, ends[Top].to[nxt[Top]]) \in Seq(Blocks)
      BY <3>1, PushPath DEF IInv, TypeOK
    <3>3. path' \in Seq(Blocks) /\ seen' \in SUBSET Blocks /\ UNCHANGED <<num, posted>>
      BY <2>1, <3>1, <3>2 DEF DfsEnter, IInv, TypeOK
    <3> HIDE DEF bumped
    <3> QED
      BY <2>0, <1>2, <3>0, <3>3 DEF IInv, TypeOK, sweepVars, foldVars
  <2>2. CASE DfsSkip
    <3>0. nxt' = bumped
      BY <2>2 DEF DfsSkip
    <3> HIDE DEF bumped
    <3> QED
      BY <2>0, <2>2, <1>2, <3>0 DEF DfsSkip, IInv, TypeOK, sweepVars, foldVars
  <2>3. CASE DfsLeave
    <3>1. SubSeq(path, 1, Len(path) - 1) \in Seq(Blocks)
      BY <1>2, PopPath DEF IInv, TypeOK
    <3>2. at = 0
      BY <1>2 DEF IInv, DfsFirst
    <3>3. num' \in [Blocks -> 0 .. posted'] /\ posted' \in Nat
      <4>1. num \in [Blocks -> 0 .. posted] /\ posted \in Nat /\ posted' = posted + 1
            /\ num' = [num EXCEPT ![Top] = posted + 1]
        BY <2>3 DEF DfsLeave, IInv, TypeOK
      <4>2. \A b \in Blocks : num[b] \in 0 .. posted'
        BY <4>1
      <4>3. posted + 1 \in 0 .. posted'
        BY <4>1
      <4> DEFINE R == 0 .. posted'
      <4>4. num \in [Blocks -> R]
        BY <4>1, <4>2
      <4> HIDE DEF R
      <4>5. num' \in [Blocks -> R]
        BY <4>1, <4>4, <4>3 DEF R
      <4> QED
        BY <4>1, <4>5 DEF R
    <3> QED
      BY <2>3, <1>2, <3>1, <3>2, <3>3 DEF DfsLeave, IInv, TypeOK, sweepVars, foldVars
  <2> QED
    BY <2>1, <2>2, <2>3
<1>5. DfsDone' /\ DfsFirst' /\ SweepInv'
  BY <1>2 DEF IInv, DfsDone, DfsFirst, SweepInv, sweepVars
<1> QED
  BY <1>1, <1>4, <1>5 DEF IInv

LEMMA StartSweepKeeps ==
  ASSUME IInv, StartSweep PROVE IInv'
<1>1. path = << >> /\ UNCHANGED <<ends, dfsVars, idom, foldVars>>
      /\ pc' = "sweep" /\ changed' = FALSE /\ at' = posted - 1
  BY DEF StartSweep, IInv, DfsDone
<1>2. DfsInv'
  BY <1>1, SweepKeepsDfs DEF IInv
<1>3. TypeOK'
  <2>1. posted \in Nat \ {0}
    BY <1>1, NumFacts DEF IInv
  <2>2. at' \in Nat /\ at' < posted
    BY <2>1, <1>1
  <2> QED
    BY <1>1, <2>2 DEF IInv, TypeOK, dfsVars, foldVars
<1>4. TreeUp' /\ EntryRoot'
  <2>1. CASE pc = "dfs"
    <3>1. idom' = [b \in Blocks |-> Entry]
      BY <2>1, <1>1 DEF IInv, DfsFirst
    <3> QED
      BY <3>1, <1>1, NumFacts, EntryIsBlock DEF IInv, TreeUp, EntryRoot, InReach, dfsVars
  <2>2. CASE pc # "dfs"
    BY <2>2, <1>1 DEF IInv, SweepInv, TreeUp, EntryRoot, InReach, dfsVars
  <2> QED
    BY <2>1, <2>2
<1> QED
  BY <1>1, <1>2, <1>3, <1>4 DEF IInv, DfsDone, DfsFirst, SweepInv, FoldInv, dfsVars

LEMMA NextBlockKeeps ==
  ASSUME IInv, NextBlock PROVE IInv'
<1>1. path = << >> /\ UNCHANGED <<ends, dfsVars, sweepVars, x, y>> /\ at > 0
      /\ pc = "sweep" /\ pc' = "preds" /\ todo' = Preds(ends, BlockAt) /\ cand' = None
  BY DEF NextBlock, IInv, DfsDone
<1>2. DfsInv'
  BY <1>1, SweepKeepsDfs DEF IInv
<1>3. TypeOK'
  BY <1>1 DEF IInv, TypeOK, dfsVars, sweepVars, Preds
<1>4. TreeUp' /\ EntryRoot'
  BY <1>1 DEF IInv, SweepInv, TreeUp, EntryRoot, InReach, dfsVars, sweepVars
<1>5. LatePending'
  BY <1>1, AtFacts, NumFacts DEF IInv, LatePending, dfsVars, sweepVars
<1>6. FoldInv'
  BY <1>1, <1>5 DEF FoldInv, sweepVars
<1> QED
  BY <1>1, <1>2, <1>3, <1>4, <1>6 DEF IInv, DfsDone, DfsFirst, SweepInv, dfsVars

\* Folding a predecessor keeps the numbers and the table.
LEMMA FoldKeeps ==
  ASSUME IInv, SkipUnreached \/ FirstPred \/ BeginIntersect PROVE IInv'
<1>1. PICK p \in todo : /\ pc = "preds" /\ todo' = todo \ {p}
                        /\ \/ /\ num[p] = 0 /\ UNCHANGED <<pc, cand, x, y>>
                           \/ /\ cand = None /\ num[p] # 0 /\ cand' = p
                              /\ UNCHANGED <<pc, x, y>>
                           \/ /\ cand # None /\ num[p] # 0 /\ y' = p /\ x' = cand
                              /\ pc' = "climb" /\ UNCHANGED cand
  BY DEF SkipUnreached, FirstPred, BeginIntersect, NextPred
<1>2. UNCHANGED <<ends, dfsVars, sweepVars>>
  BY DEF SkipUnreached, FirstPred, BeginIntersect
<1>3. DfsInv'
  BY <1>2, SweepKeepsDfs DEF IInv
<1>4. p \in Blocks /\ todo \subseteq Blocks
  BY DEF IInv, TypeOK
<1>5. TypeOK'
  BY <1>1, <1>2, <1>4 DEF IInv, TypeOK, dfsVars, sweepVars
<1>6. TreeUp' /\ EntryRoot'
  BY <1>1, <1>2 DEF IInv, SweepInv, TreeUp, EntryRoot, InReach, dfsVars, sweepVars
<1>7. /\ at > 0 /\ at \in Nat /\ \A b \in Blocks : num[b] \in Nat
      /\ cand # None => InReach(cand)
      /\ LatePending \/ (cand # None /\ num[cand] > at)
  BY <1>1 DEF IInv, SweepInv, FoldInv, TypeOK
<1>8. LatePending => LatePending' \/ num[p] > at
  BY <1>1, <1>2 DEF LatePending, dfsVars, sweepVars
<1>9. None \notin Blocks
  BY NAssumption DEF None, Blocks
<1>10. FoldInv'
  <2> USE DEF FoldInv, InReach, dfsVars, sweepVars
  <2>1. CASE num[p] = 0 /\ UNCHANGED <<pc, cand, x, y>>
    BY <2>1, <1>1, <1>2, <1>7, <1>8
  <2>2. CASE cand = None /\ num[p] # 0 /\ cand' = p /\ UNCHANGED <<pc, x, y>>
    BY <2>2, <1>1, <1>2, <1>4, <1>7, <1>8, <1>9
  <2>3. CASE cand # None /\ num[p] # 0 /\ y' = p /\ x' = cand /\ pc' = "climb"
    BY <2>3, <1>1, <1>2, <1>4, <1>7, <1>8
  <2> QED
    BY <1>1, <2>1, <2>2, <2>3
<1>11. pc' # "dfs" /\ path' = << >>
  BY <1>1, <1>2 DEF IInv, DfsDone, dfsVars
<1> QED
  BY <1>3, <1>5, <1>6, <1>10, <1>11 DEF IInv, DfsDone, DfsFirst, SweepInv

\* A finger that climbs is not at the entry, so it moves to a later number.
LEMMA ClimbUp ==
  ASSUME IInv, pc = "climb", NEW a \in {x, y}, NEW c \in {x, y}, RpoIdx(a) > RpoIdx(c)
  PROVE  /\ a \in Blocks \ {Entry} /\ InReach(a)
         /\ idom[a] \in Blocks /\ InReach(idom[a]) /\ num[idom[a]] > num[a]
<1>1. InReach(a) /\ InReach(c) /\ TreeUp
  BY DEF IInv, SweepInv, FoldInv
<1>2. path = << >>
  BY DEF IInv, DfsDone
<1>3. num[a] < num[c] /\ num[c] <= posted /\ num[Entry] = posted /\ num[a] \in Nat
  BY <1>1, <1>2, NumFacts DEF RpoIdx, InReach, IInv
<1>4. num[c] \in Nat
  BY <1>1, <1>2, NumFacts DEF InReach, IInv
<1>5. a # Entry
  BY <1>3, <1>4
<1> QED
  BY <1>1, <1>5 DEF TreeUp, InReach

LEMMA ClimbKeeps ==
  ASSUME IInv, ClimbX \/ ClimbY PROVE IInv'
<1>1. pc = "climb" /\ UNCHANGED <<ends, pc, dfsVars, sweepVars, todo, cand>>
  BY DEF ClimbX, ClimbY
<1>2. DfsInv'
  BY <1>1, SweepKeepsDfs DEF IInv
<1>3. x' \in Blocks /\ y' \in Blocks
  BY DEF ClimbX, ClimbY, IInv, TypeOK
<1>4. TypeOK'
  BY <1>1, <1>3 DEF IInv, TypeOK, dfsVars, sweepVars
<1>5. /\ at > 0 /\ at \in Nat /\ \A b \in Blocks : num[b] \in Nat
      /\ InReach(x) /\ InReach(y)
      /\ LatePending \/ num[x] > at \/ num[y] > at
  BY <1>1 DEF IInv, SweepInv, FoldInv, TypeOK
<1>6. FoldInv'
  <2>1. CASE ClimbX
    <3>1. InReach(idom[x]) /\ num[idom[x]] > num[x]
      BY <2>1, <1>1, ClimbUp DEF ClimbX
    <3> QED
      BY <2>1, <3>1, <1>1, <1>5 DEF ClimbX, FoldInv, InReach, LatePending, dfsVars, sweepVars
  <2>2. CASE ClimbY
    <3>1. InReach(idom[y]) /\ num[idom[y]] > num[y]
      BY <2>2, <1>1, ClimbUp DEF ClimbY
    <3> QED
      BY <2>2, <3>1, <1>1, <1>5 DEF ClimbY, FoldInv, InReach, LatePending, dfsVars, sweepVars
  <2> QED
    BY <2>1, <2>2
<1>7. TreeUp' /\ EntryRoot'
  BY <1>1 DEF IInv, SweepInv, TreeUp, EntryRoot, InReach, dfsVars, sweepVars
<1> QED
  BY <1>1, <1>2, <1>4, <1>6, <1>7 DEF IInv, DfsDone, DfsFirst, SweepInv, dfsVars

LEMMA MeetKeeps ==
  ASSUME IInv, Meet PROVE IInv'
<1>1. pc = "climb" /\ x = y /\ cand' = x /\ pc' = "preds"
      /\ UNCHANGED <<ends, dfsVars, sweepVars, todo, x, y>>
  BY DEF Meet
<1>2. DfsInv'
  BY <1>1, SweepKeepsDfs DEF IInv
<1>3. TypeOK'
  BY <1>1 DEF IInv, TypeOK, dfsVars, sweepVars
<1>4. None \notin Blocks
  BY NAssumption DEF None, Blocks
<1>5. FoldInv'
  BY <1>1, <1>4 DEF IInv, SweepInv, FoldInv, InReach, LatePending, dfsVars, sweepVars
<1>6. TreeUp' /\ EntryRoot'
  BY <1>1 DEF IInv, SweepInv, TreeUp, EntryRoot, InReach, dfsVars, sweepVars
<1> QED
  BY <1>1, <1>2, <1>3, <1>5, <1>6 DEF IInv, DfsDone, DfsFirst, SweepInv, dfsVars

LEMMA SetIdomKeeps ==
  ASSUME IInv, SetIdom PROVE IInv'
<1>1. pc = "preds" /\ todo = {} /\ pc' = "sweep" /\ at' = at - 1
      /\ UNCHANGED <<ends, dfsVars, foldVars>>
  BY DEF SetIdom
<1>2. DfsInv'
  BY <1>1, SweepKeepsDfs DEF IInv
<1>3. path = << >> /\ at > 0 /\ at \in Nat
  BY <1>1 DEF IInv, DfsDone, SweepInv, FoldInv, TypeOK
<1>4. InReach(cand) /\ num[cand] > at
  BY <1>1 DEF IInv, SweepInv, FoldInv, LatePending
<1>5. BlockAt \in Blocks /\ num[BlockAt] = at /\ BlockAt # Entry
  BY <1>3, AtFacts DEF IInv
<1>6. idom' = [idom EXCEPT ![BlockAt] = cand] \/ idom' = idom
  BY DEF SetIdom
<1>7. changed' \in BOOLEAN
  BY DEF SetIdom, IInv, TypeOK
<1>8. TypeOK'
  <2>1. idom' \in [Blocks -> Blocks]
    BY <1>4, <1>6 DEF IInv, TypeOK, InReach
  <2>2. at' \in Nat /\ (at' = 0 \/ at' < posted')
    BY <1>1, <1>3 DEF IInv, TypeOK, dfsVars
  <2> QED
    BY <1>1, <1>7, <2>1, <2>2 DEF IInv, TypeOK, dfsVars, foldVars
<1>9. TreeUp' /\ EntryRoot'
  BY <1>1, <1>4, <1>5, <1>6, EntryIsBlock
     DEF IInv, SweepInv, TreeUp, EntryRoot, InReach, TypeOK, dfsVars
<1> QED
  BY <1>1, <1>2, <1>3, <1>8, <1>9 DEF IInv, DfsDone, DfsFirst, SweepInv, FoldInv, dfsVars

LEMMA RestKeeps ==
  ASSUME IInv, Finish \/ Returned \/ UNCHANGED vars PROVE IInv'
<1>1. UNCHANGED <<ends, dfsVars, sweepVars, foldVars>>
      /\ (pc' = pc \/ (pc = "sweep" /\ pc' = "done"))
  BY DEF Finish, Returned, vars
<1>2. DfsInv'
  BY <1>1, SweepKeepsDfs DEF IInv
<1>3. TypeOK'
  BY <1>1 DEF IInv, TypeOK, dfsVars, sweepVars, foldVars
<1>4. DfsDone' /\ DfsFirst' /\ SweepInv'
  BY <1>1 DEF IInv, DfsDone, DfsFirst, SweepInv, TreeUp, EntryRoot, FoldInv, InReach,
              LatePending, dfsVars, sweepVars, foldVars
<1> QED
  BY <1>2, <1>3, <1>4 DEF IInv

LEMMA NextIInv == IInv /\ [Next]_vars => IInv'
  BY DfsKeeps, StartSweepKeeps, NextBlockKeeps, FoldKeeps, ClimbKeeps, MeetKeeps,
     SetIdomKeeps, RestKeeps DEF Next

\* When the search is over no edge leaves the blocks it saw.
LEMMA SeenClosed == ASSUME IInv, path = << >> PROVE Closed(ends, seen)
<1>1. Reached = seen
  BY NumFacts DEF IInv
<1>2. ASSUME NEW b \in seen, NEW i \in DOMAIN ends[b].to PROVE ends[b].to[i] \in seen
  <2>1. b \in Blocks /\ num[b] # 0
    BY <1>1 DEF Reached
  <2>2. ends[b].to \in Seq(Blocks) /\ nxt[b] \in Nat \ {0}
    BY <2>1 DEF IInv, TypeOK, BlockEnd
  <2>3. i < nxt[b]
    BY <2>1, <2>2 DEF IInv, DfsInv, SuccSeen
  <2> QED
    BY <2>3 DEF IInv, DfsInv, SuccSeen
<1> QED
  BY <1>2 DEF Closed, SuccSet

LEMMA Inductive == Spec => []IInv
  BY InitIInv, NextIInv, PTL DEF Spec

(***************************************************************************)
(* Every variable keeps its type; the numbering stays within the postorder.*)
(***************************************************************************)
THEOREM TypeCorrect == Spec => []TypeOK
<1>1. IInv => TypeOK
  BY DEF IInv
<1> QED
  BY <1>1, Inductive, PTL

(***************************************************************************)
(* A finger of `intersect` that climbs always comes closer to the entry.   *)
(***************************************************************************)
THEOREM Ascending == Spec => []ClimbsAscend
<1>1. IInv => ClimbsAscend
  <2> SUFFICES ASSUME IInv, pc # "dfs", NEW b \in Reached \ {Entry}
               PROVE  RpoIdx(idom[b]) < RpoIdx(b)
    BY DEF ClimbsAscend
  <2>1. path = << >> /\ TreeUp
    BY DEF IInv, DfsDone, SweepInv
  <2>2. b \in Blocks /\ num[b] # 0
    BY DEF Reached
  <2>3. InReach(idom[b]) /\ num[idom[b]] > num[b]
    BY <2>1, <2>2 DEF TreeUp
  <2> QED
    BY <2>1, <2>2, <2>3, NumFacts DEF IInv, RpoIdx, InReach
<1> QED
  BY <1>1, Inductive, PTL

(***************************************************************************)
(* `intersect` never spins: fingers that differ are at different heights.  *)
(***************************************************************************)
THEOREM Progressing == Spec => []FingersProgress
<1>1. IInv => FingersProgress
  <2> SUFFICES ASSUME IInv, pc = "climb", RpoIdx(x) = RpoIdx(y) PROVE x = y
    BY DEF FingersProgress
  <2>1. path = << >> /\ InReach(x) /\ InReach(y)
    BY DEF IInv, DfsDone, SweepInv, FoldInv
  <2>2. num[x] = num[y]
    BY <2>1, NumFacts DEF IInv, RpoIdx, InReach
  <2> QED
    BY <2>1, <2>2 DEF IInv, DfsInv, Numbering, InReach
<1> QED
  BY <1>1, Inductive, PTL

(***************************************************************************)
(* The reverse postorder lists exactly the blocks reachable from the entry,*)
(* the entry first and every other after one of its predecessors.          *)
(***************************************************************************)
THEOREM OrderSound == Spec => []RpoSound
<1>1. IInv => RpoSound
  <2> SUFFICES ASSUME IInv, pc # "dfs" PROVE
        /\ Reached = Reachable(ends) /\ RpoIdx(Entry) = 0
        /\ \A b \in Reached \ {Entry} :
             \E p \in Preds(ends, b) \cap Reached : RpoIdx(p) < RpoIdx(b)
    BY DEF RpoSound
  <2>1. path = << >>
    BY DEF IInv, DfsDone
  <2>2. Reached = seen /\ Reached \subseteq Blocks /\ Entry \in seen
    BY <2>1, NumFacts DEF IInv, Reached, DfsInv, PathFromEntry
  <2>3. Closed(ends, seen)
    BY <2>1, SeenClosed
  <2>4. Reachable(ends) \subseteq seen
    BY <2>2, <2>3 DEF Reachable
  <2>5. seen \subseteq Reachable(ends)
    BY <2>2 DEF IInv, DfsInv, SeenReachable, Reachable
  <2>6. RpoIdx(Entry) = 0
    BY <2>1, NumFacts DEF IInv, RpoIdx
  <2>7. ASSUME NEW b \in Reached \ {Entry}
        PROVE  \E p \in Preds(ends, b) \cap Reached : RpoIdx(p) < RpoIdx(b)
    <3>1. b \in Blocks /\ num[b] # 0
      BY DEF Reached
    <3>2. PICK p \in Preds(ends, b) : InReach(p) /\ num[p] > num[b]
      BY <2>1, NumFacts DEF IInv
    <3>3. RpoIdx(p) < RpoIdx(b)
      BY <2>1, <3>1, <3>2, NumFacts DEF IInv, RpoIdx, InReach
    <3> QED
      BY <3>2, <3>3 DEF Reached, InReach
  <2> QED
    BY <2>2, <2>4, <2>5, <2>6, <2>7
<1> QED
  BY <1>1, Inductive, PTL

-----------------------------------------------------------------------------
(* The chain of dominators above a block. *)

LEMMA AboveSelf == ASSUME NEW p \in Blocks PROVE p \in Above(p)
  BY DEF Above

LEMMA AboveUp ==
  ASSUME idom \in [Blocks -> Blocks], NEW p \in Blocks, NEW a \in Above(p)
  PROVE  idom[a] \in Above(p)
  BY DEF Above, UpClosed

LEMMA AboveTrans ==
  ASSUME NEW p \in Blocks, NEW a \in Above(p), NEW c \in Above(a) PROVE c \in Above(p)
  BY DEF Above

LEMMA AboveStep ==
  ASSUME idom \in [Blocks -> Blocks], NEW s \in Blocks, NEW d \in Above(s)
  PROVE  d = s \/ d \in Above(idom[s])
<1> DEFINE S == {s} \cup Above(idom[s])
<1>1. S \in SUBSET Blocks
  BY DEF Above
<1>2. UpClosed(S)
  <2>1. idom[s] \in S
    BY AboveSelf
  <2>2. \A a \in Above(idom[s]) : idom[a] \in S
    BY AboveUp
  <2> QED
    BY <2>1, <2>2 DEF UpClosed
<1>3. d \in S
  BY <1>1, <1>2 DEF Above
<1> QED
  BY <1>3

LEMMA AboveEntry == ASSUME EntryRoot, NEW d \in Above(Entry) PROVE d = Entry
<1>1. {Entry} \in SUBSET Blocks /\ UpClosed({Entry})
  BY EntryIsBlock DEF EntryRoot, UpClosed
<1> QED
  BY <1>1 DEF Above

LEMMA AboveKept == ASSUME UNCHANGED idom, NEW p PROVE Above(p)' = Above(p)
  BY DEF Above, UpClosed

-----------------------------------------------------------------------------
(* A sweep without a change has checked every edge. *)

\* The steps that fold predecessors leave the table and the order alone.
LEMMA SweepFrame ==
  ASSUME UNCHANGED <<ends, dfsVars, sweepVars>>
  PROVE  /\ Reached' = Reached /\ BlockAt' = BlockAt
         /\ \A b \in Blocks : Preds(ends, b)' = Preds(ends, b)
         /\ \A p \in Blocks : Above(p)' = Above(p)
<1>1. UNCHANGED <<ends, num, at, idom>>
  BY DEF dfsVars, sweepVars
<1>2. Reached' = Reached
  BY <1>1 DEF Reached
<1>3. BlockAt' = BlockAt
  BY <1>1 DEF BlockAt
<1>4. \A b \in Blocks : Preds(ends, b)' = Preds(ends, b)
  BY <1>1 DEF Preds, SuccSet
<1> QED
  BY <1>1, <1>2, <1>3, <1>4, AboveKept

\* The part of FixInv about the blocks already visited in this sweep.
Swept ==
  pc # "dfs" /\ ~changed =>
    \A b \in Reached \ {Entry} : num[b] > at =>
      \A p \in Preds(ends, b) \cap Reached : idom[b] \in Above(p)

LEMMA SweptKept ==
  ASSUME Swept, UNCHANGED <<ends, dfsVars, sweepVars>>, pc # "dfs" PROVE Swept'
  BY SweepFrame DEF Swept, Reached, dfsVars, sweepVars

LEMMA FixInit == Init => FixInv
  BY DEF Init, FixInv

LEMMA FixDfs == ASSUME DfsEnter \/ DfsSkip \/ DfsLeave PROVE FixInv'
  BY DEF DfsEnter, DfsSkip, DfsLeave, FixInv

LEMMA FixStart == ASSUME IInv, StartSweep PROVE FixInv'
<1>1. path = << >> /\ UNCHANGED <<ends, dfsVars, idom, foldVars>>
      /\ pc' = "sweep" /\ at' = posted - 1
  BY DEF StartSweep, IInv, DfsDone
<1>2. \A b \in Blocks \ {Entry} : ~(num[b] > posted - 1)
  BY <1>1, NumFacts DEF IInv
<1> QED
  BY <1>1, <1>2 DEF FixInv, Reached, dfsVars

LEMMA FixNextBlock == ASSUME IInv, FixInv, NextBlock PROVE FixInv'
<1>1. /\ UNCHANGED <<ends, dfsVars, sweepVars>>
      /\ pc = "sweep" /\ pc' = "preds" /\ todo' = Preds(ends, BlockAt) /\ at > 0
  BY DEF NextBlock
<1>2. BlockAt \in Blocks
  BY <1>1, AtFacts DEF IInv, DfsDone
<1>3. Folded(BlockAt)' = {}
  BY <1>1, <1>2, SweepFrame DEF Folded
<1>4. Swept'
  BY <1>1, SweptKept DEF FixInv, Swept
<1> QED
  BY <1>1, <1>3, <1>4 DEF FixInv, Swept

LEMMA FixFold ==
  ASSUME IInv, FixInv, SkipUnreached \/ FirstPred \/ BeginIntersect PROVE FixInv'
<1>1. PICK p \in todo : /\ pc = "preds" /\ todo' = todo \ {p}
                        /\ \/ /\ num[p] = 0 /\ UNCHANGED <<pc, cand, x, y>>
                           \/ /\ cand = None /\ num[p] # 0 /\ cand' = p
                              /\ UNCHANGED <<pc, x, y>>
                           \/ /\ cand # None /\ num[p] # 0 /\ y' = p /\ x' = cand
                              /\ pc' = "climb" /\ UNCHANGED cand
  BY DEF SkipUnreached, FirstPred, BeginIntersect, NextPred
<1>2. UNCHANGED <<ends, dfsVars, sweepVars>>
  BY DEF SkipUnreached, FirstPred, BeginIntersect
<1>3. p \in Blocks /\ todo \subseteq Blocks
  BY DEF IInv, TypeOK
<1>4. BlockAt \in Blocks
  BY <1>1, AtFacts DEF IInv, DfsDone, SweepInv, FoldInv
<1>5. ASSUME NEW q \in Folded(BlockAt)'
      PROVE  /\ q \in Blocks /\ Above(q)' = Above(q)
             /\ q \in Folded(BlockAt) \/ (q = p /\ num[p] # 0)
  <2>1. q \in (Preds(ends, BlockAt) \cap Reached) \ todo'
    BY <1>2, <1>4, SweepFrame DEF Folded
  <2>2. q \in Blocks /\ num[q] # 0
    BY <2>1 DEF Reached
  <2> QED
    BY <2>1, <2>2, <1>1, <1>2, SweepFrame DEF Folded
<1>6. Swept'
  BY <1>1, <1>2, SweptKept DEF FixInv, Swept
<1>7. \A q \in Folded(BlockAt) : cand # None /\ cand \in Above(q)
  BY <1>1 DEF FixInv
<1>8. p \in Above(p) /\ None \notin Blocks
  BY <1>3, AboveSelf, NAssumption DEF None, Blocks
<1>9. pc' = "preds" => \A q \in Folded(BlockAt)' : cand' # None /\ cand' \in Above(q)'
  BY <1>1, <1>3, <1>5, <1>7, <1>8
<1>10. pc' = "climb" => \A q \in Folded(BlockAt)' : x' \in Above(q)' \/ y' \in Above(q)'
  BY <1>1, <1>3, <1>5, <1>7, <1>8
<1>11. pc' # "done"
  BY <1>1
<1> QED
  BY <1>6, <1>9, <1>10, <1>11 DEF FixInv, Swept

LEMMA FixClimb == ASSUME IInv, FixInv, ClimbX \/ ClimbY \/ Meet PROVE FixInv'
<1>1. pc = "climb" /\ UNCHANGED <<ends, dfsVars, sweepVars, todo>> /\ pc' \in {"climb", "preds"}
  BY DEF ClimbX, ClimbY, Meet
<1>2. idom \in [Blocks -> Blocks] /\ x \in Blocks /\ y \in Blocks
  BY DEF IInv, TypeOK
<1>3. BlockAt \in Blocks
  BY <1>1, AtFacts DEF IInv, DfsDone, SweepInv, FoldInv
<1>4. Folded(BlockAt)' = Folded(BlockAt) /\ Folded(BlockAt) \subseteq Blocks
  BY <1>1, <1>3, SweepFrame DEF Folded, Reached
<1>5. \A q \in Folded(BlockAt) : Above(q)' = Above(q) /\ (x \in Above(q) \/ y \in Above(q))
  BY <1>1, <1>4, SweepFrame DEF FixInv
<1>6. Swept'
  BY <1>1, SweptKept DEF FixInv, Swept
<1>7. None \notin Blocks
  BY NAssumption DEF None, Blocks
<1>8. CASE ClimbX
  <2>1. \A q \in Folded(BlockAt) : x \in Above(q) => idom[x] \in Above(q)
    BY <1>2, <1>4, AboveUp
  <2>2. x' = idom[x] /\ y' = y /\ pc' = "climb"
    BY <1>8, <1>1 DEF ClimbX
  <2> QED
    BY <2>1, <2>2, <1>4, <1>5, <1>6 DEF FixInv, Swept
<1>9. CASE ClimbY
  <2>1. \A q \in Folded(BlockAt) : y \in Above(q) => idom[y] \in Above(q)
    BY <1>2, <1>4, AboveUp
  <2>2. y' = idom[y] /\ x' = x /\ pc' = "climb"
    BY <1>9, <1>1 DEF ClimbY
  <2> QED
    BY <2>1, <2>2, <1>4, <1>5, <1>6 DEF FixInv, Swept
<1>10. CASE Meet
  <2>1. cand' = x /\ x = y /\ pc' = "preds"
    BY <1>10 DEF Meet
  <2> QED
    BY <2>1, <1>2, <1>4, <1>5, <1>6, <1>7 DEF FixInv, Swept
<1> QED
  BY <1>8, <1>9, <1>10

LEMMA FixSetIdom == ASSUME IInv, FixInv, SetIdom PROVE FixInv'
<1>1. pc = "preds" /\ todo = {} /\ pc' = "sweep" /\ at' = at - 1
      /\ UNCHANGED <<ends, dfsVars, foldVars>>
  BY DEF SetIdom
<1>2. at > 0 /\ at \in Nat /\ path = << >>
  BY <1>1 DEF IInv, DfsDone, SweepInv, FoldInv, TypeOK
<1>3. BlockAt \in Blocks /\ num[BlockAt] = at
  BY <1>2, AtFacts DEF IInv
<1>4. CASE changed' = TRUE
  BY <1>1, <1>4 DEF FixInv
<1>5. CASE changed' # TRUE
  <2>1. UNCHANGED <<idom, changed>> /\ ~(cand # None /\ idom[BlockAt] # cand)
    BY <1>5 DEF SetIdom
  <2>2. \A p \in Preds(ends, BlockAt) \cap Reached : cand # None /\ cand \in Above(p)
    BY <1>1 DEF FixInv, Folded
  <2>3. \A p \in Preds(ends, BlockAt) \cap Reached : idom[BlockAt] \in Above(p)
    BY <2>1, <2>2
  <2>4. ASSUME ~changed, NEW b \in Reached \ {Entry}, num[b] > at - 1,
               NEW p \in Preds(ends, b) \cap Reached
        PROVE  idom[b] \in Above(p)
    <3>1. num[b] \in Nat /\ b \in Blocks
      BY DEF Reached, IInv, TypeOK
    <3>2. CASE num[b] = at
      <4>1. b = BlockAt
        BY <3>1, <3>2, <1>2, <1>3 DEF IInv, DfsInv, Numbering
      <4> QED
        BY <4>1, <2>3, <2>4
    <3>3. CASE num[b] > at
      BY <3>3, <2>4, <1>1 DEF FixInv
    <3> QED
      BY <3>1, <3>2, <3>3, <2>4, <1>2
  <2>5. /\ Reached' = Reached
        /\ \A b \in Blocks : Preds(ends, b)' = Preds(ends, b)
        /\ \A p \in Blocks : Above(p)' = Above(p)
        /\ UNCHANGED num /\ Reached \subseteq Blocks
    BY <1>1, <2>1, AboveKept DEF Reached, Preds, SuccSet, dfsVars
  <2> QED
    BY <1>1, <2>1, <2>4, <2>5 DEF FixInv
<1> QED
  BY <1>4, <1>5

LEMMA FixRest == ASSUME FixInv, Finish \/ Returned \/ UNCHANGED vars PROVE FixInv'
<1>1. UNCHANGED <<ends, dfsVars, sweepVars, foldVars>>
      /\ (pc' = pc \/ (pc = "sweep" /\ pc' = "done" /\ at = 0 /\ ~changed))
  BY DEF Finish, Returned, vars
<1>2. /\ Reached' = Reached /\ BlockAt' = BlockAt /\ Folded(BlockAt)' = Folded(BlockAt)
      /\ \A b : Preds(ends, b)' = Preds(ends, b)
      /\ \A p : Above(p)' = Above(p)
      /\ UNCHANGED <<at, changed, num, idom, cand, x, y>>
  BY <1>1, AboveKept
     DEF Reached, BlockAt, Folded, Preds, SuccSet, dfsVars, sweepVars, foldVars
<1> QED
  BY <1>1, <1>2 DEF FixInv

LEMMA NextFixInv == IInv /\ FixInv /\ [Next]_vars => FixInv'
  BY FixDfs, FixStart, FixNextBlock, FixFold, FixClimb, FixSetIdom, FixRest DEF Next

LEMMA FixInductive == Spec => [](IInv /\ FixInv)
  BY InitIInv, FixInit, NextIInv, NextFixInv, PTL DEF Spec

(***************************************************************************)
(* The returned table puts the dominator of a block at or above the source *)
(* of every edge into it: renaming can inherit versions along the tree.    *)
(***************************************************************************)
THEOREM EdgesRespected == Spec => []EdgesRespectTree
<1>1. IInv /\ FixInv => EdgesRespectTree
  <2> SUFFICES ASSUME IInv, FixInv, pc = "done", NEW b \in Reached \ {Entry},
                      NEW p \in Preds(ends, b) \cap Reached
               PROVE  idom[b] \in Above(p)
    BY DEF EdgesRespectTree
  <2>1. num[b] > at
    BY DEF IInv, FixInv, TypeOK, Reached
  <2> QED
    BY <2>1 DEF FixInv
<1> QED
  BY <1>1, FixInductive, PTL

(***************************************************************************)
(* The returned table is sound: idom[b] is on every path from the entry to *)
(* b.  The blocks that do not have d = idom[b] above them contain the      *)
(* entry, lack d and b, and are left by an edge only into d: an edge into  *)
(* another block below d would, by EdgesRespectTree, start below d.        *)
(***************************************************************************)
THEOREM TableSound == Spec => []IdomSound
<1>1. IInv /\ FixInv => IdomSound
  <2> SUFFICES ASSUME IInv, FixInv, pc = "done", NEW b \in Reached
               PROVE  Dominates(ends, idom[b], b)
    BY DEF IdomSound
  <2> DEFINE d == idom[b]
             S == {c \in Reached : d \notin Above(c)}
  <2>1. /\ idom \in [Blocks -> Blocks] /\ Reached \subseteq Blocks /\ b \in Blocks
        /\ d \in Blocks /\ EntryRoot
    BY DEF IInv, TypeOK, Reached, SweepInv
  <2>2. Entry \in Reached /\ \A c \in Reached : SuccSet(ends, c) \subseteq Reached
    <3>1. path = << >>
      BY DEF IInv, DfsDone
    <3>2. Reached = seen /\ Entry \in seen
      BY <3>1, NumFacts DEF IInv, DfsInv, PathFromEntry
    <3> QED
      BY <3>1, <3>2, SeenClosed DEF Closed
  <2>3. S \in SUBSET (Blocks \ {d, b})
    <3>1. d \in Above(d) /\ d \in Above(b)
      BY <2>1, AboveSelf, AboveUp
    <3> QED
      BY <3>1, <2>1
  <2>4. d # Entry => Entry \in S
    BY <2>1, <2>2, AboveEntry
  <2>5. ASSUME NEW c \in S, NEW s \in SuccSet(ends, c) PROVE s \in S \cup {d}
    <3>1. s \in Reached /\ c \in Reached /\ c \in Preds(ends, s) /\ s \in Blocks
      BY <2>1, <2>2 DEF Preds
    <3>2. ASSUME d \in Above(s), s # d PROVE FALSE
      <4>1. s # Entry
        BY <3>2, <2>1, AboveEntry
      <4>2. d \in Above(idom[s])
        BY <3>1, <3>2, <2>1, AboveStep
      <4>3. num[s] > at
        BY <3>1 DEF IInv, FixInv, TypeOK, Reached
      <4>4. idom[s] \in Above(c)
        BY <3>1, <4>1, <4>3 DEF FixInv
      <4>5. d \in Above(c)
        BY <4>2, <4>4, <3>1, <2>1, AboveTrans
      <4> QED
        BY <4>5
    <3> QED
      BY <3>1, <3>2
  <2> QED
    BY <2>3, <2>4, <2>5 DEF Dominates
<1> QED
  BY <1>1, FixInductive, PTL
-----------------------------------------------------------------------------
(* A block with one predecessor has it as its dominator. *)

(***************************************************************************)
(* EdgesRespectTree only puts the dominator of a block at or above its     *)
(* predecessors.  Where there is a single one the fold starts and ends     *)
(* with it, so a sweep without a change has found it in the table.         *)
(***************************************************************************)
OnlyPred(b, p) == Preds(ends, b) = {p}

SoleFold ==
  pc \in {"preds", "climb"} =>
    \A p \in Blocks : OnlyPred(BlockAt, p) =>
      /\ pc = "preds"
      /\ \/ todo = {p} /\ cand = None
         \/ todo = {} /\ cand = p

SoleSwept ==
  pc # "dfs" /\ ~changed =>
    \A b \in Reached \ {Entry}, p \in Blocks :
      num[b] > at /\ OnlyPred(b, p) => idom[b] = p

SoleInv == SoleFold /\ SoleSwept

LEMMA SoleInit == Init => SoleInv
  BY DEF Init, SoleInv, SoleFold, SoleSwept

LEMMA SoleDfs == ASSUME DfsEnter \/ DfsSkip \/ DfsLeave PROVE SoleInv'
  BY DEF DfsEnter, DfsSkip, DfsLeave, SoleInv, SoleFold, SoleSwept

LEMMA SoleStart == ASSUME IInv, StartSweep PROVE SoleInv'
<1>1. path = << >> /\ UNCHANGED <<ends, dfsVars, idom, foldVars>>
      /\ pc' = "sweep" /\ at' = posted - 1
  BY DEF StartSweep, IInv, DfsDone
<1>2. \A b \in Blocks \ {Entry} : ~(num[b] > posted - 1)
  BY <1>1, NumFacts DEF IInv
<1> QED
  BY <1>1, <1>2 DEF SoleInv, SoleFold, SoleSwept, Reached, dfsVars

LEMMA SoleSweptKept ==
  ASSUME SoleSwept, UNCHANGED <<ends, dfsVars, sweepVars>>, pc # "dfs" PROVE SoleSwept'
<1>1. Reached' = Reached /\ Reached \subseteq Blocks /\ UNCHANGED <<num, at, changed, idom>>
      /\ \A b \in Blocks : \A p : OnlyPred(b, p)' = OnlyPred(b, p)
  BY SweepFrame DEF OnlyPred, Reached, dfsVars, sweepVars
<1> QED
  BY <1>1 DEF SoleSwept

LEMMA SoleNextBlock == ASSUME IInv, SoleInv, NextBlock PROVE SoleInv'
<1>1. /\ UNCHANGED <<ends, dfsVars, sweepVars>>
      /\ pc = "sweep" /\ pc' = "preds" /\ todo' = Preds(ends, BlockAt) /\ cand' = None /\ at > 0
  BY DEF NextBlock
<1>2. BlockAt \in Blocks
  BY <1>1, AtFacts DEF IInv, DfsDone
<1>3. \A p \in Blocks : OnlyPred(BlockAt, p)' => todo' = {p}
  BY <1>1, <1>2, SweepFrame DEF OnlyPred
<1>4. SoleSwept'
  BY <1>1, SoleSweptKept DEF SoleInv
<1> QED
  BY <1>1, <1>3, <1>4 DEF SoleInv, SoleFold

LEMMA SoleFolds ==
  ASSUME IInv, SoleInv, SkipUnreached \/ FirstPred \/ BeginIntersect PROVE SoleInv'
<1>1. PICK p \in todo : /\ pc = "preds" /\ todo' = todo \ {p}
                        /\ \/ num[p] = 0
                           \/ cand = None /\ num[p] # 0 /\ cand' = p /\ UNCHANGED pc
                           \/ cand # None
  BY DEF SkipUnreached, FirstPred, BeginIntersect, NextPred
<1>2. UNCHANGED <<ends, dfsVars, sweepVars>>
  BY DEF SkipUnreached, FirstPred, BeginIntersect
<1>3. BlockAt \in Reached \ {Entry} /\ BlockAt \in Blocks /\ path = << >>
  BY <1>1, AtFacts DEF IInv, DfsDone, SweepInv, FoldInv
<1>4. \E q \in Preds(ends, BlockAt) : num[q] # 0
  BY <1>3, NumFacts DEF IInv, InReach
<1>5. ASSUME NEW q \in Blocks, OnlyPred(BlockAt, q)'
      PROVE  pc' = "preds" /\ todo' = {} /\ cand' = q
  <2>1. Preds(ends, BlockAt) = {q}
    BY <1>2, <1>3, <1>5, SweepFrame DEF OnlyPred
  <2>2. todo = {q} /\ cand = None /\ num[q] # 0
    BY <1>1, <1>4, <2>1 DEF SoleInv, SoleFold, OnlyPred
  <2> QED
    BY <1>1, <2>2
<1>6. SoleSwept'
  BY <1>1, <1>2, SoleSweptKept DEF SoleInv
<1> QED
  BY <1>5, <1>6 DEF SoleInv, SoleFold

LEMMA SoleClimb == ASSUME IInv, SoleInv, ClimbX \/ ClimbY \/ Meet PROVE SoleInv'
<1>1. pc = "climb" /\ UNCHANGED <<ends, dfsVars, sweepVars>>
  BY DEF ClimbX, ClimbY, Meet
<1>2. BlockAt \in Blocks
  BY <1>1, AtFacts DEF IInv, DfsDone, SweepInv, FoldInv
<1>3. \A p \in Blocks : ~OnlyPred(BlockAt, p)'
  BY <1>1, <1>2, SweepFrame DEF SoleInv, SoleFold, OnlyPred
<1>4. SoleSwept'
  BY <1>1, SoleSweptKept DEF SoleInv
<1> QED
  BY <1>3, <1>4 DEF SoleInv, SoleFold

LEMMA SoleSetIdom == ASSUME IInv, SoleInv, SetIdom PROVE SoleInv'
<1>1. pc = "preds" /\ todo = {} /\ pc' = "sweep" /\ at' = at - 1
      /\ UNCHANGED <<ends, dfsVars, foldVars>>
  BY DEF SetIdom
<1>2. at > 0 /\ at \in Nat /\ path = << >>
  BY <1>1 DEF IInv, DfsDone, SweepInv, FoldInv, TypeOK
<1>3. BlockAt \in Blocks /\ num[BlockAt] = at
  BY <1>2, AtFacts DEF IInv
<1>4. CASE changed' = TRUE
  BY <1>1, <1>4 DEF SoleInv, SoleFold, SoleSwept
<1>5. CASE changed' # TRUE
  <2>1. UNCHANGED <<idom, changed>> /\ ~(cand # None /\ idom[BlockAt] # cand)
    BY <1>5 DEF SetIdom
  <2>2. ASSUME ~changed, NEW b \in Reached \ {Entry}, num[b] > at - 1,
               NEW p \in Blocks, OnlyPred(b, p)
        PROVE  idom[b] = p
    <3>1. num[b] \in Nat /\ b \in Blocks
      BY DEF Reached, IInv, TypeOK
    <3>2. CASE num[b] = at
      <4>1. b = BlockAt
        BY <3>1, <3>2, <1>2, <1>3 DEF IInv, DfsInv, Numbering
      <4>2. cand = p /\ p # None
        BY <4>1, <2>2, <1>1, NAssumption DEF SoleInv, SoleFold, None, Blocks
      <4> QED
        BY <4>1, <4>2, <2>1
    <3>3. CASE num[b] > at
      BY <3>3, <2>2, <1>1 DEF SoleInv, SoleSwept
    <3> QED
      BY <3>1, <3>2, <3>3, <2>2, <1>2
  <2>3. /\ Reached' = Reached /\ UNCHANGED num /\ Reached \subseteq Blocks
        /\ \A b, p : OnlyPred(b, p)' = OnlyPred(b, p)
    BY <1>1 DEF Reached, Preds, SuccSet, OnlyPred, dfsVars
  <2> QED
    BY <1>1, <2>1, <2>2, <2>3 DEF SoleInv, SoleFold, SoleSwept
<1> QED
  BY <1>4, <1>5

LEMMA SoleRest == ASSUME SoleInv, Finish \/ Returned \/ UNCHANGED vars PROVE SoleInv'
<1>1. UNCHANGED <<ends, dfsVars, sweepVars, foldVars>>
      /\ (pc' = pc \/ (pc = "sweep" /\ pc' = "done"))
  BY DEF Finish, Returned, vars
<1>2. /\ Reached' = Reached /\ BlockAt' = BlockAt
      /\ \A b, p : OnlyPred(b, p)' = OnlyPred(b, p)
      /\ UNCHANGED <<at, changed, num, idom, cand, todo>>
  BY <1>1 DEF Reached, BlockAt, OnlyPred, Preds, SuccSet, dfsVars, sweepVars, foldVars
<1> QED
  BY <1>1, <1>2 DEF SoleInv, SoleFold, SoleSwept

LEMMA NextSoleInv == IInv /\ SoleInv /\ [Next]_vars => SoleInv'
  BY SoleDfs, SoleStart, SoleNextBlock, SoleFolds, SoleClimb, SoleSetIdom, SoleRest DEF Next

LEMMA SoleInductive == Spec => []SoleInv
  BY Inductive, SoleInit, NextSoleInv, PTL DEF Spec

-----------------------------------------------------------------------------
(* Without loops the table is exact *)

(***************************************************************************)
(* Dominates(ends, d, b) says that some S cuts the entry off from b at d.  *)
(* The blocks that S cuts off are the ones outside of it, and when all     *)
(* predecessors of a block come before it, the sweep never leaves them on  *)
(* its way up.                                                             *)
(***************************************************************************)
Cuts(d, S) ==
  /\ d # Entry => Entry \in S
  /\ \A p \in S : SuccSet(ends, p) \subseteq S \cup {d}

Forward == \A p \in Reached : \A b \in SuccSet(ends, p) : RpoIdx(p) < RpoIdx(b)

ExactAbove ==
  pc # "dfs" =>
    \A d \in Blocks : \A S \in SUBSET (Blocks \ {d}) : Cuts(d, S) =>
      \A b \in Reached \ {Entry} : num[b] > at /\ b \notin S /\ b # d => idom[b] \notin S

ExactFold ==
  pc \in {"preds", "climb"} =>
    /\ todo \subseteq Preds(ends, BlockAt)
    /\ cand # None => num[cand] > at
    /\ pc = "climb" => num[x] > at /\ num[y] > at
    /\ \A d \in Blocks : \A S \in SUBSET (Blocks \ {d}) :
         Cuts(d, S) /\ BlockAt \notin S /\ BlockAt # d =>
           /\ cand # None => cand \notin S
           /\ pc = "climb" => x \notin S /\ y \notin S

ExactInv == Forward => ExactAbove /\ ExactFold

\* What is cut off at d comes after d.
LEMMA CutOffLater ==
  ASSUME IInv, path = << >>, NEW d \in Blocks, NEW S \in SUBSET (Blocks \ {d}), Cuts(d, S),
         NEW b \in Reached, b \notin S
  PROVE  num[b] <= num[d]
<1> DEFINE Later == {c \in Reached : c \notin S /\ num[c] > num[d]}
           Left == {posted - num[c] : c \in Later}
<1>1. /\ posted \in Nat /\ num[Entry] = posted /\ Reached \subseteq Blocks
      /\ \A c \in Blocks : num[c] \in Nat /\ num[c] <= posted
  BY NumFacts DEF IInv, Reached
<1>2. SUFFICES ASSUME b \in Later PROVE FALSE
  BY <1>1
<1>3. Left \in SUBSET Nat /\ Left # {}
  BY <1>1, <1>2
<1>4. PICK m \in Left : \A k \in Left : <<k, m>> \notin OpToRel(<, Nat)
  BY <1>3, NatLessThanWellFounded, WFMin
<1>5. PICK c \in Later : m = posted - num[c]
  BY <1>4
<1>6. \A e \in Later : num[e] <= num[c]
  <2> SUFFICES ASSUME NEW e \in Later, num[e] > num[c] PROVE FALSE
    BY <1>1
  <2>1. posted - num[e] \in Left /\ posted - num[e] \in Nat /\ m \in Nat /\ posted - num[e] < m
    BY <1>1, <1>3, <1>5
  <2> QED
    BY <2>1, <1>4 DEF OpToRel
<1>7. CASE c = Entry
  <2>1. d # Entry
    BY <1>1, <1>5, <1>7
  <2> QED
    BY <2>1, <1>5, <1>7 DEF Cuts
<1>8. CASE c # Entry
  <2>1. PICK p \in Preds(ends, c) : InReach(p) /\ num[p] > num[c]
    BY <1>5, <1>8, NumFacts DEF IInv
  <2>2. p \in Reached /\ c \in SuccSet(ends, p)
    BY <2>1 DEF InReach, Reached, Preds
  <2>3. p \notin S
    BY <1>1, <1>5, <2>2 DEF Cuts
  <2>4. num[p] > num[d]
    BY <1>1, <1>5, <2>1, <2>2
  <2>5. p \in Later
    BY <2>2, <2>3, <2>4
  <2> QED
    BY <1>1, <1>5, <1>6, <2>1, <2>5
<1> QED
  BY <1>7, <1>8

\* Steps that leave the graph, the order and the table alone keep what has
\* been found of the blocks already visited.
LEMMA ExactFrame ==
  ASSUME UNCHANGED <<ends, dfsVars, sweepVars>>
  PROVE  /\ Forward' = Forward
         /\ \A d \in Blocks, S \in SUBSET Blocks : Cuts(d, S)' = Cuts(d, S)
         /\ Reached' = Reached /\ BlockAt' = BlockAt /\ UNCHANGED <<num, at, idom, path>>
<1>1. UNCHANGED <<ends, num, posted, at, idom, path>>
  BY DEF dfsVars, sweepVars
<1>2. Reached' = Reached /\ \A b : RpoIdx(b)' = RpoIdx(b)
  BY <1>1 DEF Reached, RpoIdx
<1>3. \A p : SuccSet(ends, p)' = SuccSet(ends, p)
  BY <1>1 DEF SuccSet
<1> QED
  BY <1>1, <1>2, <1>3, SweepFrame DEF Forward, Cuts

LEMMA ExactAboveKept ==
  ASSUME ExactAbove, UNCHANGED <<ends, dfsVars, sweepVars>>, pc # "dfs" PROVE ExactAbove'
<1>1. \A d \in Blocks : \A S \in SUBSET (Blocks \ {d}) : Cuts(d, S)' = Cuts(d, S)
  BY ExactFrame
<1> QED
  BY <1>1, ExactFrame DEF ExactAbove

LEMMA ExactDfs == ASSUME DfsEnter \/ DfsSkip \/ DfsLeave PROVE ExactInv'
  BY DEF DfsEnter, DfsSkip, DfsLeave, ExactInv, ExactAbove, ExactFold

LEMMA ExactStart == ASSUME IInv, StartSweep PROVE ExactInv'
<1>1. path = << >> /\ UNCHANGED <<ends, dfsVars, idom, foldVars>>
      /\ pc' = "sweep" /\ at' = posted - 1
  BY DEF StartSweep, IInv, DfsDone
<1>2. \A b \in Blocks \ {Entry} : ~(num[b] > posted - 1)
  BY <1>1, NumFacts DEF IInv
<1>3. Reached' \subseteq Blocks /\ UNCHANGED num
  BY <1>1 DEF Reached, dfsVars
<1> QED
  BY <1>1, <1>2, <1>3 DEF ExactInv, ExactAbove, ExactFold

LEMMA ExactNextBlock == ASSUME IInv, ExactInv, NextBlock PROVE ExactInv'
<1>1. UNCHANGED <<ends, dfsVars, sweepVars>> /\ pc = "sweep" /\ pc' = "preds" /\ cand' = None
  BY DEF NextBlock
<1>2. Forward => ExactAbove'
  BY <1>1, ExactAboveKept DEF ExactInv
<1>3. todo' = Preds(ends, BlockAt) /\ Preds(ends, BlockAt)' = Preds(ends, BlockAt)
  BY <1>1, AtFacts, SweepFrame DEF NextBlock, IInv, DfsDone
<1> QED
  BY <1>1, <1>2, <1>3, ExactFrame DEF ExactInv, ExactFold

\* A predecessor of a block comes before it, and is cut off where it is.
LEMMA PredFacts ==
  ASSUME IInv, Forward, path = << >>, NEW b \in Reached, NEW p \in Preds(ends, b), num[p] # 0
  PROVE  /\ num[p] > num[b]
         /\ \A d \in Blocks : \A S \in SUBSET (Blocks \ {d}) :
              Cuts(d, S) /\ b \notin S /\ b # d => p \notin S
<1>1. p \in Reached /\ b \in SuccSet(ends, p)
  BY DEF Preds, Reached
<1>2. RpoIdx(p) < RpoIdx(b)
  BY <1>1 DEF Forward
<1>3. num[b] \in Nat /\ num[p] \in Nat /\ posted \in Nat /\ num[b] # 0
  BY <1>1 DEF IInv, TypeOK, Reached
<1>4. num[p] > num[b]
  BY <1>2, <1>3 DEF RpoIdx
<1> QED
  BY <1>1, <1>4 DEF Cuts

LEMMA ExactFolds ==
  ASSUME IInv, ExactInv, SkipUnreached \/ FirstPred \/ BeginIntersect PROVE ExactInv'
<1>1. PICK p \in todo : /\ pc = "preds"
                        /\ \/ /\ num[p] = 0 /\ UNCHANGED <<pc, cand, x, y>>
                           \/ /\ cand = None /\ num[p] # 0 /\ cand' = p
                              /\ UNCHANGED <<pc, x, y>>
                           \/ /\ cand # None /\ num[p] # 0 /\ y' = p /\ x' = cand
                              /\ pc' = "climb" /\ UNCHANGED cand
  BY DEF SkipUnreached, FirstPred, BeginIntersect, NextPred
<1>2. UNCHANGED <<ends, dfsVars, sweepVars>>
  BY DEF SkipUnreached, FirstPred, BeginIntersect
<1>3. BlockAt \in Reached /\ num[BlockAt] = at /\ path = << >>
  BY <1>1, AtFacts DEF IInv, DfsDone, SweepInv, FoldInv
<1> SUFFICES ASSUME Forward PROVE ExactAbove' /\ ExactFold'
  BY <1>2, ExactFrame DEF ExactInv
<1>4. ExactAbove'
  BY <1>1, <1>2, ExactAboveKept DEF ExactInv
<1>0. /\ todo \subseteq Preds(ends, BlockAt) /\ todo' \subseteq todo
      /\ Preds(ends, BlockAt)' = Preds(ends, BlockAt)
  <2>1. BlockAt \in Blocks
    BY <1>3 DEF Reached
  <2>2. todo' \subseteq todo
    BY DEF SkipUnreached, FirstPred, BeginIntersect, NextPred
  <2> QED
    BY <1>1, <1>2, <2>1, <2>2, SweepFrame DEF ExactInv, ExactFold
<1>5. num[p] # 0 =>
        /\ num[p] > at
        /\ \A d \in Blocks : \A S \in SUBSET (Blocks \ {d}) :
             Cuts(d, S) /\ BlockAt \notin S /\ BlockAt # d => p \notin S
  <2>1. p \in Preds(ends, BlockAt)
    BY <1>0
  <2> QED
    BY <1>3, <2>1, PredFacts
<1>6. \A d \in Blocks : \A S \in SUBSET (Blocks \ {d}) : Cuts(d, S)' = Cuts(d, S)
  BY <1>2, ExactFrame
<1>7. UNCHANGED <<num, at>> /\ BlockAt' = BlockAt
  BY <1>2, ExactFrame
<1>8. /\ cand # None => num[cand] > at
      /\ \A d \in Blocks : \A S \in SUBSET (Blocks \ {d}) :
           Cuts(d, S) /\ BlockAt \notin S /\ BlockAt # d /\ cand # None => cand \notin S
  BY <1>1 DEF ExactInv, ExactFold
<1>9. ExactFold'
  <2>1. CASE num[p] = 0 /\ UNCHANGED <<pc, cand, x, y>>
    BY <2>1, <1>0, <1>1, <1>6, <1>7, <1>8 DEF ExactFold
  <2>2. CASE cand = None /\ num[p] # 0 /\ cand' = p /\ UNCHANGED <<pc, x, y>>
    BY <2>2, <1>0, <1>1, <1>5, <1>6, <1>7 DEF ExactFold
  <2>3. CASE cand # None /\ num[p] # 0 /\ y' = p /\ x' = cand /\ pc' = "climb" /\ UNCHANGED cand
    BY <2>3, <1>0, <1>5, <1>6, <1>7, <1>8 DEF ExactFold
  <2> QED
    BY <1>1, <2>1, <2>2, <2>3
<1> QED
  BY <1>4, <1>9

\* The finger that climbs is below the other one, so nothing is cut off at it
\* that the other is cut off by.
LEMMA ClimbsOut ==
  ASSUME IInv, Forward, ExactAbove, pc = "climb", NEW a \in {x, y}, NEW c \in {x, y},
         num[a] > at, RpoIdx(a) > RpoIdx(c)
  PROVE  /\ num[idom[a]] > at
         /\ \A d \in Blocks : \A S \in SUBSET (Blocks \ {d}) :
              Cuts(d, S) /\ a \notin S /\ c \notin S => idom[a] \notin S
<1>1. /\ a \in Blocks \ {Entry} /\ InReach(a) /\ idom[a] \in Blocks /\ InReach(idom[a])
      /\ num[idom[a]] > num[a]
  BY ClimbUp
<1>2. InReach(c) /\ path = << >>
  BY DEF IInv, SweepInv, FoldInv, DfsDone
<1>3. /\ a \in Reached /\ c \in Reached /\ at \in Nat /\ posted \in Nat
      /\ \A b \in Blocks : num[b] \in Nat
  BY <1>1, <1>2 DEF InReach, Reached, IInv, TypeOK
<1>4. num[a] < num[c]
  BY <1>1, <1>2, <1>3 DEF RpoIdx, InReach
<1>5. num[idom[a]] > at
  BY <1>1, <1>3
<1>6. ASSUME NEW d \in Blocks, NEW S \in SUBSET (Blocks \ {d}), Cuts(d, S), a \notin S, c \notin S
      PROVE  idom[a] \notin S
  <2>1. num[c] <= num[d]
    BY <1>2, <1>3, <1>6, CutOffLater
  <2>2. a # d
    BY <1>1, <1>2, <1>3, <1>4, <2>1 DEF InReach
  <2> QED
    BY <1>1, <1>3, <1>6, <2>2 DEF ExactAbove
<1> QED
  BY <1>5, <1>6

LEMMA ExactClimb == ASSUME IInv, ExactInv, ClimbX \/ ClimbY \/ Meet PROVE ExactInv'
<1>1. pc = "climb" /\ UNCHANGED <<ends, dfsVars, sweepVars>>
  BY DEF ClimbX, ClimbY, Meet
<1> SUFFICES ASSUME Forward PROVE ExactAbove' /\ ExactFold'
  BY <1>1, ExactFrame DEF ExactInv
<1>2. ExactAbove /\ ExactFold /\ ExactAbove'
  BY <1>1, ExactAboveKept DEF ExactInv
<1>3. \A d \in Blocks : \A S \in SUBSET (Blocks \ {d}) : Cuts(d, S)' = Cuts(d, S)
  BY <1>1, ExactFrame
<1>4. UNCHANGED <<num, at, idom>> /\ BlockAt' = BlockAt /\ (todo \subseteq Preds(ends, BlockAt))'
  <2>1. BlockAt \in Blocks
    BY <1>1, AtFacts DEF IInv, DfsDone, SweepInv, FoldInv
  <2>2. todo' = todo
    BY DEF ClimbX, ClimbY, Meet
  <2> QED
    BY <1>1, <1>2, <2>1, <2>2, ExactFrame, SweepFrame DEF ExactFold
<1>5. CASE ClimbX
  <2>1. RpoIdx(x) > RpoIdx(y) /\ x' = idom[x] /\ UNCHANGED <<pc, cand, y>>
    BY <1>5 DEF ClimbX
  <2>2. /\ num[idom[x]] > at
        /\ \A d \in Blocks : \A S \in SUBSET (Blocks \ {d}) :
              Cuts(d, S) /\ x \notin S /\ y \notin S => idom[x] \notin S
    BY <1>1, <1>2, <2>1, ClimbsOut DEF ExactFold
  <2> QED
    BY <1>1, <1>2, <1>3, <1>4, <2>1, <2>2 DEF ExactFold
<1>6. CASE ClimbY
  <2>1. RpoIdx(y) > RpoIdx(x) /\ y' = idom[y] /\ UNCHANGED <<pc, cand, x>>
    BY <1>6 DEF ClimbY
  <2>2. /\ num[idom[y]] > at
        /\ \A d \in Blocks : \A S \in SUBSET (Blocks \ {d}) :
              Cuts(d, S) /\ y \notin S /\ x \notin S => idom[y] \notin S
    BY <1>1, <1>2, <2>1, ClimbsOut DEF ExactFold
  <2> QED
    BY <1>1, <1>2, <1>3, <1>4, <2>1, <2>2 DEF ExactFold
<1>7. CASE Meet
  <2>1. x = y /\ cand' = x /\ pc' = "preds"
    BY <1>7 DEF Meet
  <2> QED
    BY <1>1, <1>2, <1>3, <1>4, <2>1 DEF ExactFold
<1> QED
  BY <1>5, <1>6, <1>7

LEMMA ExactSetIdom == ASSUME IInv, ExactInv, SetIdom PROVE ExactInv'
<1>1. pc = "preds" /\ todo = {} /\ pc' = "sweep" /\ at' = at - 1
      /\ UNCHANGED <<ends, dfsVars, foldVars>>
  BY DEF SetIdom
<1>2. at > 0 /\ at \in Nat /\ path = << >> /\ InReach(cand)
  BY <1>1 DEF IInv, DfsDone, SweepInv, FoldInv, LatePending, TypeOK
<1>3. BlockAt \in Blocks /\ num[BlockAt] = at /\ cand \in Blocks /\ cand # None
  BY <1>2, AtFacts, NAssumption DEF IInv, InReach, None, Blocks
<1>4. idom \in [Blocks -> Blocks] /\ idom' = [idom EXCEPT ![BlockAt] = cand]
  <2>1. idom \in [Blocks -> Blocks]
    BY DEF IInv, TypeOK
  <2>2. CASE idom[BlockAt] = cand
    BY <1>3, <2>1, <2>2 DEF SetIdom
  <2>3. CASE idom[BlockAt] # cand
    BY <1>3, <2>1, <2>3 DEF SetIdom
  <2> QED
    BY <2>1, <2>2, <2>3
<1>5. UNCHANGED <<ends, num, posted>>
  BY <1>1 DEF dfsVars
<1>6. Reached' = Reached /\ Forward' = Forward
      /\ \A d \in Blocks : \A S \in SUBSET (Blocks \ {d}) : Cuts(d, S)' = Cuts(d, S)
  BY <1>5 DEF Reached, Forward, RpoIdx, Cuts, SuccSet
<1> SUFFICES ASSUME Forward PROVE ExactAbove'
  BY <1>1, <1>6 DEF ExactInv, ExactFold
<1>7. ASSUME NEW d \in Blocks, NEW S \in SUBSET (Blocks \ {d}), Cuts(d, S),
             NEW b \in Reached \ {Entry}, num[b] > at - 1, b \notin S, b # d
      PROVE  idom'[b] \notin S
  <2>1. num[b] \in Nat /\ b \in Blocks
    BY DEF Reached, IInv, TypeOK
  <2>2. CASE num[b] = at
    <3>1. b = BlockAt
      BY <1>2, <1>3, <2>1, <2>2 DEF IInv, DfsInv, Numbering
    <3> QED
      BY <1>1, <1>3, <1>4, <1>7, <3>1 DEF ExactInv, ExactFold
  <2>3. CASE num[b] > at
    BY <1>1, <1>3, <1>4, <1>7, <2>1, <2>3 DEF ExactInv, ExactAbove
  <2> QED
    BY <1>2, <1>7, <2>1, <2>2, <2>3
<1> QED
  BY <1>1, <1>5, <1>6, <1>7 DEF ExactAbove

LEMMA ExactRest == ASSUME ExactInv, Finish \/ Returned \/ UNCHANGED vars PROVE ExactInv'
<1>1. UNCHANGED <<ends, dfsVars, sweepVars, foldVars>>
      /\ (pc' = pc \/ (pc = "sweep" /\ pc' = "done"))
  BY DEF Finish, Returned, vars
<1>2. Forward' = Forward /\ Reached' = Reached /\ BlockAt' = BlockAt
      /\ UNCHANGED <<num, at, idom, cand, x, y, todo>>
      /\ \A b : Preds(ends, b)' = Preds(ends, b)
      /\ \A d \in Blocks : \A S \in SUBSET (Blocks \ {d}) : Cuts(d, S)' = Cuts(d, S)
  BY <1>1, ExactFrame DEF foldVars, Preds, SuccSet
<1> QED
  BY <1>1, <1>2 DEF ExactInv, ExactAbove, ExactFold

LEMMA NextExactInv == IInv /\ ExactInv /\ [Next]_vars => ExactInv'
  BY ExactDfs, ExactStart, ExactNextBlock, ExactFolds, ExactClimb, ExactSetIdom, ExactRest DEF Next

(***************************************************************************)
(* Property IdomImmediateIfAcyclic: on every function whose edges all go   *)
(* down the reverse postorder, each strict dominator of a block dominates  *)
(* the one the table has for it.                                           *)
(***************************************************************************)
THEOREM TableExact == Spec => []IdomImmediateIfAcyclic
<1>1. Init => ExactInv
  BY DEF Init, ExactInv, ExactAbove, ExactFold
<1>2. IInv /\ FixInv /\ ExactInv => IdomImmediateIfAcyclic
  <2> SUFFICES ASSUME IInv, FixInv, ExactInv, pc = "done", Forward,
                      NEW b \in Reached \ {Entry}, NEW d \in Reached \ {b}, Dominates(ends, d, b)
               PROVE  Dominates(ends, d, idom[b])
    BY DEF IdomImmediateIfAcyclic, Forward, Immediate
  <2>1. PICK S \in SUBSET (Blocks \ {d, b}) :
          (d # Entry => Entry \in S) /\ \A p \in S : SuccSet(ends, p) \subseteq S \cup {d}
    BY DEF Dominates
  <2>2. d \in Blocks /\ b \in Blocks /\ S \in SUBSET (Blocks \ {d}) /\ Cuts(d, S) /\ b \notin S /\ b # d
    BY <2>1 DEF Reached, Cuts
  <2>3. num[b] > at
    BY DEF IInv, FixInv, TypeOK, Reached
  <2>4. idom[b] \notin S
    BY <2>2, <2>3 DEF ExactInv, ExactAbove
  <2>5. S \in SUBSET (Blocks \ {d, idom[b]})
    BY <2>2, <2>4
  <2> QED
    BY <2>1, <2>5 DEF Dominates
<1> QED
  BY <1>1, <1>2, FixInductive, NextExactInv, PTL DEF Spec
=============================================================================
