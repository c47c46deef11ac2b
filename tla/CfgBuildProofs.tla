-------------------------- MODULE CfgBuildProofs --------------------------
(***************************************************************************)
(* Theorems about CfgBuild, for functions of every length.                 *)
(*                                                                         *)
(* Leaders are found by the first pass (LeadersInv).  Counting the leaders *)
(* below a leader numbers them in address order (the lemmas about IdOf),   *)
(* so block b starts at the leader with number b and stops before the next *)
(* one (BlocksInv).  The partition, the edges and the loop headers follow. *)
(***************************************************************************)
EXTENDS CfgBuild, FiniteSetTheorems, TLAPS

-----------------------------------------------------------------------------
(* Sets of numbers *)

\* Every nonempty set of natural numbers has a least member,
LEMMA LeastNat ==
  ASSUME NEW T \in SUBSET Nat, T # {}
  PROVE  \E m \in T : \A k \in T : m <= k
<1>1. PICK m \in T : \A k \in T : <<k, m>> \notin OpToRel(<, Nat)
  BY NatLessThanWellFounded, WFMin
<1>2. \A k \in T : ~ (k < m)
  BY <1>1 DEF OpToRel
<1> QED
  BY <1>2

\* and one with an upper bound a greatest.
LEMMA GreatestNat ==
  ASSUME NEW T \in SUBSET Nat, T # {}, NEW u \in Nat, \A k \in T : k <= u
  PROVE  \E m \in T : \A k \in T : k <= m
<1> DEFINE D == {d \in Nat : u - d \in T}
<1>1. PICK k \in T : TRUE
  OBVIOUS
<1>2. u - k \in D
  <2>1. k \in Nat /\ k <= u /\ u - (u - k) = k
    OBVIOUS
  <2> QED
    BY <2>1
<1>3. PICK d \in D : \A e \in D : d <= e
  <2>1. D \in SUBSET Nat /\ D # {}
    BY <1>2
  <2> QED
    BY <2>1, LeastNat
<1>4. u - d \in T /\ d \in Nat
  BY <1>3
<1>5. ASSUME NEW j \in T PROVE j <= u - d
  <2>1. j \in Nat /\ j <= u /\ u - (u - j) = j /\ u - j \in Nat
    OBVIOUS
  <2>2. u - j \in D
    BY <2>1
  <2>3. d <= u - j
    BY <2>2, <1>3
  <2> QED
    BY <2>1, <2>3, <1>4
<1> QED
  BY <1>4, <1>5

-----------------------------------------------------------------------------
(* The instructions, which no step changes *)

InsnsInv ==
  /\ Len0 \in Nat \ {0} /\ Positions = 0 .. Len0 - 1
  /\ insns \in [0 .. Len0 - 1 -> Insns(Len0)]

LEMMA NextKeepsInsns == [Next]_vars => UNCHANGED insns
  BY DEF Next, vars, ScanInsn, LeadersDone, BuildBlock, BlocksDone, ScanBlock, HeadersDone,
         Execute, Stop

LEMMA InsnsInductive == Spec => []InsnsInv
<1>1. Init => InsnsInv
  <2> SUFFICES ASSUME Init PROVE InsnsInv
    OBVIOUS
  <2>1. PICK n \in 1 .. MaxInsns : insns \in [0 .. n-1 -> Insns(n)]
    BY DEF Init, Functions
  <2>2. n \in Nat \ {0} /\ DOMAIN insns = 0 .. n-1 /\ n - 1 \in Int /\ 0 \in Int /\ ~(0 > n - 1)
    BY <2>1, MaxInsnsAssumption
  <2>3. Cardinality(0 .. n-1) = n
    <3>1. Cardinality(0 .. n-1) = (n - 1) - 0 + 1
      BY <2>2, FS_Interval
    <3> QED
      BY <3>1, <2>2
  <2> QED
    BY <2>1, <2>2, <2>3 DEF InsnsInv, Len0, Positions, Init
<1>2. InsnsInv /\ [Next]_vars => InsnsInv'
  BY NextKeepsInsns DEF InsnsInv, Len0, Positions
<1> QED
  BY <1>1, <1>2, PTL DEF Spec

\* The kinds of instruction, and where their targets may be.
LEMMA InsnFacts ==
  ASSUME InsnsInv, NEW p \in Positions
  PROVE  /\ p \in Nat /\ p < Len0 /\ (p + 1 \in Positions <=> p + 1 # Len0)
         /\ insns[p].op \in {"plain", "call", "ret", "br", "b", "bcond"}
         /\ insns[p].target \in Positions \cup {Out}
         /\ insns[p].target # Out => insns[p].op \in {"b", "bcond"}
<1>1. p \in Nat /\ p < Len0 /\ (p + 1 \in Positions <=> p + 1 # Len0) /\ DOMAIN insns = Positions
  BY DEF InsnsInv, Positions
<1>2. insns[p] \in Insns(Len0)
  BY DEF InsnsInv
<1>3. /\ insns[p].op \in {"plain", "call", "ret", "br", "b", "bcond"}
      /\ insns[p].target \in Positions \cup {Out}
      /\ insns[p].target # Out => insns[p].op \in {"b", "bcond"}
  BY <1>2 DEF Insns, InsnsInv
<1> QED
  BY <1>1, <1>3

-----------------------------------------------------------------------------
(* Leaders *)

\* What the instruction at p has made a leader when it was scanned.
Scanned(p) ==
  /\ TargetLeader(insns[p]) \subseteq leaders
  /\ NextIsLeader(insns[p]) /\ p + 1 \in Positions => p + 1 \in leaders

LeadersInv ==
  /\ leaders \subseteq Positions /\ 0 \in leaders
  /\ pc \in {"leaders", "blocks", "headers", "run"}
  /\ pc = "leaders" => i \in Nat /\ \A p \in Positions : p < i => Scanned(p)
  /\ pc # "leaders" => \A p \in Positions : Scanned(p)

LEMMA LeadersInductive == Spec => []LeadersInv
<1>1. Init => LeadersInv
  <2> SUFFICES ASSUME Init PROVE LeadersInv
    OBVIOUS
  <2>1. 0 \in Positions
    <3>1. PICK n \in 1 .. MaxInsns : insns \in [0 .. n-1 -> Insns(n)]
      BY DEF Init, Functions
    <3> QED
      BY <3>1 DEF Positions
  <2>2. \A p \in Positions : ~(p < 0)
    <3>1. PICK n \in 1 .. MaxInsns : insns \in [0 .. n-1 -> Insns(n)]
      BY DEF Init, Functions
    <3> QED
      BY <3>1 DEF Positions
  <2> QED
    BY <2>1, <2>2 DEF Init, LeadersInv
<1>2. InsnsInv /\ LeadersInv /\ [Next]_vars => LeadersInv'
  <2> SUFFICES ASSUME InsnsInv, LeadersInv, [Next]_vars PROVE LeadersInv'
    OBVIOUS
  <2>1. UNCHANGED insns /\ Positions' = Positions
    BY NextKeepsInsns DEF Positions
  <2>2. CASE ScanInsn
    <3>1. /\ pc = "leaders" /\ pc' = pc /\ i \in Positions /\ i' = i + 1
          /\ leaders' = leaders \cup TargetLeader(insns[i])
                                \cup {p \in {i + 1} \cap Positions : NextIsLeader(insns[i])}
      BY <2>2 DEF ScanInsn
    <3>2. leaders' \subseteq Positions /\ leaders \subseteq leaders'
      BY <3>1 DEF LeadersInv, TargetLeader
    <3>3. ASSUME NEW p \in Positions, p < i + 1 PROVE Scanned(p)'
      <4>1. p = i \/ p < i
        <5>1. p \in Nat /\ i \in Nat
          BY <3>1, InsnFacts
        <5> QED
          BY <5>1, <3>3
      <4>2. CASE p = i
        BY <4>2, <3>1, <2>1 DEF Scanned, TargetLeader
      <4>3. CASE p < i
        <5>1. Scanned(p)
          BY <4>3, <3>1 DEF LeadersInv
        <5> QED
          BY <5>1, <3>2, <2>1 DEF Scanned, TargetLeader
      <4> QED
        BY <4>1, <4>2, <4>3
    <3>4. i' \in Nat
      BY <3>1, InsnFacts
    <3> QED
      BY <3>1, <3>2, <3>3, <3>4, <2>1 DEF LeadersInv
  <2>3. CASE LeadersDone
    <3>1. pc = "leaders" /\ i \notin Positions /\ pc' = "blocks" /\ leaders' = leaders
      BY <2>3 DEF LeadersDone
    <3>2. ASSUME NEW p \in Positions PROVE p < i
      <4>1. i \in Nat
        BY <3>1 DEF LeadersInv
      <4> QED
        BY <4>1, <3>1 DEF InsnsInv
    <3>3. \A p \in Positions : Scanned(p)'
      BY <3>1, <3>2, <2>1 DEF LeadersInv, Scanned, TargetLeader
    <3> QED
      BY <3>1, <3>3, <2>1 DEF LeadersInv
  <2>4. CASE BuildBlock \/ BlocksDone \/ ScanBlock \/ HeadersDone \/ Execute \/ Stop
             \/ UNCHANGED vars
    <3>1. /\ leaders' = leaders /\ (pc = "leaders" => pc' = pc /\ i' = i)
          /\ pc' \in {"leaders", "blocks", "headers", "run"}
          /\ pc # "leaders" => pc' # "leaders"
      BY <2>4 DEF BuildBlock, BlocksDone, ScanBlock, HeadersDone, Execute, Stop, vars, LeadersInv
    <3>2. \A p \in Positions : Scanned(p) => Scanned(p)'
      BY <3>1, <2>1 DEF Scanned, TargetLeader
    <3> QED
      BY <3>1, <3>2, <2>1 DEF LeadersInv
  <2> QED
    BY <2>2, <2>3, <2>4 DEF Next
<1> QED
  BY <1>1, <1>2, InsnsInductive, PTL DEF Spec

-----------------------------------------------------------------------------
(* The number of a leader *)

Below(p) == {q \in leaders : q < p}
Count == Cardinality(leaders)

LEMMA LeadersFinite ==
  ASSUME InsnsInv, LeadersInv
  PROVE  /\ IsFiniteSet(leaders) /\ Count \in Nat \ {0}
         /\ \A p \in leaders : p \in Nat /\ p < Len0
         /\ \A p : IsFiniteSet(Below(p)) /\ IdOf(p) = Cardinality(Below(p)) /\ IdOf(p) \in Nat
<1>1. IsFiniteSet(Positions)
  BY FS_Interval DEF InsnsInv
<1>2. IsFiniteSet(leaders)
  BY <1>1, FS_Subset DEF LeadersInv
<1>3. Count \in Nat /\ Count # 0
  BY <1>2, FS_CardinalityType, FS_EmptySet DEF Count, LeadersInv
<1>4. ASSUME NEW p
      PROVE  IsFiniteSet(Below(p)) /\ IdOf(p) = Cardinality(Below(p)) /\ IdOf(p) \in Nat
  <2>1. IsFiniteSet(Below(p))
    BY <1>2, FS_Subset DEF Below
  <2> QED
    BY <2>1, FS_CardinalityType DEF IdOf, Below
<1> QED
  BY <1>2, <1>3, <1>4, InsnFacts DEF LeadersInv

LEMMA IdGrows ==
  ASSUME InsnsInv, LeadersInv, NEW p \in leaders, NEW q \in Nat, p < q
  PROVE  IdOf(p) < IdOf(q)
<1>1. p \in Nat /\ \A r \in leaders : r \in Nat
  BY LeadersFinite
<1>2. Below(p) \in SUBSET Below(q) /\ p \in Below(q) /\ p \notin Below(p)
  <2>1. \A r \in Nat : r < p => r < q
    BY <1>1
  <2>2. Below(p) \in SUBSET Below(q)
    BY <1>1, <2>1 DEF Below
  <2>3. p \in Below(q)
    BY DEF Below
  <2>4. p \notin Below(p)
    BY <1>1 DEF Below
  <2> QED
    BY <2>2, <2>3, <2>4
<1>3. Cardinality(Below(p)) <= Cardinality(Below(q)) /\ Cardinality(Below(p)) # Cardinality(Below(q))
  BY <1>2, LeadersFinite, FS_Subset
<1>4. IdOf(p) = Cardinality(Below(p)) /\ IdOf(q) = Cardinality(Below(q))
      /\ IdOf(p) \in Nat /\ IdOf(q) \in Nat
  BY LeadersFinite
<1> QED
  BY <1>3, <1>4

LEMMA IdInjective ==
  ASSUME InsnsInv, LeadersInv, NEW p \in leaders, NEW q \in leaders, IdOf(p) = IdOf(q)
  PROVE  p = q
<1>1. p \in Nat /\ q \in Nat /\ IdOf(p) \in Nat
  BY LeadersFinite
<1>2. ~(p < q) /\ ~(q < p)
  BY <1>1, IdGrows
<1> QED
  BY <1>1, <1>2

LEMMA IdRange ==
  ASSUME InsnsInv, LeadersInv, NEW p \in leaders
  PROVE  IdOf(p) \in 0 .. Count - 1
<1>1. p \in Nat /\ IsFiniteSet(leaders) /\ Count \in Nat
  BY LeadersFinite
<1>2. Below(p) \in SUBSET leaders /\ Below(p) # leaders
  BY <1>1 DEF Below
<1>3. Cardinality(Below(p)) <= Count /\ Cardinality(Below(p)) # Count
  BY <1>1, <1>2, FS_Subset DEF Count
<1>4. IdOf(p) = Cardinality(Below(p)) /\ IdOf(p) \in Nat
  BY LeadersFinite
<1> QED
  BY <1>1, <1>3, <1>4

\* Every number below the number of leaders is the number of a leader.
LEMMA IdOnto ==
  ASSUME InsnsInv, LeadersInv, NEW b \in 0 .. Count - 1
  PROVE  \E p \in leaders : IdOf(p) = b
<1> DEFINE f == [p \in leaders |-> IdOf(p)]
<1>1. PICK m \in Nat \ {0} : m = Count
  BY LeadersFinite
<1>2. IsFiniteSet(0 .. m-1) /\ Cardinality(0 .. m-1) = m
  <2>1. m - 1 \in Int /\ 0 \in Int /\ ~(0 > m - 1) /\ (m - 1) - 0 + 1 = m
    OBVIOUS
  <2> QED
    BY <2>1, FS_Interval
<1>3. f \in [leaders -> 0 .. m-1]
  BY <1>1, IdRange
<1>4. \A p, q \in leaders : f[p] = f[q] => p = q
  BY IdInjective
<1>5. f \in Injection(leaders, 0 .. m-1)
  BY <1>3, <1>4 DEF Injection, IsInjective
<1>6. f \in Surjection(leaders, 0 .. m-1)
  BY <1>1, <1>2, <1>5, FS_Injection DEF Count
<1>7. PICK p \in leaders : f[p] = b
  BY <1>1, <1>6 DEF Surjection
<1> QED
  BY <1>7

-----------------------------------------------------------------------------
(* Where a block starts and ends *)

StartOf(b) == CHOOSE p \in leaders : Cardinality({q \in leaders : q < p}) = b

LEMMA StartFacts ==
  ASSUME InsnsInv, LeadersInv, NEW b \in 0 .. Count - 1
  PROVE  StartOf(b) \in leaders /\ IdOf(StartOf(b)) = b
<1>1. \E p \in leaders : Cardinality({q \in leaders : q < p}) = b
  BY IdOnto DEF IdOf
<1> QED
  BY <1>1 DEF StartOf, IdOf

LEMMA StartOfId ==
  ASSUME InsnsInv, LeadersInv, NEW p \in leaders
  PROVE  StartOf(IdOf(p)) = p
<1>1. IdOf(p) \in 0 .. Count - 1
  BY IdRange
<1>2. StartOf(IdOf(p)) \in leaders /\ IdOf(StartOf(IdOf(p))) = IdOf(p)
  BY <1>1, StartFacts
<1> QED
  BY <1>2, IdInjective

\* The block at leader p ends before the next leader, or where the function does.
LEMMA LastFacts ==
  ASSUME InsnsInv, LeadersInv, NEW p \in leaders
  PROVE  /\ BlockLast(p) \in Positions /\ BlockLast(p) >= p
         /\ \A l \in leaders : l > p => BlockLast(p) < l
         /\ BlockLast(p) + 1 \in leaders \cup {Len0}
<1> DEFINE Stops(q) == /\ q >= p
                       /\ \A l \in leaders : l > p => q < l
                       /\ q + 1 \in leaders \cup {Len0}
<1>1. p \in Nat /\ p < Len0 /\ Len0 \in Nat /\ \A l \in leaders : l \in Nat /\ l < Len0
  BY LeadersFinite DEF InsnsInv
<1>2. \A q \in Nat : q < Len0 => q \in Positions
  BY DEF InsnsInv
<1>3. \E q \in Positions : Stops(q)
  <2> DEFINE T == {l \in leaders : l > p}
  <2>1. CASE T = {}
    <3>1. Len0 - 1 \in Positions /\ Len0 - 1 >= p /\ Len0 - 1 + 1 = Len0
      BY <1>1, <1>2
    <3>2. \A l \in leaders : ~(l > p)
      BY <2>1
    <3>3. Stops(Len0 - 1)
      BY <3>1, <3>2
    <3> QED
      BY <3>1, <3>3
  <2>2. CASE T # {}
    <3>1. T \in SUBSET Nat
      BY <1>1
    <3>2. PICK l \in T : \A k \in T : l <= k
      BY <2>2, <3>1, LeastNat
    <3>3. l \in leaders /\ l > p /\ l \in Nat /\ l < Len0
      BY <3>2, <1>1
    <3>4. l - 1 \in Positions /\ l - 1 >= p /\ l - 1 + 1 = l
      BY <3>3, <1>1, <1>2
    <3>5. \A k \in leaders : k > p => l - 1 < k
      BY <3>2, <3>3, <1>1
    <3>6. Stops(l - 1)
      BY <3>3, <3>4, <3>5
    <3> QED
      BY <3>4, <3>6
  <2> QED
    BY <2>1, <2>2
<1>4. BlockLast(p) = CHOOSE q \in Positions : Stops(q)
  BY DEF BlockLast
<1>5. BlockLast(p) \in Positions /\ Stops(BlockLast(p))
  <2> HIDE DEF Stops
  <2> QED
    BY <1>3, <1>4
<1> QED
  BY <1>5

\* Where a block stops and the next one starts, the count goes up by one.
LEMMA NextId ==
  ASSUME InsnsInv, LeadersInv, NEW p \in leaders
  PROVE  /\ BlockLast(p) + 1 \in leaders => IdOf(BlockLast(p) + 1) = IdOf(p) + 1
         /\ BlockLast(p) + 1 \notin leaders => Count = IdOf(p) + 1 /\ BlockLast(p) + 1 = Len0
<1>1. p \in Nat /\ \A l \in leaders : l \in Nat /\ l < Len0
  BY LeadersFinite
<1>2. /\ BlockLast(p) \in Nat /\ BlockLast(p) >= p
      /\ \A l \in leaders : l > p => BlockLast(p) < l
      /\ BlockLast(p) + 1 \in leaders \cup {Len0}
  BY LastFacts, InsnFacts
<1>3. Below(BlockLast(p) + 1) = Below(p) \cup {p}
  <2>1. PICK e \in Nat : e = BlockLast(p)
    BY <1>2
  <2>2. \A l \in leaders : l < e + 1 <=> l < p \/ l = p
    BY <1>1, <1>2, <2>1
  <2> QED
    BY <2>1, <2>2 DEF Below
<1>4. p \notin Below(p) /\ IsFiniteSet(Below(p)) /\ IdOf(p) = Cardinality(Below(p))
  BY <1>1, LeadersFinite DEF Below
<1>5. Cardinality(Below(BlockLast(p) + 1)) = IdOf(p) + 1
  BY <1>3, <1>4, FS_AddElement
<1>6. IdOf(BlockLast(p) + 1) = IdOf(p) + 1
  BY <1>5, LeadersFinite
<1>7. ASSUME BlockLast(p) + 1 \notin leaders PROVE Count = IdOf(p) + 1
  <2>1. BlockLast(p) + 1 = Len0
    BY <1>2, <1>7
  <2>2. Below(BlockLast(p) + 1) = leaders
    BY <2>1, <1>1 DEF Below
  <2> QED
    BY <2>2, <1>5 DEF Count
<1> QED
  BY <1>2, <1>6, <1>7

-----------------------------------------------------------------------------
(* The blocks that are built *)

BlockOf(b) ==
  [first |-> StartOf(b), last |-> BlockLast(StartOf(b)), end |-> ClassifyEnd(BlockLast(StartOf(b)))]

BlocksInv ==
  /\ pc = "leaders" => blocks = << >>
  /\ pc # "leaders" =>
       /\ blocks \in Seq({BlockOf(b) : b \in 0 .. Count - 1})
       /\ Len(blocks) <= Count
       /\ \A b \in 0 .. Len(blocks) - 1 : blocks[b+1] = BlockOf(b)
  /\ pc = "blocks" => i = Len(blocks)
  /\ Built => Len(blocks) = Count

LEMMA BlockOfKept ==
  ASSUME UNCHANGED <<insns, leaders>>
  PROVE  Count' = Count /\ \A b : BlockOf(b)' = BlockOf(b)
  BY DEF Count, BlockOf, StartOf, BlockLast, ClassifyEnd, IdOf, FallEnd, Positions, Len0

LEMMA BlocksInductive == Spec => []BlocksInv
<1>1. Init => BlocksInv
  BY DEF Init, BlocksInv, Built
<1>2. InsnsInv /\ LeadersInv /\ BlocksInv /\ [Next]_vars => BlocksInv'
  <2> SUFFICES ASSUME InsnsInv, LeadersInv, BlocksInv, [Next]_vars PROVE BlocksInv'
    OBVIOUS
  <2>0. UNCHANGED insns
    BY NextKeepsInsns
  <2>1. CASE ScanInsn
    BY <2>1 DEF ScanInsn, BlocksInv, Built
  <2>2. CASE LeadersDone
    <3>1. /\ pc = "leaders" /\ pc' = "blocks" /\ i' = 0 /\ blocks' = << >> /\ leaders' = leaders
      BY <2>2 DEF LeadersDone, BlocksInv
    <3>2. Count' = Count /\ Count \in Nat
      BY <3>1, <2>0, BlockOfKept, LeadersFinite
    <3>3. blocks' \in Seq({BlockOf(b) : b \in 0 .. Count - 1}') /\ Len(blocks') = 0
      BY <3>1
    <3> QED
      BY <3>1, <3>2, <3>3 DEF BlocksInv, Built
  <2>3. CASE BuildBlock
    <3>1. /\ pc = "blocks" /\ pc' = "blocks" /\ i < Count /\ i' = i + 1 /\ leaders' = leaders
          /\ blocks' = Append(blocks, BlockOf(i))
      BY <2>3 DEF BuildBlock, BlockOf, StartOf, Count
    <3>2. PICK m \in Nat : m = Count /\ m = Count'
      BY <3>1, <2>0, BlockOfKept, LeadersFinite
    <3>3. PICK k \in Nat : k = i /\ k = Len(blocks) /\ k < m
      BY <3>1, <3>2 DEF BlocksInv
    <3>4. PICK B : B = {BlockOf(b) : b \in 0 .. m - 1}
      OBVIOUS
    <3>5. B = {BlockOf(b)' : b \in 0 .. m - 1}
      BY <3>4, <3>1, <2>0, BlockOfKept
    <3>6. blocks \in Seq(B) /\ BlockOf(k) \in B /\ \A b \in 0 .. k - 1 : blocks[b+1] = BlockOf(b)
      BY <3>1, <3>2, <3>3, <3>4 DEF BlocksInv
    <3>7. blocks' = Append(blocks, BlockOf(k))
      BY <3>1, <3>3 DEF BlockOf, StartOf
    <3>8. PICK v \in B : v = BlockOf(k)
      BY <3>6
    <3>9. blocks' \in Seq(B) /\ Len(blocks') = k + 1 /\ blocks'[k+1] = v
          /\ \A j \in 1 .. k : blocks'[j] = blocks[j]
      BY <3>3, <3>6, <3>7, <3>8
    <3>10. ASSUME NEW b \in 0 .. Len(blocks') - 1 PROVE blocks'[b+1] = BlockOf(b)'
      <4>1. BlockOf(b)' = BlockOf(b)
        BY <3>1, <2>0, BlockOfKept
      <4>2. CASE b = k
        BY <4>1, <4>2, <3>8, <3>9
      <4>3. CASE b # k
        <5>1. b \in 0 .. k - 1 /\ b + 1 \in 1 .. k
          BY <4>3, <3>9
        <5> QED
          BY <5>1, <4>1, <3>6, <3>9
      <4> QED
        BY <4>2, <4>3
    <3>11. blocks' \in Seq({BlockOf(b) : b \in 0 .. Count - 1}')
      BY <3>2, <3>5, <3>9
    <3>12. Len(blocks') <= Count' /\ i' = Len(blocks') /\ pc' = "blocks"
      BY <3>1, <3>2, <3>3, <3>9
    <3> QED
      BY <3>10, <3>11, <3>12 DEF BlocksInv, Built
  <2>4. CASE BlocksDone \/ ScanBlock \/ HeadersDone \/ Execute \/ Stop \/ UNCHANGED vars
    <3>1. UNCHANGED <<leaders, blocks>> /\ (pc' = "leaders" <=> pc = "leaders")
          /\ (pc' = "blocks" => pc = "blocks" /\ i' = i)
          /\ (Built' => Built \/ (pc = "blocks" /\ i = Count))
      BY <2>4 DEF BlocksDone, ScanBlock, HeadersDone, Execute, Stop, vars, Built, Count
    <3>2. Count' = Count /\ \A b : BlockOf(b)' = BlockOf(b)
      BY <3>1, <2>0, BlockOfKept
    <3>3. {BlockOf(b) : b \in 0 .. Count - 1}' = {BlockOf(b) : b \in 0 .. Count - 1}
      BY <3>2
    <3> QED
      BY <3>1, <3>2, <3>3 DEF BlocksInv
  <2> QED
    BY <2>1, <2>2, <2>3, <2>4 DEF Next
<1> QED
  BY <1>1, <1>2, InsnsInductive, LeadersInductive, PTL DEF Spec

-----------------------------------------------------------------------------
(* Reading the blocks *)

\* What BlocksInv and the lemmas above say of block b.
LEMMA BlockFacts ==
  ASSUME InsnsInv, LeadersInv, BlocksInv, Built, NEW b \in BlockIds
  PROVE  /\ Len(blocks) = Count /\ BlockIds = 0 .. Count - 1
         /\ blocks[b+1] = BlockOf(b)
         /\ StartOf(b) \in leaders /\ IdOf(StartOf(b)) = b /\ blocks[b+1].first = StartOf(b)
         /\ blocks[b+1].last = BlockLast(StartOf(b))
         /\ blocks[b+1].end = ClassifyEnd(BlockLast(StartOf(b)))
<1>1. Len(blocks) = Count /\ BlockIds = 0 .. Count - 1 /\ blocks[b+1] = BlockOf(b)
  BY DEF BlocksInv, Built, BlockIds
<1>2. StartOf(b) \in leaders /\ IdOf(StartOf(b)) = b
  BY <1>1, StartFacts
<1> QED
  BY <1>1, <1>2 DEF BlockOf

\* The block that starts at a leader has the leader's number.
LEMMA BlockAt ==
  ASSUME InsnsInv, LeadersInv, BlocksInv, Built, NEW p \in leaders
  PROVE  IdOf(p) \in BlockIds /\ blocks[IdOf(p) + 1].first = p
<1>1. BlockIds = 0 .. Count - 1
  BY DEF BlocksInv, Built, BlockIds
<1>2. IdOf(p) \in BlockIds
  BY <1>1, IdRange
<1> QED
  BY <1>2, BlockFacts, StartOfId

-----------------------------------------------------------------------------
(* The partition *)

(***************************************************************************)
(* The blocks cut the function into consecutive, nonempty pieces: the      *)
(* block of an instruction starts at the greatest leader up to it.         *)
(***************************************************************************)
THEOREM Partitioned == Spec => []BlocksPartition
<1>1. InsnsInv /\ LeadersInv /\ BlocksInv => BlocksPartition
  <2> SUFFICES ASSUME InsnsInv, LeadersInv, BlocksInv, Built PROVE BlocksPartition
    BY DEF BlocksPartition
  <2>1. ASSUME NEW p \in Positions PROVE \E b \in BlockIds : InBlock(p, b)
    <3> DEFINE T == {l \in leaders : l <= p}
    <3>1. p \in Nat /\ 0 \in T /\ T \in SUBSET Nat
      BY InsnFacts, LeadersFinite DEF LeadersInv
    <3>2. PICK l \in T : \A k \in T : k <= l
      BY <3>1, GreatestNat
    <3>3. l \in leaders /\ l \in Nat /\ l <= p
      BY <3>1, <3>2
    <3>4. PICK e \in Positions : e = BlockLast(l)
      BY <3>3, LastFacts
    <3>5. e \in Nat /\ e + 1 \in leaders \cup {Len0} /\ e >= l /\ p < Len0 /\ Len0 \in Nat
      BY <3>3, <3>4, LastFacts, InsnFacts DEF InsnsInv
    <3>6. p <= e
      <4>1. CASE e + 1 = Len0
        BY <4>1, <3>1, <3>5
      <4>2. CASE e + 1 \in leaders
        <5>1. SUFFICES ASSUME e + 1 <= p PROVE FALSE
          BY <3>1, <3>5
        <5>2. e + 1 <= l
          BY <4>2, <5>1, <3>2
        <5> QED
          BY <5>2, <3>3, <3>5
      <4> QED
        BY <3>5, <4>1, <4>2
    <3>7. IdOf(l) \in BlockIds /\ StartOf(IdOf(l)) = l
      BY <3>3, BlockAt, StartOfId
    <3> QED
      BY <3>3, <3>4, <3>6, <3>7, BlockFacts DEF InBlock
  <2>2. ASSUME NEW p \in Positions, NEW b \in BlockIds, NEW c \in BlockIds,
               InBlock(p, b), InBlock(p, c)
        PROVE  b = c
    <3>1. /\ StartOf(b) \in leaders /\ StartOf(b) \in Nat /\ StartOf(b) <= p
          /\ StartOf(c) \in leaders /\ StartOf(c) \in Nat /\ StartOf(c) <= p
          /\ p <= BlockLast(StartOf(b)) /\ p <= BlockLast(StartOf(c)) /\ p \in Nat
      BY <2>2, BlockFacts, LeadersFinite, InsnFacts DEF InBlock
    <3>2. BlockLast(StartOf(b)) \in Nat /\ BlockLast(StartOf(c)) \in Nat
      BY <3>1, LastFacts, InsnFacts
    <3>3. ~(StartOf(c) > StartOf(b)) /\ ~(StartOf(b) > StartOf(c))
      BY <3>1, <3>2, LastFacts
    <3>4. StartOf(b) = StartOf(c)
      BY <3>1, <3>3
    <3> QED
      BY <3>4, BlockFacts
  <2>3. \A p \in leaders : blocks[IdOf(p) + 1].first = p
    BY BlockAt
  <2> QED
    BY <2>1, <2>2, <2>3 DEF BlocksPartition
<1> QED
  BY <1>1, InsnsInductive, LeadersInductive, BlocksInductive, PTL

-----------------------------------------------------------------------------
(* The edges *)

\* classify_end, case by case, for the last instruction p of block b.
Returns(b, p) ==
  /\ blocks[b+1].end = Exit
  /\ insns[p].op \in {"ret", "br", "b"} /\ insns[p].target \notin leaders

GoesTo(b, p, q) ==
  /\ q \in leaders /\ blocks[b+1].end = Goto(IdOf(q))
  /\ \/ insns[p].op = "b" /\ q = insns[p].target
     \/ insns[p].op \in {"plain", "call", "bcond"} /\ insns[p].target \notin leaders /\ q = p + 1

Chooses(b, p) ==
  /\ insns[p].op = "bcond" /\ insns[p].target \in leaders /\ p + 1 \in leaders
  /\ blocks[b+1].end = Conditional(IdOf(insns[p].target), IdOf(p + 1)) /\ IdOf(p + 1) = b + 1

RunsOff(b, p) ==
  /\ blocks[b+1].end = FallThrough /\ p + 1 = Len0 /\ Count = b + 1
  /\ \/ insns[p].op \in {"plain", "call"} /\ insns[p].target \notin leaders
     \/ insns[p].op = "bcond"

LEMMA EndCases ==
  ASSUME InsnsInv, LeadersInv, BlocksInv, Built, NEW b \in BlockIds
  PROVE  /\ blocks[b+1].last \in Positions
         /\ \/ Returns(b, blocks[b+1].last)
            \/ \E q \in leaders : GoesTo(b, blocks[b+1].last, q)
            \/ Chooses(b, blocks[b+1].last)
            \/ RunsOff(b, blocks[b+1].last)
<1>1. PICK p \in Positions : p = BlockLast(StartOf(b))
  BY BlockFacts, LastFacts
<1>2. blocks[b+1].last = p /\ blocks[b+1].end = ClassifyEnd(p)
  BY <1>1, BlockFacts
<1>3. p + 1 \in leaders => IdOf(p + 1) = b + 1
  BY <1>1, BlockFacts, NextId
<1>4. p + 1 \notin leaders => Count = b + 1 /\ p + 1 = Len0
  BY <1>1, BlockFacts, NextId
<1>5. leaders \subseteq Positions /\ Out \notin Positions
  BY DEF LeadersInv, InsnsInv, Out
<1>6. insns[p].op \notin {"b", "bcond"} => insns[p].target \notin leaders
  BY <1>5, InsnFacts
<1>7. p + 1 = Len0 => p + 1 \notin Positions
  BY InsnFacts
<1>8. CASE insns[p].op \in {"ret", "br"}
  BY <1>2, <1>6, <1>8 DEF ClassifyEnd, Returns
<1>9. CASE insns[p].op = "b"
  BY <1>2, <1>9 DEF ClassifyEnd, Returns, GoesTo
<1>10. CASE insns[p].op = "bcond"
  <2>1. CASE p + 1 \in leaders /\ insns[p].target \in leaders
    BY <1>2, <1>3, <1>10, <2>1 DEF ClassifyEnd, Chooses
  <2>2. CASE p + 1 \in leaders /\ insns[p].target \notin leaders
    BY <1>2, <1>10, <2>2 DEF ClassifyEnd, FallEnd, GoesTo
  <2>3. CASE p + 1 \notin leaders
    BY <1>2, <1>4, <1>10, <2>3 DEF ClassifyEnd, FallEnd, RunsOff
  <2> QED
    BY <2>1, <2>2, <2>3
<1>11. CASE insns[p].op \in {"plain", "call"}
  <2>1. CASE p + 1 \in leaders
    BY <1>2, <1>6, <1>11, <2>1 DEF ClassifyEnd, FallEnd, GoesTo
  <2>2. CASE p + 1 \notin leaders
    BY <1>2, <1>4, <1>6, <1>11, <2>2 DEF ClassifyEnd, FallEnd, RunsOff
  <2> QED
    BY <2>1, <2>2
<1> QED
  BY <1>2, <1>8, <1>9, <1>10, <1>11, InsnFacts

(***************************************************************************)
(* The graph of a finished build is one the dominators and the SSA         *)
(* construction are checked and proved on: only the last block runs off    *)
(* the end, and a conditional branch falls through to the next block.      *)
(***************************************************************************)
THEOREM GraphBuilt == Spec => []BuiltIsCfg
<1>1. InsnsInv /\ LeadersInv /\ BlocksInv => BuiltIsCfg
  <2> SUFFICES ASSUME InsnsInv, LeadersInv, BlocksInv, Built PROVE BuiltIsCfg
    BY DEF BuiltIsCfg
  <2>1. PICK n \in Nat : n = Len(blocks) /\ n = Count
    BY LeadersFinite DEF BlocksInv
  <2>2. Graph(n)!Blocks = BlockIds /\ BlockIds = 0 .. n - 1
    BY <2>1 DEF Graph!Blocks, BlockIds
  <2>3. ASSUME NEW b \in BlockIds PROVE blocks[b+1].end \in Graph(n)!EndsOf(b)
    <3>1. PICK p \in Positions : p = blocks[b+1].last
      BY EndCases
    <3>2. CASE Returns(b, p)
      BY <3>2 DEF Returns, Graph!EndsOf, Graph!Exit, Exit
    <3>3. CASE \E q \in leaders : GoesTo(b, p, q)
      BY <3>3, <2>2, BlockAt DEF GoesTo, Graph!EndsOf, Graph!Goto, Goto
    <3>4. CASE Chooses(b, p)
      <4>1. IdOf(insns[p].target) \in BlockIds /\ b + 1 \in BlockIds
        BY <3>4, BlockAt DEF Chooses
      <4> QED
        BY <3>4, <4>1, <2>2 DEF Chooses, Graph!EndsOf, Graph!Conditional, Conditional
    <3>5. CASE RunsOff(b, p)
      <4>1. b + 1 \notin BlockIds
        BY <3>5, <2>1, <2>2 DEF RunsOff
      <4> QED
        BY <3>5, <4>1, <2>2 DEF RunsOff, Graph!EndsOf, Graph!FallThrough, FallThrough
    <3> QED
      BY <3>1, <3>2, <3>3, <3>4, <3>5, EndCases
  <2>4. [b \in BlockIds |-> blocks[b+1].end] \in Graph(n)!Cfgs
    BY <2>2, <2>3 DEF Graph!Cfgs
  <2> QED
    BY <2>1, <2>4 DEF BuiltIsCfg
<1> QED
  BY <1>1, InsnsInductive, LeadersInductive, BlocksInductive, PTL

\* The edges out of a block are what its last instruction can do.
LEMMA LastTransfers ==
  ASSUME InsnsInv, LeadersInv, BlocksInv, Built, NEW b \in BlockIds, ~Dangling(blocks[b+1].last)
  PROVE  {blocks[s+1].first : s \in Succ(b)} = InsnSucc(blocks[b+1].last)
<1>1. PICK p \in Positions : p = blocks[b+1].last
  BY EndCases
<1>2. leaders \subseteq Positions /\ Out \notin Positions
  BY DEF LeadersInv, InsnsInv, Out
<1>3. insns[p].target \notin leaders => insns[p].target = Out
  <2>1. insns[p].target # Out => insns[p].op \in {"b", "bcond"} /\ insns[p].target \in Positions
    BY InsnFacts
  <2>2. Scanned(p)
    BY DEF LeadersInv, Built
  <2> QED
    BY <2>1, <2>2 DEF Scanned, TargetLeader, IsBranch
<1>4. CASE Returns(b, p)
  <2>1. Succ(b) = {}
    BY <1>4 DEF Returns, Succ, Exit
  <2>2. InsnSucc(p) = {}
    BY <1>2, <1>3, <1>4 DEF Returns, InsnSucc
  <2> QED
    BY <1>1, <2>1, <2>2
<1>5. ASSUME NEW q \in leaders, GoesTo(b, p, q)
      PROVE  {blocks[s+1].first : s \in Succ(b)} = InsnSucc(p)
  <2>1. Succ(b) = {IdOf(q)}
    <3>1. blocks[b+1].end.to = <<IdOf(q)>>
      BY <1>5 DEF GoesTo, Goto
    <3> QED
      BY <3>1 DEF Succ
  <2>2. InsnSucc(p) = {q}
    BY <1>2, <1>3, <1>5 DEF GoesTo, InsnSucc
  <2> QED
    BY <2>1, <2>2, BlockAt
<1>6. CASE Chooses(b, p)
  <2>1. Succ(b) = {IdOf(insns[p].target), IdOf(p + 1)}
    <3>1. blocks[b+1].end.to = <<IdOf(insns[p].target), IdOf(p + 1)>>
      BY <1>6 DEF Chooses, Conditional
    <3> QED
      BY <3>1 DEF Succ
  <2>2. InsnSucc(p) = {insns[p].target, p + 1}
    BY <1>2, <1>6 DEF Chooses, InsnSucc
  <2>3. insns[p].target \in leaders /\ p + 1 \in leaders
    BY <1>6 DEF Chooses
  <2> QED
    BY <1>1, <2>1, <2>2, <2>3, BlockAt
<1>7. CASE RunsOff(b, p)
  <2>1. Succ(b) = {}
    BY <1>7 DEF RunsOff, Succ, FallThrough
  <2>2. p + 1 \notin Positions
    BY <1>7, InsnFacts DEF RunsOff
  <2>3. InsnSucc(p) = {}
    BY <1>1, <1>2, <1>3, <1>7, <2>2 DEF RunsOff, InsnSucc, Dangling
  <2> QED
    BY <1>1, <2>1, <2>3
<1> QED
  BY <1>1, <1>4, <1>5, <1>6, <1>7, EndCases

\* Before its last instruction a block goes on to the next, but for jumps and
\* returns, which end no block.
LEMMA InnerTransfers ==
  ASSUME InsnsInv, LeadersInv, BlocksInv, Built, NEW b \in BlockIds,
         NEW p \in Positions, InBlock(p, b), p # blocks[b+1].last, insns[p].op \notin {"b", "ret"}
  PROVE  InBlock(p + 1, b) /\ InsnSucc(p) \subseteq {p + 1}
<1>1. PICK l \in leaders : l = StartOf(b) /\ l = blocks[b+1].first /\ l \in Nat
  BY BlockFacts, LeadersFinite
<1>2. PICK e \in Positions : e = BlockLast(l) /\ e = blocks[b+1].last /\ e \in Nat
  BY <1>1, BlockFacts, LastFacts, InsnFacts
<1>3. p \in Nat /\ l <= p /\ p < e /\ p + 1 > l /\ ~(e < p + 1)
  BY <1>1, <1>2, InsnFacts DEF InBlock
<1>4. p + 1 \notin leaders
  BY <1>2, <1>3, LastFacts
<1>5. p + 1 \in Positions
  <2>1. e < Len0 /\ Len0 \in Nat
    BY InsnFacts DEF InsnsInv
  <2> QED
    BY <2>1, <1>3, InsnFacts
<1>6. Scanned(p) /\ \A q \in Positions : Scanned(q)
  BY DEF LeadersInv, Built
<1>7. insns[p].op \notin {"call", "bcond", "br"}
  BY <1>4, <1>5, <1>6 DEF Scanned, NextIsLeader, IsBranch, IsUnconditional, IsReturn, IsCall
<1>8. insns[p].op = "plain" /\ insns[p].target = Out /\ Out \notin Positions
  BY <1>7, InsnFacts DEF InsnsInv, Out
<1>9. InsnSucc(p) \subseteq {p + 1}
  BY <1>8 DEF InsnSucc
<1>10. InBlock(p + 1, b)
  BY <1>1, <1>2, <1>3 DEF InBlock
<1> QED
  BY <1>9, <1>10

\* The last instruction of a block is in it.
LEMMA BlockHasLast ==
  ASSUME InsnsInv, LeadersInv, BlocksInv, Built, NEW b \in BlockIds
  PROVE  InBlock(blocks[b+1].last, b)
<1>1. PICK l \in leaders : l = StartOf(b) /\ l = blocks[b+1].first /\ l \in Nat
  BY BlockFacts, LeadersFinite
<1>2. PICK e \in Positions : e = BlockLast(l) /\ e = blocks[b+1].last /\ e \in Nat /\ l <= e
  BY <1>1, BlockFacts, LastFacts, InsnFacts
<1> QED
  BY <1>1, <1>2 DEF InBlock

\* The processor stays inside the function.
IpInv == ip \in Positions

LEMMA IpInductive == Spec => []IpInv
<1>1. Init => IpInv
  <2> SUFFICES ASSUME Init PROVE IpInv
    OBVIOUS
  <2>1. PICK n \in 1 .. MaxInsns : insns \in [0 .. n-1 -> Insns(n)]
    BY DEF Init, Functions
  <2> QED
    BY <2>1 DEF IpInv, Positions, Init
<1>2. IpInv /\ [Next]_vars => IpInv'
  <2> SUFFICES ASSUME IpInv, [Next]_vars PROVE IpInv'
    OBVIOUS
  <2>1. Positions' = Positions
    BY NextKeepsInsns DEF Positions
  <2>2. ip' = ip \/ ip' \in InsnSucc(ip) \/ ip' \in Positions
    BY DEF Next, vars, ScanInsn, LeadersDone, BuildBlock, BlocksDone, ScanBlock, HeadersDone,
           Execute, Stop
  <2> QED
    BY <2>1, <2>2 DEF IpInv, InsnSucc
<1> QED
  BY <1>1, <1>2, PTL DEF Spec

(***************************************************************************)
(* For every function, whatever follows its jumps and returns: every step  *)
(* of the processor inside the function stays in the block or goes along   *)
(* an edge to the start of the block it names, and every edge out of a     *)
(* block is a step its last instruction can make.  The exceptions are      *)
(* those of TransfersAreEdges, instruction by instruction.                 *)
(***************************************************************************)
THEOREM EdgesFollow == Spec => TransfersAreEdges
<1> DEFINE Inv == InsnsInv /\ LeadersInv /\ BlocksInv /\ IpInv
<1>1. Inv => EdgesHaveTransfers
  BY LastTransfers DEF EdgesHaveTransfers, Built
<1>2. Inv /\ BlocksPartition /\ [Next]_vars => StepFollows
  <2> SUFFICES ASSUME Inv, BlocksPartition, [Next]_vars, pc = "run", ip' # ip, insns[ip].op # "br",
                      ~Buried(ip), ~Dangling(ip)
               PROVE  Follows(ip, ip')
    BY DEF StepFollows
  <2>1. ip \in Positions /\ ip' \in InsnSucc(ip) /\ Built
    BY DEF IpInv, Next, vars, ScanInsn, LeadersDone, BuildBlock, BlocksDone, ScanBlock,
           HeadersDone, Execute, Stop, Built
  <2>2. PICK b \in BlockIds : InBlock(ip, b)
    BY <2>1 DEF BlocksPartition
  <2>3. CASE ip = blocks[b+1].last
    <3>1. ip' \in {blocks[s+1].first : s \in Succ(b)}
      BY <2>1, <2>3, LastTransfers
    <3> QED
      BY <3>1, <2>2, <2>3 DEF Follows
  <2>4. CASE ip # blocks[b+1].last
    <3>1. insns[ip].op \notin {"b", "ret"}
      <4> SUFFICES ASSUME insns[ip].op \in {"b", "ret"} PROVE FALSE
        OBVIOUS
      <4>1. PICK c \in BlockIds : ip = blocks[c+1].last
        BY DEF Buried
      <4>2. InBlock(ip, c)
        BY <2>1, <4>1, BlockHasLast
      <4> QED
        BY <2>1, <2>2, <2>4, <4>1, <4>2 DEF BlocksPartition
    <3>2. ip' = ip + 1 /\ InBlock(ip', b)
      BY <2>1, <2>2, <2>4, <3>1, InnerTransfers
    <3> QED
      BY <3>2, <2>2 DEF Follows
  <2> QED
    BY <2>3, <2>4
<1>3. Inv /\ BlocksPartition /\ EdgesHaveTransfers' /\ [Next]_vars =>
        [StepFollows /\ EdgesHaveTransfers']_vars
  BY <1>2
<1> QED
  BY <1>1, <1>3, InsnsInductive, LeadersInductive, BlocksInductive, IpInductive, Partitioned, PTL
     DEF Spec, TransfersAreEdges

-----------------------------------------------------------------------------
(* Loop headers *)

\* The jumps of block b that do not go forward have been noted.
Noted(b) == \A s \in Succ(b) : s <= b => s \in headers

HeadersInv ==
  /\ pc = "headers" => i \in Nat /\ \A b \in BlockIds : b < i => Noted(b)
  /\ pc = "run" => \A b \in BlockIds : Noted(b)

LEMMA HeadersInductive == Spec => []HeadersInv
<1>1. Init => HeadersInv
  BY DEF Init, HeadersInv
<1>2. HeadersInv /\ [Next]_vars => HeadersInv'
  <2> SUFFICES ASSUME HeadersInv, [Next]_vars PROVE HeadersInv'
    OBVIOUS
  <2>1. CASE ScanInsn \/ LeadersDone \/ BuildBlock
    BY <2>1 DEF ScanInsn, LeadersDone, BuildBlock, HeadersInv
  <2>2. CASE BlocksDone
    <3>1. pc' = "headers" /\ i' = 0 /\ BlockIds' \subseteq Nat
      BY <2>2 DEF BlocksDone, BlockIds
    <3>2. \A b \in BlockIds' : ~(b < 0)
      BY <3>1
    <3> QED
      BY <3>1, <3>2 DEF HeadersInv
  <2>3. CASE ScanBlock
    <3>1. /\ pc = "headers" /\ pc' = "headers" /\ i \in BlockIds /\ i' = i + 1
          /\ blocks' = blocks /\ headers' = headers \cup {s \in Succ(i) : s <= i}
      BY <2>3 DEF ScanBlock
    <3>2. ASSUME NEW b \in BlockIds, b < i + 1 PROVE Noted(b)'
      <4>1. b = i \/ b < i
        BY <3>1, <3>2 DEF BlockIds
      <4>2. b < i => Noted(b)
        BY <3>1 DEF HeadersInv
      <4> QED
        BY <3>1, <4>1, <4>2 DEF Noted, Succ
    <3> QED
      BY <3>1, <3>2 DEF HeadersInv, BlockIds
  <2>4. CASE HeadersDone
    <3>1. /\ pc = "headers" /\ pc' = "run" /\ i \notin BlockIds /\ blocks' = blocks
          /\ headers' = headers
      BY <2>4 DEF HeadersDone
    <3>2. \A b \in BlockIds : b < i
      BY <3>1 DEF HeadersInv, BlockIds
    <3> QED
      BY <3>1, <3>2 DEF HeadersInv, Noted, Succ, BlockIds
  <2>5. CASE Execute \/ Stop \/ UNCHANGED vars
    BY <2>5 DEF Execute, Stop, vars, HeadersInv, Noted, Succ, BlockIds
  <2> QED
    BY <2>1, <2>2, <2>3, <2>4, <2>5 DEF Next
<1> QED
  BY <1>1, <1>2, PTL DEF Spec

(***************************************************************************)
(* Every cycle of the graph goes through a loop header: the greatest of    *)
(* its blocks jumps to one that is not greater.                            *)
(***************************************************************************)
THEOREM CyclesCut == Spec => []HeadersCutCycles
<1>1. BlocksInv /\ HeadersInv => HeadersCutCycles
  <2> SUFFICES ASSUME BlocksInv, HeadersInv, pc = "run",
                      NEW S \in SUBSET BlockIds, S # {}, \A b \in S : Succ(b) \cap S # {}
               PROVE  S \cap headers # {}
    BY DEF HeadersCutCycles
  <2>1. PICK n \in Nat : n = Len(blocks) /\ BlockIds = 0 .. n - 1
    BY DEF BlocksInv, BlockIds
  <2>2. S \in SUBSET Nat /\ \A b \in S : b <= n
    BY <2>1
  <2>3. PICK b \in S : \A c \in S : c <= b
    BY <2>2, GreatestNat
  <2>4. PICK s \in Succ(b) : s \in S
    OBVIOUS
  <2>5. s <= b
    BY <2>3, <2>4
  <2> QED
    BY <2>4, <2>5 DEF HeadersInv, Noted
<1> QED
  BY <1>1, BlocksInductive, HeadersInductive, PTL
=============================================================================
