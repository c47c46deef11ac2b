-------------------------- MODULE SourceTextProofs --------------------------
(***************************************************************************)
(* Theorems about SourceText, for any number of parameters, any lists of   *)
(* DWARF, any names of the user and any order in which they are replaced.  *)
(*                                                                         *)
(* Renaming replaces one name after the other, and yet is one substitution *)
(* (ApplyIsSub): no name that comes in is still to go.  The rest follows   *)
(* slot by slot, as a substitution does not move names.                    *)
(***************************************************************************)
EXTENDS SourceText, FiniteSetTheorems, SequenceTheorems, TLAPS

-----------------------------------------------------------------------------
(* Renaming *)

\* All names at once.
Sub(map, names) ==
  [k \in DOMAIN names |-> IF names[k] \in DOMAIN map THEN map[names[k]] ELSE names[k]]

IsMap(map) == \A old \in DOMAIN map : old \in Old /\ map[old] \notin DOMAIN map

\* The first n names of the order, all at once.
SubFirst(map, names, n) ==
  [k \in DOMAIN names |->
     IF names[k] \in DOMAIN map /\ (\E i \in 1 .. n : names[k] = Order[i]) THEN map[names[k]] ELSE names[k]]

LEMMA OrderFacts ==
  /\ Len(Order) \in Nat /\ DOMAIN Order = 1 .. Len(Order)
  /\ \A old \in Old : \E i \in 1 .. Len(Order) : old = Order[i]
<1>1. Len(Order) \in Nat /\ DOMAIN Order = 1 .. Len(Order)
  BY ListsAssumption
<1> QED
  BY <1>1, ListsAssumption DEF Range

LEMMA SubNext ==
  ASSUME NEW map, NEW names, IsMap(map), NEW n \in Nat
  PROVE  SubFirst(map, names, n + 1) =
           IF Order[n + 1] \in DOMAIN map
           THEN Replace(SubFirst(map, names, n), Order[n + 1], map[Order[n + 1]])
           ELSE SubFirst(map, names, n)
<1> DEFINE old == Order[n + 1]
<1>1. \A name : (\E i \in 1 .. n + 1 : name = Order[i]) <=> name = old \/ \E i \in 1 .. n : name = Order[i]
  <2>1. \A i \in 1 .. n + 1 : i = n + 1 \/ i \in 1 .. n
    OBVIOUS
  <2>2. n + 1 \in 1 .. n + 1 /\ 1 .. n \subseteq 1 .. n + 1
    OBVIOUS
  <2> QED
    BY <2>1, <2>2
<1>2. CASE old \in DOMAIN map
  <2>1. ASSUME NEW k \in DOMAIN names
        PROVE  SubFirst(map, names, n + 1)[k] =
                 Replace(SubFirst(map, names, n), old, map[old])[k]
    <3>1. CASE names[k] \in DOMAIN map /\ \E i \in 1 .. n : names[k] = Order[i]
      BY <1>1, <1>2, <3>1 DEF SubFirst, Replace, IsMap
    <3>2. CASE ~(names[k] \in DOMAIN map /\ \E i \in 1 .. n : names[k] = Order[i])
      BY <1>1, <1>2, <3>2 DEF SubFirst, Replace
    <3> QED
      BY <3>1, <3>2
  <2> QED
    BY <1>2, <2>1 DEF SubFirst, Replace
<1>3. CASE old \notin DOMAIN map
  BY <1>1, <1>3 DEF SubFirst
<1> QED
  BY <1>2, <1>3

\* The sequence of replacements is a substitution.
LEMMA ApplyIsSub ==
  ASSUME NEW map, NEW names, IsMap(map), names = [k \in DOMAIN names |-> names[k]]
  PROVE  ApplyNames(map, names) = Sub(map, names)
<1> DEFINE N == Len(Order)
           Def(f) == f = [n \in 0 .. N |->
                            IF n = 0 THEN names
                            ELSE IF Order[n] \in DOMAIN map THEN Replace(f[n - 1], Order[n], map[Order[n]])
                            ELSE f[n - 1]]
           first == [n \in 0 .. N |-> SubFirst(map, names, n)]
           applied == CHOOSE f : Def(f)
<1>1. N \in Nat
  BY OrderFacts
<1>2. SubFirst(map, names, 0) = names
  BY DEF SubFirst
<1>3. ASSUME NEW n \in 0 .. N, n # 0
      PROVE  first[n] = IF Order[n] \in DOMAIN map
                        THEN Replace(first[n - 1], Order[n], map[Order[n]]) ELSE first[n - 1]
  <2>1. n - 1 \in Nat /\ n - 1 \in 0 .. N /\ (n - 1) + 1 = n
    BY <1>1, <1>3
  <2> QED
    BY <2>1, SubNext
<1>4. Def(first)
  BY <1>2, <1>3
<1> HIDE DEF first
<1>5. Def(applied)
  BY <1>4
<1>6. ASSUME NEW n \in 0 .. N, n # 0
      PROVE  applied[n] = IF Order[n] \in DOMAIN map
                          THEN Replace(applied[n - 1], Order[n], map[Order[n]]) ELSE applied[n - 1]
  BY <1>5, <1>6
<1>7. applied[0] = names /\ first[0] = names
  <2>1. 0 \in 0 .. N
    BY <1>1
  <2>2. applied[0] = names
    BY <1>5, <2>1
  <2>3. first[0] = names
    BY <1>2, <2>1 DEF first
  <2> QED
    BY <2>2, <2>3
<1>8. ApplyNames(map, names) = applied[N]
  BY DEF ApplyNames
<1> HIDE DEF applied
<1> DEFINE Apart == {n \in 0 .. N : applied[n] # first[n]}
<1>9. Apart = {}
  <2> SUFFICES ASSUME Apart # {} PROVE FALSE
    OBVIOUS
  <2>1. PICK n \in Apart : \A k \in Apart : <<k, n>> \notin OpToRel(<, Nat)
    <3>1. Apart \in SUBSET Nat
      BY <1>1
    <3> QED
      BY <3>1, NatLessThanWellFounded, WFMin
  <2>2. n \in 0 .. N /\ n # 0
    BY <1>7, <2>1
  <2>3. n - 1 \in 0 .. N /\ n - 1 < n /\ n - 1 \in Nat /\ n \in Nat
    BY <1>1, <2>2
  <2>4. applied[n - 1] = first[n - 1]
    BY <2>1, <2>3 DEF OpToRel
  <2>5. applied[n] = first[n]
    BY <1>3, <1>6, <2>2, <2>4
  <2> QED
    BY <2>1, <2>5
<1>10. first[N] = Sub(map, names)
  <2>1. \A k \in DOMAIN names : names[k] \in DOMAIN map => \E i \in 1 .. N : names[k] = Order[i]
    BY OrderFacts DEF IsMap
  <2> QED
    BY <1>1, <2>1 DEF first, SubFirst, Sub
<1> QED
  BY <1>1, <1>8, <1>9, <1>10

-----------------------------------------------------------------------------
(* Substitutions, slot by slot *)

All == Old \cup UserNames \cup {"arg"}

Texts == [prototype : Seq(All), body : Seq(All), switch : Seq(All)]

\* A map as the user or DWARF gives it.
Maps == {map \in UNION {[S -> All] : S \in SUBSET Old} : IsMap(map)}

LEMMA SubFacts ==
  ASSUME NEW map \in Maps, NEW names \in Seq(All)
  PROVE  /\ ApplyNames(map, names) = Sub(map, names)
         /\ Sub(map, names) \in Seq(All) /\ DOMAIN Sub(map, names) = DOMAIN names
         /\ \A k \in DOMAIN names :
              Sub(map, names)[k] = IF names[k] \in DOMAIN map THEN map[names[k]] ELSE names[k]
         /\ \A k \in DOMAIN names : Sub(map, names)[k] \notin DOMAIN map
<1>1. PICK n \in Nat : names \in [1 .. n -> All]
  BY LenProperties
<1>2. \A old \in DOMAIN map : map[old] \in All
  BY DEF Maps
<1>3. Sub(map, names) \in [1 .. n -> All]
  BY <1>1, <1>2 DEF Sub
<1>4. ApplyNames(map, names) = Sub(map, names)
  BY <1>1, ApplyIsSub DEF Maps
<1>5. \A k \in DOMAIN names : Sub(map, names)[k] \notin DOMAIN map
  BY DEF Sub, Maps, IsMap
<1>6. Sub(map, names) \in Seq(All)
  BY <1>3
<1> QED
  BY <1>1, <1>3, <1>4, <1>5, <1>6 DEF Sub

LEMMA FirstFacts ==
  ASSUME NEW names \in Seq(All)
  PROVE  /\ First(names) \in Seq(All)
         /\ names = << >> => First(names) = << >>
         /\ names # << >> => First(names) = <<names[1]>> /\ 1 \in DOMAIN names
<1>1. CASE names = << >>
  <2>1. First(names) = << >>
    BY <1>1 DEF First
  <2> QED
    BY <1>1, <2>1
<1>2. CASE names # << >>
  <2>1. 1 \in DOMAIN names /\ Len(names) >= 1
    BY <1>2
  <2>2. First(names) = <<names[1]>>
    <3>1. First(names) = SubSeq(names, 1, 1)
      BY <1>2 DEF First
    <3>2. /\ SubSeq(names, 1, 1) \in Seq(All) /\ Len(SubSeq(names, 1, 1)) = 1
          /\ SubSeq(names, 1, 1)[1] = names[1]
      BY <2>1, SubSeqProperties
    <3>3. \A s \in Seq(All) : Len(s) = 1 => s = <<s[1]>>
      OBVIOUS
    <3> QED
      BY <3>1, <3>2, <3>3
  <2>3. names[1] \in All
    BY <2>1
  <2> QED
    BY <1>2, <2>1, <2>2, <2>3
<1> QED
  BY <1>1, <1>2

\* A map takes the first name to the first name.
LEMMA FirstSub ==
  ASSUME NEW map \in Maps, NEW names \in Seq(All)
  PROVE  Sub(map, First(names)) = First(Sub(map, names)) /\ Sub(map, << >>) = << >>
<1>1. Sub(map, << >>) = << >>
  BY DEF Sub
<1>2. CASE names = << >>
  BY <1>1, <1>2, FirstFacts
<1>3. CASE names # << >>
  <2>1. First(names) = <<names[1]>> /\ 1 \in DOMAIN names
    BY <1>3, FirstFacts
  <2>2. Sub(map, names) # << >> /\ Sub(map, names) \in Seq(All) /\ 1 \in DOMAIN Sub(map, names)
    BY <2>1, SubFacts
  <2>3. First(Sub(map, names)) = <<Sub(map, names)[1]>>
    BY <2>2, FirstFacts
  <2>4. Sub(map, <<names[1]>>) = <<Sub(map, names)[1]>>
    BY <2>1 DEF Sub
  <2> QED
    BY <1>1, <2>1, <2>3, <2>4
<1> QED
  BY <1>2, <1>3

\* The prototype names the parameters from the receiver on as the body does.
Agrees(text, receiver) ==
  /\ \A k \in DOMAIN text.prototype, j \in DOMAIN text.body :
       j = k + receiver => text.prototype[k] = text.body[j]
  /\ text.switch \in {<< >>, First(text.body)}

LEMMA ApplyText ==
  ASSUME NEW map \in Maps, NEW text \in Texts, NEW receiver \in {0, 1}, Agrees(text, receiver)
  PROVE  /\ Apply(map, text) \in Texts /\ Agrees(Apply(map, text), receiver)
         /\ Apply(map, text).body = Sub(map, text.body)
         /\ (Range(Apply(map, text).prototype) \cup Range(Apply(map, text).body)
               \cup Range(Apply(map, text).switch)) \cap DOMAIN map = {}
<1>1. /\ text.prototype \in Seq(All) /\ text.body \in Seq(All) /\ text.switch \in Seq(All)
      /\ DOMAIN text = {"prototype", "body", "switch"}
  BY DEF Texts
<1>2. /\ Apply(map, text).prototype = Sub(map, text.prototype)
      /\ Apply(map, text).body = Sub(map, text.body)
      /\ Apply(map, text).switch = Sub(map, text.switch)
      /\ Apply(map, text) = [prototype |-> Sub(map, text.prototype), body |-> Sub(map, text.body),
                             switch |-> Sub(map, text.switch)]
  BY <1>1, SubFacts DEF Apply
<1>3. Apply(map, text) \in Texts
  BY <1>1, <1>2, SubFacts DEF Texts
<1>4. Agrees(Apply(map, text), receiver)
  <2>1. ASSUME NEW k \in DOMAIN text.prototype, NEW j \in DOMAIN text.body, j = k + receiver
        PROVE  Sub(map, text.prototype)[k] = Sub(map, text.body)[j]
    <3>1. text.prototype[k] = text.body[j]
      BY <2>1 DEF Agrees
    <3> QED
      BY <1>1, <3>1 DEF Sub
  <2>2. Sub(map, text.switch) \in {<< >>, First(Sub(map, text.body))}
    <3>1. text.switch \in {<< >>, First(text.body)}
      BY DEF Agrees
    <3> QED
      BY <1>1, <3>1, FirstSub
  <2>3. /\ DOMAIN Sub(map, text.prototype) = DOMAIN text.prototype
        /\ DOMAIN Sub(map, text.body) = DOMAIN text.body
    BY DEF Sub
  <2> QED
    BY <1>2, <2>1, <2>2, <2>3 DEF Agrees
<1>5. \A names \in Seq(All) : Range(Sub(map, names)) \cap DOMAIN map = {}
  BY SubFacts DEF Range
<1> QED
  BY <1>1, <1>2, <1>3, <1>4, <1>5

-----------------------------------------------------------------------------
(* Parameters *)

\* The names of parameters before DWARF: generated, or a receiver in front.
Slots(ps) ==
  /\ ps \in Seq(Old) /\ Len(ps) <= Len(ParamName)
  /\ \A k \in DOMAIN ps : ps[k] = ParamName[k] \/ (k = 1 /\ ps[k] = "self")

LEMMA ParamNames ==
  /\ Len(ParamName) \in Nat \ {0} /\ DOMAIN ParamName = 1 .. Len(ParamName)
  /\ ParamName \in Seq(Old) /\ "self" \notin Range(ParamName)
  /\ \A j, k \in DOMAIN ParamName : ParamName[j] = ParamName[k] => j = k
  /\ \A k \in DOMAIN ParamName : ParamName[k] \in Range(ParamName)
<1>1. ParamName \in Seq(Range(ParamName)) /\ Range(ParamName) \subseteq Old
  BY ParamNameAssumption DEF Old
<1>2. Len(ParamName) \in Nat \ {0} /\ DOMAIN ParamName = 1 .. Len(ParamName)
  BY <1>1, ParamNameAssumption
<1>3. ParamName \in Seq(Old)
  BY <1>1
<1>4. \A j, k \in DOMAIN ParamName : ParamName[j] = ParamName[k] => j = k
  BY ParamNameAssumption DEF IsInjective
<1>5. \A k \in DOMAIN ParamName : ParamName[k] \in Range(ParamName)
  BY DEF Range
<1> QED
  BY <1>2, <1>3, <1>4, <1>5, ParamNameAssumption

LEMMA SlotFacts ==
  ASSUME NEW ps, Slots(ps)
  PROVE  /\ ps \in Seq(All) /\ IsInjective(ps)
         /\ \A k \in DOMAIN ps : ps[k] \in Range(ParamName) \cup {"self"}
<1>1. DOMAIN ps \subseteq DOMAIN ParamName
  BY ParamNames DEF Slots
<1>2. ps \in Seq(All)
  BY DEF Slots, All
<1>3. \A k \in DOMAIN ps : ps[k] \in Range(ParamName) \cup {"self"}
  BY <1>1, ParamNames DEF Slots
<1>4. IsInjective(ps)
  BY <1>1, ParamNames DEF IsInjective, Slots
<1> QED
  BY <1>2, <1>3, <1>4

LEMMA WithSelfSlots == ASSUME NEW ps, Slots(ps) PROVE Slots(WithSelf(ps))
<1>1. PICK n \in Nat : n = Len(ps) /\ DOMAIN ps = 1 .. n /\ ps \in [1 .. n -> Old] /\ n <= Len(ParamName)
  BY DEF Slots
<1>2. CASE WithSelf(ps) = ps
  BY <1>2
<1>3. CASE WithSelf(ps) = Replace(ps, ParamName[1], "self")
  <2>1. "self" \in Old
    BY DEF Old
  <2>2. WithSelf(ps) \in [1 .. n -> Old]
    BY <1>1, <1>3, <2>1 DEF Replace
  <2>3. WithSelf(ps) \in Seq(Old) /\ Len(WithSelf(ps)) = n /\ DOMAIN WithSelf(ps) = 1 .. n
    BY <2>2
  <2>4. ASSUME NEW k \in 1 .. n
        PROVE  WithSelf(ps)[k] = ParamName[k] \/ (k = 1 /\ WithSelf(ps)[k] = "self")
    <3>1. WithSelf(ps)[k] = IF ps[k] = ParamName[1] THEN "self" ELSE ps[k]
      BY <1>1, <1>3 DEF Replace
    <3>2. ps[k] = ParamName[k] \/ (k = 1 /\ ps[k] = "self")
      BY <1>1 DEF Slots
    <3>3. 1 \in DOMAIN ParamName /\ k \in DOMAIN ParamName
      BY <1>1, ParamNames
    <3>4. ParamName[k] = ParamName[1] => k = 1
      BY <3>3, ParamNames
    <3> QED
      BY <3>1, <3>2, <3>4
  <2> QED
    BY <1>1, <2>3, <2>4 DEF Slots
<1> QED
  BY <1>2, <1>3 DEF WithSelf

\* The pairs name parameters, `self` apart, by names of the list.
LEMMA PairFacts ==
  ASSUME NEW ps, Slots(ps), NEW dwarf \in Seq(DwarfNames)
  PROVE  LET pairs == DwarfPairs(ps, dwarf)
         IN  /\ pairs \in Maps /\ DOMAIN pairs \subseteq Range(ParamName)
             /\ \A p \in DOMAIN pairs : pairs[p] \in DwarfNames
             /\ IsInjective(dwarf) => IsInjective(pairs)
             /\ dwarf = << >> => DOMAIN pairs = {}
<1> DEFINE Taken(k) == Cardinality(Takers(ps, k))
           paired == {k \in DOMAIN ps : ps[k] # "self" /\ Taken(k) <= Len(dwarf)}
           Slot(p) == CHOOSE k \in paired : ps[k] = p
           pairs == DwarfPairs(ps, dwarf)
<1>1. Len(ps) \in Nat /\ DOMAIN ps = 1 .. Len(ps) /\ Len(dwarf) \in Nat /\ DOMAIN dwarf = 1 .. Len(dwarf)
  BY DEF Slots
<1>2. pairs = [p \in {ps[k] : k \in paired} |-> dwarf[Taken(Slot(p))]]
  BY DEF DwarfPairs
<1>3. ASSUME NEW k \in DOMAIN ps
      PROVE  Taken(k) \in Nat /\ IsFiniteSet(Takers(ps, k)) /\ (ps[k] # "self" => Taken(k) >= 1)
  <2>1. k \in Nat /\ IsFiniteSet(1 .. k)
    BY <1>1, FS_Interval
  <2>2. IsFiniteSet(Takers(ps, k)) /\ Taken(k) \in Nat
    BY <2>1, FS_Subset, FS_CardinalityType DEF Takers
  <2>3. ASSUME ps[k] # "self" PROVE Takers(ps, k) # {}
    BY <1>1, <2>3 DEF Takers
  <2> QED
    BY <2>2, <2>3, FS_EmptySet
<1>4. ASSUME NEW p \in DOMAIN pairs
      PROVE  /\ Slot(p) \in paired /\ ps[Slot(p)] = p /\ pairs[p] = dwarf[Taken(Slot(p))]
             /\ Taken(Slot(p)) \in DOMAIN dwarf
  <2>1. \E k \in paired : ps[k] = p
    BY <1>2
  <2>2. Slot(p) \in paired /\ ps[Slot(p)] = p
    BY <2>1
  <2>3. Taken(Slot(p)) \in 1 .. Len(dwarf)
    BY <1>1, <1>3, <2>2
  <2> QED
    BY <1>1, <1>2, <2>2, <2>3
<1>5. \A p \in DOMAIN pairs : p \in Range(ParamName) /\ pairs[p] \in DwarfNames
  BY <1>4, SlotFacts
<1>6. pairs \in Maps
  <2>1. DOMAIN pairs \in SUBSET Old
    BY <1>5 DEF Old
  <2>2. \A p \in DOMAIN pairs : pairs[p] \in All
    BY <1>5 DEF Old, All
  <2>3. pairs \in [DOMAIN pairs -> All]
    BY <1>2, <2>2
  <2>4. IsMap(pairs)
    BY <1>5, <2>1, FreshNames DEF IsMap
  <2> QED
    BY <2>1, <2>3, <2>4 DEF Maps
<1>7. ASSUME IsInjective(dwarf), NEW p \in DOMAIN pairs, NEW q \in DOMAIN pairs, pairs[p] = pairs[q]
      PROVE  p = q
  <2>1. Taken(Slot(p)) = Taken(Slot(q))
    BY <1>4, <1>7 DEF IsInjective
  <2>2. ASSUME NEW j \in paired, NEW k \in paired, j < k PROVE Taken(j) # Taken(k)
    <3>1. Takers(ps, j) \subseteq Takers(ps, k) /\ k \in Takers(ps, k) /\ k \notin Takers(ps, j)
      BY <1>1, <2>2 DEF Takers
    <3>2. IsFiniteSet(Takers(ps, k))
      BY <1>3
    <3> QED
      BY <3>1, <3>2, FS_Subset
  <2>3. Slot(p) = Slot(q)
    <3>1. PICK j \in paired, k \in paired : j = Slot(p) /\ k = Slot(q)
      BY <1>4
    <3>2. Taken(j) = Taken(k)
      BY <2>1, <3>1
    <3>3. j \in Nat /\ k \in Nat
      BY <1>1
    <3>4. ~(j < k) /\ ~(k < j)
      BY <2>2, <3>2
    <3> QED
      BY <3>1, <3>3, <3>4
  <2> QED
    BY <1>4, <2>3
<1>8. IsInjective(dwarf) => IsInjective(pairs)
  BY <1>7 DEF IsInjective
<1>9. ASSUME dwarf = << >>, NEW p \in DOMAIN pairs PROVE FALSE
  <2>1. Taken(Slot(p)) \in DOMAIN dwarf
    BY <1>4
  <2> QED
    BY <1>9, <2>1
<1> QED
  BY <1>5, <1>6, <1>8, <1>9

-----------------------------------------------------------------------------
(* What is the same throughout, and after each step *)

InputInv ==
  /\ step \in 1 .. 5
  /\ input.user \in Maps /\ IsInjective(input.user)
  /\ \A old \in DOMAIN input.user : input.user[old] \in UserNames
  /\ input.dwarf \in DwarfLists \cup MethodLists
  /\ input.args \in Nat

\* Frame and statements have the same names.
FrameInv == params \in Seq(All) /\ stmts = params /\ (step < 5 => Slots(params))

\* The prototype in the frame names the parameters behind the receiver.
ProtoOf(ps) == \A k \in DOMAIN proto : k < Len(ps) => proto[k] = ps[k + 1]

ProtoInv ==
  /\ step < 4 => proto = << >>
  /\ step < 5 \/ input.dwarf = << >> => ProtoOf(params)

Receiver == IF input.method /\ step > 3 THEN 1 ELSE 0

\* The source is the text of the frame with the names of the user.
TextInv ==
  /\ source \in Texts /\ Agrees(source, Receiver)
  /\ Shown \cap DOMAIN input.user = {}
  /\ step = 1 => source.body = << >>
  /\ step \in 2 .. 4 => source.body = Sub(input.user, params)
  /\ step = 5 /\ DOMAIN input.user = {} => source.body = params

Inv == InputInv /\ FrameInv /\ ProtoInv /\ TextInv

LEMMA StepFacts ==
  ASSUME InputInv
  PROVE  /\ At("insns") => step = 1
         /\ At("jump tables") => step = 2
         /\ At("objc") => step = 3
         /\ At("dwarf") => step = 4
<1>1. step = 1 \/ step = 2 \/ step = 3 \/ step = 4 \/ step = 5
  BY DEF InputInv
<1>2. /\ Steps[1] = "insns" /\ Steps[2] = "jump tables" /\ Steps[3] = "objc"
      /\ Steps[4] = "dwarf" /\ Steps[5] = "done"
  BY DEF Steps
<1> QED
  BY <1>1, <1>2 DEF At

LEMMA InitInv == Init => Inv
<1> SUFFICES ASSUME Init PROVE Inv
  OBVIOUS
<1>1. input.user \in UserMaps /\ IsInjective(input.user) /\ input.args \in Nat
      /\ input.dwarf \in DwarfLists \cup MethodLists /\ input.params \in 0 .. MaxParams /\ step = 1
  BY MaxParamsAssumption, ParamNames DEF Init
<1>2. InputInv
  <2>1. PICK S \in SUBSET Old : input.user \in [S -> UserNames]
    BY <1>1 DEF UserMaps
  <2>2. \A old \in DOMAIN input.user : input.user[old] \in UserNames /\ old \in Old
    BY <2>1
  <2>3. IsMap(input.user)
    BY <2>2, FreshNames DEF IsMap
  <2>4. input.user \in [S -> All]
    BY <2>1 DEF All
  <2> QED
    BY <1>1, <2>2, <2>3, <2>4 DEF InputInv, Maps
<1>3. Slots(params)
  <2>1. PICK n \in 0 .. Len(ParamName) : n = input.params
    BY <1>1, MaxParamsAssumption, ParamNames
  <2>2. params = SubSeq(ParamName, 1, n)
    BY <2>1 DEF Init
  <2>3. n \in Nat /\ \A i \in 1 .. n : ParamName[i] \in Old
    BY ParamNames
  <2>4. /\ params \in Seq(Old) /\ Len(params) = n /\ \A i \in 1 .. n : params[i] = ParamName[i]
    <3>1. /\ params \in Seq(Old) /\ Len(params) = (IF 1 <= n THEN n - 1 + 1 ELSE 0)
          /\ \A i \in 1 .. n - 1 + 1 : params[i] = ParamName[1 + i - 1]
      BY <2>2, <2>3, SubSeqProperties
    <3> QED
      BY <3>1
  <2> QED
    BY <2>4, ParamNames DEF Slots
<1>4. FrameInv
  BY <1>3, SlotFacts DEF Init, FrameInv
<1>5. TextInv
  <2>1. source = [prototype |-> << >>, body |-> << >>, switch |-> << >>]
    BY DEF Init, Emit
  <2>2. source \in Texts
    BY <2>1 DEF Texts
  <2> QED
    BY <1>1, <2>1, <2>2 DEF TextInv, Agrees, Shown, Range
<1>6. ProtoInv
  BY DEF Init, ProtoInv, ProtoOf
<1> QED
  BY <1>2, <1>4, <1>5, <1>6 DEF Inv

\* A source that is emitted for a frame.
LEMMA EmitFacts ==
  ASSUME NEW ps, Slots(ps), input.args \in Nat
  PROVE  /\ Emit(ps, ps, FALSE) \in Texts /\ Agrees(Emit(ps, ps, FALSE), 0)
         /\ Emit(ps, ps, TRUE) \in Texts /\ Agrees(Emit(ps, ps, TRUE), 1)
         /\ [Emit(ps, ps, FALSE) EXCEPT !.switch = First(ps)] \in Texts
         /\ Agrees([Emit(ps, ps, FALSE) EXCEPT !.switch = First(ps)], 0)
<1>1. ps \in Seq(All) /\ << >> \in Seq(All) /\ First(ps) \in Seq(All)
  BY SlotFacts, FirstFacts
<1>2. MethodPrototype(ps) \in Seq(All)
  <2>1. PICK n \in Nat : n = input.args
    OBVIOUS
  <2>2. \A k \in 1 .. n : (IF k < Len(ps) THEN ps[k + 1] ELSE "arg") \in All
    BY <1>1 DEF All
  <2>3. MethodPrototype(ps) \in [1 .. n -> All]
    BY <2>1, <2>2 DEF MethodPrototype
  <2> QED
    BY <2>3
<1>3. \A k \in DOMAIN MethodPrototype(ps), j \in DOMAIN ps : j = k + 1 => MethodPrototype(ps)[k] = ps[j]
  <2>1. \A j \in DOMAIN ps : j \in Nat /\ j <= Len(ps)
    BY <1>1
  <2>2. ASSUME NEW k \in DOMAIN MethodPrototype(ps), NEW j \in DOMAIN ps, j = k + 1
        PROVE  MethodPrototype(ps)[k] = ps[j]
    <3>1. k \in 1 .. input.args
      BY DEF MethodPrototype
    <3>2. k < Len(ps)
      BY <1>1, <2>1, <2>2, <3>1
    <3> QED
      BY <2>2, <3>1, <3>2 DEF MethodPrototype
  <2> QED
    BY <2>2
<1>4. \A k \in DOMAIN ps : k + 0 = k
  BY <1>1
<1> QED
  BY <1>1, <1>2, <1>3, <1>4 DEF Emit, Texts, Agrees

\* The names of the user are put in when a source is emitted.
LEMMA RenamedFacts ==
  ASSUME InputInv, NEW text \in Texts, NEW receiver \in {0, 1}, Agrees(text, receiver)
  PROVE  /\ Renamed(text) \in Texts /\ Agrees(Renamed(text), receiver)
         /\ Renamed(text).body = Sub(input.user, text.body)
         /\ (Range(Renamed(text).prototype) \cup Range(Renamed(text).body)
               \cup Range(Renamed(text).switch)) \cap DOMAIN input.user = {}
  BY ApplyText DEF Renamed, InputInv

LEMMA SubNone == ASSUME NEW map, DOMAIN map = {}, NEW names \in Seq(All) PROVE Sub(map, names) = names
<1>1. \A k \in DOMAIN names : names[k] \notin DOMAIN map
  OBVIOUS
<1>2. Sub(map, names) = [k \in DOMAIN names |-> names[k]]
  BY <1>1 DEF Sub
<1> QED
  BY <1>2

\* Frame and statements after the first three steps, which give the receiver
\* its name.
LEMMA FrameStep ==
  ASSUME Inv, DecompileInsns \/ RecoverJumpTables \/ ObjcMethod
  PROVE  /\ step \in 1 .. 3 /\ step' = step + 1 /\ UNCHANGED input
         /\ Slots(params') /\ stmts' = params' /\ InputInv' /\ FrameInv'
<1>1. step \in 1 .. 3 /\ step' = step + 1 /\ UNCHANGED input
  <2>1. step = 1 \/ step = 2 \/ step = 3
    BY StepFacts DEF Inv, DecompileInsns, RecoverJumpTables, ObjcMethod
  <2>2. Advance
    BY DEF DecompileInsns, RecoverJumpTables, ObjcMethod
  <2> QED
    BY <2>1, <2>2 DEF Advance
<1>2. Slots(params) /\ stmts = params
  BY <1>1 DEF Inv, FrameInv
<1>3. Slots(params') /\ stmts' = params'
  <2>1. PICK ps : ps = params /\ Slots(ps) /\ Slots(WithSelf(ps))
    BY <1>2, WithSelfSlots
  <2>2. CASE UNCHANGED <<params, stmts>>
    BY <1>2, <2>1, <2>2
  <2>3. CASE params' = WithSelf(params) /\ stmts' = WithSelf(stmts)
    BY <1>2, <2>1, <2>3
  <2>4. CASE params' = WithSelf(params) /\ stmts' = IF params' # params THEN Replace(stmts, ParamName[1], "self") ELSE stmts
    BY <1>2, <2>1, <2>4 DEF WithSelf
  <2> QED
    BY <2>2, <2>3, <2>4 DEF DecompileInsns, RecoverJumpTables, ObjcMethod
<1>4. InputInv'
  BY <1>1 DEF Inv, InputInv
<1>5. PICK ps : ps = params' /\ Slots(ps) /\ ps \in Seq(All)
  BY <1>3, SlotFacts
<1>6. FrameInv'
  BY <1>3, <1>5 DEF FrameInv
<1> QED
  BY <1>1, <1>3, <1>4, <1>6

\* The prototype in the frame is set in the third step.
LEMMA ProtoStep == ASSUME Inv, DecompileInsns \/ RecoverJumpTables \/ ObjcMethod PROVE ProtoInv'
<1>1. step \in 1 .. 3 /\ step' = step + 1
  BY FrameStep
<1>2. proto = << >>
  BY <1>1 DEF Inv, ProtoInv
<1>3. CASE proto' = proto
  BY <1>1, <1>2, <1>3 DEF ProtoInv, ProtoOf
<1>4. CASE ObjcMethod /\ proto' = MethodPrototype(params')
  <2>1. step = 3
    <3>1. At("objc")
      BY <1>4 DEF ObjcMethod
    <3> QED
      BY <3>1, StepFacts DEF Inv
  <2>2. \A k \in DOMAIN MethodPrototype(params') :
          k < Len(params') => MethodPrototype(params')[k] = params'[k + 1]
    BY DEF MethodPrototype
  <2> QED
    BY <1>1, <1>4, <2>1, <2>2 DEF ProtoInv, ProtoOf
<1> QED
  BY <1>3, <1>4 DEF DecompileInsns, RecoverJumpTables, ObjcMethod

\* A step that leaves a source of the frame with the user's names in it.
LEMMA NewText ==
  ASSUME Inv, DecompileInsns \/ RecoverJumpTables \/ ObjcMethod,
         NEW text \in Texts, NEW receiver \in {0, 1}, Agrees(text, receiver),
         text.body = params', source' = Apply(input.user, text), Receiver' = receiver
  PROVE  TextInv'
<1>1. /\ step \in 1 .. 3 /\ step' = step + 1 /\ UNCHANGED input
  BY FrameStep
<1>2. /\ source' \in Texts /\ Agrees(source', receiver)
      /\ source'.body = Sub(input.user, text.body)
      /\ (Range(source'.prototype) \cup Range(source'.body) \cup Range(source'.switch))
            \cap DOMAIN input.user = {}
  BY RenamedFacts DEF Renamed, Inv
<1>3. Agrees(source', receiver) => Agrees(source, Receiver)'
  BY DEF Agrees, First
<1> QED
  BY <1>1, <1>2, <1>3 DEF TextInv, Shown

\* The source after the first three steps.
LEMMA TextStep == ASSUME Inv, DecompileInsns \/ RecoverJumpTables \/ ObjcMethod PROVE TextInv'
<1>1. PICK ps : ps = params' /\ Slots(ps)
  BY FrameStep
<1>2. /\ step \in 1 .. 3 /\ step' = step + 1 /\ UNCHANGED input /\ stmts' = ps /\ input.args \in Nat
  BY <1>1, FrameStep DEF Inv, InputInv
<1>3. CASE DecompileInsns
  <2>1. step = 1
    BY <1>3, StepFacts DEF DecompileInsns, Inv
  <2>2. source' = Apply(input.user, Emit(ps, ps, FALSE)) /\ Emit(ps, ps, FALSE).body = ps
    BY <1>1, <1>2, <1>3 DEF DecompileInsns, Renamed, Emit
  <2>3. Receiver' = 0
    BY <1>2, <2>1 DEF Receiver
  <2> QED
    BY <1>1, <1>2, <1>3, <2>2, <2>3, EmitFacts, NewText
<1>4. CASE RecoverJumpTables
  <2>1. step = 2 /\ params = ps /\ stmts = ps
    BY <1>1, <1>2, <1>4, StepFacts DEF RecoverJumpTables, Inv
  <2>2. Receiver' = 0 /\ Receiver = 0
    BY <1>2, <2>1 DEF Receiver
  <2>3. CASE input.tables
    <3> DEFINE text == [Emit(ps, ps, FALSE) EXCEPT !.switch = First(ps)]
    <3>1. source' = Apply(input.user, text) /\ text.body = ps
      BY <1>4, <2>1, <2>3 DEF RecoverJumpTables, Renamed, Emit
    <3>2. text \in Texts /\ Agrees(text, 0)
      BY <1>1, <1>2, EmitFacts
    <3> QED
      BY <1>1, <1>2, <1>4, <2>2, <3>1, <3>2, NewText
  <2>4. CASE ~input.tables
    <3>1. source' = source /\ params' = params
      BY <1>4, <2>4 DEF RecoverJumpTables
    <3>2. Agrees(source, 0) => Agrees(source, Receiver)'
      BY <2>2, <3>1 DEF Agrees, First
    <3> QED
      BY <1>2, <2>1, <2>2, <3>1, <3>2 DEF TextInv, Inv, Shown
  <2> QED
    BY <2>3, <2>4
<1>5. CASE ObjcMethod
  <2>1. step = 3
    BY <1>5, StepFacts DEF ObjcMethod, Inv
  <2>2. CASE input.method
    <3>1. source' = Apply(input.user, Emit(ps, ps, TRUE)) /\ Emit(ps, ps, TRUE).body = ps
      BY <1>1, <1>2, <1>5, <2>2 DEF ObjcMethod, Renamed, Emit
    <3>2. Receiver' = 1
      BY <1>2, <2>1, <2>2 DEF Receiver
    <3> QED
      BY <1>1, <1>2, <1>5, <3>1, <3>2, EmitFacts, NewText
  <2>3. CASE ~input.method
    <3>1. source' = source /\ params' = params /\ Receiver' = 0 /\ Receiver = 0
      BY <1>2, <1>5, <2>3 DEF ObjcMethod, Receiver
    <3>2. Agrees(source, 0) => Agrees(source, Receiver)'
      BY <3>1 DEF Agrees, First
    <3> QED
      BY <1>2, <2>1, <3>1, <3>2 DEF TextInv, Inv, Shown
  <2> QED
    BY <2>2, <2>3
<1> QED
  BY <1>3, <1>4, <1>5

\* The names of DWARF go over frame, statements and source alike.
LEMMA DwarfStep == ASSUME Inv, ApplyDwarfNames PROVE Inv'
<1> DEFINE pairs == DwarfPairs(params, input.dwarf)
<1>1. step = 4 /\ step' = 5 /\ UNCHANGED input
  <2>1. step = 4 /\ Advance
    BY StepFacts DEF Inv, ApplyDwarfNames
  <2> QED
    BY <2>1 DEF Advance
<1>2. Slots(params) /\ stmts = params /\ params \in Seq(All)
  BY <1>1 DEF Inv, FrameInv
<1>3. pairs \in Maps
  <2>1. PICK ps, dwarf : ps = params /\ dwarf = input.dwarf
    OBVIOUS
  <2>2. dwarf \in Seq(DwarfNames)
    BY <2>1, ListsAssumption DEF Inv, InputInv
  <2> QED
    BY <1>2, <2>1, <2>2, PairFacts
<1> HIDE DEF pairs
<1>4. params' = Sub(pairs, params) /\ stmts' = Sub(pairs, params) /\ params' \in Seq(All)
  BY <1>2, <1>3, SubFacts DEF ApplyDwarfNames, pairs
<1>5. source' = IF DOMAIN pairs = {} THEN source ELSE Apply(input.user, Apply(pairs, source))
  BY DEF ApplyDwarfNames, Renamed, pairs
<1>6. InputInv' /\ FrameInv'
  BY <1>1, <1>4 DEF Inv, InputInv, FrameInv
<1>7. PICK receiver \in {0, 1} : receiver = Receiver /\ Receiver' = receiver
  BY <1>1 DEF Receiver
<1>8. source \in Texts /\ Agrees(source, receiver) /\ source.body = Sub(input.user, params)
  BY <1>1, <1>7 DEF Inv, TextInv
<1>9. /\ source' \in Texts /\ Agrees(source', receiver)
      /\ (Range(source'.prototype) \cup Range(source'.body) \cup Range(source'.switch))
            \cap DOMAIN input.user = {}
      /\ DOMAIN input.user = {} => source'.body = params'
  <2>1. DOMAIN input.user = {} => source.body = params
    BY <1>2, <1>8, SubNone
  <2>2. CASE DOMAIN pairs = {}
    <3>1. source' = source /\ params' = params
      BY <1>2, <1>4, <1>5, <2>2, SubNone
    <3> QED
      BY <1>8, <2>1, <3>1 DEF Inv, TextInv, Shown
  <2>3. CASE DOMAIN pairs # {}
    <3>1. PICK text : text = Apply(pairs, source)
      OBVIOUS
    <3>2. text \in Texts /\ Agrees(text, receiver) /\ text.body = Sub(pairs, source.body)
      BY <1>3, <1>8, <3>1, ApplyText
    <3>3. source' = Renamed(text)
      BY <1>5, <2>3, <3>1 DEF Renamed
    <3>4. /\ source' \in Texts /\ Agrees(source', receiver)
          /\ source'.body = Sub(input.user, text.body)
          /\ (Range(source'.prototype) \cup Range(source'.body) \cup Range(source'.switch))
                \cap DOMAIN input.user = {}
      BY <3>2, <3>3, RenamedFacts DEF Inv
    <3>5. text.body \in Seq(All)
      BY <3>2 DEF Texts
    <3> QED
      BY <1>4, <2>1, <3>2, <3>4, <3>5, SubNone
  <2> QED
    BY <2>2, <2>3
<1>10. Agrees(source', receiver) => Agrees(source, Receiver)'
  BY <1>7 DEF Agrees, First
<1>11. TextInv'
  BY <1>1, <1>9, <1>10 DEF TextInv, Shown
<1>12. ProtoInv'
  <2>1. ASSUME input.dwarf = << >> PROVE params' = params
    <3>1. PICK ps, dwarf : ps = params /\ dwarf = input.dwarf
      OBVIOUS
    <3>2. dwarf \in Seq(DwarfNames) /\ dwarf = << >>
      BY <2>1, <3>1
    <3>3. DOMAIN pairs = {}
      BY <1>2, <3>1, <3>2, PairFacts DEF pairs
    <3> QED
      BY <1>2, <1>4, <3>3, SubNone
  <2>2. proto' = proto /\ ProtoOf(params)
    BY <1>1 DEF ApplyDwarfNames, Inv, ProtoInv
  <2> QED
    BY <1>1, <2>1, <2>2 DEF ProtoInv, ProtoOf
<1> QED
  BY <1>6, <1>11, <1>12 DEF Inv

LEMMA Inductive == Spec => []Inv
<1>1. Inv /\ [Next]_vars => Inv'
  <2> SUFFICES ASSUME Inv, [Next]_vars PROVE Inv'
    OBVIOUS
  <2>1. CASE DecompileInsns \/ RecoverJumpTables \/ ObjcMethod
    BY <2>1, FrameStep, ProtoStep, TextStep DEF Inv
  <2>2. CASE ApplyDwarfNames
    BY <2>2, DwarfStep
  <2>3. CASE UNCHANGED vars
    BY <2>3 DEF vars, result, Inv, InputInv, FrameInv, ProtoInv, ProtoOf, TextInv, Receiver, Agrees, First, Shown
  <2> QED
    BY <2>1, <2>2, <2>3 DEF Next
<1> QED
  BY <1>1, InitInv, PTL DEF Spec

\* Property OneNameEach: however often the source is replaced and edited, it
\* has one name for each parameter.
THEOREM NamedAlike == Spec => []OneNameEach
<1>1. Inv => OneNameEach
  BY DEF Inv, TextInv, OneNameEach, Agrees, Receiver
<1> QED
  BY <1>1, Inductive, PTL

\* Property ResultAgrees: when the user renames nothing, frame, statements and
\* source of the result have the same names.
THEOREM ResultNamed == Spec => []ResultAgrees
<1>1. Inv => ResultAgrees
  <2>0. ASSUME Inv, input.dwarf = << >> PROVE ProtoOf(params)
    BY <2>0 DEF Inv, ProtoInv
  <2> SUFFICES ASSUME Inv, step > 1, DOMAIN input.user = {} PROVE params = source.body /\ stmts = params
    BY <2>0 DEF ResultAgrees, ProtoOf
  <2>1. params \in Seq(All) /\ stmts = params
    BY DEF Inv, FrameInv
  <2>2. CASE step \in 2 .. 4
    BY <2>1, <2>2, SubNone DEF Inv, TextInv
  <2>3. CASE step = 5
    BY <2>1, <2>3 DEF Inv, TextInv
  <2>4. step \in 1 .. 5
    BY DEF Inv, InputInv
  <2> QED
    BY <2>2, <2>3, <2>4
<1> QED
  BY <1>1, Inductive, PTL

\* Property UserNamesShown: no name the user has replaced is in the source.
THEOREM UserNamesKept == Spec => []UserNamesShown
<1>1. Inv => UserNamesShown
  BY DEF Inv, TextInv, UserNamesShown
<1> QED
  BY <1>1, Inductive, PTL

-----------------------------------------------------------------------------
(* Two parameters have two names *)

\* Before DWARF the source has the names of the slots, or the user's.
LEMMA DistinctBefore == ASSUME Inv, step < 5 PROVE StayDistinct
<1>1. step \in 1 .. 4
  BY DEF Inv, InputInv
<1>2. CASE step = 1
  BY <1>2 DEF Inv, TextInv, StayDistinct, IsInjective
<1>3. CASE step \in 2 .. 4
  <2>1. Slots(params) /\ source.body = Sub(input.user, params)
    BY <1>3 DEF Inv, FrameInv, TextInv
  <2>2. PICK ps : ps = params /\ ps \in Seq(All) /\ IsInjective(ps)
                 /\ \A k \in DOMAIN ps : ps[k] \in Old
    BY <2>1, SlotFacts DEF Old
  <2>3. \A k \in DOMAIN ps : Sub(input.user, ps)[k] \in UserNames \/ Sub(input.user, ps)[k] \in Old
    BY <2>2 DEF Sub, Inv, InputInv
  <2>4. ASSUME NEW j \in DOMAIN ps, NEW k \in DOMAIN ps,
               Sub(input.user, ps)[j] = Sub(input.user, ps)[k]
        PROVE  j = k
    <3>1. ps[j] = ps[k]
      BY <2>2, <2>4, FreshNames DEF Sub, Inv, InputInv, IsInjective
    <3> QED
      BY <2>2, <3>1 DEF IsInjective
  <2>5. DOMAIN Sub(input.user, ps) = DOMAIN ps
    BY DEF Sub
  <2> QED
    BY <2>1, <2>2, <2>4, <2>5 DEF StayDistinct, IsInjective
<1> QED
  BY <1>1, <1>2, <1>3

LEMMA DistinctDwarf ==
  ASSUME "self" \notin DwarfNames, \A d \in DwarfLists \cup MethodLists : IsInjective(d),
         Inv, ApplyDwarfNames
  PROVE  StayDistinct'
<1>1. step = 4
  BY StepFacts DEF Inv, ApplyDwarfNames
<1>2. PICK ps, dwarf, user, pairs :
        /\ ps = params /\ dwarf = input.dwarf /\ user = input.user
        /\ pairs = DwarfPairs(ps, dwarf)
  OBVIOUS
<1>3. Slots(ps) /\ source.body = Sub(user, ps) /\ source \in Texts /\ Agrees(source, Receiver)
  BY <1>1, <1>2 DEF Inv, FrameInv, TextInv
<1>4. dwarf \in Seq(DwarfNames) /\ IsInjective(dwarf)
  BY <1>2, ListsAssumption DEF Inv, InputInv
<1>5. /\ pairs \in Maps /\ DOMAIN pairs \subseteq Range(ParamName)
      /\ (\A p \in DOMAIN pairs : pairs[p] \in DwarfNames) /\ IsInjective(pairs)
  BY <1>2, <1>3, <1>4, PairFacts
<1>6. /\ user \in Maps /\ IsInjective(user) /\ \A old \in DOMAIN user : user[old] \in UserNames
  BY <1>2 DEF Inv, InputInv
<1>7. source' = IF DOMAIN pairs = {} THEN source ELSE Renamed(Apply(pairs, source))
  BY <1>2 DEF ApplyDwarfNames
<1>8. CASE DOMAIN pairs = {}
  <2>1. StayDistinct
    BY <1>1, DistinctBefore
  <2> QED
    BY <1>7, <1>8, <2>1 DEF StayDistinct
<1>9. CASE DOMAIN pairs # {}
  <2> DEFINE Named(p) == IF p \in DOMAIN user THEN user[p]
                         ELSE IF p \notin DOMAIN pairs THEN p
                         ELSE IF pairs[p] \in DOMAIN user THEN user[pairs[p]] ELSE pairs[p]
             own == Range(ParamName) \cup {"self"}
  <2>1. source'.body = Sub(user, Sub(pairs, Sub(user, ps)))
    <3>1. Receiver \in {0, 1}
      BY DEF Receiver
    <3>2. PICK text, receiver : text = Apply(pairs, source) /\ receiver = Receiver
      OBVIOUS
    <3>3. text \in Texts /\ Agrees(text, receiver) /\ text.body = Sub(pairs, source.body)
      BY <1>3, <1>5, <3>1, <3>2, ApplyText
    <3>4. Renamed(text).body = Sub(user, text.body)
      BY <1>2, <3>1, <3>2, <3>3, RenamedFacts DEF Inv
    <3> QED
      BY <1>3, <1>7, <1>9, <3>2, <3>3, <3>4
  <2>2. own \subseteq Old /\ own \cap DwarfNames = {} /\ own \cap UserNames = {} /\ DwarfNames \subseteq Old
        /\ UserNames \cap Old = {} /\ DOMAIN pairs \subseteq own
    BY <1>5, FreshNames DEF Old
  <2>3. /\ \A k \in DOMAIN ps : ps[k] \in own
        /\ DOMAIN source'.body = DOMAIN ps
        /\ \A k \in DOMAIN ps : source'.body[k] = Named(ps[k])
    <3>1. \A k \in DOMAIN ps : ps[k] \in own
      BY <1>3, SlotFacts
    <3>2. \A old \in DOMAIN user : user[old] \notin DOMAIN pairs /\ user[old] \notin DOMAIN user
      BY <1>6, <2>2 DEF Maps, IsMap
    <3>3. DOMAIN source'.body = DOMAIN ps
      BY <2>1 DEF Sub
    <3>4. ASSUME NEW k \in DOMAIN ps PROVE source'.body[k] = Named(ps[k])
      <4>1. Sub(user, ps)[k] = IF ps[k] \in DOMAIN user THEN user[ps[k]] ELSE ps[k]
        BY DEF Sub
      <4>2. k \in DOMAIN Sub(user, ps) /\ k \in DOMAIN Sub(pairs, Sub(user, ps))
        BY DEF Sub
      <4>3. Sub(pairs, Sub(user, ps))[k] =
              IF Sub(user, ps)[k] \in DOMAIN pairs THEN pairs[Sub(user, ps)[k]] ELSE Sub(user, ps)[k]
        BY <4>2 DEF Sub
      <4>4. source'.body[k] = IF Sub(pairs, Sub(user, ps))[k] \in DOMAIN user
                              THEN user[Sub(pairs, Sub(user, ps))[k]] ELSE Sub(pairs, Sub(user, ps))[k]
        BY <2>1, <4>2 DEF Sub
      <4> QED
        BY <3>2, <4>1, <4>3, <4>4
    <3> QED
      BY <3>1, <3>3, <3>4
  <2>4. ASSUME NEW p \in own, NEW q \in own, Named(p) = Named(q) PROVE p = q
    <3>1. \A old \in DOMAIN user : user[old] \in UserNames /\ user[old] \notin Old /\ old \in Old
      BY <1>6, <2>2 DEF Maps, IsMap
    <3>2. CASE p \in DOMAIN user
      BY <1>5, <1>6, <2>2, <2>4, <3>1, <3>2 DEF IsInjective
    <3>3. CASE q \in DOMAIN user
      BY <1>5, <1>6, <2>2, <2>4, <3>1, <3>3 DEF IsInjective
    <3>4. CASE p \notin DOMAIN user /\ q \notin DOMAIN user
      BY <1>5, <1>6, <2>2, <2>4, <3>1, <3>4 DEF IsInjective
    <3> QED
      BY <3>2, <3>3, <3>4
  <2> HIDE DEF Named
  <2>5. IsInjective(ps)
    BY <1>3, SlotFacts
  <2> QED
    BY <2>3, <2>4, <2>5 DEF StayDistinct, IsInjective
<1> QED
  BY <1>8, <1>9

\* Property StayDistinct: no two parameters are shown under one name, when no
\* list of DWARF has a name twice or the name of a receiver.
THEOREM NamesDistinct ==
  ASSUME "self" \notin DwarfNames, \A d \in DwarfLists \cup MethodLists : IsInjective(d)
  PROVE  Spec => []StayDistinct
<1> DEFINE NamedApart == step = 5 => StayDistinct
<1>1. Init => NamedApart
  BY DEF Init
<1>2. Inv /\ NamedApart /\ [Next]_vars => NamedApart'
  <2> SUFFICES ASSUME Inv, NamedApart, [Next]_vars, step' = 5 PROVE StayDistinct'
    OBVIOUS
  <2>1. CASE DecompileInsns \/ RecoverJumpTables \/ ObjcMethod
    BY <2>1, FrameStep
  <2>2. CASE ApplyDwarfNames
    BY <2>2, DistinctDwarf
  <2>3. CASE UNCHANGED vars
    BY <2>3 DEF vars, result, StayDistinct
  <2> QED
    BY <2>1, <2>2, <2>3 DEF Next
<1>3. Inv /\ NamedApart => StayDistinct
  BY DistinctBefore DEF Inv, InputInv
<1> HIDE DEF NamedApart
<1> QED
  BY <1>1, <1>2, <1>3, Inductive, PTL DEF Spec
=============================================================================
