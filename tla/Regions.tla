------------------------------ MODULE Regions ------------------------------
(***************************************************************************)
(* `build_regions` (region.rs): from the graph of a function to a tree of  *)
(* ifs and loops.  For a program compiled from structured code the module  *)
(* then runs the tree, as the text `emit_region` writes for it would run,  *)
(* side by side with the graph, so that TextFollows can ask whether the    *)
(* two do the same.                                                        *)
(*                                                                         *)
(* Of a block's statements only their presence matters here; a condition   *)
(* is known by the block that ends with it.  Text that looks like a `for`  *)
(* or a `switch` is rewritten by emit.rs; the conditions and statements    *)
(* that would match are outside this model.                                *)
(***************************************************************************)
EXTENDS FunctionCfg, SequencesExt

CONSTANT Structured     \* programs [cfg, full] compiled from structured code

VARIABLES
  compiled,   \* is the program one of Structured?
  cfg,        \* the ends of the blocks
  full,       \* the blocks that have statements
  tree,       \* the region tree, or NoTree
  text,       \* what is left of the text, innermost region first
  at          \* what the graph does next

program == <<compiled, cfg, full>>
vars == <<program, tree, text, at>>

Ids  == DOMAIN cfg
None == -1      \* Option<BlockId>

-----------------------------------------------------------------------------
(* Regions.  A condition is that of a block's end, or its inverse.         *)

Block(b)      == [kind |-> "Block", id |-> b]
Seq_(rs)      == [kind |-> "Seq", parts |-> rs]
If(c, t, e)   == [kind |-> "If", cond |-> c, then |-> t, else |-> e]
Loop(c, r)    == [kind |-> "Loop", cond |-> c, body |-> r]
DoWhile(c, r) == [kind |-> "DoWhile", cond |-> c, body |-> r]
Break         == [kind |-> "Break"]
Continue      == [kind |-> "Continue"]

NoTree == [kind |-> "NoTree"]

Group(rs) == IF Len(rs) = 1 THEN rs[1] ELSE Seq_(rs)

\* The condition of block b's end, true if the branch is taken.
Cond(b)   == [of |-> b, taken |-> TRUE]
Invert(c) == [c EXCEPT !.taken = ~@]

-----------------------------------------------------------------------------
(* Questions about the graph *)

End(b)     == cfg[b].kind
Target(b)  == cfg[b].to[1]      \* of a Goto, or branch_target
Other(b)   == cfg[b].to[2]      \* fall_through
Branches   == {b \in Ids : End(b) = "Conditional"}
Headers    == UNION {{s \in SuccSet(cfg, b) : s <= b} : b \in Ids}

IsTrivialGoto(b) == End(b) = "Goto" /\ b \notin full

\* The set of blocks reached from S along the edges of `next`.
RECURSIVE Closure(_, _)
Closure(S, next) ==
  LET T == S \cup UNION {next[b] : b \in S}
  IN  IF T = S THEN S ELSE Closure(T, next)

\* Not along back edges when hunting joins.
ReachableFrom(b) ==
  Closure({b}, [p \in Ids |-> {s \in SuccSet(cfg, p) : s >= p \/ s \notin Headers}])

PathReturnsTo(b, header) == header \in Closure({b}, [p \in Ids |-> SuccSet(cfg, p)])

LoopBodyBlocks(start, exit) ==
  IF start = exit THEN {}
  ELSE Closure({start}, [p \in Ids |-> SuccSet(cfg, p) \ {start, exit}])

\* Empty jumps are followed for eight steps.
MaxStubs == 8

Path(b) ==
  LET step(p, k) == IF IsTrivialGoto(Last(p)) THEN Append(p, Target(Last(p))) ELSE p
  IN  FoldLeft(step, <<b>>, [k \in 1 .. MaxStubs |-> k])

SkipTrivial(b) == Last(Path(b))

\* Mutant: the block the jumps lead to is marked as well.
PathStubsThrough(from, to) ==
  LET p == Path(from)
  IN  {p[k] : k \in {j \in DOMAIN p : j <= MaxStubs /\ \A i \in 1 .. j-1 : p[i] # to}}

\* mark_path_stubs
PathStubs(from, to) ==
  LET p == Path(from)
  IN  {p[k] : k \in {j \in DOMAIN p : j <= MaxStubs /\ \A i \in 1 .. j : p[i] # to}}

\* Mutant: the last common block instead of the earliest.
FindJoinLast(a, b) ==
  LET common == (ReachableFrom(a) \cap ReachableFrom(b)) \ {a, b}
  IN  IF b \in ReachableFrom(a) THEN b
      ELSE IF a \in ReachableFrom(b) THEN a
      ELSE IF common # {} THEN Max(common) ELSE None

FindJoin(a, b) ==
  LET common == (ReachableFrom(a) \cap ReachableFrom(b)) \ {a, b}
  IN  IF b \in ReachableFrom(a) THEN b
      ELSE IF a \in ReachableFrom(b) THEN a
      ELSE IF common # {} THEN Min(common) ELSE None

\* The loop a block is in, None outside of loops.
NoLoop == [header |-> None, exit |-> None]
EndsOfLoop(lc) == {lc.header, lc.exit}

FindJoinInLoop(a, b, lc) ==
  LET join == FindJoin(a, b)
      back == {s \in {a, b} \ EndsOfLoop(lc) : PathReturnsTo(s, lc.header)}
  IN  IF a = b \/ join \notin EndsOfLoop(lc) THEN join
      ELSE IF a \in back THEN a
      ELSE IF b \in back THEN b ELSE None

JoinOf(a, b, lc) == IF lc = NoLoop THEN FindJoin(a, b) ELSE FindJoinInLoop(a, b, lc)

\* do_while_info: the first block with a conditional edge to the header.
Latches(header) ==
  IF header \in Headers \cap Branches THEN {}
  ELSE {b \in Branches : header \in SuccSet(cfg, b)}

-----------------------------------------------------------------------------
(* build_from_loop and what it calls.  `st` has the visited blocks and the *)
(* parts built so far; each operator goes on to the end of the list.       *)

Push(st, rs) == [st EXCEPT !.parts = @ \o rs]

RECURSIVE BuildFrom(_, _, _, _)

\* build_branch, build_branch_in_loop
Branch(start, join, visited, lc) ==
  LET Is(r) == [visited |-> visited, region |-> r]
      built == BuildFrom(start, [visited |-> visited, parts |-> << >>],
                         IF join # None THEN join ELSE lc.exit, lc)
      stub  == lc # NoLoop /\ IsTrivialGoto(start) /\ Target(start) \in EndsOfLoop(lc) \cup {join}
  IN  CASE start = join                              -> Is(Seq_(<< >>))
        [] start # join /\ lc.exit \in {start, SkipTrivial(start)} -> Is(Break)
        [] start = lc.header /\ lc.exit \notin {start, SkipTrivial(start)} /\ start # join ->
             Is(Continue)
        [] OTHER ->
             IF stub
             THEN [visited |-> visited \cup {start},
                   region  |-> IF Target(start) = lc.exit THEN Break
                               ELSE IF Target(start) = lc.header THEN Continue ELSE Seq_(<< >>)]
             ELSE IF start \in visited
             THEN Is(IF start \in full THEN Block(start) ELSE Seq_(<< >>))
             ELSE [visited |-> built.visited, region |-> Group(built.parts)]

BuildIf(b, st, stop, lc) ==
  LET t     == SkipTrivial(Target(b))
      e     == SkipTrivial(Other(b))
      join  == JoinOf(t, e, lc)
      then  == Branch(t, join, st.visited, lc)
      else  == Branch(e, join, then.visited, lc)
      done  == [visited |-> else.visited \cup PathStubs(Target(b), t) \cup PathStubs(Other(b), e),
                parts   |-> st.parts \o <<Block(b), If(Cond(b), then.region, else.region)>>]
  IN  IF join = None THEN done ELSE BuildFrom(join, done, stop, lc)

\* The header's test is kept as the condition, its statements are not.
BuildWhile(b, st, stop, lc) ==
  LET t     == Target(b)
      e     == Other(b)
      loops(s) == PathReturnsTo(s, b)
      taken == (loops(t) /\ ~loops(e)) \/ (loops(t) = loops(e) /\ e <= b)
      exit  == IF taken THEN e ELSE t
      body  == BuildFrom(IF taken THEN t ELSE e, [visited |-> st.visited, parts |-> << >>],
                         exit, [header |-> b, exit |-> exit])
      cond  == IF taken THEN Cond(b) ELSE Invert(Cond(b))
  IN  BuildFrom(exit,
                [visited |-> st.visited \cup (body.visited \ {exit}),
                 parts   |-> Append(st.parts, Loop(cond, Group(body.parts)))],
                stop, lc)

BuildDoWhile(b, st, stop, lc) ==
  LET header == Target(b)
      latch  == Min(Latches(header))
      taken  == Target(latch) = header
      exit   == IF taken THEN Other(latch) ELSE Target(latch)
      ids    == (LoopBodyBlocks(header, exit) \cup {latch}) \ {exit}
      body   == SetToSortSeq({i \in ids : ~IsTrivialGoto(i)}, <)
      cond   == IF taken THEN Cond(latch) ELSE Invert(Cond(latch))
  IN  BuildFrom(exit,
                [visited |-> st.visited \cup ids,
                 parts   |-> st.parts \o <<Block(b),
                               DoWhile(cond, Group([i \in DOMAIN body |-> Block(body[i])]))>>],
                stop, lc)

BuildGoto(b, st, stop, lc) ==
  LET t == Target(b)
  IN  IF t \in Headers /\ t <= b THEN Push(st, <<Block(b)>>)
      ELSE IF t = lc.exit THEN Push(st, <<Block(b), Break>>)
      ELSE IF t = lc.header \/ (Latches(t) = {} /\ t = stop) THEN Push(st, <<Block(b)>>)
      ELSE IF Latches(t) # {} THEN BuildDoWhile(b, st, stop, lc)
      ELSE BuildFrom(t, Push(st, <<Block(b)>>), stop, lc)

BuildTrivialGoto(b, st, stop, lc) ==
  LET t == Target(b)
  IN  IF t = lc.exit THEN Push(st, <<Break>>)
      ELSE IF t = lc.header THEN Push(st, <<Continue>>)
      ELSE BuildFrom(t, st, stop, lc)

BuildFrom(b, st, stop, lc) ==
  LET on == [st EXCEPT !.visited = @ \cup {b}]
  IN  IF b \in st.visited \cup {stop} \cup EndsOfLoop(lc) THEN st
      ELSE IF IsTrivialGoto(b) THEN BuildTrivialGoto(b, on, stop, lc)
      ELSE IF End(b) = "Goto" THEN BuildGoto(b, on, stop, lc)
      ELSE IF End(b) # "Conditional" THEN Push(on, <<Block(b)>>)
      ELSE IF b \in Headers THEN BuildWhile(b, on, stop, lc)
      ELSE BuildIf(b, on, stop, lc)

BuildRegions ==
  LET st   == BuildFrom(Entry, [visited |-> {}, parts |-> << >>], None, NoLoop)
      rest == SetToSortSeq(Ids \ st.visited, <)
  IN  Group(st.parts \o [i \in DOMAIN rest |-> Block(rest[i])])

-----------------------------------------------------------------------------
(* Running the text (emit_region) *)

Again(loop) == [kind |-> "Again", loop |-> loop]

\* The regions after the innermost loop that is running, and with it.
FromLoop(rs) ==
  LET loops == {i \in DOMAIN rs : rs[i].kind = "Again"}
  IN  IF loops = {} THEN << >> ELSE SubSeq(rs, Min(loops), Len(rs))

\* Up to the next thing that happens: statements or a test.
RECURSIVE Unfold(_)
Unfold(rs) ==
  IF rs = << >> THEN rs
  ELSE LET r == Head(rs)
           k == Tail(rs)
       IN  CASE r.kind = "Seq"      -> Unfold(r.parts \o k)
             [] r.kind = "Block"    -> IF r.id \in full THEN rs ELSE Unfold(k)
             [] r.kind = "Loop"     -> <<Again(r)>> \o k
             [] r.kind = "DoWhile"  -> Unfold(<<r.body, Again(r)>> \o k)
             [] r.kind = "Break"    -> IF FromLoop(k) = << >> THEN << >> ELSE Unfold(Tail(FromLoop(k)))
             [] r.kind = "Continue" -> FromLoop(k)
             [] OTHER               -> rs

Done      == [does |-> "end", of |-> None]
Runs(b)   == [does |-> "run", of |-> b]
Tests(b)  == [does |-> "test", of |-> b]

TextDoes ==
  IF text = << >> THEN Done
  ELSE LET r == Head(text)
       IN  CASE r.kind = "Block" -> Runs(r.id)
             [] r.kind = "If"    -> Tests(r.cond.of)
             [] r.kind = "Again" -> Tests(r.loop.cond.of)

\* What is left after the test with that outcome.
AfterTest(taken) ==
  LET r == Head(text)
      k == Tail(text)
  IN  IF r.kind = "If" THEN <<IF taken = r.cond.taken THEN r.then ELSE r.else>> \o k
      ELSE IF taken = r.loop.cond.taken THEN <<r.loop.body>> \o text ELSE k

-----------------------------------------------------------------------------
(* Running the graph *)

\* Through blocks without statements, to the next thing that happens.
RECURSIVE Enter(_)
Enter(b) ==
  IF b \in full THEN Runs(b)
  ELSE CASE End(b) = "Conditional" -> Tests(b)
         [] End(b) = "Goto" -> Enter(Target(b))
         [] OTHER -> Done

Leave(b) ==
  CASE End(b) = "Conditional" -> Tests(b)
    [] End(b) = "Goto" -> Enter(Target(b))
    [] OTHER -> Done

-----------------------------------------------------------------------------
(***************************************************************************)
(* A block that returns has a statement, the return, and no cycle of the   *)
(* graph is made of blocks without statements and tests.                   *)
(***************************************************************************)
Arbitrary ==
  LET EmptyGotos(p) == {b \in Blocks \ p.full : p.cfg[b].kind = "Goto"}
  IN  {p \in [cfg : Cfgs, full : SUBSET Blocks] :
         /\ \A b \in Blocks : p.cfg[b].kind = "Exit" => b \in p.full
         /\ \A S \in (SUBSET EmptyGotos(p)) \ {{}} : \E b \in S : p.cfg[b].to[1] \notin S}

Init ==
  /\ \/ compiled = FALSE /\ \E p \in Arbitrary : cfg = p.cfg /\ full = p.full
     \/ compiled = TRUE /\ \E p \in Structured : cfg = p.cfg /\ full = p.full
  /\ tree = NoTree
  /\ text = << >>
  /\ at = Done

Build ==
  /\ tree = NoTree
  /\ tree' = BuildRegions
  /\ text' = Unfold(<<tree'>>)
  /\ at' = Enter(Entry)
  /\ UNCHANGED program

Agree == TextDoes = at

\* Both run the same block.
RunBlock ==
  /\ compiled /\ tree # NoTree /\ Agree /\ at.does = "run"
  /\ text' = IF End(at.of) = "Exit" THEN << >> ELSE Unfold(Tail(text))
  /\ at' = Leave(at.of)
  /\ UNCHANGED <<program, tree>>

\* Both make the same test, with any outcome.
RunTest ==
  /\ compiled /\ tree # NoTree /\ Agree /\ at.does = "test"
  /\ \E taken \in BOOLEAN :
       /\ text' = Unfold(AfterTest(taken))
       /\ at' = Enter(IF taken THEN Target(at.of) ELSE Other(at.of))
  /\ UNCHANGED <<program, tree>>

Next == Build \/ RunBlock \/ RunTest

Spec == Init /\ [][Next]_vars

-----------------------------------------------------------------------------
RECURSIVE BlocksIn(_)
BlocksIn(r) ==
  CASE r.kind = "Block" -> {r.id}
    [] r.kind = "Seq" -> UNION {BlocksIn(r.parts[i]) : i \in DOMAIN r.parts}
    [] r.kind = "If" -> BlocksIn(r.then) \cup BlocksIn(r.else)
    [] r.kind \in {"Loop", "DoWhile"} -> BlocksIn(r.body)
    [] OTHER -> {}

\* Conditions are those of Conditional blocks, jumps are inside a loop.
RECURSIVE WellFormed(_, _)
WellFormed(r, inLoop) ==
  CASE r.kind = "Block" -> r.id \in Ids
    [] r.kind = "Seq" -> \A i \in DOMAIN r.parts : WellFormed(r.parts[i], inLoop)
    [] r.kind = "If" -> r.cond.of \in Branches /\ WellFormed(r.then, inLoop) /\ WellFormed(r.else, inLoop)
    [] r.kind \in {"Loop", "DoWhile"} -> r.cond.of \in Branches /\ WellFormed(r.body, TRUE)
    [] r.kind \in {"Break", "Continue"} -> inLoop
    [] OTHER -> FALSE

(* "Append any unvisited blocks linearly (fallback)": on every graph, also  *)
(* on one no structured program has, each block with statements is in the   *)
(* tree, wherever the arms and bodies stopped, and the tree is a legal one: *)
(* every `if` and loop tests the condition of a conditional block, every    *)
(* `break` and `continue` stands in a loop.  The header of a `while` is     *)
(* excluded: its region holds its test only.                                *)
NoBlockLost ==
  tree # NoTree => WellFormed(tree, FALSE) /\ full \ (Headers \cap Branches) \subseteq BlocksIn(tree)

RECURSIVE DoTests(_)
DoTests(r) ==
  CASE r.kind = "DoWhile" -> {r.cond.of} \cup DoTests(r.body)
    [] r.kind = "Seq" -> UNION {DoTests(r.parts[i]) : i \in DOMAIN r.parts}
    [] r.kind = "If" -> DoTests(r.then) \cup DoTests(r.else)
    [] r.kind = "Loop" -> DoTests(r.body)
    [] OTHER -> {}

(* "Latch: conditional with a back-edge to `header`": a `do` is built only  *)
(* where a conditional block jumps back.  do_while_info takes any edge to   *)
(* the block for one, so the branch over the arm of an `if` makes the code  *)
(* after the `if` a loop.                                                   *)
LatchesJumpBack ==
  tree # NoTree => \A b \in DoTests(tree) : \E s \in SuccSet(cfg, b) : s <= b

(* The text does what the function does: for every outcome of the tests it  *)
(* runs the same blocks and makes the same tests, in the same order, and    *)
(* ends when the function returns.                                          *)
TextFollows == compiled /\ tree # NoTree => Agree
=============================================================================
