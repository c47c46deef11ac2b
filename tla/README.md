# A TLA+ model of the ARM64 decompiler

This directory holds TLA+ specifications of the decompiler in `src/`, the TLC
configurations that model-check them on small instances, and proofs about them
for TLAPS. Paths such as `cfg.rs` are relative to `src/src/`.

The program reads a Mach-O file, decodes the instructions of one function and
turns them into C-like or Swift-like text. It does that in a sequential
pipeline with one function as its unit of work:

    bounds -> decode -> FunctionCfg -> lift -> passes -> SSA -> frame -> passes
           -> SSA exit -> names, types -> regions -> emission -> rewrites of text

There is one piece of state that outlives a function: the process-wide table
of demangled Swift names. Almost everything hard about the code is
therefore not a race but an order: which pass runs before which, what a pass
may assume of the blocks the passes before it left, a table that is read while
it is built, a property of one block used for several. The properties below
are about those orders.

## Inventory

| Component | State it keeps | Operations | Talks to | What is hard | What makes it correct |
|---|---|---|---|---|---|
| Basic blocks (`cfg.rs`, `build`) | leaders, blocks, ends, loop headers | scan instructions, cut blocks, classify ends, mark headers | input from decode; read by everything after it | leaders depend on the instruction before and on targets seen later; ends fall back to others | blocks partition the function; edges are the transfers of control; every cycle has a header |
| Condition text (`cfg.rs`) | text per block | compare + branch to text | frame, types, regions, emission | the text outlives the statements it was made beside | shows what is tested |
| Dominators (`cfg.rs`, `immediate_dominators`) | postorder, `idom`, `changed` | depth-first search, sweep, `intersect` | built graph; read by SSA | a table climbed while it changes, zero as "not yet" | ends; entries dominate; edges respect the tree |
| SSA construction (`ssa.rs`) | frontiers, worklist, version counter, stack per register | phi placement, renaming walk | dominators; passes | a shared stack over a recursive walk; approximate dominators | each read names the assignment that reaches it |
| SSA cleanup and exit (`ssa.rs`) | copies, definitions, last calls, later definitions | copy propagation, inlining, dead versions, call results, version collapse | passes, frame | maps that outlive what they describe | what the block does stays |
| Block passes (`pass.rs`, `ir.rs`) | bindings of registers, live registers | redundant moves, simplification, local copies, argument loads, dead assignments | run before and after SSA | the same pass on two forms of the code | what the block does stays |
| Lifting (`lift.rs`, `pac.rs`) | statements of a block | one statement per instruction, call arguments | passes | flag setters that also write | one meaning per instruction |
| Frame recovery (`locals.rs`) | slots, names, parameters | name slots, spot spilled arguments, rewrite conditions | passes, emission | order inside the entry block | `param_1` is the argument |
| Regions (`region.rs`) | claimed blocks, region tree | loops, branches, joins | headers, ends; emission | joins guessed by reachability | each block appears, in an order control can take |
| Modes (`modes.rs`) | mode | downgrade of unstructured output | regions, pipeline | fallbacks | never claims structure that is not there |
| Emission (`emit.rs`) | text | regions to text | regions, names | layout | out of scope |
| Pipeline (`decompile.rs`, `lib.rs`, `error.rs`) | statements, source, notes | run everything, batch | all | the source is replaced after others added to it | what a step adds stays |
| Bounds (`bounds.rs`) | list of starts | symbols, function starts, scan | decode | several sources disagree | disjoint ranges |
| Cross references (`xrefs.rs`) | call sites, graph | scan, attribute | bounds | ranges that ended | a site belongs to the function it is in |
| Jump tables (`jumptable.rs`) | recovered tables, place of the scan | match the pieces of a dispatch, read the table, resolve an island | pipeline | pieces found by distance, three kinds of entries | the processor goes where the switch says |
| Value flow (`value_flow.rs`) | taint per name, findings | one sweep over the statements | pipeline | one pass over a graph, names assigned again | finds the flows there are |
| Types (`types.rs`) | type per name | evidence of statements, rounds over the copies, conditions | emission, value flow | order of evidence, a bounded number of rounds | evidence is kept; copies agree |
| Renames and tokens (`rename.rs`, `tokens.rs`) | list of renames | replace in order | emission | chains | simultaneous |
| Native demangling (`swift_native.rs`) | process-wide table behind a mutex | look up, run the tool, store | every thread that decompiles | lock is free while the tool runs | one run per thread and name; calls agree |
| Swift names, runtime, metadata, folds | none | parse, rewrite text | pipeline | text patterns | out of scope |
| Objective-C messages, prototypes, blocks | none | rewrite statements, rename the receiver, prototype of a method | pipeline | text patterns; names change in some places and not in others | one name per parameter |
| DWARF (`dwarf.rs`) | none | read a format, pair names with parameters | pipeline | I/O; two lists that skip different entries | each name to its own parameter |
| JSON and signatures | none | format, look up | pipeline | formatting | out of scope |

`PROJECT.json` lists each with what is modelled of it, and every behaviour of
the code that is hard to test, at its line.

## Modules

| Module | Models | Uses |
|---|---|---|
| `FunctionCfg` | ends of blocks, the graphs `classify_end` can produce, dominance and reachability as definitions | |
| `CfgBuild` | `FunctionCfg::build` on every short function, and the processor running it | `INSTANCE FunctionCfg` |
| `CfgBuildProofs` | theorems about `CfgBuild` | |
| `Dominators` | `reverse_postorder`, `immediate_dominators`, `intersect`, a step per iteration of each loop | `EXTENDS FunctionCfg` |
| `DominatorsProofs` | theorems about `Dominators` | |
| `SsaConstruct` | `dominance_frontiers`, phi placement, `rename_block`, and the renamed program running | `EXTENDS Dominators` |
| `SsaConstructProofs` | theorems about `SsaConstruct` | `EXTENDS DominatorsProofs` |
| `BlockIr` | statements, expressions, `subst_expr`, lifted instructions, argument trimming, and the meaning of a list of statements | |
| `BlockPasses` | the passes of `pass.rs`, SSA without joins, the passes on versions of `ssa.rs`, `recover_frame` | `EXTENDS BlockIr` |
| `BlockPipeline` | the order in which `decompile_insns` runs them on functions whose branches go to the next instruction, an action per pass; the conditions of the blocks | `EXTENDS BlockPasses` |
| `Regions` | `build_regions` and what it calls on any graph, the text of the tree and the graph running side by side | `EXTENDS FunctionCfg` |
| `StructuredCode` | graphs of structured programs, the input of `Regions` | `EXTENDS FunctionCfg` |
| `SourceText` | the steps of `decompile_macho_symbol` that generate, replace and edit the source, and the names of parameters in it | |
| `SourceTextProofs` | theorems about `SourceText` | |
| `Batch` | the listing, the lookup and the bounds of the functions of a file | |
| `Xrefs` | the scan for cross references, and the call graph | `EXTENDS Batch` |
| `XrefsProofs` | theorems about `Xrefs` and `Batch` | |
| `Types` | `infer_name_types`, `mark_address_temps`, `infer_types_from_conditions`, an action per statement and round | |
| `ValueFlow` | `analyze_flows` on the statements that were typed, and the function running | `EXTENDS Types` |
| `ValueFlowProofs` | theorems about `Types` and `ValueFlow` | |
| `JumpTable` | `recover_jump_tables` and what it reads out of the file, and the processor running the dispatch | |
| `JumpTableProofs` | theorems about `JumpTable` | |
| `MemoTable` | abstract: a memoized function called by many | |
| `DemangleCache` | `demangle_swift_native` called by any number of threads | `INSTANCE MemoTable` |
| `DemangleCacheProofs` | theorems about `DemangleCache` | |
| `MC...` | values of the constants for TLC | |

The components are joined where the code joins them. `CfgBuild` ends in a graph
that belongs to `Cfgs`, the set `Dominators` starts from (`BuiltIsCfg`), so
what is checked and proved of dominators holds of what `build` produces.
`SsaConstruct` runs on the very table `Dominators` computes, imprecise as it
is, and not on an ideal one. `BlockPipeline` runs each pass on what the passes
before it really leave.
`Regions` takes any graph of `Cfgs`, with the headers `CfgBuild` finds.
`ValueFlow` analyzes the statements `Types` has gone over, `Xrefs` scans the file
whose functions `Batch` has listed, and `DemangleCache` implements `MemoTable`.

A comment `Mutant: ...` marks a definition that is not part of the model: it
is the definition that follows it with a plausible mistake, used to
confirm that the properties can fail.

### How the modules correspond to the code

`Dominators`. The recursion of `dfs_post` is the stack `path` with, per block, the
index `nxt` of the successor to look at; `post` is kept as its inverse `num`.
`rpo_idx` is 0 for a block that is not in the order, as in the code. A sweep is
`StartSweep`, `NextBlock` for each block, one action per predecessor
(`SkipUnreached`, `FirstPred`, `BeginIntersect`) in ascending order, one per
step of a finger, and `SetIdom`. The table starts as all zeroes.

`SsaConstruct`. Registers do not interact, so the module has one. Each block
reads it and then assigns it or not, which gives every pattern of upward-exposed
reads and assignments a block can have towards other blocks. `rename_block` is
split at its recursive calls, where another block's steps come in between.

`CfgBuild`. An instruction is what the predicates of `cfg.rs` can tell apart.
Every constructor loop is an action per iteration. After construction the
module executes the instructions, an indirect jump going anywhere, and the properties compare the graph with
what execution does; nothing in them refers to how the graph was built.

`BlockIr`, `BlockPasses`, `BlockPipeline`. An expression is a tree and a
statement a record; a memory operand is opaque to the passes, as the text in
`Expr::Mem` is, and is a frame slot or the register it dereferences. A pass is
a function from the statements of a block to its statements, written as a fold
where the code has a loop with a map. Functions are straight lines: calls,
and jumps and conditional branches to the next instruction, cut them into
blocks, as `FunctionCfg::build` does, and there are no joins, so that
`construct_ssa` places no phi and `strip_phis` has nothing to do. A comparison
leaves no statement; the condition of its block is kept in `conds`, with the
register it tests beside the expression it shows for it, which `recover_frame`
rewrites. The code runs the default passes block after
block and the model pass after pass; the passes do not look at other blocks,
so the results are the same. `Eval`, `Run`, `Meaning` and `CallsMade` are
vocabulary for the properties and model nothing of the code: they say what
calls with which arguments a function makes, what it leaves in the frame and
what it returns.

`Regions`. `build_from_loop` is `BuildFrom`, one operator per case of its
`match`, each of which goes on with the rest of the list as the code's
`continue` does; `st` is the pair of `visited` and `parts`. The variants inside
and outside of a loop differ in the loop context only and share an operator.
Of the statements of a block the functions ask whether there are any, which is
`full`. `Build` is the whole call. `RunBlock` and `RunTest` then run the text of
the tree (`text` is what is left of it, as a list of regions) and the graph
(`at`) in lockstep, with every outcome of every test.

`SourceText`. A step of `decompile_macho_symbol` after `decompile_insns` is an
action, which does nothing when its condition fails; `input` says which
conditions hold. Of the source only the places that name a parameter are kept:
the prototype, the statements and the switch of a jump table. The conditions of
branches name none: they are rewritten to locals before the names of
parameters reach the statements (`locals.rs:70`). Text is a sequence of names,
so that replacing whole identifiers is replacing elements. `ApplyNames` replaces one name
after the other in the order `Order`, which the code takes from the lengths of the names; a
constant, since the theorems hold in every order. `proto` is `frame.objc_method_proto`, which a method gets with its
source and which `apply_dwarf_names` leaves as it is.

`Batch`, `Xrefs`. Addresses count instructions. A symbol is an address and a name,
a name its underscores, the rest, and what the rest starts with, since that
is what the filters ask; their order in the table is arbitrary. One action lists the
functions and one per function looks it up and finds its bounds. `Xrefs` scans the same file
an instruction per action; `regs` and `values` are the processor running the text
beside the scan, as far as the text tells what a register holds: a call clobbers all but x19 to x28, and where control
may come from elsewhere nothing is known. The call graph is built from the starts the bounds use.

`Types`, `ValueFlow`. An expression is one operator with two operands and a
statement what the inference and the analysis tell apart. The loops over
statements are an action per statement, the rounds over the copies an action
each, with the number of rounds as a constant. `FlowStmt` makes the analysis and
a run of the function take the same statement, or the analysis alone: the
statements a run leaves out are those it branches over. What the values of names and registers derive
from (`real`, `held`), what has come by names alone (`direct`) and what a sink was given (`leaks`) belong to the run;
values in memory and in floating-point registers are not traced.

`JumpTable`. An instruction is its kind, three registers and an immediate.
`Matches` is the chain of early returns of `try_recover_at`; `Recover`,
`Advance` and `Fail` are its three outcomes, and after the scan `Step` and
`Leave` are the processor. Tables are bytes of a file and entries are put
together from them as the code does, with sign or without. An image says where its
compiler has put the pieces of each dispatch, which the scan does not look at; `Regular` is what the
properties assume of it: the pieces are of one of the two forms the code knows, within its distances, with
anything between them that uses none of their registers, and nothing near enough is mistaken for one.

`DemangleCache`. A call is two critical sections with the run of the tool between
them. The mutex itself is not a variable: each critical section is one action,
which is what the lock makes of it. `Reliable` are the names for which the tool answers
alike every time; the tool is outside of the code. That the lock is poisoned
(`swift_native.rs:22`, `:29`) is left out, since nothing panics while it is held.

## Checks

| Run | Instance | Properties | Shows |
|---|---|---|---|
| `dominators` | every producible graph of 4 blocks | `RpoSound`, `ClimbsAscend`, `IdomSound`, `EdgesRespectTree`, `IdomImmediateIfAcyclic`, `Terminates` | the order is sound, the sweeps end, entries dominate, edges respect the tree; on acyclic graphs the dominators are immediate |
| `ssa` | every graph of 4 blocks that does not branch to the first instruction, every choice of assigning blocks | `ReadsReachingDef`, `PhiTakesReachingDef`, `SingleAssignment`, `ConstructEnds` | reads and phi operands name what reaches them; versions are assigned once; the construction ends |
| `ssa_entry_loop` | graphs of 3 blocks, branches to the first instruction allowed | `LoopReadsReachingDef` | violated: a loop through the first block gets no phi |
| `cfg_build` | every function of up to 4 instructions | `BlocksPartition`, `BuiltIsCfg`, `HeadersCutCycles`, `TransfersAreEdges` | partition; the edges are the transfers the processor can make, with the exceptions named below; every cycle has a header; the result is in `Cfgs` |
| `demangle_cache` | 3 threads, 2 calls each, 2 names, a tool that may fail for one of them | `OneForkPerThread`, `SettledStays`, `Memoizes` | one run per thread and name; once no thread that missed a name is left, its answer is final; for names the tool answers alike the table implements a memoized function, liveness included |
| `block_pipeline` | every straight-line function of up to 4 of 18 instructions | `CallsKept`, `SingleAssignment`, `ConditionsKept`, `PassesKeepMeaning`, `DeadCodeKeepsMeaning`, `CopiesKeepMeaning` | the calls made stay the same, versions are assigned once, conditions show what is tested, and passes keep the meaning |
| `regions` | every graph of 4 blocks; every structured program of 10 blocks | `NoBlockLost`, `TextFollows` | the tree is legal and holds every block with statements; the text of a structured program does what its graph does |
| `plain_if` | structured programs of 6 blocks with `if` | `LatchesJumpBack` | violated: an `if` without else makes a `do` loop |
| `source_text` | functions and methods of up to 3 parameters, 3 names of the user, 4 lists in DWARF | `OneNameEach`, `ResultAgrees`, `UserNamesShown`, `StayDistinct` | one name for a parameter in all of the source; without the user's renames frame and statements agree with it; replaced names stay replaced, two parameters have two names |
| `xrefs` | every table of 2 of 50 symbols, with LC_FUNCTION_STARTS, around 3 instructions; every text of 4 of 18 instructions | `RangesDisjoint`, `OwnAddress`, `DataTargetsReal`, `CallersContainSites` | the batch decompiles what it lists, ranges are disjoint, callers have the calls in their ranges, an add refers to what it computes where the way from its page is straight |
| `names` | every function of up to 3 of 15 statements about types, and of 18 about flows | `TypesOnlyRise`, `CopiesAgree`, `SettlesInTime`, `FlowsFound`, `FlowsReal` | types only rise, copies agree at the fixpoint and reach it in time; flows by names on forward paths are found and none is made up |
| `jump_tables` | one dispatch of 3 forms with gaps up to the distances of the scan, after 4 prefixes; two in a row | `SwitchAgrees`, `NoDispatchMissed` | the processor goes where the recovered switch says; no dispatch in reach is missed |

The properties of passes name the assumptions under which a pass keeps what the
function does, since without them it does not (see Findings): `CarriesOnlyResults`,
`NoTextNamesRegister`, `Undisturbed`, `TempsReadOnce`, and `Outdated` for
conditions, and `DropsUnseen` for the loads of arguments: a memory text is opaque to the passes, so a
load that a dereference reads before the call has not been bound to it. For versions, copies of versions and `x = x`
`PassesKeepMeaning` assumes nothing. `AssignedOnce` plays that part in `FlowsReal`, `Straight` in
`DataTargetsReal`, and `Buried` and `Dangling` in `TransfersAreEdges`, where they except single instructions
of a function and not the function.

A run that is violated states what a comment or the plan of the repository
says, and finds where the code does otherwise. `PROJECT.json` quotes the
sentence for each under "findings".

### Bounds

- Four blocks. A graph of four blocks can have nested and overlapping loops,
  irreducible cycles, doubled edges, unreachable predecessors and a join below
  a join; three sweeps occur. Three blocks already show the loop through
  the entry.
- Four instructions: four blocks at the most, jumps both ways, a block of more
  than one instruction, a target outside the function.
- Three threads, two names, two calls: two threads race while a third finds the
  stored answer; a thread asks again for what it knows, and for another name
  in between.
- Eighteen instructions over two registers and two slots, one of them a jump that
  only ends a block, one a comparison that does and has a condition. Four of them
  are a load, a change of what was loaded, a read and an end of the block. x0 is both argument and result, x19 survives calls: the
  passes make no other difference between registers than that. Two slots are
  needed for one to be a spilled argument and the other not.
- Ten blocks of structured code hold a compound statement inside another with
  the plain statements around them, or two in a row, and a loop left from the
  arm of an if. Four blocks of arbitrary code, with or without statements, hold
  overlapping loops, arms that share code, and code nothing leads to.
- Three parameters: a receiver, one that has a name in DWARF and one that has
  none; the user replaces up to three names, each generated, `self` or from DWARF. New names are
  not names the decompiler uses, so that the order of the replacements does not
  matter (`FreshNames`).
- Two symbols: at one address or two, in the text, before it and behind it, alike up to
  underscores, a private label inside a function or called like one. Four instructions are an adrp, its add and two in between or
  after, over two registers that hold pages, one of which calls keep; they are overwritten by calls, loads, moves and sums, and
branches lead in between or not, so that the texts have pages that are stale as well as straight ways.
- Three statements and four names, one of them `self`: a source or evidence, a copy and
  a use; one register that holds the result of a source. Three rounds over the copies instead of eight: two copies that evidence travels
  against take all three, so that with one round less `SettlesInTime` fails.
- Jump tables: gaps of 0 and of the largest distance on either side, filled with nops and sums, values up to one
  past the largest case, tables in the file, behind it and at other bytes of it; entries are bytes,
  words and offsets, back and forth. All images are `Regular`; the theorems take any image and any
  `Regular` dispatch.
- Values are numbers modulo the prime 30011. Values from outside (arguments,
  memory, results of calls) are far apart, so that two short sums agree only
  when they are sums of the same values. It is a property of these constants
  and not of arithmetic: a difference TLC reports is a difference, while a
  missed one would need a coincidence.

### Fairness and deadlock

`Dominators` is a sequential function that runs to its end: `FairSpec` is weak
fairness of its only step, and `Terminates` says it returns. In `DemangleCache` the
operating system runs every thread that is inside the function, the mutex is
free while the tool runs, and the tool exits: weak fairness of each thread's
step, and none for making calls. That gives the calls of `MemoTable` the weak
fairness of being answered. `SsaConstruct` is sequential like `Dominators`:
`SsaFairSpec`, and `ConstructEnds`. The other specifications state no liveness
and need no fairness.

Runs of `BlockPipeline`, `Regions`, `SourceText`, `Xrefs`, `ValueFlow` and `JumpTable` turn off the deadlock check:
the pipelines end with their last step, a program with its return or the end of its statements. The other modules have an explicit last step (`Done`, `Stop`,
`Leave`), so that a deadlock there would be a mistake.

## Proofs

TLC checks the instances above; the theorems hold for every value of the
constants, under the assumptions declared beside them.

**`DominatorsProofs`**, for every number of blocks `N` and every graph in
`Cfgs`, from `NAssumption` (there is at least one block).

- `TypeCorrect`: `Spec => []TypeOK`.
- `OrderSound` (`RpoSound`): the reverse postorder lists exactly the reachable
  blocks and gives each but the entry an earlier predecessor.
- `Ascending` (`ClimbsAscend`) and `Progressing` (`FingersProgress`): every
  entry points up in the order at every moment, and `intersect` always has a
  finger to move.
- `EdgesRespected` (`EdgesRespectTree`): at the end, the dominator of a block is
  at or above each of its predecessors in the tree. SSA renaming relies on it.
- `TableSound` (`IdomSound`): every entry of the table dominates its block. The
  table may be imprecise and is never wrong.
- `TableExact` (`IdomImmediateIfAcyclic`): when all edges go down the order, every strict
  dominator of a block dominates its entry, so the table is exact.

The inductive invariant `IInv` is a conjunction. `DfsInv` describes the
search while it runs: the active calls are a path of edges, a block with a
number has all of its successors seen, and blocks still active are numbered
after those they reach. `DfsDone` is what remains when it has ended: numbered
blocks are closed under edges. `DfsFirst` gives each block the predecessor it
was entered from, which is later in postorder. `SweepInv` says that entries
point up and that the candidate and the fingers stay above the block the sweep
is at. None of the safety properties is inductive alone: that a finger moves
needs entries that point up, which needs that a candidate exists for every
block, which needs an earlier predecessor, which needs the search. The theorems about the
finished table use two invariants beside it, which record what a sweep without changes has
established for the blocks it has passed: `FixInv`, and `SoleInv` for a block with a single
predecessor, whose entry is that predecessor. `TableExact` goes the other way and by `ExactInv`: when a block is
visited its predecessors are exact already, the fingers stay below every block that
dominates what has been folded, and a dominator is a set of blocks cut off from the entry,
so that the argument is about sets closed under edges and not about paths.

**`SsaConstructProofs`**, for every number of blocks, every graph of `Cfgs` and
every choice of assigning blocks.

- `RunsDominators`: every step of the construction is one of `Dominators` or leaves its
  variables alone, so what is proved there holds here.
- `VersionsSingle` (`SingleAssignment`), from `VersionInv`: nothing is renamed before the walk, the
  counter is ahead of every version given, and those given differ. `SingleAssignment` alone is not inductive, since it
  does not say that the next version is new.
- `ReadsPreserved` (`ReadsReachingDef`) and `PhisPreserved` (`PhiTakesReachingDef`): on every path the
  program takes after the construction, a read names the version assigned last and a phi takes it. This is
  the claim of the component: it is proved for graphs whose entry is no target (`~EntryIsTarget`), because it is
  false for others, as the run `ssa_entry_loop` shows.

The argument has four layers, an invariant for each. `TableInv` collects what is known of the finished table.
`PlaceInv`: a block that assigns, or has its phi, is on the worklist or has phis in all of its frontier.
`RenameInv`: the top of the stack is what the block in progress leaves behind, each active call remembers where to
cut it, and a block the walk has entered starts with its phi or with what its dominator leaves. Only
here it matters that the tree is not the dominator tree: an edge is shown to arrive either at a child, at a
block with a phi or at one whose dominator is at or above the source with no assignment in between.
`RunInv`: the block that runs reads the version assigned last. `InOrder` gives the order of children
its two properties, that it lists each once and that it is sorted.

**`CfgBuildProofs`**, for functions of every length, from `MaxInsnsAssumption`.

- `Partitioned` (`BlocksPartition`): the blocks are consecutive ranges that cover the function.
- `GraphBuilt` (`BuiltIsCfg`): the result is a graph of `Cfgs`, from which `Dominators` starts. With the
  theorems above this carries over to every function: the table, and the versions if nothing branches to the first instruction.
- `EdgesFollow` (`TransfersAreEdges`): an action property of the processor running beside the graph, for every function,
  whatever follows its jumps and returns. Nothing is said of the step of an indirect jump, of one that is `Buried` in its
  block, and of a conditional branch behind which the function ends (`Dangling`).
- `CyclesCut` (`HeadersCutCycles`): every cycle of blocks has a header.

`LeadersInv` says which leaders the first pass has found, `BlocksInv` that block `b` starts at the
leader with `b` leaders below it; the lemmas about `IdOf` show that this count numbers the leaders in order. A cycle has a
least block, which is jumped to by one that is not below it, and `HeadersInv` says such targets are noted.

**`ValueFlowProofs`** on `Types`, for any names, functions and number of rounds, from `SelfAssumption`,
`MaxRoundsAssumption` and `CodeAssumption`.

- `TypesTypeCorrect`: every name has a type of the lattice.
- `EvidenceKept` (`TypesOnlyRise`): no step takes a type back. The lemmas say that
  `Below` is an order and `Merge` its join, and that
  each function that reads a statement only raises types.
- `FixpointAgrees` (`CopiesAgree`): a round works in place and looks at each copy
  once, so that a copy may be undone by a later one. `RoundInv` says that
  types have risen since the round began, and that if they are still as
  they were then every copy passed so far agrees: with an order, what
  has risen and is the same at the end has never changed.
  `AddressInv` says that the sums of frame addresses are pointers already when the loop
  after the rounds makes pointers of them, so that it does not undo the agreement.
- `RoundsSuffice` (`SettlesInTime`): with fewer copies than rounds the inference settles; nothing is said of longer chains. `CountInv` counts the copies
  that are done: those both sides of which have the greatest type of any set of names that copies connect.
  Every round that changes something does another one, so the count is at least the number of rounds passed.

On `ValueFlow`, for any names and functions, from the same assumptions:

- `TypedForFlows`: what is proved of the types holds where the search for flows goes on from them.
- `AllFlowsFound` (`FlowsFound`), from `CoverInv`: a name whose value derives from a source by names alone is
  tainted, whatever branches skip. Flows through registers are no part of it, as the analysis does not follow them.
- `NoFlowMadeUp` (`FlowsReal`), from `RealInv`: when every statement runs and every name is assigned once, the taint of a name
  is one of the sources its value derives from.

**`XrefsProofs`**, for any symbols, function starts and text, from `InputsAssumption` and `CodeAssumption`.

- `RangesApart` (`RangesDisjoint`) and `ListedAddress` (`OwnAddress`), from `ListInv`: each function is the answer to its lookup, and ends at the least start
  behind it or before. Every function of the batch is such a start, unless a private symbol has its name.
- `DataTargets` (`DataTargetsReal`), from `ScanInv` and `PageInv`: for any text, when the way from an instruction that
  loads a page is straight (no joins, no call that clobbers the register, no write the code overlooks), a page that
  is still pending is the one the processor holds.
- `CallersFound` (`CallersContainSites`): the greatest start at or before a call is that of the range it is in.

**`JumpTableProofs`**, for any code, data and dispatches, from `ImagesAssumption`, `DataAssumption` and
`IndicesAssumption`.

- `SwitchIsRight` (`SwitchAgrees`): the case shown for a value is where the processor goes with it, and the default is
  where it goes with the values that have no case.
- `EveryDispatchFound` (`NoDispatchMissed`): a scan that comes to its end has the table of every indirect branch taken.

Two invariants meet in the image. `ScanInv` is about the scan: every table is the one of a dispatch, and those behind
the scan have theirs or an empty one. It goes by `MatchIs`: in a `Regular` function the first comparison, condition and branch in
reach are those of one dispatch, and by `Disjoint`: no other dispatch begins where the scan jumps over.
`RunInv` is about the processor: inside of a dispatch (`Passed`) each register holds what the pieces
passed so far have put into it, and the entry that was loaded lies in the file; `LeftInv` is what follows when control leaves.
`CaseIs` puts both together: what was read of the section agrees with it byte by byte (`ReadBytes`), so the entry
the processor loads is the one the case was made of. Neither property is inductive, since both speak of the moment control leaves.

**`SourceTextProofs`**, for any number of parameters, any lists in DWARF, any injective map of the user and any order of replacement, from
`ParamNameAssumption`, `MaxParamsAssumption`, `FreshNames` and `ListsAssumption`.

- `NamedAlike` (`OneNameEach`) and `UserNamesKept` (`UserNamesShown`): prototype, body and switch of the source have one
  name for each parameter, and no name the user replaced comes back.
- `ResultNamed` (`ResultAgrees`): without renames of the user, frame and statements have the names of the source, since
  only the source is renamed by them; and the prototype that the frame keeps names the parameters of the frame, unless DWARF
  lists some (`ProtoInv`).
- `NamesDistinct` (`StayDistinct`): two parameters have two names, if no list has a name twice or the name `self`.

`ApplyIsSub` is the lemma the rest goes by: replacing one name after the other is one substitution when no name that comes in
is still to go, in whichever order. The invariant is that of the steps: before DWARF the frame has generated names with perhaps
a receiver in front (`Slots`), and the body is the frame with the user's names (`TextInv`).

**`DemangleCacheProofs`**, for any sets of threads and names and any number of
calls, from `NamesAssumption`, `ReliableAssumption` and `MaxCallsAssumption`.

- `TypeCorrect`; `ForkBound` (`OneForkPerThread`), from `ForkInv`: a thread past
  the lookup has not run the tool for that name before, and one that has
  run it and is idle finds the name stored.
- `AnswersRight` (`MemoIsAnswer`) for the names the tool is `Reliable` for, from
  `AnswerInv`: what is stored, held by a thread or returned is the tool's
  answer for the name.
- `AnswersSettle` (`SettledStays`), whatever the tool does: a name that is stored and that no thread is
  still running the tool for keeps its answer, and every later call returns it.
- `ReturnMemoizes` (`ReturnedIsCached`), whatever the tool does.
- `RefinesMemo`: for the names in `Reliable` the table is an implementation of
  `MemoTable`, step by step, whatever the tool does for the others. A call takes effect when it returns, so the map sends
  the answers returned to `memo` and whoever is inside the function to `asked`.
  `ReturnAnswers` is the step that answers: what a thread returns is what the tool
  answers, by `AnswerInv`, and so is what anyone returned before.

Arguments that would be inductions (over postorder numbers, indices, rounds) are made with least members of sets of
numbers: the induction theorems of the library take an operator and cannot be used here.

The type invariants of `Dominators`, `DemangleCache` and `Types` are proved and not among the
properties of the runs.

### What the proofs changed

Where a proof did not go through for a reason, the model or the property was at fault:

- `FlowsFound` is false for some functions: sinks in the address of a store are not looked for either, and
  the run had no such function. The property excepts them now.
- `RangesDisjoint` is false if a private label is called like a function; `LabelsApart` says so in the
  property, where the inputs of the run had left it out silently.
- `DataTargetsReal` had its condition in the choice of instructions. It is `Straight` now, part of the property and asked of each reference
  and not of the text, and the run has texts that do not meet it.
- `TransfersAreEdges` held only of functions in which a branch leads behind every jump and return; `CfgBuild` starts from all functions now
  and the property excepts instructions.
- `CASE` arms of `Regions` overlapped, and the meaning was that of the order TLC takes; they are disjoint.
- The order of children in SSA came from an operator on sequences that cannot be reasoned about; `InOrder` is a definition by what it does.
- `SwitchAgrees` and `NoDispatchMissed` held for the images of the run and not for all: words behind an island with a sign, a
  second load or comparison, an entry behind the last whole word. `Regular` states what they need, and the images now have instructions in the gaps.
  The processor of the model read words past the end of the file and compared with sign; the recovery took a word
  that is cut off for the bytes there are, and not for 0 (`WholeWord`).
- The order in which names are replaced and the names of parameters are constants of `SourceText`.

### Only model-checked

- `Terminates`, `ConstructEnds` and the fairness part of `Memoizes`: liveness and ENABLED are out of the prover's reach.
- `BlockPipeline` (`CallsKept`, `SingleAssignment`, `ConditionsKept` and the properties of passes) and `Regions` (`NoBlockLost`,
  `TextFollows`): expressions and regions are trees handled by RECURSIVE operators, which TLAPS does not
  support, and what a pass does to an expression of any depth is an induction over data.

## Findings

A run shows each of these:

- A loop through the first block gets no phi (`ssa.rs:38`).
- An `if` without else makes a `do` loop of the code after it (`region.rs:475`).

The models behave as the code does in these cases too, and no run states them;
the properties of the passing runs are worded, or their inputs chosen, so that
they do not depend on them:

- The dominators need not be immediate when the function has a loop, as the
  comment of `immediate_dominators` says they are: the table starts as all
  zeroes and not undefined (`cfg.rs:188`). `IdomImmediateIfAcyclic` is the part that holds;
  `IdomSound` and `EdgesRespectTree` are what SSA needs of the rest.
- The second source for an Objective-C method is made without the switches of
  the jump tables, which the result still lists (`decompile.rs:239`).
- The list of a method in DWARF starts with `self` and `_cmd`, and the pairing
  skips `self` on the other side only: the second parameter becomes a second
  `self` (`dwarf.rs:240`). `MethodLists` is empty in `source_text`. The prototype of a
  method takes its first argument for the second parameter, which is `_cmd`
  where that is spilled (`objc_proto.rs:121`).
- The prototype of a method that the frame keeps has the names from before DWARF (`decompile.rs:275`), and those from before
  the renames of the user.
- Replacing pair after pair, a map that swaps two names gives both the same one
  (`rename.rs:78`). `FreshNames` leaves such maps out.
- An assignment is folded into the return past an assignment of what it reads:
  `x19 = x0; x0 = x0 + x0; x0 = x19; return x0` returns the sum (`pass.rs:267`).
- Of two functions whose names differ by underscores the batch decompiles one
  twice, or none if the first is outside of the text (`decompile.rs:526`). `OwnAddress`
  excludes such names. A C function that is called like a private label finds the label,
  inside another function (`bounds.rs:61`).
- The page of an adrp stays pending when a load, a register move, a call or an add of another register overwrites it,
  against the comment at `xrefs.rs:235`, and where branches join; an add that writes another register
  ends the life of a page that is still there (`xrefs.rs:216`). `Straight` leaves the former out; the texts of `xrefs` have all of these.
- A return or jump followed by code nothing branches to, as between the cases of a switch that `br` reaches, is buried in
  a block that goes on behind it (`cfg.rs:64`), while `decompile.rs:512` wants early returns to stay in the graph. `cfg_build` has such
  functions, and `TransfersAreEdges` excepts these instructions.
- The load of an argument is dropped, however far the call, past a dereference that reads it:
  `x0 = local; x19 = *(x0); x0 = f(local)` then reads the old x0, against the comment at `pass.rs:357`. `DropsUnseen`
  excepts such blocks, which `block_pipeline` has.
- Loop headers are read off the layout whether or not there is a loop (`cfg.rs:131`). A conditional branch behind which
  the function ends has no edge to its target (`cfg.rs:298`).
- A name that is assigned anew stays tainted (`value_flow.rs:224`). Not found are sinks in the operand of a
  return (`value_flow.rs:198`), flows along a branch back, the result of a source that is copied to its name through
  a register (`:214`), which the functions of `names` have, and a source that is itself
  the argument of a sink.
- Sums of names typed floating are typed int (`types.rs:201`). Chains of copies longer than
  eight rounds stay half typed (`:122`). Conditions are read after the copies and need not agree
  with them. Types and findings keep the names from before the renames of `SourceText`.
- A comparison with an immediate within four instructions before the `b.hi`, or a range check within sixteen before the `br`, is
  taken for that of the dispatch; `b.ls` counts as `b.hi`; another load or address in the
  window changes the size or the table (`jumptable.rs:86`). Halfword tables are read as bytes (`:146`), words from a
  base get the index added, negative words behind an island are not sign-extended. One table outside of
  the file loses all of the function (`decompile.rs:180`), and the switch is shown on the first
  parameter, whichever register is dispatched on (`decompile.rs:183`). `Regular` leaves the former out.
- The tool can run once per thread for a name, and a failing run can replace a good
  answer (`swift_native.rs:28`, `:30`). `SettledStays` says when this is over,
  and `Memoizes` is about the names the tool answers alike.
- A register loaded from a local stands for it after the local was assigned
  again (`pass.rs:131`), and what only a later block reads is removed as dead, since the default
  passes run block by block before there are versions (`pass.rs:436`). Memory texts that name
  a register do not count as uses of it, nor do conditions: a condition can name a register whose
  assignment is gone.
- A condition shows the name of the last load of its register in the block, also if the slot was stored to or the
  register computed anew in between (`locals.rs:415`). `Outdated` leaves these out.
- Uses keep a version that the assignment they name has lost (`ssa.rs:317`).
- The slots at the bottom of the frame and just above it get one name
  (`locals.rs:176`). `subs`, `adds` and `ands` before a conditional branch leave no
  statement (`lift.rs:230`).
- `0 + x` is simplified to `0` (`pass.rs:93`); a temporary that is stored and
  returned loses its assignment (`pass.rs:222`); liveness by register removes
  versions that are read (`pass.rs:438`); the first store of x0 becomes the
  parameter whatever x0 holds (`locals.rs:200`).
- `build_regions` misreads structured programs when a conditional branches to a block
  that an earlier jump enters as well: any `if` without else, a `do` or a
  compound statement that begins an arm or directly follows another
  (`region.rs:475`); a nested if-else of which one arm returns (`region.rs:539`); a
  `do` whose body branches, which is flattened (`region.rs:263`). The statements of
  the header of a `while` are dropped (`region.rs:167`). `StructuredCode` leaves
  these shapes out, so `regions` shows that the rest is right.

## Not modelled

Text: the folding of comparisons into text, the layout of the emitted text, Swift and
Objective-C rewriting, the reading of DWARF, JSON and signatures build or parse text and keep
no state of their own. Of the passes, functions with joins, message sends and
statements that only hold an expression. Of `ssa.rs`, `phi_canonical_map`, which
is never called. Of `locals.rs`, the offsets and the wording of slot names. Of emission, the recognition of `switch` and `for`. Of
`modes.rs`, the downgrade. Of
`Regions`, the text of conditions: `invert_cond` is taken to invert, which it
does for a single comparison. Of types, the return type and expressions deeper than one operator; of value flow, the
matching of rules with names. Of the prototypes kept in the frame, that of a Swift function. `MethodPrototype` takes the
index of `objc_proto.rs:121` as given. Of jump tables, the removal of the dispatch from the
statements.

## Plan

Done: everything in the table of modules.

Left, in this order:

1. Proofs: `SingleAssignment` of `BlockPipeline`, with expressions as records of bounded depth instead of trees.
2. The passes on versions over blocks with joins, on top of `SsaConstruct`.
3. The downgrade of `modes.rs` in `SourceText`; with `Regions`, the `switch` and `for` of `emit.rs`.
