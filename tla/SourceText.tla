----------------------------- MODULE SourceText -----------------------------
(***************************************************************************)
(* The names of parameters in the result of `decompile_macho_symbol`       *)
(* (decompile.rs).  The result holds them three times: in the frame, in    *)
(* the statements of the blocks and in the source, which is emitted up to  *)
(* three times and then edited as text.  Each step that replaces or edits  *)
(* one of them is an action.                                               *)
(*                                                                         *)
(* Of the source only the places that name a parameter are kept: the       *)
(* prototype, the statements, and the switch of a jump table.              *)
(***************************************************************************)
EXTENDS Integers, Sequences, SequencesExt

CONSTANTS
  ParamName,    \* the generated names of parameters: param_1, param_2, ...
  MaxParams,    \* parameters of a function
  DwarfLists,   \* what DWARF may list as the parameters of a function
  MethodLists,  \* the same for an Objective-C method
  UserNames,    \* names the user gives
  Order         \* the names to replace, the longest first

ASSUME ParamNameAssumption ==
  /\ ParamName \in Seq(Range(ParamName)) /\ ParamName # << >> /\ IsInjective(ParamName)
  /\ "self" \notin Range(ParamName)
ASSUME MaxParamsAssumption == MaxParams \in 0 .. Len(ParamName)

DwarfNames == UNION {Range(d) : d \in DwarfLists \cup MethodLists}

Old == Range(ParamName) \cup {"self"} \cup DwarfNames

ASSUME FreshNames ==
  /\ DwarfNames \cap Range(ParamName) = {}
  /\ UserNames \cap Old = {}

\* A name that comes in is never one still to go, so any order will do.
ASSUME ListsAssumption ==
  /\ Order \in Seq(Old) /\ Range(Order) = Old
  /\ \A d \in DwarfLists \cup MethodLists : d \in Seq(DwarfNames)

VARIABLES
  input,        \* what the file and the options hold
  step,         \* the step to take next
  params,       \* frame.params
  proto,        \* the names in frame.objc_method_proto, once it is set
  stmts,        \* the name block_stmts have for each parameter
  source,       \* the source
  jumpTables    \* have jump tables been recovered?

result == <<params, proto, stmts, source, jumpTables>>
vars == <<input, step, result>>

Steps == <<"insns", "jump tables", "objc", "dwarf", "done">>

-----------------------------------------------------------------------------
(* Renaming (rename.rs).  A map is a function on the names it replaces.    *)

Replace(names, old, new) == [k \in DOMAIN names |-> IF names[k] = old THEN new ELSE names[k]]

\* Whole identifiers, one name after the other.
ApplyNames(map, names) ==
  LET applied[n \in 0 .. Len(Order)] ==
        IF n = 0 THEN names
        ELSE IF Order[n] \in DOMAIN map THEN Replace(applied[n - 1], Order[n], map[Order[n]])
        ELSE applied[n - 1]
  IN  applied[Len(Order)]

Apply(map, text) == [part \in DOMAIN text |-> ApplyNames(map, text[part])]

-----------------------------------------------------------------------------
\* format_objc_method_prototype: the arguments of the selector have the
\* names of the parameters after the receiver.
MethodPrototype(ps) == [k \in 1 .. input.args |-> IF k < Len(ps) THEN ps[k + 1] ELSE "arg"]

\* finalize_source, with the prototype format_prototype chooses.
Emit(ps, body, method) ==
  [prototype |-> IF method THEN MethodPrototype(ps) ELSE ps, body |-> body, switch |-> << >>]

\* What the switch of a jump table is on: a parameter, if there is one.
First(names) == SubSeq(names, 1, IF names = << >> THEN 0 ELSE 1)

Renamed(text) == Apply(input.user, text)

Advance == step' = step + 1 /\ UNCHANGED input

At(name) == Steps[step] = name

\* The receiver of a method is `self`.
WithSelf(names) ==
  IF names # << >> /\ names[1] = ParamName[1] THEN Replace(names, ParamName[1], "self") ELSE names

UserMaps == UNION {[S -> UserNames] : S \in SUBSET Old}

Init ==
  /\ input \in [params : 0 .. MaxParams, sends : BOOLEAN, tables : BOOLEAN, method : BOOLEAN,
                args : 0 .. MaxParams, dwarf : DwarfLists \cup MethodLists,
                user : {m \in UserMaps : IsInjective(m)}]
  /\ input.dwarf \in IF input.method THEN MethodLists ELSE DwarfLists
  /\ input.args > 0 => input.method
  /\ step = 1
  /\ params = SubSeq(ParamName, 1, input.params)
  /\ proto = << >>
  /\ stmts = params
  /\ source = Emit(<< >>, << >>, FALSE)
  /\ jumpTables = FALSE

\* decompile_insns: rename_objc_self if the body sends messages, the first source.
DecompileInsns ==
  /\ At("insns") /\ Advance
  /\ params' = IF input.sends THEN WithSelf(params) ELSE params
  /\ stmts' = IF input.sends THEN WithSelf(stmts) ELSE stmts
  /\ source' = Renamed(Emit(params', stmts', FALSE))
  /\ UNCHANGED <<proto, jumpTables>>

\* Mutant: the switch is on the register of the first parameter, whatever
\* name it has by now.
RecoverJumpTablesFirst ==
  /\ At("jump tables") /\ Advance
  /\ jumpTables' = input.tables
  /\ source' = IF input.tables
               THEN Renamed([Emit(params, stmts, FALSE) EXCEPT !.switch = First(ParamName)])
               ELSE source
  /\ UNCHANGED <<params, proto, stmts>>

\* A new source with the switches, on the first parameter, after its brace.
RecoverJumpTables ==
  /\ At("jump tables") /\ Advance
  /\ jumpTables' = input.tables
  /\ source' = IF input.tables
               THEN Renamed([Emit(params, stmts, FALSE) EXCEPT !.switch = First(params)])
               ELSE source
  /\ UNCHANGED <<params, proto, stmts>>

\* Mutant: the statements are forgotten.
ObjcMethodFrameOnly ==
  /\ At("objc") /\ Advance
  /\ params' = IF input.method THEN WithSelf(params) ELSE params
  /\ proto' = IF input.method THEN MethodPrototype(params') ELSE proto
  /\ source' = IF input.method THEN Renamed(Emit(params', stmts, TRUE)) ELSE source
  /\ UNCHANGED <<stmts, jumpTables>>

\* A method of the metadata: a new source with its prototype, which the frame
\* keeps as text.
ObjcMethod ==
  /\ At("objc") /\ Advance
  /\ params' = IF input.method THEN WithSelf(params) ELSE params
  /\ stmts' = IF input.method /\ params' # params THEN Replace(stmts, ParamName[1], "self") ELSE stmts
  /\ proto' = IF input.method THEN MethodPrototype(params') ELSE proto
  /\ source' = IF input.method THEN Renamed(Emit(params', stmts', TRUE)) ELSE source
  /\ UNCHANGED jumpTables

\* Mutant: the index into the list never moves.
DwarfPairsStuck(ps, dwarf) ==
  [p \in {ps[k] : k \in {j \in DOMAIN ps : ps[j] # "self" /\ dwarf # << >>}} |-> dwarf[1]]

\* The parameters up to k that take a name of DWARF.
Takers(ps, k) == {j \in 1 .. k : ps[j] # "self"}

\* dwarf_param_renames: the names in order, `self` takes none.
DwarfPairs(ps, dwarf) ==
  LET paired == {k \in DOMAIN ps : ps[k] # "self" /\ Cardinality(Takers(ps, k)) <= Len(dwarf)}
  IN  [p \in {ps[k] : k \in paired} |-> dwarf[Cardinality(Takers(ps, CHOOSE k \in paired : ps[k] = p))]]

\* Mutant: the user's names are not applied again.
ApplyDwarfOnly ==
  LET pairs == DwarfPairs(params, input.dwarf)
  IN  /\ At("dwarf") /\ Advance
      /\ params' = ApplyNames(pairs, params)
      /\ stmts' = ApplyNames(pairs, stmts)
      /\ source' = Apply(pairs, source)
      /\ UNCHANGED <<proto, jumpTables>>

\* apply_dwarf_names: parameters, statements and text get the names, and the
\* user's map goes over the text once more.  The prototype in the frame stays.
ApplyDwarfNames ==
  LET pairs == DwarfPairs(params, input.dwarf)
  IN  /\ At("dwarf") /\ Advance
      /\ params' = ApplyNames(pairs, params)
      /\ stmts' = ApplyNames(pairs, stmts)
      /\ source' = IF DOMAIN pairs = {} THEN source ELSE Renamed(Apply(pairs, source))
      /\ UNCHANGED <<proto, jumpTables>>

Next == DecompileInsns \/ RecoverJumpTables \/ ObjcMethod \/ ApplyDwarfNames

Spec == Init /\ [][Next]_vars

-----------------------------------------------------------------------------
(* Properties *)

Shown == Range(source.prototype) \cup Range(source.body) \cup Range(source.switch)

\* The text calls a parameter by one name: what the prototype declares is
\* what the statements and the switches use, however often the source was
\* replaced and edited.
OneNameEach ==
  LET receiver == IF input.method /\ step > 3 THEN 1 ELSE 0
  IN  /\ \A k \in DOMAIN source.prototype, j \in DOMAIN source.body :
           j = k + receiver => source.prototype[k] = source.body[j]
      /\ source.switch \in {<< >>, First(source.body)}

\* Without renames of the user, the parameters of the frame and the statements
\* of the result have the names its source has.  The prototype of a method that
\* the frame keeps has them, too, as long as DWARF lists no parameters.
ResultAgrees ==
  /\ step > 1 /\ DOMAIN input.user = {} => params = source.body /\ stmts = params
  /\ input.dwarf = << >> => \A k \in DOMAIN proto : k < Len(params) => proto[k] = params[k + 1]

\* A name the user has replaced is never shown, whether the decompiler came
\* up with it before the user's map was applied or after.
UserNamesShown == Shown \cap DOMAIN input.user = {}

\* Two parameters are never shown under one name, as long as the names of
\* the user and of DWARF are not names the decompiler uses.
StayDistinct == IsInjective(source.body)
=============================================================================
