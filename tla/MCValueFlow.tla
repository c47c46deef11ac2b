---------------------------- MODULE MCValueFlow ----------------------------
(***************************************************************************)
(* The functions TLC types: those of statements that say something about a *)
(* type, and those of calls of sources and sinks.  Copies are in both.     *)
(***************************************************************************)
EXTENDS ValueFlow, SequencesExt

CONSTANTS a, b, c, self

MCNames == {a, b, c, self}

N(n) == [k |-> "Name", name |-> n]
Other(k) == [k |-> k, name |-> self]

E(op, fn, l, r) == [op |-> op, fn |-> fn, l |-> l, r |-> r]
Leaf1(l) == E("leaf", "plain", l, Other("Reg"))
S(op, dst, e) == [op |-> op, dst |-> dst, e |-> e]
Do(op, e) == S(op, self, e)

Copy(to, n) == S("name", to, Leaf1(N(n)))

MCCopies == {Copy(a, b), Copy(b, a), Copy(b, c), Copy(c, self)}

TypeBody ==
  MCCopies \cup
  {S("name", a, Leaf1(Other("Int"))),
   S("name", b, Leaf1(Other("Long"))),
   S("name", a, Leaf1(Other("Fp"))),
   S("name", b, E("div", "plain", N(a), Other("Int"))),
   S("name", a, E("arith", "plain", N(a), N(b))),
   S("name", b, E("arith", "plain", Other("Frame"), Other("Int"))),
   S("name", a, E("send", "plain", N(b), Other("Reg"))),
   Do("reg", E("arith", "plain", Other("Fp"), N(b))),
   Do("address", E("arith", "plain", N(b), Other("Int"))),
   Do("expr", E("send", "plain", N(a), N(b))),
   Do("return", E("arith", "plain", N(a), Other("Mem")))}

FlowBody ==
  MCCopies \cup
  {S("name", a, E("call", "source", Other("Mem"), Other("Reg"))),
   S("name", b, E("send", "source", N(self), N(a))),
   S("name", b, E("call", "plain", N(a), Other("Int"))),
   S("name", self, E("div", "plain", N(a), N(b))),
   S("name", self, E("call", "sink", N(a), N(b))),
   S("name", a, Leaf1(Other("Int"))),
   S("reg", c, E("call", "source", Other("Int"), Other("Mem"))),
   S("name", a, Leaf1([k |-> "Reg", name |-> c])),
   Do("expr", E("call", "sink first", N(a), N(b))),
   Do("expr", E("send", "sink", N(self), N(b))),
   Do("reg", E("call", "sink", N(b), Other("Int"))),
   Do("store", E("call", "sink first", N(self), N(a))),
   Do("address", E("call", "sink", N(b), Other("Reg"))),
   Do("return", E("call", "sink", N(a), Other("Reg")))}

MCCode == BoundedSeq(TypeBody, 3) \cup BoundedSeq(FlowBody, 3)
=============================================================================
