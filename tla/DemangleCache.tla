--------------------------- MODULE DemangleCache ---------------------------
(***************************************************************************)
(* `demangle_swift_native` (swift_native.rs): a process-wide table of what *)
(* `swift demangle` answered for a name, behind a mutex.  A call looks the *)
(* name up under the lock, runs the tool without it when the name is not   *)
(* there, and takes the lock again to store the answer.                    *)
(***************************************************************************)
EXTENDS Naturals

CONSTANTS
  Threads,
  Names,
  Reliable,   \* names for which the tool gives the same answer every time
  MaxCalls    \* bound on the calls of one thread
ASSUME NamesAssumption == Names # {}
ASSUME ReliableAssumption == Reliable \subseteq Names
ASSUME MaxCallsAssumption == MaxCalls \in Nat

VARIABLES
  pc,       \* where each thread is: "idle", "lookup", "fork", "wait", "store"
  name,     \* the name it asked for
  resolved, \* what the tool answered it
  cache,    \* the table: Missing, or the memoized Option
  answers,  \* external: what the tool says for each name when it works
  forks,    \* how often each thread ran the tool for each name
  returned, \* what calls for each name have returned so far
  left      \* calls each thread may still make

vars == <<pc, name, resolved, cache, answers, forks, returned, left>>

\* A success is abstract: the text belongs to the name it was asked for.
Options == {"Some", "None"}
Missing == "Missing"
Cached(n) == cache[n] # Missing

TypeOK ==
  /\ pc \in [Threads -> {"idle", "lookup", "fork", "wait", "store"}]
  /\ name \in [Threads -> Names]
  /\ resolved \in [Threads -> Options]
  /\ cache \in [Names -> Options \cup {Missing}]
  /\ answers \in [Names -> Options]
  /\ forks \in [Threads -> [Names -> Nat]]
  /\ returned \in [Names -> SUBSET Options]
  /\ left \in [Threads -> 0 .. MaxCalls]

Init ==
  /\ pc = [t \in Threads |-> "idle"]
  /\ name \in [Threads -> {CHOOSE n \in Names : TRUE}]
  /\ resolved = [t \in Threads |-> "None"]
  /\ cache = [n \in Names |-> Missing]
  /\ answers \in [Names -> Options]
  /\ forks = [t \in Threads |-> [n \in Names |-> 0]]
  /\ returned = [n \in Names |-> {}]
  /\ left = [t \in Threads |-> MaxCalls]

Call(t, n) ==
  /\ pc[t] = "idle" /\ left[t] > 0
  /\ pc' = [pc EXCEPT ![t] = "lookup"]
  /\ name' = [name EXCEPT ![t] = n]
  /\ left' = [left EXCEPT ![t] = @ - 1]
  /\ UNCHANGED <<resolved, cache, answers, forks, returned>>

Return(t, r) ==
  /\ pc' = [pc EXCEPT ![t] = "idle"]
  /\ returned' = [returned EXCEPT ![name[t]] = @ \cup {r}]

\* The first critical section.
Hit(t) ==
  /\ pc[t] = "lookup" /\ Cached(name[t])
  /\ Return(t, cache[name[t]])
  /\ UNCHANGED <<name, resolved, cache, answers, forks, left>>

\* Mutant: the table is not consulted.
MissAlways(t) ==
  /\ pc[t] = "lookup"
  /\ pc' = [pc EXCEPT ![t] = "fork"]
  /\ UNCHANGED <<name, resolved, cache, answers, forks, returned, left>>

Miss(t) ==
  /\ pc[t] = "lookup" /\ ~Cached(name[t])
  /\ pc' = [pc EXCEPT ![t] = "fork"]
  /\ UNCHANGED <<name, resolved, cache, answers, forks, returned, left>>

\* demangle_swift_native_uncached: start the tool and wait for its output.
Fork(t) ==
  /\ pc[t] = "fork"
  /\ pc' = [pc EXCEPT ![t] = "wait"]
  /\ forks' = [forks EXCEPT ![t][name[t]] = @ + 1]
  /\ UNCHANGED <<name, resolved, cache, answers, returned, left>>

\* A tool that is not there, fails or prints the name back counts as None.
ToolAnswers(t) ==
  /\ pc[t] = "wait"
  /\ \E r \in {answers[name[t]]} \cup {o \in {"None"} : name[t] \notin Reliable} :
       resolved' = [resolved EXCEPT ![t] = r]
  /\ pc' = [pc EXCEPT ![t] = "store"]
  /\ UNCHANGED <<name, cache, answers, forks, returned, left>>

\* Mutant: a thread waits until nobody else runs the tool.
StoreAlone(t) ==
  /\ pc[t] = "store" /\ \A u \in Threads \ {t} : pc[u] \notin {"wait", "store"}
  /\ cache' = [cache EXCEPT ![name[t]] = resolved[t]]
  /\ Return(t, resolved[t])
  /\ UNCHANGED <<name, resolved, answers, forks, left>>

\* The second critical section; the caller gets its own answer.
Store(t) ==
  /\ pc[t] = "store"
  /\ cache' = [cache EXCEPT ![name[t]] = resolved[t]]
  /\ Return(t, resolved[t])
  /\ UNCHANGED <<name, resolved, answers, forks, left>>

Step(t) == Hit(t) \/ Miss(t) \/ Fork(t) \/ ToolAnswers(t) \/ Store(t)

\* Every thread has made its calls.
Done == (\A t \in Threads : pc[t] = "idle" /\ left[t] = 0) /\ UNCHANGED vars

Next == (\E t \in Threads : Step(t) \/ \E n \in Names : Call(t, n)) \/ Done

Spec == Init /\ [][Next]_vars

(***************************************************************************)
(* A thread inside the function runs, the mutex is never held across the   *)
(* tool, and the tool exits.  Nobody has to call.                          *)
(***************************************************************************)
FairSpec == Spec /\ \A t \in Threads : WF_vars(Step(t))

-----------------------------------------------------------------------------
(* Properties *)

(***************************************************************************)
(* "avoid N x `swift` forks" (G5): a thread runs the tool at most once for *)
(* a name, however often it asks and whatever the others do, so a name     *)
(* costs at most one run per thread.                                       *)
(***************************************************************************)
OneForkPerThread == \A t \in Threads, n \in Names : forks[t][n] <= 1

(***************************************************************************)
(* Once a call for a name has returned, the next one finds the name.       *)
(***************************************************************************)
ReturnedIsCached == \A n \in Names : returned[n] # {} => Cached(n)

(***************************************************************************)
(* "Results are memoized for the process lifetime (G5)": threads that      *)
(* raced to run a tool that fails now and then overwrite each other's      *)
(* results, but once the last of them has stored its own the answer is     *)
(* settled, a failure too: no later call runs the tool for the name again, *)
(* changes the answer, or returns another.                                 *)
(***************************************************************************)
InFlight(n) == \E t \in Threads : name[t] = n /\ pc[t] \in {"fork", "wait", "store"}

Settled(n) == Cached(n) /\ ~InFlight(n)

SettledStays ==
  [][\A n \in Names : Settled(n) =>
       /\ Settled(n)'
       /\ cache'[n] = cache[n]
       /\ returned'[n] \subseteq returned[n] \cup {cache[n]}]_vars

(***************************************************************************)
(* Where the tool does not fail, a name has the tool's own answer for it,  *)
(* never another's.                                                        *)
(***************************************************************************)
MemoIsAnswer == \A n \in Reliable : Cached(n) => cache[n] = answers[n]

(***************************************************************************)
(* For names the tool answers alike the table is a memoized function,      *)
(* whatever it does for the others: although a call is two critical        *)
(* sections with a run of the tool between them and the second overwrites  *)
(* what another call has stored, to callers every call takes effect at     *)
(* once, when it returns, and it does return.                              *)
(***************************************************************************)
Memo == INSTANCE MemoTable WITH
  Callers <- Threads, Keys <- Reliable, Values <- Options,
  asked <- [t \in Threads |-> {n \in Reliable : n = name[t] /\ pc[t] # "idle"}],
  memo <- [n \in Reliable |-> returned[n]]

Memoizes == Memo!MemoFairSpec
=============================================================================
