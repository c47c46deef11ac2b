------------------------ MODULE DemangleCacheProofs ------------------------
(***************************************************************************)
(* Proofs about DemangleCache for any set of threads and names.            *)
(***************************************************************************)
EXTENDS DemangleCache, TLAPS

(***************************************************************************)
(* Every variable keeps its type.                                          *)
(***************************************************************************)
THEOREM TypeCorrect == Spec => []TypeOK
<1> USE NamesAssumption, MaxCallsAssumption DEF TypeOK, Options, Missing
<1>1. Init => TypeOK
  BY DEF Init
<1>2. TypeOK /\ [Next]_vars => TypeOK'
  <2> SUFFICES ASSUME TypeOK, [Next]_vars PROVE TypeOK'
    OBVIOUS
  <2>1. ASSUME NEW t \in Threads, NEW n \in Names, Call(t, n) PROVE TypeOK'
    BY <2>1 DEF Call
  <2>2. ASSUME NEW t \in Threads, Hit(t) PROVE TypeOK'
    BY <2>2 DEF Hit, Return, Cached
  <2>3. ASSUME NEW t \in Threads, Miss(t) PROVE TypeOK'
    BY <2>3 DEF Miss
  <2>4. ASSUME NEW t \in Threads, Fork(t) PROVE TypeOK'
    BY <2>4 DEF Fork
  <2>5. ASSUME NEW t \in Threads, ToolAnswers(t) PROVE TypeOK'
    BY <2>5 DEF ToolAnswers
  <2>6. ASSUME NEW t \in Threads, Store(t) PROVE TypeOK'
    BY <2>6 DEF Store, Return
  <2>7. CASE Done \/ UNCHANGED vars
    BY <2>7 DEF Done, vars
  <2> QED
    BY <2>1, <2>2, <2>3, <2>4, <2>5, <2>6, <2>7 DEF Next, Step
<1> QED
  BY <1>1, <1>2, PTL DEF Spec

-----------------------------------------------------------------------------

(***************************************************************************)
(* Why a thread never runs the tool twice for a name: between the run and  *)
(* the store it is still inside the call, and after the store the table    *)
(* holds the name for good.  A thread about to start the tool has not run  *)
(* it before, even if another thread has stored the name meanwhile.        *)
(***************************************************************************)
RunIsMemoized ==
  \A t \in Threads, n \in Names :
    forks[t][n] # 0 => Cached(n) \/ (pc[t] \in {"wait", "store"} /\ name[t] = n)
FirstRun == \A t \in Threads : pc[t] = "fork" => forks[t][name[t]] = 0

ForkInv == OneForkPerThread /\ RunIsMemoized /\ FirstRun

(***************************************************************************)
(* A thread runs the tool at most once for a name ("avoid N x `swift`      *)
(* forks"), with any number of threads, and a tool that may fail.          *)
(***************************************************************************)
THEOREM ForkBound == Spec => []OneForkPerThread
<1>1. Init => ForkInv
  BY DEF Init, ForkInv, OneForkPerThread, RunIsMemoized, FirstRun
<1>2. TypeOK /\ ForkInv /\ [Next]_vars => ForkInv'
  <2> SUFFICES ASSUME TypeOK, ForkInv, [Next]_vars PROVE ForkInv'
    OBVIOUS
  <2> USE DEF TypeOK, Options, Missing, ForkInv, OneForkPerThread, RunIsMemoized,
              FirstRun, Cached
  <2>1. ASSUME NEW t \in Threads, NEW n \in Names, Call(t, n) PROVE ForkInv'
    BY <2>1 DEF Call
  <2>2. ASSUME NEW t \in Threads, Hit(t) PROVE ForkInv'
    BY <2>2 DEF Hit, Return
  <2>3. ASSUME NEW t \in Threads, Miss(t) PROVE ForkInv'
    BY <2>3 DEF Miss
  <2>4. ASSUME NEW t \in Threads, Fork(t) PROVE ForkInv'
    BY <2>4 DEF Fork
  <2>5. ASSUME NEW t \in Threads, ToolAnswers(t) PROVE ForkInv'
    BY <2>5 DEF ToolAnswers
  <2>6. ASSUME NEW t \in Threads, Store(t) PROVE ForkInv'
    BY <2>6 DEF Store, Return
  <2>7. CASE Done \/ UNCHANGED vars
    BY <2>7 DEF Done, vars
  <2> QED
    BY <2>1, <2>2, <2>3, <2>4, <2>5, <2>6, <2>7 DEF Next, Step
<1>3. ForkInv => OneForkPerThread
  BY DEF ForkInv
<1> QED
  BY <1>1, <1>2, <1>3, TypeCorrect, PTL DEF Spec

-----------------------------------------------------------------------------

(***************************************************************************)
(* For a name the tool answers alike the race is benign: whoever stores,   *)
(* stores the tool's answer, and nothing else was ever returned.           *)
(***************************************************************************)
AnswerInHand ==
  \A t \in Threads : pc[t] = "store" /\ name[t] \in Reliable => resolved[t] = answers[name[t]]
OnlyAnswers == \A n \in Reliable : returned[n] \subseteq {answers[n]}

AnswerInv == MemoIsAnswer /\ AnswerInHand /\ OnlyAnswers

LEMMA AnswersKept == Spec => []AnswerInv
<1>1. Init => AnswerInv
  BY ReliableAssumption DEF Init, AnswerInv, MemoIsAnswer, AnswerInHand, OnlyAnswers, Cached
<1>2. TypeOK /\ AnswerInv /\ [Next]_vars => AnswerInv'
  <2> SUFFICES ASSUME TypeOK, AnswerInv, [Next]_vars PROVE AnswerInv'
    OBVIOUS
  <2> USE ReliableAssumption DEF TypeOK, Options, Missing, AnswerInv, MemoIsAnswer, AnswerInHand,
              OnlyAnswers, Cached
  <2>1. ASSUME NEW t \in Threads, NEW n \in Names, Call(t, n) PROVE AnswerInv'
    BY <2>1 DEF Call
  <2>2. ASSUME NEW t \in Threads, Hit(t) PROVE AnswerInv'
    BY <2>2 DEF Hit, Return
  <2>3. ASSUME NEW t \in Threads, Miss(t) PROVE AnswerInv'
    BY <2>3 DEF Miss
  <2>4. ASSUME NEW t \in Threads, Fork(t) PROVE AnswerInv'
    BY <2>4 DEF Fork
  <2>5. ASSUME NEW t \in Threads, ToolAnswers(t) PROVE AnswerInv'
    BY <2>5 DEF ToolAnswers
  <2>6. ASSUME NEW t \in Threads, Store(t) PROVE AnswerInv'
    BY <2>6 DEF Store, Return
  <2>7. CASE Done \/ UNCHANGED vars
    BY <2>7 DEF Done, vars
  <2> QED
    BY <2>1, <2>2, <2>3, <2>4, <2>5, <2>6, <2>7 DEF Next, Step
<1> QED
  BY <1>1, <1>2, TypeCorrect, PTL DEF Spec

(***************************************************************************)
(* The table holds the tool's own answer for each name it has and the tool *)
(* does not fail for.                                                      *)
(***************************************************************************)
THEOREM AnswersRight == Spec => []MemoIsAnswer
<1>1. AnswerInv => MemoIsAnswer
  BY DEF AnswerInv
<1> QED
  BY <1>1, AnswersKept, PTL

(***************************************************************************)
(* A name whose call has returned is in the table, and stays there.        *)
(***************************************************************************)
THEOREM ReturnMemoizes == Spec => []ReturnedIsCached
<1>1. Init => ReturnedIsCached
  BY DEF Init, ReturnedIsCached
<1>2. TypeOK /\ ReturnedIsCached /\ [Next]_vars => ReturnedIsCached'
  <2> SUFFICES ASSUME TypeOK, ReturnedIsCached, [Next]_vars PROVE ReturnedIsCached'
    OBVIOUS
  <2> USE DEF TypeOK, Options, Missing, ReturnedIsCached, Cached
  <2>1. ASSUME NEW t \in Threads, (\E n \in Names : Call(t, n)) \/ Miss(t) \/ Fork(t) \/ ToolAnswers(t)
        PROVE  ReturnedIsCached'
    BY <2>1 DEF Call, Miss, Fork, ToolAnswers
  <2>2. ASSUME NEW t \in Threads, Hit(t) PROVE ReturnedIsCached'
    BY <2>2 DEF Hit, Return
  <2>3. ASSUME NEW t \in Threads, Store(t) PROVE ReturnedIsCached'
    BY <2>3 DEF Store, Return
  <2>4. CASE Done \/ UNCHANGED vars
    BY <2>4 DEF Done, vars
  <2> QED
    BY <2>1, <2>2, <2>3, <2>4 DEF Next, Step
<1> QED
  BY <1>1, <1>2, TypeCorrect, PTL DEF Spec

(***************************************************************************)
(* Once nobody is left who missed the name before it was stored, its       *)
(* answer never changes again, with any number of threads and a tool that  *)
(* may fail.                                                               *)
(***************************************************************************)
THEOREM AnswersSettle == Spec => SettledStays
<1> DEFINE Stays(n) ==
      Settled(n) => /\ Settled(n)'
                    /\ cache'[n] = cache[n]
                    /\ returned'[n] \subseteq returned[n] \cup {cache[n]}
<1>1. ASSUME TypeOK, [Next]_vars, NEW n \in Names PROVE Stays(n)
  <2> SUFFICES ASSUME Settled(n) PROVE Stays(n)
    OBVIOUS
  <2> USE <1>1 DEF TypeOK, Settled, InFlight, Cached
  <2>1. ASSUME NEW t \in Threads, NEW m \in Names, Call(t, m) PROVE Stays(n)
    BY <2>1 DEF Call
  <2>2. ASSUME NEW t \in Threads, Hit(t) PROVE Stays(n)
    BY <2>2 DEF Hit, Return
  <2>3. ASSUME NEW t \in Threads, Miss(t) PROVE Stays(n)
    <3>1. name[t] # n
      BY <2>3 DEF Miss
    <3>2. QED
      BY <2>3, <3>1 DEF Miss
  <2>4. ASSUME NEW t \in Threads, Fork(t) \/ ToolAnswers(t) PROVE Stays(n)
    BY <2>4 DEF Fork, ToolAnswers
  <2>5. ASSUME NEW t \in Threads, Store(t) PROVE Stays(n)
    <3>1. name[t] # n
      BY <2>5 DEF Store
    <3>2. QED
      BY <2>5, <3>1 DEF Store, Return
  <2>6. CASE Done \/ UNCHANGED vars
    BY <2>6 DEF Done, vars
  <2> QED
    BY <2>1, <2>2, <2>3, <2>4, <2>5, <2>6 DEF Next, Step
<1>2. TypeOK /\ [Next]_vars => [\A n \in Names : Stays(n)]_vars
  BY <1>1
<1> QED
  BY <1>2, TypeCorrect, PTL DEF Spec, SettledStays

-----------------------------------------------------------------------------

(***************************************************************************)
(* A call that returns is an answer of the memo table, any other step of a *)
(* thread inside the function none of its callers can see.                 *)
(***************************************************************************)
LEMMA ReturnAnswers ==
  ASSUME TypeOK, OnlyAnswers, NEW t \in Threads, pc[t] # "idle", name[t] \in Reliable,
         Return(t, answers[name[t]]), UNCHANGED name
  PROVE  Memo!Answer(t)
<1> DEFINE n == name[t]
           asked(u) == {m \in Reliable : m = name[u] /\ pc[u] # "idle"}
           memo == [m \in Reliable |-> returned[m]]
<1>1. n \in Names /\ answers[n] \in Options
  BY DEF TypeOK
<1>2. n \in asked(t) /\ memo[n] \subseteq {answers[n]}
  BY <1>1 DEF OnlyAnswers
<1>3. memo' = [memo EXCEPT ![n] = {answers[n]}]
  BY <1>1, <1>2, ReliableAssumption DEF Return, TypeOK
<1>4. [u \in Threads |-> asked(u)]' = [[u \in Threads |-> asked(u)] EXCEPT ![t] = {}]
  BY DEF Return, TypeOK
<1>5. QED
  BY <1>1, <1>2, <1>3, <1>4 DEF Memo!Answer

(***************************************************************************)
(* A call for a name the tool may fail for is none of the memo table's     *)
(* business.                                                               *)
(***************************************************************************)
LEMMA OtherCalls ==
  ASSUME TypeOK, NEW t \in Threads, name'[t] \notin Reliable, pc[t] = "idle" \/ name[t] \notin Reliable,
         \A u \in Threads \ {t} : pc'[u] = pc[u] /\ name'[u] = name[u],
         \A n \in Reliable : returned'[n] = returned[n]
  PROVE  UNCHANGED Memo!memoVars
<1>1. \A u \in Threads :
        {n \in Reliable : n = name'[u] /\ pc'[u] # "idle"} = {n \in Reliable : n = name[u] /\ pc[u] # "idle"}
  OBVIOUS
<1> QED
  BY <1>1 DEF Memo!memoVars

LEMMA MemoStep ==
  ASSUME TypeOK, AnswerInv, [Next]_vars
  PROVE  [Memo!MemoNext]_(Memo!memoVars)
<1> DEFINE asked == [u \in Threads |-> {m \in Reliable : m = name[u] /\ pc[u] # "idle"}]
           memo == [m \in Reliable |-> returned[m]]
<1> USE ReliableAssumption
<1>1. ASSUME NEW t \in Threads, NEW n \in Reliable, Call(t, n)
      PROVE  Memo!Ask(t, n)
  <2>1. asked[t] = {} /\ asked' = [asked EXCEPT ![t] = {n}]
    BY <1>1 DEF Call, TypeOK
  <2>2. QED
    BY <1>1, <2>1 DEF Call, Memo!Ask
<1>2. ASSUME NEW t \in Threads, NEW n \in Names \ Reliable, Call(t, n)
      PROVE  UNCHANGED Memo!memoVars
  BY <1>2, OtherCalls DEF Call, TypeOK
<1>3. ASSUME NEW t \in Threads, Hit(t) \/ Store(t), name[t] \in Reliable
      PROVE  Memo!Answer(t)
  <2>1. pc[t] # "idle" /\ Return(t, answers[name[t]]) /\ UNCHANGED name
    BY <1>3 DEF Hit, Store, AnswerInv, MemoIsAnswer, AnswerInHand, TypeOK
  <2>2. QED
    BY <1>3, <2>1, ReturnAnswers DEF AnswerInv
<1>4. ASSUME NEW t \in Threads, Hit(t) \/ Store(t), name[t] \notin Reliable
      PROVE  UNCHANGED Memo!memoVars
  <2>1. PICK answer : Return(t, answer) /\ UNCHANGED name
    BY <1>4 DEF Hit, Store
  <2>2. \A n \in Reliable : returned'[n] = returned[n]
    BY <1>4, <2>1 DEF Return, TypeOK
  <2>3. \A u \in Threads \ {t} : pc'[u] = pc[u] /\ name'[u] = name[u]
    BY <2>1 DEF Return, TypeOK
  <2>4. QED
    BY <1>4, <2>1, <2>2, <2>3, OtherCalls
<1>5. ASSUME NEW t \in Threads, Miss(t) \/ Fork(t) \/ ToolAnswers(t)
      PROVE  UNCHANGED <<asked, memo>>
  <2>1. UNCHANGED <<name, returned>> /\ \A u \in Threads : pc'[u] = "idle" <=> pc[u] = "idle"
    BY <1>5 DEF Miss, Fork, ToolAnswers, TypeOK
  <2>2. QED
    BY <2>1
<1>6. CASE Done \/ UNCHANGED vars
  BY <1>6 DEF Done, vars, Memo!memoVars
<1>7. QED
  BY <1>1, <1>2, <1>3, <1>4, <1>5, <1>6 DEF Next, Step, Memo!MemoNext, Memo!memoVars

(***************************************************************************)
(* For names the tool answers alike, any number of threads sees a memoized *)
(* function: every call is answered in one step and by the first answer    *)
(* for its name.  (That it is answered, the fairness of `Memoizes`, is     *)
(* checked and not proved.)                                                *)
(***************************************************************************)
THEOREM RefinesMemo == Spec => Memo!MemoSpec
<1>1. Init => Memo!MemoInit
  BY ReliableAssumption DEF Init, Memo!MemoInit
<1>2. TypeOK /\ AnswerInv /\ [Next]_vars => [Memo!MemoNext]_(Memo!memoVars)
  BY MemoStep
<1>3. QED
  BY <1>1, <1>2, AnswersKept, TypeCorrect, PTL DEF Spec, Memo!MemoSpec
=============================================================================
