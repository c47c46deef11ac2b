----------------------------- MODULE MemoTable -----------------------------
(***************************************************************************)
(* What a memoized function promises to those who call it at the same      *)
(* time: every call is answered in one step, by the first answer that was  *)
(* given for its key.  "Results are memoized for the process lifetime"     *)
(* (swift_native.rs).                                                      *)
(***************************************************************************)
CONSTANTS Callers, Keys, Values

VARIABLES
  asked,  \* the key each caller waits for, as a set with it, or none
  memo    \* the answer given for each key, as a set with it, or none

memoVars == <<asked, memo>>

MemoInit ==
  /\ asked = [c \in Callers |-> {}]
  /\ memo = [k \in Keys |-> {}]

Ask(c, k) ==
  /\ asked[c] = {}
  /\ asked' = [asked EXCEPT ![c] = {k}]
  /\ UNCHANGED memo

\* The first answer for a key is any, the later ones are the same.
Answer(c) ==
  \E k \in asked[c], v \in Values :
    /\ memo[k] \subseteq {v}
    /\ memo' = [memo EXCEPT ![k] = {v}]
    /\ asked' = [asked EXCEPT ![c] = {}]

MemoNext == \E c \in Callers : Answer(c) \/ \E k \in Keys : Ask(c, k)

MemoSpec == MemoInit /\ [][MemoNext]_memoVars

MemoFairSpec == MemoSpec /\ \A c \in Callers : WF_memoVars(Answer(c))
=============================================================================
