-------------------------- MODULE MCDemangleCache --------------------------
(* DemangleCache with three threads that ask twice about two names, for one *)
(* of which the tool may fail.                                             *)
EXTENDS DemangleCache

CONSTANTS t1, t2, t3, n1, n2
MCThreads == {t1, t2, t3}
MCNames == {n1, n2}
MCReliable == {n1}
=============================================================================
