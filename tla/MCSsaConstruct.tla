-------------------------- MODULE MCSsaConstruct --------------------------
(* SsaConstruct on every graph of MCN blocks and every choice of blocks    *)
(* that assign the register.                                               *)
EXTENDS SsaConstruct

MCN == 4
SmallN == 3
=============================================================================
