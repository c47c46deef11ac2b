----------------------------- MODULE MCCfgBuild -----------------------------
(* CfgBuild on every function of up to MCMaxInsns instructions. *)
EXTENDS CfgBuild

MCMaxInsns == 4
=============================================================================
