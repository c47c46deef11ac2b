----------------------------- MODULE MCRegions -----------------------------
(* Arbitrary graphs of up to N blocks, structured programs of Size blocks.  *)
EXTENDS Regions, StructuredCode
MCConstructs == {"ifelse", "while", "do", "jump"}
MCPlainIf    == {"if"}
=============================================================================
