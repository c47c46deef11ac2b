CONSTANT N <- SmallN
CONSTANT EntryIsTarget = TRUE
SPECIFICATION SsaSpec
INVARIANT LoopReadsReachingDef
