CONSTANT N <- MCN
CONSTANT EntryIsTarget = FALSE
SPECIFICATION SsaFairSpec
INVARIANTS ReadsReachingDef PhiTakesReachingDef SingleAssignment
PROPERTY ConstructEnds
