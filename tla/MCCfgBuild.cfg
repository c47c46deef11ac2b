CONSTANT MaxInsns <- MCMaxInsns
SPECIFICATION Spec
INVARIANTS BlocksPartition BuiltIsCfg HeadersCutCycles
PROPERTY TransfersAreEdges
