CONSTANTS t1 = t1 t2 = t2 t3 = t3 n1 = n1 n2 = n2
CONSTANT Threads <- MCThreads
CONSTANT Names <- MCNames
CONSTANT Reliable <- MCReliable
CONSTANT MaxCalls = 2
SPECIFICATION FairSpec
INVARIANTS OneForkPerThread
PROPERTIES SettledStays Memoizes
