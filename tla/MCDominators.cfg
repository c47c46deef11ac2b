CONSTANT N <- MCN
SPECIFICATION FairSpec
INVARIANTS RpoSound ClimbsAscend IdomSound EdgesRespectTree IdomImmediateIfAcyclic
PROPERTY Terminates
