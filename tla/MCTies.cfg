SPECIFICATION Spec
CONSTANTS
    Blocks <- MCTies
    Genesis = "g"
    Parent <- MCParent
    Chain <- MCChain
    Height <- MCHeight
    Work <- MCWork
    Bad = {}
    StepBlocks = 1
    MaxTries = 2
    PruneDepth = 1
    MaxSeq = 5
    MaxPrecious = 2
INVARIANT IdsFollowBodies
PROPERTY MovesAreSound
