SPECIFICATION FairSpec
CONSTANTS
    Blocks <- MCForks
    Genesis = "g"
    Parent <- MCParent
    Chain <- MCChain
    Height <- MCHeight
    Work <- MCWork
    Bad = {"b2"}
    StepBlocks = 1
    MaxTries = 2
    PruneDepth = 3
    MaxSeq = 6
    MaxPrecious = 0
INVARIANTS IdleAgrees NoFailedBlockActive
PROPERTIES HeardMovesByOne MovesAreSound EventuallySettled
