SPECIFICATION Spec
CONSTANTS
    Blocks <- MCBlocks
    Genesis = "g"
    Parent <- MCParent
    Chain <- MCChain
    Height <- MCHeight
    Txs = {"t", "u"}
    TxsOf <- MCTxsOf
    Kinds = {"spender"}
    None = None
    PruneKeep = 1
    PruneBuffer = 0
    MaxFaults = 1
INVARIANT NoGap
CHECK_DEADLOCK FALSE
