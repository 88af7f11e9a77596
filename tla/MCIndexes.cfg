SPECIFICATION Spec
CONSTANTS
    Blocks <- MCBlocks
    Genesis = "g"
    Parent <- MCParent
    Chain <- MCChain
    Height <- MCHeight
    Txs = {"t", "u"}
    TxsOf <- MCTxsOf
    Kinds = {"tx", "spender", "filter", "coinstats"}
    None = None
    PruneKeep = 1
    PruneBuffer = 0
    MaxFaults = 1
INVARIANTS RecordsRight NoGapOtherwise CoversTip LockHolds
CHECK_DEADLOCK FALSE
