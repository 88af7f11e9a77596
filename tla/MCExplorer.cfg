SPECIFICATION FairExplorer
CONSTANTS
    Coinbase = Coinbase
    Nothing = Nothing
    Blocks = {"block"}
    BlockTxs <- MCBlockTxs
    Txs = {"mint", "pays", "owes", "sweeps"}
    Ins <- MCIns
    Out <- MCOut
    Paid <- MCPaid
    Heights = {"first", "beyond"}
    At <- MCAt
    TXS_PER_PAGE = 2
    PREVOUT_BATCH = 2
    MAX_PREVOUT_TXS = 3
    IO_CHUNK = 2
    MaxVisits = 2
INVARIANTS NeverStale PageIsRight
PROPERTIES PageSettles
