SPECIFICATION FairSpec
CONSTANTS
    p1 = p1  p2 = p2  h1 = h1  h2 = h2  x = x  twin = twin
    Peers = {p1, p2}
    Hashes = {h1, h2}
    Txs = {x, twin}
    Txid <- MCTxid
    Wtxid <- MCWtxid
    Priority <- MCPriority
    Preferred = {p1}
    Permitted = {p1}
    WtxidRelay = {p2}
    None = None
    Nonpref = 1
    TxidRelay = 1
    Overloaded = 1
    Interval = 2
    MaxInFlight = 1
    MaxAnnouncements = 1
INVARIANTS SanityCheck DueIsSeen GoneHoldsNothing
PROPERTIES AskedOnce OthersKept EveryoneHasATurn
