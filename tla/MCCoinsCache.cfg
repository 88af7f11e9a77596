SPECIFICATION Spec
CONSTANTS
    k1 = k1
    k2 = k2
    c1 = c1
    c2 = c2
    b1 = b1
    b2 = b2
    NoCoin = NoCoin
    NoBlock = NoBlock
    Keys <- MCKeys
    Coins <- MCCoins
    Blocks <- MCBlocks
    ScriptSize <- MCScriptSize
    Overhead = 2
    SyncHoldsNodeLock = TRUE
INVARIANTS FreshMeansAbsent CleanMeansSame CountersExact MemBytesExact
PROPERTIES WriteKeepsView ImplementsStore
