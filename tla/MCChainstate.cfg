SPECIFICATION FairSpec
CONSTANTS
    Keys <- MCKeys
    Blocks <- MCBlocks
    NoBlock = NoBlock
    Genesis = "g"
    Parent <- MCParent
    Chain <- MCChain
    Height <- MCHeight
    Creates <- MCCreates
    Spends <- MCSpends
    Coinbase <- MCCoinbase
    Utxo <- MCUtxo
INVARIANTS DurableSaysWhatItIs TipMatchesCoins OnlyWalkBackRefuses
PROPERTIES ImplementsKeptTip StartUpEnds
CONSTRAINT Followed
