SPECIFICATION FairSpec
CONSTANTS
    o1 = o1
    o2 = o2
    Ops <- MCOps
    Hand = Hand
    Nobody = Nobody
    MayLose = TRUE
INVARIANTS PromptHasPanel UnlockHandedBack
PROPERTIES EveryClickEnds
