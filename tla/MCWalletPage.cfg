SPECIFICATION FairSpec
CONSTANTS
    None = None
    MaxPolls = 2
    Usages <- MCUsages
    MaxTip = 2
    Wallets = {"hot", "cold"}
    Labelled = {"hot"}
    MaxPage = 1
INVARIANTS PollsWhenItShould
PROPERTIES TableFollowsTip SettlesOnSelected NoFetchUnderEdit
