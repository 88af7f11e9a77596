SPECIFICATION Spec
CONSTANTS
    o1 = o1
    o2 = o2
    r1 = r1
    r2 = r2
    l1 = l1
    l2 = l2
    Ops <- MCOps
    Reviews <- MCReviews
    Loads <- MCLoads
    Nobody = Nobody
    NoWallet = NoWallet
    Blank = Blank
    Wallets = {"hot", "watch"}
    Keyless = {"watch"}
    alice = alice
    bob = bob
    Payees <- MCPayees
    Options = {"rbf"}
    Default = "rbf"
    Texts = {"part", "full", "other"}
    Complete = {"full", "other"}
    Signer <- MCSigner
    Signed <- MCSigned
    Rates = {1, 2}
    Usages = {{"bump"}}
SYMMETRY MCSymmetry
INVARIANTS SignsWhatWasShown
