----------------------------- MODULE MCWalletSend ----------------------------
(* Two wallets, one of them without keys; the PSBTs "part", which the      *)
(* other can sign, what it becomes, and another that is complete.          *)
EXTENDS WalletSend, TLC

CONSTANTS o1, o2, r1, r2, l1, l2, alice, bob

MCOps == {o1, o2}
MCReviews == {r1, r2}
MCLoads == {l1, l2}
MCPayees == {alice, bob}
MCSigner == [t \in Texts |-> IF t = "part" THEN {"hot"} ELSE {}]
MCSigned == [t \in Texts |-> IF t = "part" THEN "full" ELSE t]
MCSymmetry ==
    Permutations(MCOps) \cup Permutations(MCReviews) \cup Permutations(MCLoads)
        \cup Permutations(MCPayees)
=============================================================================
