---------------------------- MODULE MCWalletUnlock ---------------------------
(* Two clicks, whose prompts can replace each other's and the form opened  *)
(* by hand.                                                                *)
EXTENDS WalletUnlock

CONSTANTS o1, o2

MCOps == {o1, o2}
=============================================================================
