----------------------------- MODULE MCWalletPage ----------------------------
(* Two polls that can be under way at a time, two wallets, one with labels. *)
(* A behaviour exercises the session with the dashboard, or some tabs of    *)
(* the wallet page with what else can happen to them.                       *)
EXTENDS WalletPage

MCUsages ==
    {{"session"}, {"overview", "change"}, {"overview", "history"}, {"addresses"},
     {"overview", "login"}}
=============================================================================
