------------------------------ MODULE KeptTip ------------------------------
(***************************************************************************)
(* What the chainstate promises across restarts, with no files in it.      *)
(*                                                                         *)
(* A running node shows one tip, which moves by one block at a time.  Now  *)
(* and then it keeps the tip of that moment.  When it stops, for whatever  *)
(* reason, the next start shows the tip that was kept, unless everything   *)
(* was given up for a start from genesis.                                  *)
(***************************************************************************)
CONSTANTS Blocks, Genesis, Parent, Nowhere

VARIABLES
    shown,   \* the tip, Nowhere while no tip is shown
    kept     \* the tip a start would show

Init == shown = Nowhere /\ kept = Genesis

Up(b) == shown # Nowhere /\ b # Genesis /\ shown = Parent[b] /\ shown' = b /\ UNCHANGED kept
Down == shown \notin {Nowhere, Genesis} /\ shown' = Parent[shown] /\ UNCHANGED kept
Keep == shown # Nowhere /\ kept' = shown /\ UNCHANGED shown
Stop == shown' = Nowhere /\ UNCHANGED kept
Restart == shown = Nowhere /\ shown' = kept /\ UNCHANGED kept
GiveUp == shown = Nowhere /\ kept' = Genesis /\ UNCHANGED shown

Next == (\E b \in Blocks : Up(b)) \/ Down \/ Keep \/ Stop \/ Restart \/ GiveUp

Spec == Init /\ [][Next]_<<shown, kept>>
=============================================================================
