---------------------------- MODULE MCActivation ----------------------------
(* Two branches from genesis.  In MCForks the second has more work, and    *)
(* its last block is not valid in the runs that say so; MCTies has two     *)
(* blocks that tie, with one more above:                                   *)
(*     g - a1 - a2          g - a1                                         *)
(*      \                    \                                             *)
(*       b1 - b2 (heavy)      b1 - b2                                      *)
EXTENDS Activation

MCForks == {"g", "a1", "a2", "b1", "b2"}
MCTies == {"g", "a1", "b1", "b2"}

Before(b) == CASE b = "a2" -> "a1" [] b = "b2" -> "b1" [] OTHER -> "g"
MCParent == [b \in Blocks |-> Before(b)]
MCChain[b \in Blocks] == IF b = "g" THEN {"g"} ELSE MCChain[Before(b)] \cup {b}
MCHeight == [b \in Blocks |-> Cardinality(MCChain[b]) - 1]
MCWork == [b \in Blocks |-> IF b = "b2" THEN 3 ELSE MCHeight[b]]

ASSUME StepsPayHere == StepsPay
=============================================================================
