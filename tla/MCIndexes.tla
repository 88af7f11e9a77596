------------------------------ MODULE MCIndexes ------------------------------
(* A branch that leaves the chain above its first block and outgrows it.   *)
(* One transaction is in both branches, at different heights:              *)
(*     g - a1 - a2(t)                                                      *)
(*            \                                                            *)
(*             b2 - b3(t)                                                  *)
EXTENDS Indexes

MCBlocks == {"g", "a1", "a2", "b2", "b3"}
Before(b) == CASE b \in {"a2", "b2"} -> "a1" [] b = "b3" -> "b2" [] OTHER -> "g"
MCParent == [b \in Blocks |-> Before(b)]
MCChain[b \in Blocks] == IF b = "g" THEN {"g"} ELSE MCChain[Before(b)] \cup {b}
MCHeight == [b \in Blocks |-> Cardinality(MCChain[b]) - 1]
MCTxsOf == [b \in Blocks |-> CASE b \in {"a2", "b3"} -> {"t"} [] b = "a1" -> {"u"} [] OTHER -> {}]
=============================================================================
