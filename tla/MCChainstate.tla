---------------------------- MODULE MCChainstate ----------------------------
(* A fork two blocks deep on one side and one on the other, with a coin    *)
(* both branches spend:   g - c1 - a2                                      *)
(*                              \                                          *)
(*                               b2 - b3                                   *)
EXTENDS Chainstate

MCKeys == {"cb1", "cba2", "cbb2", "cbb3", "t"}
MCBlocks == {"g", "c1", "a2", "b2", "b3"}
MCParent == [b \in MCBlocks |->
    CASE b = "g" -> "g" [] b = "c1" -> "g" [] b = "b3" -> "b2" [] OTHER -> "c1"]
MCHeight == [b \in MCBlocks |->
    CASE b = "g" -> 0 [] b = "c1" -> 1 [] b = "b3" -> 3 [] OTHER -> 2]
MCChain[b \in MCBlocks] == IF b = "g" THEN {"g"} ELSE MCChain[MCParent[b]] \cup {b}
MCCoinbase == [b \in MCBlocks |->
    CASE b \in {"g", "c1"} -> "cb1" [] b = "a2" -> "cba2" [] b = "b2" -> "cbb2" [] b = "b3" -> "cbb3"]
MCCreates == [b \in MCBlocks |->
    CASE b = "g" -> {} [] b = "c1" -> {"cb1", "t"} [] OTHER -> {MCCoinbase[b]}]
MCSpends == [b \in MCBlocks |-> IF b \in {"a2", "b3"} THEN {"t"} ELSE {}]
MCUtxo[b \in MCBlocks] ==
    [k \in MCKeys |-> b # "g" /\ (k \in MCCreates[b]
                                  \/ (MCUtxo[MCParent[b]][k] /\ k \notin MCSpends[b]))]

(* A behaviour is followed up to where a node runs over coins that a start *)
(* gone astray has left unfinished: no safety property says more of it.    *)
Followed == ~(astray /\ mode = "run")
=============================================================================
