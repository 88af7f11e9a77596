----------------------------- MODULE MCTxRequest -----------------------------
(* Two connections and a transaction with a witness, its txid announced    *)
(* beside its wtxid, and the same without the witness: a malleated twin.   *)
EXTENDS TxRequest

CONSTANTS p1, p2, h1, h2, x, twin

MCTxid == [t \in Txs |-> h1]
MCWtxid == [t \in Txs |-> IF t = x THEN h2 ELSE h1]
MCPriority == [h \in Hashes |-> [p \in Peers |-> IF p = p1 THEN 2 ELSE 1]]
=============================================================================
