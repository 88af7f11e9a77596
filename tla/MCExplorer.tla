------------------------------ MODULE MCExplorer -----------------------------
(* A block of five transactions, a coinbase, a transaction that spends two *)
(* funding transactions in three inputs, and one that spends more than may *)
(* be looked up.                                                           *)
EXTENDS Explorer

MCBlockTxs == [b \in Blocks |-> 5]
In(f, v) == [from |-> f, vout |-> v]
MCIns == [t \in Txs |->
    CASE t = "mint" -> <<Coinbase>>
      [] t = "pays" -> <<In("f1", 1), In("f2", 1), In("f1", 2)>>
      [] t = "owes" -> <<In("f1", 1)>>
      [] t = "sweeps" -> <<In("f1", 1), In("f2", 1), In("f3", 1), In("f1", 3), In("f4", 1)>>]
MCOut == [t \in Txs |-> IF t = "owes" THEN 9 ELSE 5]
MCPaid == [f \in {"f1", "f2", "f3", "f4"} |-> IF f = "f1" THEN <<2, 3>> ELSE <<1>>]
MCAt == [h \in Heights |-> IF h = "first" THEN "block" ELSE Nothing]
=============================================================================
