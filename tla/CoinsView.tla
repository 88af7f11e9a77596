----------------------------- MODULE CoinsView -----------------------------
(***************************************************************************)
(* What the UTXO store promises its callers, with no cache in it.          *)
(*                                                                         *)
(* A caller sees one map from outpoints to coins (coins) and the block     *)
(* those coins belong to (best).  Beside it there is a durable copy, which *)
(* follows the visible map only through commits.  A commit is one durable  *)
(* step, or several: between the first and the last the durable map is a   *)
(* per-coin mixture of the old and the new map, names no block, and keeps  *)
(* a record (heads) of the transition it is part way through.              *)
(*                                                                         *)
(* CoinsCache implements this module; Chainstate is built on it.           *)
(***************************************************************************)
EXTENDS Sequences

CONSTANTS
    Keys,       \* outpoints (txid, vout)
    Coins,      \* the coins an outpoint may hold
    NoCoin,     \* "no unspent coin here"
    Blocks,     \* block hashes
    NoBlock     \* the null block hash

VARIABLES
    coins,        \* the map callers read and write
    best,         \* the block that map belongs to
    durable,      \* the map a restart would find
    durableBest,  \* the block the durable map is recorded under
    heads         \* <<new, old>> while a commit is under way, else <<>>

vars == <<coins, best, durable, durableBest, heads>>

Map == [Keys -> Coins \cup {NoCoin}]
EmptyMap == [k \in Keys |-> NoCoin]

Init ==
    /\ coins = EmptyMap
    /\ best = NoBlock
    /\ durable = EmptyMap
    /\ durableBest = NoBlock
    /\ heads = <<>>

(* A coin appears under k; a coin that was there is replaced.              *)
Add(k, c) ==
    /\ coins' = [coins EXCEPT ![k] = c]
    /\ UNCHANGED <<best, durable, durableBest, heads>>

Spend(k) ==
    /\ coins[k] # NoCoin
    /\ coins' = [coins EXCEPT ![k] = NoCoin]
    /\ UNCHANGED <<best, durable, durableBest, heads>>

SetBest(b) ==
    /\ best' = b
    /\ UNCHANGED <<coins, durable, durableBest, heads>>

(* The tip a commit starts from: the durable pointer, or the old end of a  *)
(* transition that was interrupted before.                                 *)
OldTip ==
    IF durableBest # NoBlock \/ heads = <<>> THEN durableBest ELSE heads[2]

(* One of several batches of a commit.  The record is written by the first *)
(* and left alone by the others.                                           *)
PartialCommit ==
    /\ durable' \in Map
    /\ \A k \in Keys : durable'[k] \in {durable[k], coins[k]}
    /\ IF best = NoBlock
       THEN UNCHANGED <<durableBest, heads>>
       ELSE durableBest' = NoBlock /\ heads' = <<best, OldTip>>
    /\ UNCHANGED <<coins, best>>

(* The batch that completes a commit: from here on a restart finds exactly *)
(* the map the callers saw.                                                *)
Commit ==
    /\ durable' = coins
    /\ IF best = NoBlock
       THEN UNCHANGED <<durableBest, heads>>
       ELSE durableBest' = best /\ heads' = <<>>
    /\ UNCHANGED <<coins, best>>

(* Erasing everything, in chunks.  No chunk leaves a shrunken map under a  *)
(* block's name, and a transition record outlives the last coin.           *)
Wipe ==
    /\ durable' \in Map
    /\ \A k \in Keys : durable'[k] \in {durable[k], NoCoin}
    /\ durableBest' \in {durableBest, NoBlock}
    /\ durable' # durable => durableBest' = NoBlock
    /\ heads' \in {heads, <<>>}
    /\ heads' # heads => durable' = EmptyMap /\ durableBest' = NoBlock
    /\ coins' = durable'
    /\ best' = NoBlock

(* The process ends and is started again: only the durable part is left.   *)
Crash ==
    /\ coins' = durable
    /\ best' = durableBest
    /\ UNCHANGED <<durable, durableBest, heads>>

Next ==
    \/ \E k \in Keys, c \in Coins : Add(k, c)
    \/ \E k \in Keys : Spend(k)
    \/ \E b \in Blocks : SetBest(b)
    \/ PartialCommit
    \/ Commit
    \/ Wipe
    \/ Crash

Spec == Init /\ [][Next]_vars
=============================================================================
