----------------------------- MODULE Chainstate -----------------------------
(***************************************************************************)
(* The chainstate across crashes: node/flush.lisp, node/recovery.lisp,     *)
(* node/reindex.lisp, the start-up order of node/init.lisp, and the block  *)
(* moves of validation/block.lisp as far as they decide which coins are in *)
(* memory and which block they belong to.                                  *)
(*                                                                         *)
(* Three things on disk say where the node was, and each is written by a   *)
(* step of its own: chainstate.dat (a tip and an in-transition mark), the  *)
(* block index, and the coins database (CoinsView).  The process may end   *)
(* between any two steps, the steps of start-up included.                  *)
(*                                                                         *)
(* Blocks form a fixed tree.  What a block does to the coins is given by   *)
(* Creates and Spends; Utxo[b] is the set of coins after b.                *)
(***************************************************************************)
EXTENDS Naturals, Sequences, FiniteSets

CONSTANTS
    Keys,         \* outpoints
    Blocks,       \* the blocks of the tree
    NoBlock,      \* the null block hash
    Genesis,
    Parent,       \* [Blocks -> Blocks]; the parent of Genesis is not used
    Chain,        \* [Blocks -> SUBSET Blocks]: a block and its ancestors
    Height,       \* [Blocks -> Nat]
    Creates,      \* [Blocks -> SUBSET Keys]: outputs still unspent after it
    Spends,       \* [Blocks -> SUBSET Keys]: inputs, not those it created
    Coinbase,     \* [Blocks -> Keys]: output 0 of the first transaction
    Utxo          \* [Blocks -> [Keys -> BOOLEAN]]: the coins after a block

VARIABLES
    \* memory
    tip,          \* chain-state-best-block-hash
    index,        \* the block index: "absent", "body" or "undo" per block
    mode,         \* what the node is doing
    stage,        \* how far a write or a wipe of the coins database is
    goal,         \* where a reorganisation, a replay or a rebuild is headed
    pos,          \* where a reorganisation began, or a replay has got to
    pending,      \* this start has to recover an in-transition chainstate
    rebuild,      \* this start was given -reindex-chainstate
    settled,      \* this start has reset the chainstate to genesis
    astray,       \* history: a start skipped a replay and emptied nothing
    coins, best,  \* the coins cache and its pointer (CoinsView)
    \* disk
    durable, durableBest, heads,   \* the coins database (CoinsView)
    fileTip,      \* the tip in chainstate.dat, NoBlock when there is no file
    fileMark,     \* its in-transition flag
    diskIndex     \* the block tree database

store == <<coins, best, durable, durableBest, heads>>
file == <<fileTip, fileMark>>
start == <<pending, rebuild, settled, astray>>
chain == <<tip, index, goal, pos>>
vars == <<chain, mode, stage, start, store, file, diskIndex>>

Store == INSTANCE CoinsView WITH Coins <- {TRUE}, NoCoin <- FALSE

ASSUME TreeAssumption ==
    /\ Genesis \in Blocks /\ NoBlock \notin Blocks
    /\ Parent \in [Blocks -> Blocks] /\ Height \in [Blocks -> Nat]
    /\ Chain \in [Blocks -> SUBSET Blocks]
    /\ Chain[Genesis] = {Genesis} /\ Height[Genesis] = 0
    /\ \A b \in Blocks \ {Genesis} :
          /\ Chain[b] = Chain[Parent[b]] \cup {b} /\ b \notin Chain[Parent[b]]
          /\ Height[b] = Height[Parent[b]] + 1
ASSUME BlockAssumption ==
    /\ Creates \in [Blocks -> SUBSET Keys] /\ Spends \in [Blocks -> SUBSET Keys]
    /\ Coinbase \in [Blocks -> Keys] /\ Utxo \in [Blocks -> [Keys -> BOOLEAN]]
    /\ Utxo[Genesis] = [k \in Keys |-> FALSE]
    /\ \A b \in Blocks \ {Genesis} :
          /\ \A k \in Spends[b] : Utxo[Parent[b]][k]
          /\ \A k \in Creates[b] : ~Utxo[Parent[b]][k]
          /\ Utxo[b] = [k \in Keys |-> k \in Creates[b] \/ (Utxo[Parent[b]][k] /\ k \notin Spends[b])]
(* A coinbase output cannot be spent for 100 blocks, so no block of the    *)
(* (short) tree spends one: what %coinbase-committed-p relies on.          *)
ASSUME MaturityAssumption ==
    \A b \in Blocks \ {Genesis} :
        \A c \in Blocks : Utxo[c][Coinbase[b]] <=> b \in Chain[c]

-----------------------------------------------------------------------------
(* Applying a block and taking it back, on any map of coins: an output     *)
(* that is already there is overwritten, one that is already gone is       *)
(* passed over, and so for the inputs.                                     *)
Applied(m, b) == [k \in Keys |-> k \in Creates[b] \/ (m[k] /\ k \notin Spends[b])]
Undone(m, b) == [k \in Keys |-> k \in Spends[b] \/ (m[k] /\ k \notin Creates[b])]

NoCoins == [k \in Keys |-> FALSE]

(* The block the coins in memory belong to.                                *)
At == IF best = NoBlock THEN Genesis ELSE best

Indexed == {b \in Blocks : index[b] # "absent"}
Known(b) == b \in Indexed

(* The block after p on the way to b.                                      *)
NextTo(p, b) == CHOOSE c \in Chain[b] : c # Genesis /\ Parent[c] = p

(* save-state                                                              *)
Save(t, mark) == fileTip' = t /\ fileMark' = mark

SaveIndex == diskIndex' = index

Init ==
    /\ tip = Genesis /\ goal = Genesis /\ pos = Genesis
    /\ index = [b \in Blocks |-> IF b = Genesis THEN "body" ELSE "absent"]
    /\ mode = "down" /\ stage = "none"
    /\ pending = FALSE /\ rebuild = FALSE /\ settled = FALSE /\ astray = FALSE
    /\ Store!Init
    /\ fileTip = NoBlock /\ fileMark = FALSE
    /\ diskIndex = index

-----------------------------------------------------------------------------
(* Running: blocks arrive and the tip moves.                               *)

Idle == mode = "run" /\ stage = "none"

(* A block's header and body are accepted.                                 *)
Learn(b) ==
    /\ Idle
    /\ ~Known(b) /\ Known(Parent[b])
    /\ index' = [index EXCEPT ![b] = "body"]
    /\ UNCHANGED <<tip, goal, pos, mode, stage, start, store, file, diskIndex>>

(* Coins, pointer and tip move to b together and its undo data is written. *)
MoveUp(b) ==
    /\ coins' = Applied(coins, b) /\ best' = b
    /\ UNCHANGED <<durable, durableBest, heads>>
    /\ tip' = b
    /\ index' = [index EXCEPT ![b] = "undo"]

(* connect-block, extending the tip.                                       *)
Connect(b) ==
    /\ Idle
    /\ b # Genesis /\ Parent[b] = tip /\ Known(b)
    /\ MoveUp(b)
    /\ UNCHANGED <<goal, pos, mode, stage, start, file, diskIndex>>

(* perform-reorg (and the disconnection invalidate-block asks it for)      *)
(* checks that every block it will take back has undo data.                *)
BeginReorg(b) ==
    /\ Idle
    /\ Known(b) /\ tip \notin Chain[b]
    /\ \A a \in Chain[tip] \ Chain[b] : index[a] = "undo"
    /\ goal' = b /\ pos' = tip
    /\ mode' = "disconnect"
    /\ UNCHANGED <<tip, index, stage, start, store, file, diskIndex>>

(* A reorganisation is over: its two ends are of no more use.              *)
EndReorg == mode' = "run" /\ goal' = Genesis /\ pos' = Genesis

(* Mutant: the pointer is not moved with the coins.                        *)
StepDownPointerKept ==
    /\ coins' = Undone(coins, best)
    /\ UNCHANGED <<best, durable, durableBest, heads>>

StepDown ==
    /\ coins' = Undone(coins, best) /\ best' = Parent[best]
    /\ UNCHANGED <<durable, durableBest, heads>>

(* Phase A: the coins go down one block; the tip stays where it was.       *)
Disconnect ==
    /\ mode = "disconnect" /\ stage = "none"
    /\ At \notin Chain[goal]
    /\ StepDown
    /\ UNCHANGED <<chain, mode, stage, start, file, diskIndex>>

(* The end of phase A: the tip lands on the fork.                          *)
EndDisconnect ==
    /\ mode = "disconnect" /\ stage = "none"
    /\ At \in Chain[goal]
    /\ tip' = At
    /\ mode' = "connect"
    /\ UNCHANGED <<index, goal, pos, stage, start, store, file, diskIndex>>

(* Mutant: the interrupted reorganisation leaves the tip record alone.      *)
InterruptDisconnectTipKept ==
    /\ mode = "disconnect" /\ stage = "none"
    /\ At \notin Chain[goal]
    /\ EndReorg
    /\ UNCHANGED <<tip, index, stage, start, store, file, diskIndex>>

(* A stop request during phase A: the tip lands where the coins are.       *)
InterruptDisconnect ==
    /\ mode = "disconnect" /\ stage = "none"
    /\ At \notin Chain[goal]
    /\ tip' = At
    /\ EndReorg
    /\ UNCHANGED <<index, stage, start, store, file, diskIndex>>

(* Phase B, one block.                                                     *)
ConnectNext ==
    /\ mode = "connect" /\ stage = "none"
    /\ tip # goal
    /\ MoveUp(NextTo(tip, goal))
    /\ UNCHANGED <<goal, pos, mode, stage, start, file, diskIndex>>

(* The goal is reached, or a stop request ends phase B short of it.        *)
EndConnect ==
    /\ mode = "connect" /\ stage = "none"
    /\ EndReorg
    /\ UNCHANGED <<tip, index, stage, start, store, file, diskIndex>>

(* A block of the new branch fails validation: the coins go back the way   *)
(* they came, and the tip is restored last.                                *)
FailConnect ==
    /\ mode = "connect" /\ stage = "none"
    /\ tip # goal
    /\ mode' = "rollback"
    /\ UNCHANGED <<chain, stage, start, store, file, diskIndex>>

RollbackDown ==
    /\ mode = "rollback"
    /\ At \notin Chain[pos]
    /\ StepDown
    /\ UNCHANGED <<chain, mode, stage, start, file, diskIndex>>

RollbackUp ==
    /\ mode = "rollback"
    /\ At \in Chain[pos] \ {pos}
    /\ LET b == NextTo(At, pos)
       IN  coins' = Applied(coins, b) /\ best' = b
    /\ UNCHANGED <<durable, durableBest, heads>>
    /\ UNCHANGED <<chain, mode, stage, start, file, diskIndex>>

EndRollback ==
    /\ mode = "rollback"
    /\ At = pos
    /\ tip' = pos
    /\ EndReorg
    /\ UNCHANGED <<index, stage, start, store, file, diskIndex>>

-----------------------------------------------------------------------------
(* %flush-chainstate: Phase 1 marks chainstate.dat and writes the block    *)
(* index, Phase 2 writes the coins, Phase 3 clears the mark.  It runs      *)
(* after a tip update and at shutdown, after a block of phase A or of a    *)
(* rebuild when the cache is full, and at the end of a rebuild.  The tip   *)
(* it records is the chain's, not the coins'.                              *)
MayFlush ==
    /\ stage = "none"
    /\ \/ mode \in {"run", "rebuilt"}
       \/ mode \in {"disconnect", "rebuild"} /\ best # durableBest

FlushMark ==
    /\ MayFlush
    /\ Save(tip, TRUE)
    /\ stage' = "marked"
    /\ UNCHANGED <<chain, mode, start, store, diskIndex>>

(* Mutant: the flush writes coins whose blocks the index on disk may lack.  *)
FlushIndexSkipped ==
    /\ stage = "marked"
    /\ stage' = "flush"
    /\ UNCHANGED <<chain, mode, start, store, file, diskIndex>>

FlushIndex ==
    /\ stage = "marked"
    /\ SaveIndex
    /\ stage' = "flush"
    /\ UNCHANGED <<chain, mode, start, store, file>>

FlushClear ==
    /\ stage = "flushed"
    /\ Save(tip, FALSE)
    /\ stage' = "none"
    /\ mode' = IF mode = "rebuilt" THEN "reconcile" ELSE mode
    /\ UNCHANGED <<chain, start, store, diskIndex>>

(* Mutant: the coins are written without *persist-block-index-hook*.        *)
SyncUnhooked ==
    /\ Idle
    /\ stage' = "sync"
    /\ UNCHANGED <<chain, mode, start, store, file, diskIndex>>

(* coins-view-cache-sync for a walk of the UTXO set: the block index, by   *)
(* *persist-block-index-hook*, and the coins; chainstate.dat is left       *)
(* alone.                                                                  *)
Sync ==
    /\ Idle
    /\ IF best = NoBlock THEN UNCHANGED diskIndex ELSE SaveIndex
    /\ stage' = "sync"
    /\ UNCHANGED <<chain, mode, start, store, file>>

(* Mutant: the old end of the record is read from the cache's pointer.      *)
WriteBatchOldFromCache ==
    /\ stage \in {"flush", "sync"}
    /\ best # NoBlock
    /\ durable' \in Store!Map
    /\ \A k \in Keys : durable'[k] \in {durable[k], coins[k]}
    /\ durableBest' = NoBlock /\ heads' = <<best, best>>
    /\ UNCHANGED <<coins, best>>
    /\ UNCHANGED <<chain, mode, stage, start, file, diskIndex>>

(* The batches of either.                                                  *)
WriteBatch ==
    /\ stage \in {"flush", "sync"}
    /\ Store!PartialCommit
    /\ UNCHANGED <<chain, mode, stage, start, file, diskIndex>>

WriteLastBatch ==
    /\ stage \in {"flush", "sync"}
    /\ Store!Commit
    /\ stage' = IF stage = "flush" THEN "flushed" ELSE "none"
    /\ IF mode = "replaying"
       THEN mode' = "recover" /\ goal' = Genesis /\ pos' = Genesis
       ELSE UNCHANGED <<mode, goal, pos>>
    /\ UNCHANGED <<tip, index, start, file, diskIndex>>

(* coins-view-cache-wipe: the cache and its pointer first, then the        *)
(* database in chunks, the last of which leaves nothing.                   *)
BeginWipe ==
    /\ coins' = durable /\ best' = NoBlock
    /\ UNCHANGED <<durable, durableBest, heads>>

WipeSome ==
    /\ stage = "wipe"
    /\ Store!Wipe /\ UNCHANGED heads
    /\ UNCHANGED <<chain, mode, stage, start, file, diskIndex>>

(* Mutant: the wipe erases the coins and the pointer, not the record.       *)
WipeLastHeadsKept ==
    /\ stage = "wipe"
    /\ durable' = NoCoins /\ durableBest' = NoBlock
    /\ coins' = NoCoins /\ best' = NoBlock
    /\ stage' = "wiped"
    /\ UNCHANGED <<heads, chain, mode, start, file, diskIndex>>

(* Mutant: the wipe goes on until the record is gone, which it never erases.*)
WipeLastWaiting ==
    /\ stage = "wipe" /\ heads = <<>>
    /\ Store!Wipe /\ durable' = NoCoins /\ durableBest' = NoBlock /\ heads' = <<>>
    /\ stage' = "wiped"
    /\ UNCHANGED <<chain, mode, start, file, diskIndex>>

WipeLast ==
    /\ stage = "wipe"
    /\ Store!Wipe /\ durable' = NoCoins /\ durableBest' = NoBlock /\ heads' = <<>>
    /\ stage' = "wiped"
    /\ UNCHANGED <<chain, mode, start, file, diskIndex>>

-----------------------------------------------------------------------------
(* The process ends: memory is gone, the files stay as they are.           *)
Crash ==
    /\ mode # "down"
    /\ Store!Crash
    /\ mode' = "down" /\ stage' = "none"
    /\ tip' = Genesis /\ goal' = Genesis /\ pos' = Genesis
    /\ index' = diskIndex
    /\ pending' = FALSE /\ rebuild' = FALSE /\ settled' = FALSE /\ UNCHANGED astray
    /\ UNCHANGED <<file, diskIndex>>

-----------------------------------------------------------------------------
(* Start-up.                                                               *)

(* %init-load-chain: chainstate.dat, the coins database and the block      *)
(* index are read.  A recorded tip the index does not hold is dropped when *)
(* the coins are empty too.                                                *)
Load ==
    /\ mode = "down"
    /\ LET t == IF fileTip = NoBlock THEN Genesis ELSE fileTip
       IN  tip' = IF ~Known(t) /\ coins = NoCoins THEN Genesis ELSE t
    /\ pending' = fileMark
    /\ rebuild' \in BOOLEAN
    /\ settled' = FALSE /\ UNCHANGED astray
    /\ mode' = "replay"
    /\ UNCHANGED <<index, goal, pos, stage, store, file, diskIndex>>

(* replay-interrupted-coins-flushes: nothing to finish, or the coins are   *)
(* going to be wiped.                                                      *)
ReplayNothing ==
    /\ mode = "replay" 
    /\ heads = <<>> \/ rebuild
    /\ mode' = "recover"
    /\ UNCHANGED <<chain, stage, start, store, file, diskIndex>>

(* Mutant: the coins are taken for the new block's without rolling anything.*)
ReplayBeginAtNew ==
    /\ mode = "replay"
    /\ heads # <<>> /\ ~rebuild
    /\ Known(heads[1]) /\ heads[2] \in Indexed \cup {NoBlock}
    /\ goal' = heads[1] /\ pos' = heads[1]
    /\ mode' = "replaying"
    /\ UNCHANGED <<tip, index, stage, start, store, file, diskIndex>>

(* Mutant: the interrupted transition is rolled back to its old block.      *)
ReplayBeginBackwards ==
    /\ mode = "replay"
    /\ heads # <<>> /\ ~rebuild
    /\ Known(heads[1]) /\ heads[2] \in Indexed \cup {NoBlock}
    /\ goal' = (IF heads[2] = NoBlock THEN Genesis ELSE heads[2])
    /\ pos' = heads[1]
    /\ mode' = "replaying"
    /\ UNCHANGED <<tip, index, stage, start, store, file, diskIndex>>

(* replay-coins-db-blocks takes the two blocks of the record.  With no old *)
(* one it starts above genesis.                                            *)
ReplayBegin ==
    /\ mode = "replay"
    /\ heads # <<>> /\ ~rebuild
    /\ Known(heads[1]) /\ heads[2] \in Indexed \cup {NoBlock}
    /\ goal' = heads[1]
    /\ pos' = IF heads[2] = NoBlock THEN Genesis ELSE heads[2]
    /\ mode' = "replaying"
    /\ UNCHANGED <<tip, index, stage, start, store, file, diskIndex>>

ReplayDown ==
    /\ mode = "replaying" /\ stage = "none"
    /\ pos \notin Chain[goal] /\ index[pos] = "undo"
    /\ coins' = Undone(coins, pos) /\ best' = Parent[pos]
    /\ UNCHANGED <<durable, durableBest, heads>>
    /\ pos' = Parent[pos]
    /\ UNCHANGED <<tip, index, goal, mode, stage, start, file, diskIndex>>

ReplayUp ==
    /\ mode = "replaying" /\ stage = "none"
    /\ pos \in Chain[goal] \ {goal}
    /\ coins' = Applied(coins, NextTo(pos, goal))
    /\ UNCHANGED <<best, durable, durableBest, heads>>
    /\ pos' = NextTo(pos, goal)
    /\ UNCHANGED <<tip, index, goal, mode, stage, start, file, diskIndex>>

(* The result is flushed under the new block; the write goes through the   *)
(* same hook and batches as any other.                                     *)
ReplayFlush ==
    /\ mode = "replaying" /\ stage = "none"
    /\ pos = goal
    /\ best' = goal
    /\ UNCHANGED <<coins, durable, durableBest, heads>>
    /\ SaveIndex
    /\ stage' = "sync"
    /\ UNCHANGED <<chain, mode, start, file>>

(* recover-inconsistent-chainstate probes for coinbase outputs.            *)
Committed(b) == b # Genesis /\ coins[Coinbase[b]]

CommittedBelow(b) == IF Known(b) THEN {a \in Chain[b] \ {b} : Committed(a)} ELSE {}

Highest(S) == CHOOSE b \in S : \A a \in S : Height[a] <= Height[b]

RecoverNothing ==
    /\ mode = "recover" /\ ~pending
    /\ mode' = "rebuild?"
    /\ UNCHANGED <<chain, stage, start, store, file, diskIndex>>

(* A recorded tip at genesis: an interrupted rebuild.                      *)
RecoverAtGenesis ==
    /\ mode = "recover" /\ pending
    /\ tip = Genesis
    /\ mode' = "reset" /\ stage' = "wipe"
    /\ BeginWipe
    /\ UNCHANGED <<chain, start, file, diskIndex>>

RecoverReset ==
    /\ mode = "reset" /\ stage = "wiped"
    /\ Save(tip, FALSE)
    /\ settled' = TRUE
    /\ mode' = "rebuild?" /\ stage' = "none"
    /\ UNCHANGED <<chain, pending, rebuild, astray, store, diskIndex>>

(* Otherwise the highest block of the recorded chain whose coinbase is     *)
(* there is taken for the tip.                                             *)
RecoverTip ==
    /\ mode = "recover" /\ pending
    /\ tip # Genesis
    /\ Committed(tip) \/ CommittedBelow(tip) # {}
    /\ tip' = IF Committed(tip) THEN tip ELSE Highest(CommittedBelow(tip))
    /\ Save(tip', FALSE)
    /\ mode' = "rebuild?"
    /\ UNCHANGED <<index, goal, pos, stage, start, store, diskIndex>>

(* do-reindex-chainstate: nothing to rebuild at genesis; otherwise the tip *)
(* goes to genesis, under the mark, before the coins are wiped.  With      *)
(* nothing to rebuild nothing is wiped either, although the replay was     *)
(* skipped for a wipe (start-wipes-coins-p): a start that passed over a    *)
(* transition record has gone astray.                                      *)
RebuildNothing ==
    /\ mode = "rebuild?"
    /\ ~rebuild \/ ~Known(tip) \/ tip = Genesis
    /\ mode' = "reconcile"
    /\ astray' = (astray \/ heads # <<>>)
    /\ UNCHANGED <<chain, stage, pending, rebuild, settled, store, file, diskIndex>>

(* Mutant: chainstate.dat stays as it was before the rebuild.               *)
RebuildMarkUnsaved ==
    /\ mode = "rebuild?"
    /\ rebuild /\ Known(tip) /\ tip # Genesis
    /\ goal' = tip
    /\ tip' = Genesis
    /\ mode' = "rebuildWipe"
    /\ UNCHANGED <<index, pos, stage, start, store, file, diskIndex>>

RebuildMark ==
    /\ mode = "rebuild?"
    /\ rebuild /\ Known(tip) /\ tip # Genesis
    /\ goal' = tip
    /\ tip' = Genesis
    /\ Save(Genesis, TRUE)
    /\ mode' = "rebuildWipe"
    /\ UNCHANGED <<index, pos, stage, start, store, diskIndex>>

(* Mutant: the rebuild starts over the coins that are there.                *)
RebuildWipeSkipped ==
    /\ mode = "rebuildWipe"
    /\ mode' = "rebuild" /\ stage' = "wiped"
    /\ BeginWipe
    /\ UNCHANGED <<chain, start, file, diskIndex>>

RebuildWipe ==
    /\ mode = "rebuildWipe"
    /\ mode' = "rebuild" /\ stage' = "wipe"
    /\ BeginWipe
    /\ UNCHANGED <<chain, start, file, diskIndex>>

RebuildBegin ==
    /\ mode = "rebuild" /\ stage = "wiped"
    /\ stage' = "none"
    /\ UNCHANGED <<chain, mode, start, store, file, diskIndex>>

RebuildConnect ==
    /\ mode = "rebuild" /\ stage = "none"
    /\ tip # goal
    /\ LET b == NextTo(tip, goal)
       IN  /\ coins' = Applied(coins, b) /\ best' = b
           /\ tip' = b
    /\ UNCHANGED <<durable, durableBest, heads>>
    /\ UNCHANGED <<index, goal, pos, mode, stage, start, file, diskIndex>>

(* The last block is connected, or one is missing or no longer validates.  *)
(* A last flush follows.                                                   *)
RebuildEnd ==
    /\ mode = "rebuild" /\ stage = "none"
    /\ mode' = "rebuilt" /\ goal' = Genesis
    /\ UNCHANGED <<tip, index, pos, stage, start, store, file, diskIndex>>

(* %init-chain-tip with reconcile-coins-db-best-block: the coins pointer   *)
(* is the fact and chainstate.dat the copy.                                *)
ReconcileKeep ==
    /\ mode = "reconcile"
    /\ settled \/ durableBest = NoBlock \/ (durableBest = tip /\ Known(tip))
          \/ (coins = NoCoins /\ durableBest # Genesis)
    /\ best' = IF ~settled /\ durableBest = NoBlock /\ best = NoBlock
                    /\ tip = Genesis /\ coins = NoCoins
               THEN Genesis ELSE best
    /\ mode' = "run"
    /\ UNCHANGED <<coins, durable, durableBest, heads>>
    /\ UNCHANGED <<chain, stage, start, file, diskIndex>>

Misplaced ==
    /\ mode = "reconcile"
    /\ ~settled /\ durableBest # NoBlock
    /\ ~(durableBest = tip /\ Known(tip))
    /\ coins # NoCoins \/ durableBest = Genesis

ReconcileMove ==
    /\ Misplaced
    /\ Known(durableBest)
    /\ tip' = durableBest
    /\ Save(durableBest, FALSE)
    /\ mode' = "run"
    /\ UNCHANGED <<index, goal, pos, stage, start, store, diskIndex>>

(* Start-up ends with an error: a block of the record is not in the index, *)
(* one to roll back has no undo data, the walk back finds no committed     *)
(* block, or the coins pointer names a block the index does not have.      *)
Refuse ==
    /\ stage = "none"
    /\ ~ /\ mode = "replay" /\ heads # <<>> /\ ~rebuild =>
             Known(heads[1]) /\ heads[2] \in Indexed \cup {NoBlock}
         /\ mode = "replaying" /\ pos \notin Chain[goal] => index[pos] = "undo"
         /\ mode = "recover" /\ pending /\ tip # Genesis =>
             Committed(tip) \/ CommittedBelow(tip) # {}
         /\ Misplaced => Known(durableBest)
    /\ mode' = "refused"
    /\ UNCHANGED <<chain, stage, start, store, file, diskIndex>>

-----------------------------------------------------------------------------
Run ==
    \/ \E b \in Blocks : Learn(b) \/ Connect(b) \/ BeginReorg(b)
    \/ Disconnect \/ EndDisconnect \/ InterruptDisconnect
    \/ ConnectNext \/ EndConnect
    \/ FailConnect \/ RollbackDown \/ RollbackUp \/ EndRollback

Write ==
    \/ FlushMark \/ FlushIndex \/ FlushClear
    \/ Sync
    \/ WriteBatch \/ WriteLastBatch
    \/ WipeSome \/ WipeLast

StartUp ==
    \/ Load
    \/ ReplayNothing \/ ReplayBegin \/ ReplayDown \/ ReplayUp \/ ReplayFlush
    \/ RecoverNothing \/ RecoverAtGenesis \/ RecoverReset \/ RecoverTip
    \/ RebuildNothing \/ RebuildMark \/ RebuildWipe \/ RebuildBegin
    \/ RebuildConnect \/ RebuildEnd
    \/ ReconcileKeep \/ ReconcileMove
    \/ Refuse

Next == Run \/ Write \/ Crash \/ StartUp

Spec == Init /\ [][Next]_vars

(* Start-up and a write under way run on a thread of their own, which      *)
(* nothing else in the process holds up.                                   *)
FairSpec == Spec /\ WF_vars(StartUp) /\ WF_vars(Write)

-----------------------------------------------------------------------------
(* Properties.                                                             *)

(* The pointer moves with the coins (apply-block-to-utxo-set and           *)
(* disconnect-block-from-utxo-set set it as their last act), so it names   *)
(* the block whose coins are in memory at every point where a flush may    *)
(* begin: running, within a reorganisation, rolling one back, rebuilding.  *)
CoinsFollowPointer ==
    \/ mode \in {"run", "disconnect", "connect", "rollback", "rebuilt"}
    \/ mode = "rebuild" /\ stage \notin {"wipe"}
    => coins = Utxo[At]

(* chainstate.dat records genesis under the mark: a start will empty the   *)
(* coins whatever else it finds (recover-inconsistent-chainstate).         *)
Doomed == fileMark /\ fileTip = Genesis

(* A coins database that names a block holds exactly the coins after that  *)
(* block, whatever was interrupted, unless they are about to be emptied:   *)
(* what reconcile-coins-db-best-block relies on when it lets the coins win *)
(* over chainstate.dat.                                                    *)
DurableNamesItsCoins ==
    durableBest # NoBlock /\ ~Doomed => durable = Utxo[durableBest]

(* A transition record that start-up would replay brackets the coins: each *)
(* is as after the new block or as after the old one.                      *)
HeadsBracketCoins ==
    heads # <<>> /\ ~Doomed =>
        \A k \in Keys :
            durable[k] \in {Utxo[heads[1]][k],
                            IF heads[2] = NoBlock THEN FALSE ELSE Utxo[heads[2]][k]}

(* Whatever a restart finds in the coins database it can place: the block  *)
(* it names, and both blocks of a transition record, are in the block      *)
(* index on disk, with undo data from the old end down.  This is what the  *)
(* order "block index before coins" is for, in every writer of coins.      *)
Placeable(b) ==
    /\ diskIndex[b] # "absent"
    /\ \A a \in Chain[b] \ {Genesis} : diskIndex[a] = "undo"
PointerPlaceable ==
    /\ durableBest # NoBlock => Placeable(durableBest)
    /\ heads # <<>> => Placeable(heads[1]) /\ (heads[2] # NoBlock => Placeable(heads[2]))

(* Whatever a crash leaves in the coins database, the block or the record  *)
(* of the transition found with it says what the coins are, and start-up   *)
(* can place it: until a start with -reindex-chainstate passes over such a *)
(* record and then has nothing to rebuild, and so in what follows.         *)
DurableSaysWhatItIs ==
    ~astray => DurableNamesItsCoins /\ HeadsBracketCoins /\ PointerPlaceable

(* The pointer says whose coins are in memory; and whenever the node runs  *)
(* and moves no block, that is the tip: after any crash, recovery,         *)
(* interrupted reorganisation or rebuild that did not go astray.           *)
TipMatchesCoins ==
    ~astray => CoinsFollowPointer /\ (Idle => tip = At /\ coins = Utxo[tip])

(* The two automatic repairs that refuse only for a damaged database       *)
(* (replay-coins-db-blocks and reconcile-coins-db-best-block) never refuse *)
(* after a crash; what refuses is the walk back from a marked tip, and     *)
(* only when the marked tip is not in the index on disk or has nothing     *)
(* above genesis in common with the coins (or the start is a rebuild,      *)
(* which walks back over whatever an interrupted flush has left, or one    *)
(* has gone astray).                                                       *)
OnlyWalkBackRefuses ==
    mode = "refused" /\ ~astray =>
        /\ pending
        /\ heads = <<>> \/ rebuild
        /\ heads = <<>> => ~Known(tip) \/ Chain[tip] \cap Chain[At] = {Genesis}

(* Every start comes to an end once the crashes stop.                      *)
StartUpEnds ==
    []<><<Crash>>_vars \/ (mode = "down" ~> mode \in {"run", "refused"})

(* Seen from outside the node has one tip, which moves one block at a      *)
(* time, and one kept tip, which a restart comes back to and which changes *)
(* only by keeping the tip of that moment or by going back to genesis;     *)
(* until a start goes astray.                                              *)
Shown ==
    IF mode \in {"run", "disconnect", "connect", "rollback", "rebuilt", "reconcile"}
        \/ (mode = "rebuild" /\ stage \notin {"wipe", "wiped"})
    THEN At ELSE NoBlock
Kept ==
    IF durableBest # NoBlock THEN durableBest
    ELSE IF heads # <<>> THEN heads[1] ELSE Genesis
Tip == INSTANCE KeptTip WITH Nowhere <- NoBlock, shown <- Shown, kept <- Kept
ImplementsKeptTip == Tip!Init /\ [][Tip!Next \/ astray']_<<Shown, Kept>>
=============================================================================
