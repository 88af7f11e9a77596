------------------------------- MODULE Indexes -------------------------------
(***************************************************************************)
(* The four optional indexes: storage/index-base.lisp, txindex.lisp,       *)
(* txospenderindex.lisp, blockfilterindex.lisp and coinstatsindex.lisp     *)
(* under the driver of node/indexes.lisp.                                  *)
(*                                                                         *)
(* An index follows the chain through one event, block-connected; it is    *)
(* not told of a disconnected block, and takes an abandoned branch back    *)
(* when the next block does not follow the one it stands at.  Its records  *)
(* go to its database block by block, while the block it stands at stays   *)
(* in memory and is written only after a chainstate flush: a crash leaves  *)
(* records ahead of the marker.  An index that stalls holds back pruning   *)
(* through its prune lock.                                                 *)
(*                                                                         *)
(* Each behaviour follows one index of one kind.  The chain moves in one   *)
(* step with its events queued (Activation has the steps in between), the  *)
(* flush in three (Chainstate has the rest of it).                         *)
(***************************************************************************)
EXTENDS Integers, FiniteSets

CONSTANTS
    Blocks, Genesis,
    Parent,       \* [Blocks -> Blocks]; the parent of Genesis is not used
    Chain,        \* [Blocks -> SUBSET Blocks]: a block and its ancestors
    Height,       \* [Blocks -> Nat]
    Txs, TxsOf,   \* [Blocks -> SUBSET Txs]
    Kinds,        \* the kinds of index looked at
    None,
    PruneKeep,    \* +min-blocks-to-keep+ (288)
    PruneBuffer,  \* +prune-lock-buffer+ (10)
    MaxFaults     \* bound on crashes and failing writes and reads together

VARIABLES
    kind,         \* which index this is
    status,       \* of the node: "down", "sync", "up", "refused", "aborted"
    known, tip,   \* the block index and best-block-hash, in memory
    tell,         \* blocks whose block-connected event is still to come,
                  \* lowest first
    flushing,     \* how far %flush-chainstate is: "no", "index", "tip"
    saved,        \* on disk: block index, tip, the index's marker and 'M'
    pruned,       \* pruned-height
    cap,          \* *prune-lock-caps* for this index's lock
    best,         \* best-entry
    running,      \* coinstats: current-hash and the running state
    db,           \* the index's records
    scan,         \* the height the start-up sync is at
    fails,        \* writes and reads that failed (bounded)
    crashes,      \* crashes so far (bounded)
    left          \* blocks whose records a restart left above the marker

chain == <<known, tip, tell>>
memory == <<best, running>>
vars == <<kind, status, chain, flushing, saved, pruned, cap, memory, db, scan,
          fails, crashes, left>>

ASSUME TreeAssumption ==
    /\ Genesis \in Blocks /\ None \notin Blocks
    /\ Parent \in [Blocks -> Blocks] /\ Height \in [Blocks -> Nat]
    /\ Chain \in [Blocks -> SUBSET Blocks]
    /\ Chain[Genesis] = {Genesis} /\ Height[Genesis] = 0
    /\ \A b \in Blocks \ {Genesis} :
          /\ Chain[b] = Chain[Parent[b]] \cup {b} /\ b \notin Chain[Parent[b]]
          /\ Height[b] = Height[Parent[b]] + 1
ASSUME KindAssumption == Kinds \subseteq {"tx", "spender", "filter", "coinstats"}
(* No two transactions of one chain have the same hash (BIP30).            *)
ASSUME TxAssumption ==
    /\ TxsOf \in [Blocks -> SUBSET Txs]
    /\ \A b \in Blocks : \A c \in Chain[b] \ {b} : TxsOf[b] \cap TxsOf[c] = {}
ASSUME BoundAssumption ==
    PruneKeep \in Nat /\ PruneBuffer \in Nat /\ MaxFaults \in Nat
Values == [Blocks -> Int]
ASSUME NoneAssumption ==
    None \notin Nat \cup Values \cup [block : Blocks, value : Values]

-----------------------------------------------------------------------------
(* The chain.                                                              *)

Heights == {Height[b] : b \in Blocks}
OnChain(b) == b \in Chain[tip]

(* Of a set of blocks of one chain.                                        *)
Highest(S) == CHOOSE b \in S : \A c \in S : Height[c] <= Height[b]

(* find-fork-point                                                         *)
Fork(a, b) == Highest(Chain[a] \cap Chain[b])

AtHeight(h) == CHOOSE b \in Chain[tip] : Height[b] = h

(* The block whose event comes next.                                       *)
Due(b) == b \in tell /\ \A c \in tell : Height[b] <= Height[c]

(* get-block and its undo data; the genesis block is always at hand.       *)
Readable(b) == b = Genesis \/ Height[b] > pruned
Bodies == {b \in Blocks : Readable(b)}

-----------------------------------------------------------------------------
(* Records.  What a filter header or a running MuHash commits to is the    *)
(* number of times each block was folded in.                               *)

Nothing == [b \in Blocks |-> 0]
Plus(v, b) == [v EXCEPT ![b] = @ + 1]
Minus(v, S) == [c \in Blocks |-> IF c \in S THEN v[c] - 1 ELSE v[c]]

(* coinstatsindex-get-block-stats and %bfi-lookup: the height record when  *)
(* it is this block's, else what a reorganisation left under the hash.     *)
LookUp(x, b) ==
    IF x.at[Height[b]] # None /\ x.at[Height[b]].block = b
    THEN x.at[Height[b]].value ELSE x.byHash[b]

(* %csi-write-record and %bfi-write-record: the height's other block moves *)
(* to its hash.                                                            *)
WriteRecord(x, b, v) ==
    LET old == x.at[Height[b]] IN
    [x EXCEPT !.at[Height[b]] = [block |-> b, value |-> v],
              !.byHash = IF old = None \/ old.block = b THEN @
                         ELSE [@ EXCEPT ![old.block] = old.value]]

(* The index as rewinding and writing see it: its records and its memory.  *)
Index == [db |-> db, best |-> best, running |-> running]

-----------------------------------------------------------------------------
(* index-height, as each kind answers it, and the height its sync starts   *)
(* from.  The tx index keeps a hash only, and a marker above the tip sends *)
(* it back to genesis (%txindex-resume-height).                            *)

ChainHeight(b) == IF b = None THEN -1 ELSE Height[Fork(b, tip)]

TxResume ==
    IF best = None \/ Height[best] > Height[tip] THEN 0
    ELSE Height[Fork(best, tip)] + 1

IndexHeight(x) ==
    CASE kind = "tx" -> TxResume - 1
      [] kind \in {"spender", "filter"} -> ChainHeight(x.best)
      [] kind = "coinstats" -> IF x.best = None THEN -1 ELSE Height[x.best]

ScanFrom(x) ==
    IF kind = "tx" THEN TxResume
    ELSE IF x.best = None THEN 0 ELSE Height[x.best] + 1

-----------------------------------------------------------------------------
(* index-prepare-sync: take the index back to the active chain.  Nothing   *)
(* for the tx index, whose records the new branch writes over.             *)

Abandoned(x) == Chain[x.best] \ Chain[tip]

(* The blocks of the abandoned branch that are taken back, from the marker *)
(* down to the first that cannot be.                                       *)
Above(x, b) == {c \in Abandoned(x) : Height[c] >= Height[b]}
TakenBack(x, good) == {b \in Abandoned(x) : Above(x, b) \subseteq good}

(* %rewind-txospenderindex: erase the abandoned branch's rows, as far as   *)
(* its bodies can be read.                                                 *)
RewindSpenderMarker(x, bodies) ==     \* Mutant: the rows stay
    [ok |-> TRUE, x |-> [x EXCEPT !.best = Fork(@, tip)]]
RewindSpender(x, bodies) ==
    LET gone == TakenBack(x, bodies)
        ok == gone = Abandoned(x)
    IN  [ok |-> ok, x |-> [x EXCEPT !.db.rows = @ \ gone, !.best = IF ok THEN Fork(@, tip) ELSE @]]

(* %rewind-blockfilterindex: records stay, the marker goes to the highest  *)
(* block at or below the fork that has a filter.                           *)
RewindFilterShort(x) ==       \* Mutant: a marker at or below the tip's height stays
    [ok |-> TRUE, x |-> IF Height[x.best] > Height[tip]
                        THEN [x EXCEPT !.best = Fork(@, tip)] ELSE x]
RewindFilter(x) ==
    LET f == Fork(x.best, tip)
        C == {b \in Chain[f] : LookUp(x.db, b) # None}
    IN  [ok |-> TRUE,
         x  |-> [x EXCEPT !.best = Highest(C)]]

(* coinstatsindex-revert-block: the state without the block, and those     *)
(* above it, must be the one its parent's record has the digest of.        *)
Reverts(x, b) == LookUp(x.db, Parent[b]) = Minus(x.running.value, Above(x, b))

(* %rewind-coinstatsindex: the records move to their hashes on the way.    *)
(* The copy made for a block that then fails the check is left out: it     *)
(* says what the record at the block's height goes on saying.              *)
RewindCoinstats(x, bodies) ==
    LET gone == TakenBack(x, {b \in bodies : Reverts(x, b)})
        b == Highest(Chain[x.best] \ gone)
    IN  IF x.running = None \/ x.running.block # x.best THEN [ok |-> FALSE, x |-> x]
        ELSE [ok |-> gone = Abandoned(x),
              x  |-> [db |-> [x.db EXCEPT !.byHash =
                                 [c \in Blocks |-> IF c \in gone THEN LookUp(x.db, c)
                                                   ELSE x.db.byHash[c]]],
                      best |-> b,
                      running |-> [block |-> b, value |-> Minus(x.running.value, gone)]]]

Prepared(x, bodies) ==
    IF x.best = None \/ OnChain(x.best) THEN [ok |-> TRUE, x |-> x]
    ELSE CASE kind = "tx" -> [ok |-> TRUE, x |-> x]
           [] kind = "spender" -> RewindSpender(x, bodies)
           [] kind = "filter" -> RewindFilter(x)
           [] kind = "coinstats" -> RewindCoinstats(x, bodies)

-----------------------------------------------------------------------------
(* index-write-block: one block's records in one batch, then the marker.   *)
(* A block that would leave a gap is refused, and the index stays where it *)
(* is; the tx index does not ask.                                          *)

WriteTx(x, b) ==
    [x EXCEPT !.db.where = [t \in Txs |-> IF t \in TxsOf[b] THEN b ELSE @[t]],
              !.best = b]

AddSpends(x, b) == [x EXCEPT !.db.rows = @ \cup {b}, !.best = b]

WriteSpender(x, b) ==
    LET h == ChainHeight(x.best) IN
    IF h >= 0 /\ Height[b] > h + 1 THEN x ELSE AddSpends(x, b)

(* blockfilterindex-add-block                                              *)
WriteFilterAnyway(x, b) ==    \* Mutant: a missing parent is not refused
    LET prev == IF b = Genesis THEN None ELSE LookUp(x.db, Parent[b]) IN
    [x EXCEPT !.db = WriteRecord(@, b, Plus(IF prev = None THEN Nothing ELSE prev, b)),
              !.best = b]
WriteFilter(x, b) ==
    LET prev == IF b = Genesis THEN None ELSE LookUp(x.db, Parent[b]) IN
    IF prev = None /\ x.best # None THEN x
    ELSE [x EXCEPT !.db = WriteRecord(@, b, Plus(IF prev = None THEN Nothing ELSE prev, b)),
                   !.best = b]

(* coinstatsindex-add-block and coinstatsindex-seed-genesis                *)
WriteCoinstatsOnAny(x, b) ==   \* Mutant: the parent is not compared
    LET v == Plus(IF b = Genesis THEN Nothing ELSE x.running.value, b) IN
    [db |-> WriteRecord(x.db, b, v), best |-> b, running |-> [block |-> b, value |-> v]]
WriteCoinstats(x, b) ==
    LET v == Plus(IF b = Genesis THEN Nothing ELSE x.running.value, b) IN
    IF b # Genesis /\ (x.running = None \/ x.running.block # Parent[b]) THEN x
    ELSE [db |-> WriteRecord(x.db, b, v), best |-> b,
          running |-> [block |-> b, value |-> v]]

Written(x, b) ==
    CASE kind = "tx" -> WriteTx(x, b)
      [] kind = "spender" -> WriteSpender(x, b)
      [] kind = "filter" -> WriteFilter(x, b)
      [] kind = "coinstats" -> WriteCoinstats(x, b)

Becomes(x) == db' = x.db /\ best' = x.best /\ running' = x.running

-----------------------------------------------------------------------------
Init ==
    /\ kind \in Kinds
    /\ status = "down" /\ known = {Genesis} /\ tip = Genesis /\ tell = {}
    /\ flushing = "no" /\ pruned = 0 /\ cap = None
    /\ best = None /\ running = None /\ scan = 0
    /\ saved = [known |-> {Genesis}, tip |-> Genesis, best |-> None, mu |-> None]
    /\ db = [at |-> [h \in Heights |-> None], byHash |-> [b \in Blocks |-> None],
             rows |-> {}, where |-> [t \in Txs |-> None]]
    /\ fails = 0 /\ crashes = 0 /\ left = {}

-----------------------------------------------------------------------------
(* Start-up: %start-indexes.                                               *)

(* coinstatsindex-load-running: the fraction under 'M' must be the one the *)
(* marker's record has the digest of.                                      *)
Unreadable == kind = "coinstats" /\ best # None /\ saved.mu # LookUp(db, best)
LoadedNothing == Index   \* Mutant: the running state is not read
Loaded ==
    [Index EXCEPT !.running = IF kind = "coinstats" /\ best # None
                              THEN [block |-> best, value |-> saved.mu] ELSE None]

(* %refuse-index-beyond-pruned-data                                        *)
LowestOnDisk == IF pruned > 0 THEN pruned + 1 ELSE 0
BeyondPruned == Height[tip] > 0 /\ IndexHeight(Index) + 1 < LowestOnDisk

Refuse ==
    /\ status = "down"
    /\ \/ best # None /\ best \notin known
       \/ BeyondPruned
       \/ Unreadable
    /\ status' = "refused"
    /\ UNCHANGED <<kind, chain, flushing, saved, pruned, cap, memory, db, scan,
                   fails, crashes, left>>

StartSync ==
    /\ status = "down"
    /\ best = None \/ best \in known
    /\ ~BeyondPruned /\ ~Unreadable
    /\ cap' = None
    /\ LET p == Prepared(Loaded, Bodies) IN
          /\ Becomes(p.x)
          /\ status' = IF p.ok THEN "sync" ELSE "aborted"
          /\ scan' = ScanFrom(p.x)
    /\ UNCHANGED <<kind, chain, flushing, saved, pruned, fails, crashes, left>>

(* %txindex-block-indexed-p: the record of its last transaction, whichever *)
(* that is, names the block.                                               *)
LastTx(b) == CHOOSE t \in TxsOf[b] : TRUE
Recorded(x, b) == TxsOf[b] # {} /\ x.db.where[LastTx(b)] = b

(* One block of index-sync.  The tx index passes over a block it cannot    *)
(* read or takes for recorded; the filter index over one it cannot read    *)
(* while it is empty; otherwise the sync ends there.                       *)
ReadTx(x, b) ==
    IF b = Genesis \/ Recorded(x, b) THEN x ELSE [WriteTx(x, b) EXCEPT !.best = x.best]

SyncBlock ==
    /\ status = "sync" /\ scan <= Height[tip]
    /\ LET b == AtHeight(scan)
           x == IF ~Readable(b) THEN Index
                ELSE IF kind = "tx" THEN ReadTx(Index, b) ELSE Written(Index, b)
           stops == x = Index /\ kind # "tx" /\ ~(kind = "filter" /\ best = None)
       IN  /\ Becomes(x)
           /\ scan' = IF stops THEN Height[tip] + 1 ELSE scan + 1
    /\ UNCHANGED <<kind, status, chain, flushing, saved, pruned, cap, fails,
                   crashes, left>>

(* commit-index: the marker and coinstats' running fraction in one batch.  *)
CommittedMarkerOnly(d, x) == [d EXCEPT !.best = x.best]   \* Mutant
Committed(d, x) ==
    [d EXCEPT !.best = x.best,
              !.mu = IF x.running = None THEN @ ELSE x.running.value]

SyncEnd ==
    /\ status = "sync" /\ scan > Height[tip]
    /\ best' = IF kind = "tx" THEN tip ELSE best
    /\ saved' = Committed(saved, [Index EXCEPT !.best = best'])
    /\ status' = "up" /\ scan' = 0
    /\ UNCHANGED <<kind, chain, flushing, pruned, cap, running, db, fails,
                   crashes, left>>

-----------------------------------------------------------------------------
(* The chain and its events.                                               *)

Quiet == status = "up" /\ tell = {} /\ flushing = "no"

(* %prune-lock-height; the tx and spender indexes exclude pruning.         *)
IndexHeightForLock == IF best = None \/ Height[best] = 0 THEN None ELSE Height[best]
Lowered == cap # None /\ (IndexHeightForLock = None \/ IndexHeightForLock > cap)
LockHeight == IF Lowered THEN cap ELSE IndexHeightForLock

(* The tip moves to b: an extension, a reorganisation, or an operator's    *)
(* invalidateblock.  move-prune-locks-back hears of every block that       *)
(* leaves; those that join are told of one by one.  A block enters the     *)
(* block index with it.                                                    *)
Move(b) ==
    /\ Quiet /\ b # tip
    /\ \A c \in (Chain[tip] \ Chain[b]) \cup (Chain[b] \ Chain[tip]) : Readable(c)
    /\ tip' = b /\ known' = known \cup Chain[b]
    /\ tell' = Chain[b] \ Chain[tip]
    /\ cap' = LET f == Height[Fork(tip, b)] IN
              IF tip \in Chain[b] THEN cap
              ELSE IF LockHeight # None /\ LockHeight > f THEN f
              ELSE IF Lowered THEN cap ELSE None
    /\ UNCHANGED <<kind, status, flushing, saved, pruned, memory, db, scan, fails,
                   crashes, left>>

(* index-block-connected: rewind when the block does not follow the one    *)
(* the index is at, then write it.  An error is logged and passed over; a  *)
(* rewind that fails stops the node; `lost' is a body the disk fails to    *)
(* give back.                                                              *)
Rewound(b, bodies) ==
    IF best # None /\ best # Parent[b] THEN Prepared(Index, bodies)
    ELSE [ok |-> TRUE, x |-> Index]

Connected(b) ==
    LET r == Rewound(b, Bodies) IN
    /\ status = "up" /\ Due(b) /\ r.ok
    /\ Becomes(Written(r.x, b))
    /\ tell' = tell \ {b}
    /\ UNCHANGED <<kind, status, known, tip, flushing, saved, pruned, cap, scan,
                   fails, crashes, left>>

WriteFails(b) ==
    LET r == Rewound(b, Bodies) IN
    /\ status = "up" /\ Due(b) /\ r.ok
    /\ fails + crashes < MaxFaults /\ fails' = fails + 1
    /\ Becomes(r.x)
    /\ tell' = tell \ {b}
    /\ UNCHANGED <<kind, status, known, tip, flushing, saved, pruned, cap, scan,
                   crashes, left>>

RewindFails(b, lost) ==
    LET r == Rewound(b, Bodies \ lost) IN
    /\ status = "up" /\ Due(b) /\ ~r.ok
    /\ fails + crashes + Cardinality(lost) <= MaxFaults
    /\ fails' = fails + Cardinality(lost)
    /\ Becomes(r.x)
    /\ status' = "aborted"
    /\ UNCHANGED <<kind, chain, flushing, saved, pruned, cap, scan, crashes, left>>

-----------------------------------------------------------------------------
(* The flush, as far as the indexes depend on it: the block index, then    *)
(* the chainstate, then the markers.                                       *)

FlushIndexLater ==       \* Mutant: the block index is not written first
    /\ Quiet
    /\ flushing' = "index"
    /\ UNCHANGED <<kind, status, chain, saved, pruned, cap, memory, db, scan,
                   fails, crashes, left>>
FlushIndex ==
    /\ Quiet
    /\ saved' = [saved EXCEPT !.known = known]
    /\ flushing' = "index"
    /\ UNCHANGED <<kind, status, chain, pruned, cap, memory, db, scan, fails,
                   crashes, left>>

FlushTip ==
    /\ status = "up" /\ flushing = "index"
    /\ saved' = [saved EXCEPT !.tip = tip]
    /\ flushing' = "tip"
    /\ UNCHANGED <<kind, status, chain, pruned, cap, memory, db, scan, fails,
                   crashes, left>>

(* %commit-indexes-after-flush                                             *)
MayCommit == best # None /\ tip \in Chain[best]

FlushMarker ==
    /\ status = "up" /\ flushing = "tip"
    /\ saved' = IF MayCommit THEN Committed(saved, Index) ELSE saved
    /\ flushing' = "no"
    /\ UNCHANGED <<kind, status, chain, pruned, cap, memory, db, scan, fails,
                   crashes, left>>

(* prune-blocks-to-height, for every block at or below h.  Blocks above    *)
(* the flushed tip are not pruned here: after a crash the node would fetch *)
(* them again, which is not followed.                                      *)
CeilingUnlocked == Height[tip]   \* Mutant: the locks are not asked
Ceiling ==
    IF LockHeight = None THEN Height[tip]
    ELSE LET l == LockHeight - PruneBuffer - 1 IN
         IF Height[tip] < l THEN Height[tip] ELSE IF l < 1 THEN 1 ELSE l

Prune(h) ==
    /\ Quiet /\ kind \in {"filter", "coinstats"}
    /\ pruned < h /\ h <= Height[tip] - PruneKeep /\ h <= Ceiling
    /\ h <= Height[saved.tip]
    /\ pruned' = h
    /\ cap' = IF Lowered THEN cap ELSE None
    /\ UNCHANGED <<kind, status, chain, flushing, saved, memory, db, scan, fails,
                   crashes, left>>

-----------------------------------------------------------------------------
(* A restart finds the marker of the last commit and every record written. *)
Forget ==
    /\ status' = "down" /\ tell' = {} /\ flushing' = "no" /\ cap' = None
    /\ running' = None /\ best' = saved'.best /\ scan' = 0
    /\ known' = saved'.known /\ tip' = saved'.tip
    /\ left' = left \cup (db.rows \ (IF saved'.best = None THEN {} ELSE Chain[saved'.best]))
    /\ UNCHANGED <<kind, pruned, db, fails>>

Crash ==
    /\ status \in {"sync", "up", "aborted"} /\ fails + crashes < MaxFaults
    /\ crashes' = crashes + 1
    /\ UNCHANGED saved /\ Forget

(* An orderly stop flushes first.                                          *)
Stop ==
    /\ Quiet
    /\ saved' = LET s == [saved EXCEPT !.known = known, !.tip = tip] IN
                IF MayCommit THEN Committed(s, Index) ELSE s
    /\ UNCHANGED crashes /\ Forget

Next ==
    \/ Refuse \/ StartSync \/ SyncBlock \/ SyncEnd
    \/ \E b \in Blocks : Move(b) \/ Connected(b) \/ WriteFails(b)
    \/ \E b \in Blocks, lost \in {{}} \cup {{c} : c \in Blocks} : RewindFails(b, lost)
    \/ FlushIndex \/ FlushTip \/ FlushMarker
    \/ \E h \in Heights : Prune(h)
    \/ Crash \/ Stop

Spec == Init /\ [][Next]_vars

-----------------------------------------------------------------------------
(* What a filter header or a UTXO statistic says of a block is the fold of *)
(* that block's own chain, whichever branches came and went and wherever   *)
(* the process died.                                                       *)
ValuesRight ==
    \A b \in Blocks :
        LookUp(db, b) # None =>
            LookUp(db, b) = [c \in Blocks |-> IF c \in Chain[b] THEN 1 ELSE 0]

(* gettxspendingprevout: a spend on an abandoned branch is gone once the   *)
(* index has moved on, save the rows a restart left above the marker.  (A  *)
(* write that fails on the way back up a branch can leave rows as well.)   *)
NoStaleSpend ==
    best # None /\ status = "up" /\ fails = 0 =>
        db.rows \subseteq Chain[best] \cup Chain[tip] \cup left

(* What an index answers is of the chain it is on.                         *)
RecordsRight == ValuesRight /\ NoStaleSpend

(* "The highest height INDEX has indexed contiguously from genesis"        *)
(* (index-base.lisp): every block up to the one an index says it is at     *)
(* can be looked up.                                                       *)
Indexed(b) ==
    CASE kind = "tx" -> \A t \in TxsOf[b] : db.where[t] # None /\ db.where[t] \in Chain[best]
      [] kind = "spender" -> b \in db.rows
      [] kind \in {"filter", "coinstats"} -> LookUp(db, b) # None
NoGap == status = "up" /\ best # None => \A b \in Chain[best] \ {Genesis} : Indexed(b)

(* What holds of that: all of it for the filter and coinstats indexes; for *)
(* the tx and spender indexes while no write fails and nothing crashes.    *)
NoGapOtherwise == (kind \in {"tx", "spender"} /\ fails + crashes > 0) \/ NoGap

(* An index whose writes succeeded has the whole active chain once every   *)
(* event is delivered, and never stops the node, neither at start-up       *)
(* ("Please rebuild the index", "may be corrupted", "goes beyond pruned    *)
(* data") nor because a branch the node left cannot be taken back.         *)
CoversTip ==
    fails = 0 =>
        /\ status \notin {"refused", "aborted"}
        /\ status = "up" /\ tell = {} => best # None /\ tip \in Chain[best]

(* While the node runs, pruning leaves what an index behind the tip still  *)
(* has to read.                                                            *)
LockHolds ==
    kind \in {"filter", "coinstats"} /\ status = "up" /\ best # None /\ Height[best] > 0
        => \A b \in Chain[tip] : Height[b] > Height[best] => Readable(b)

=============================================================================
