----------------------------- MODULE CoinsCache -----------------------------
(***************************************************************************)
(* storage/coins-view-cache.lisp over storage/coins-view.lisp: the         *)
(* in-memory cache of coins with its DIRTY and FRESH flags, and the coins  *)
(* LevelDB under it.                                                       *)
(*                                                                         *)
(* Two threads touch the cache.  The chain thread reads, adds, spends and  *)
(* flushes under the node lock.  An RPC thread that walks the UTXO set     *)
(* first syncs the cache, in two passes over the table: one writes the     *)
(* dirty entries, one clears the flags.  SyncHoldsNodeLock says whether it *)
(* keeps the node lock across both (the contract of                        *)
(* coins-view-cache-sync); where it does not, the chain thread runs        *)
(* between the passes.                                                     *)
(***************************************************************************)
EXTENDS Integers, FiniteSets

CONSTANTS
    Keys, Coins, NoCoin, Blocks, NoBlock,
    Overhead,           \* +coins-cache-entry-overhead-bytes+
    ScriptSize,         \* bytes of a coin's scriptPubKey; 0 for NoCoin
    SyncHoldsNodeLock   \* BOOLEAN

ASSUME CoinsAssumption == NoCoin \notin Coins /\ NoBlock \notin Blocks
ASSUME KeysAssumption == IsFiniteSet(Keys)
ASSUME LockAssumption == SyncHoldsNodeLock \in BOOLEAN
ASSUME SizeAssumption == Overhead \in Nat /\ ScriptSize \in [Coins \cup {NoCoin} -> Nat]

VARIABLES
    entries,     \* cvc-entries: outpoint -> slot
    bestBlock,   \* cvc-best-block
    dirtyCount,  \* cvc-dirty-count
    freshCount,  \* cvc-fresh-count
    memBytes,    \* cvc-mem-bytes
    base,        \* the 'C' records of the LevelDB
    baseBest,    \* its 'B' record
    baseHeads,   \* its 'H' record, <<new, old>>, or <<>> when there is none
    op,          \* the multi-step operation under way
    stamp,       \* its best-block argument
    visited      \* the dirty outpoints its batches have written

memory == <<entries, bestBlock, dirtyCount, freshCount, memBytes>>
disk == <<base, baseBest, baseHeads>>
control == <<op, stamp, visited>>
vars == <<memory, disk, control>>

-----------------------------------------------------------------------------
(* A slot of the table.  A spent coin the base still holds is a slot with  *)
(* no coin (a tombstone); an outpoint the table does not mention is        *)
(* NoSlot.                                                                 *)
Slot == [held : BOOLEAN, coin : Coins \cup {NoCoin}, dirty : BOOLEAN, fresh : BOOLEAN]
NoSlot == [held |-> FALSE, coin |-> NoCoin, dirty |-> FALSE, fresh |-> FALSE]
Held(c, d, f) == [held |-> TRUE, coin |-> c, dirty |-> d, fresh |-> f]

Ops == {"idle", "flush", "sync", "clear", "wipe"}

Dirty == {k \in Keys : entries[k].dirty}
Fresh == {k \in Keys : entries[k].fresh}

One(b) == IF b THEN 1 ELSE 0

(* cache-entry-mem-bytes                                                   *)
SlotBytes(s) == IF s.held THEN Overhead + ScriptSize[s.coin] ELSE 0

(* What a reader gets: the cached slot, else what the base holds           *)
(* (coins-view-cache-get through fetch-coin).                              *)
View == [k \in Keys |-> IF entries[k].held THEN entries[k].coin ELSE base[k]]

(* The slot fetch-coin returns: the cached one, else a clean one filled    *)
(* from the base, else none.                                               *)
Fetched(k) ==
    IF entries[k].held \/ base[k] = NoCoin THEN entries[k]
    ELSE Held(base[k], FALSE, FALSE)

(* Mutant: a fresh entry that goes away is not counted down.               *)
PutSlotLeakingFresh(k, s) ==
    /\ entries' = [entries EXCEPT ![k] = s]
    /\ dirtyCount' = dirtyCount + One(s.dirty) - One(entries[k].dirty)
    /\ freshCount' = freshCount + One(s.fresh)
    /\ memBytes' = memBytes + SlotBytes(s) - SlotBytes(entries[k])

(* Every mutator replaces one slot and keeps the three counters in step    *)
(* with it.                                                                *)
PutSlot(k, s) ==
    /\ entries' = [entries EXCEPT ![k] = s]
    /\ dirtyCount' = dirtyCount + One(s.dirty) - One(entries[k].dirty)
    /\ freshCount' = freshCount + One(s.fresh) - One(entries[k].fresh)
    /\ memBytes' = memBytes + SlotBytes(s) - SlotBytes(entries[k])

EmptyTable ==
    /\ entries' = [k \in Keys |-> NoSlot]
    /\ dirtyCount' = 0
    /\ freshCount' = 0
    /\ memBytes' = 0

(* The chain thread may use the table: nothing is under way, or what is    *)
(* under way is an RPC thread's sync that does not hold the node lock.     *)
MayUse == op = "idle" \/ (~SyncHoldsNodeLock /\ op \in {"sync", "clear"})

Init ==
    /\ entries = [k \in Keys |-> NoSlot]
    /\ bestBlock = NoBlock
    /\ dirtyCount = 0 /\ freshCount = 0 /\ memBytes = 0
    /\ base = [k \in Keys |-> NoCoin]
    /\ baseBest = NoBlock /\ baseHeads = <<>>
    /\ op = "idle" /\ stamp = NoBlock /\ visited = {}

-----------------------------------------------------------------------------
(* coins-view-cache-get / -has-p: a miss that the base answers is cached.  *)
Get(k) ==
    /\ MayUse
    /\ ~entries[k].held /\ base[k] # NoCoin
    /\ PutSlot(k, Fetched(k))
    /\ UNCHANGED <<bestBlock, disk, control>>

(* with-coins-to-uncache: after a rejected transaction the outpoints it    *)
(* read are dropped again, unless they have been written to meanwhile.     *)
Uncache(k) ==
    /\ MayUse
    /\ entries[k].held /\ ~entries[k].dirty
    /\ PutSlot(k, NoSlot)
    /\ UNCHANGED <<bestBlock, disk, control>>

(* coins-view-cache-add.  A cached unspent coin is overwritten only when   *)
(* the caller allows it (otherwise the code signals an error and changes   *)
(* nothing); a coin the base holds but the cache does not mention is never *)
(* added without allow-overwrite: the caller contract at the head of the   *)
(* file.                                                                   *)
(* Mutant: an overwriting add is fresh too.                                *)
AddedSlotAlwaysFresh(k, c, overwrite) == Held(c, TRUE, TRUE)

AddedSlot(k, c, overwrite) ==
    LET s == entries[k]
        fresh == ~overwrite /\ (s.held => s.coin = NoCoin /\ ~s.dirty)
    IN  Held(c, TRUE, fresh)

Add(k, c, overwrite) ==
    /\ MayUse
    /\ entries[k].coin = NoCoin \/ overwrite
    /\ View[k] = NoCoin \/ overwrite
    /\ PutSlot(k, AddedSlot(k, c, overwrite))
    /\ UNCHANGED <<bestBlock, disk, control>>

(* coins-view-cache-spend of an unspent coin.  A FRESH coin leaves no      *)
(* trace; any other leaves a dirty tombstone.                              *)
(* Mutant: the tombstone of an unmodified coin stays clean.                *)
SpentSlotClean(k) ==
    IF Fetched(k).fresh THEN NoSlot ELSE Held(NoCoin, Fetched(k).dirty, FALSE)

SpentSlot(k) ==
    IF Fetched(k).fresh THEN NoSlot ELSE Held(NoCoin, TRUE, FALSE)

Spend(k) ==
    /\ MayUse
    /\ Fetched(k).coin # NoCoin
    /\ PutSlot(k, SpentSlot(k))
    /\ UNCHANGED <<bestBlock, disk, control>>

(* The block pointer moves with the coins: apply-block-to-utxo-set and     *)
(* disconnect-block-from-utxo-set set it when they are done.               *)
SetBestBlock(b) ==
    /\ MayUse
    /\ bestBlock' = b
    /\ UNCHANGED <<entries, dirtyCount, freshCount, memBytes, disk, control>>

-----------------------------------------------------------------------------
(* coins-view-cache-flush and -sync begin: %write-dirty-coins is entered   *)
(* with the pointer as its best-block argument.                            *)
BeginWrite(kind) ==
    /\ op = "idle"
    /\ op' = kind
    /\ stamp' = bestBlock
    /\ visited' = {}
    /\ UNCHANGED <<memory, disk>>

Writing == op \in {"flush", "sync"}
Unwritten == Dirty \ visited

(* Mutant: a write that resumes an interrupted one forgets where that one  *)
(* started.                                                                *)
OldTipForgotten == baseBest

(* The tip a transition is recorded from.                                  *)
OldTip == IF baseBest # NoBlock \/ baseHeads = <<>> THEN baseBest ELSE baseHeads[2]

(* Mutant: only coins are staged, never the erase of a spent one.          *)
WrittenPutsOnly(S) ==
    [k \in Keys |-> IF k \in S /\ entries[k].coin # NoCoin THEN entries[k].coin ELSE base[k]]

Written(S) == [k \in Keys |-> IF k \in S THEN entries[k].coin ELSE base[k]]

(* A batch that is full before every dirty entry has been staged.  The     *)
(* first one takes the pointer away and records the transition.            *)
PartialBatch(S) ==
    /\ Writing
    /\ S # {} /\ S \subseteq Unwritten
    /\ base' = Written(S)
    /\ visited' = visited \cup S
    /\ IF stamp = NoBlock \/ visited # {}
       THEN UNCHANGED <<baseBest, baseHeads>>
       ELSE baseBest' = NoBlock /\ baseHeads' = <<stamp, OldTip>>
    /\ UNCHANGED <<memory, op, stamp>>

(* The last batch.  A flush then empties the table; a sync goes on to its  *)
(* second pass.                                                            *)
FinalBatch ==
    /\ Writing
    /\ base' = Written(Unwritten)
    /\ IF stamp = NoBlock
       THEN UNCHANGED <<baseBest, baseHeads>>
       ELSE baseBest' = stamp /\ baseHeads' = <<>>
    /\ IF op = "flush"
       THEN op' = "idle" /\ EmptyTable
       ELSE op' = "clear" /\ UNCHANGED <<entries, dirtyCount, freshCount, memBytes>>
    /\ visited' = {}
    /\ UNCHANGED <<bestBlock, stamp>>

(* coins-view-cache-sync, second pass: tombstones go, every other entry    *)
(* becomes clean and not fresh.                                            *)
Cleared(s) == IF s.coin = NoCoin THEN NoSlot ELSE Held(s.coin, FALSE, FALSE)
(* Mutant: an outpoint the table does not mention counts as a tombstone.   *)
TombstonesUnheld == {k \in Keys : entries[k].coin = NoCoin}

Tombstones == {k \in Keys : entries[k].held /\ entries[k].coin = NoCoin}

ClearFlags ==
    /\ op = "clear"
    /\ entries' = [k \in Keys |-> Cleared(entries[k])]
    /\ dirtyCount' = dirtyCount - Cardinality(Dirty)
    /\ freshCount' = freshCount - Cardinality(Fresh)
    /\ memBytes' = memBytes - (Overhead + ScriptSize[NoCoin]) * Cardinality(Tombstones)
    /\ op' = "idle" /\ stamp' = NoBlock
    /\ UNCHANGED <<bestBlock, disk, visited>>

-----------------------------------------------------------------------------
(* coins-view-cache-wipe: the table and the pointer go first, then         *)
(* coins-view-db-erase-all-coins deletes the records in chunks in key      *)
(* order: 'B' before any coin, 'H' after the last one.                     *)
BeginWipe ==
    /\ op = "idle"
    /\ EmptyTable
    /\ bestBlock' = NoBlock
    /\ op' = "wipe"
    /\ UNCHANGED <<disk, stamp, visited>>

WipeChunk(S) ==
    /\ op = "wipe"
    /\ base' = [k \in Keys |-> IF k \in S THEN NoCoin ELSE base[k]]
    /\ baseBest' = NoBlock
    /\ UNCHANGED <<memory, baseHeads, control>>

EndWipe ==
    /\ op = "wipe"
    /\ base' = [k \in Keys |-> NoCoin]
    /\ baseBest' = NoBlock /\ baseHeads' = <<>>
    /\ op' = "idle"
    /\ UNCHANGED <<memory, stamp, visited>>

(* The process ends anywhere and is started again: the table is new and    *)
(* coins-view-cache-load-best-block adopts what the base records.          *)
Crash ==
    /\ EmptyTable
    /\ bestBlock' = baseBest
    /\ op' = "idle" /\ stamp' = NoBlock /\ visited' = {}
    /\ UNCHANGED disk

Next ==
    \/ \E k \in Keys : Get(k) \/ Uncache(k) \/ Spend(k)
    \/ \E k \in Keys, c \in Coins, overwrite \in BOOLEAN : Add(k, c, overwrite)
    \/ \E b \in Blocks : SetBestBlock(b)
    \/ \E kind \in {"flush", "sync"} : BeginWrite(kind)
    \/ \E S \in SUBSET Keys : PartialBatch(S) \/ WipeChunk(S)
    \/ FinalBatch
    \/ ClearFlags
    \/ BeginWipe
    \/ EndWipe
    \/ Crash

Spec == Init /\ [][Next]_vars

-----------------------------------------------------------------------------
(* Properties.                                                             *)

TypeOK ==
    /\ entries \in [Keys -> Slot]
    /\ bestBlock \in Blocks \cup {NoBlock}
    /\ dirtyCount \in Int /\ freshCount \in Int
    /\ base \in [Keys -> Coins \cup {NoCoin}]
    /\ baseBest \in Blocks \cup {NoBlock}
    /\ baseHeads \in {<<>>} \cup (Blocks \X (Blocks \cup {NoBlock}))
    /\ op \in Ops
    /\ stamp \in Blocks \cup {NoBlock}
    /\ visited \subseteq Keys

(* FRESH asserts that the base does not have the coin, which is what lets  *)
(* a spend drop the entry without writing an erase.  It holds for every    *)
(* fresh entry no batch of the current write has put into the base yet.    *)
FreshMeansAbsent ==
    \A k \in Fresh : base[k] = NoCoin \/ k \in visited \/ op = "clear"

(* An entry that is not dirty says what the base says, so it may be        *)
(* uncached, or skipped by a flush, without losing anything.               *)
CleanMeansSame ==
    \A k \in Keys :
        entries[k].held /\ ~entries[k].dirty => entries[k].coin = base[k]

(* The incremental counters agree with the flags in the table: the         *)
(* post-condition coins-view-cache-sync signals an error about.            *)
CountersExact ==
    /\ dirtyCount = Cardinality(Dirty)
    /\ freshCount = Cardinality(Fresh)

(* A table whose slot of outpoint k takes size[k] bytes, byte by byte: its *)
(* cardinality is the sum of the sizes.                                    *)
BytesOf(size) == UNION {{k} \X (1..size[k]) : k \in Keys}

(* The size estimate that drives the size-triggered flush never drifts     *)
(* from the table it estimates.                                            *)
MemBytesExact == memBytes = Cardinality(BytesOf([k \in Keys |-> SlotBytes(entries[k])]))

(* Writing the cache out, by flush or by sync, changes nothing a reader    *)
(* sees: no coin appears, disappears or comes back to life.                *)
WriteStep == FinalBatch \/ ClearFlags \/ \E S \in SUBSET Keys : PartialBatch(S)
WriteKeepsView == [][WriteStep => View' = View]_vars

(* The cache and the database under it are, to their callers, the plain    *)
(* store of CoinsView.                                                     *)
Store == INSTANCE CoinsView WITH
    coins <- View, best <- bestBlock,
    durable <- base, durableBest <- baseBest, heads <- baseHeads
ImplementsStore == Store!Spec
=============================================================================
