-------------------------- MODULE CoinsCacheProofs --------------------------
(***************************************************************************)
(* Proofs about CoinsCache, for any set of coins and blocks and any finite *)
(* set of outpoints, under the contract of coins-view-cache-sync: the RPC  *)
(* thread that syncs holds the node lock.                                  *)
(*                                                                         *)
(* The inductive invariant adds to the properties what they rest on:       *)
(*   SlotShape     a fresh entry is dirty and holds a coin, and an absent  *)
(*                 one has no flags;                                       *)
(*   BatchesAgree  what the batches of a write have put into the base is   *)
(*                 what the table says, and after the last of them that    *)
(*                 is every entry;                                         *)
(*   WriteRecord   a write under way names the block the table belongs to, *)
(*                 and from its second batch on the base records it;       *)
(*   WipeEmpties   while the base is being erased the table is empty.      *)
(***************************************************************************)
EXTENDS CoinsCache, FiniteSetTheorems, TLAPS

SlotShape ==
    \A k \in Keys :
        /\ entries[k].fresh => entries[k].dirty /\ entries[k].coin # NoCoin
        /\ ~entries[k].held => entries[k] = NoSlot

BatchesAgree ==
    /\ \A k \in visited : entries[k].dirty /\ entries[k].coin = base[k]
    /\ op = "clear" => \A k \in Keys : entries[k].held => entries[k].coin = base[k]

WriteRecord ==
    /\ visited # {} => Writing
    /\ Writing => stamp = bestBlock
    /\ visited # {} /\ stamp # NoBlock =>
          baseBest = NoBlock /\ baseHeads # <<>> /\ baseHeads = <<stamp, baseHeads[2]>>

WipeEmpties ==
    op = "wipe" => bestBlock = NoBlock /\ \A k \in Keys : entries[k] = NoSlot

Inv ==
    /\ TypeOK
    /\ SlotShape
    /\ FreshMeansAbsent
    /\ CleanMeansSame
    /\ BatchesAgree
    /\ WriteRecord
    /\ WipeEmpties

-----------------------------------------------------------------------------
(* Slots.                                                                  *)

LEMMA NoSlotType == NoSlot \in Slot
  BY DEF NoSlot, Slot

LEMMA NoSlotFlags ==
  ~NoSlot.held /\ ~NoSlot.dirty /\ ~NoSlot.fresh /\ NoSlot.coin = NoCoin
  BY DEF NoSlot

LEMMA ClearedShape ==
  ASSUME NEW s
  PROVE  IF s.coin = NoCoin THEN Cleared(s) = NoSlot
         ELSE /\ Cleared(s).held /\ Cleared(s).coin = s.coin
              /\ ~Cleared(s).dirty /\ ~Cleared(s).fresh
  BY DEF Cleared, Held

LEMMA FetchedType ==
  ASSUME TypeOK, NEW k \in Keys
  PROVE  Fetched(k) \in Slot
  BY DEF TypeOK, Fetched, Held, Slot

LEMMA AddedSlotType ==
  ASSUME TypeOK, NEW k \in Keys, NEW c \in Coins, NEW overwrite \in BOOLEAN
  PROVE  AddedSlot(k, c, overwrite) \in Slot
  BY DEF TypeOK, AddedSlot, Held, Slot

LEMMA SpentSlotType ==
  ASSUME TypeOK, NEW k \in Keys
  PROVE  SpentSlot(k) \in Slot
  BY NoSlotType DEF SpentSlot, Held, Slot

LEMMA WrittenType ==
  ASSUME TypeOK, NEW S
  PROVE  Written(S) \in [Keys -> Coins \cup {NoCoin}]
  BY DEF TypeOK, Written, Slot

(* Replacing the slot of one outpoint while nothing is being written keeps *)
(* the invariant, if the new slot is well shaped and as truthful about the *)
(* base as its flags say.                                                  *)
LEMMA PutSlotKeepsInv ==
  ASSUME Inv, op = "idle", NEW k \in Keys, NEW s \in Slot,
         PutSlot(k, s), UNCHANGED <<bestBlock, disk, control>>,
         s.fresh => s.dirty /\ s.coin # NoCoin,
         ~s.held => s = NoSlot,
         s.fresh => base[k] = NoCoin,
         s.held /\ ~s.dirty => s.coin = base[k]
  PROVE  Inv'
<1>0. visited = {} /\ ~Writing
  BY DEF Inv, WriteRecord, Writing
<1>1. /\ entries' = [entries EXCEPT ![k] = s]
      /\ dirtyCount' \in Int /\ freshCount' \in Int
  BY DEF PutSlot, One, Inv, TypeOK
<1>2. TypeOK'
  BY <1>1 DEF Inv, TypeOK, disk, control
<1>3. \A j \in Keys : entries'[j] = IF j = k THEN s ELSE entries[j]
  BY <1>1 DEF Inv, TypeOK
<1>4. SlotShape'
  BY <1>3 DEF Inv, SlotShape
<1>5. FreshMeansAbsent'
  BY <1>0, <1>3 DEF Inv, FreshMeansAbsent, Fresh, disk, control
<1>6. CleanMeansSame'
  BY <1>3 DEF Inv, CleanMeansSame, disk
<1>7. BatchesAgree' /\ WriteRecord' /\ WipeEmpties'
  BY <1>0 DEF BatchesAgree, WriteRecord, WipeEmpties, Writing, control
<1>8. QED
  BY <1>2, <1>4, <1>5, <1>6, <1>7 DEF Inv

LEMMA InitInv == Init => Inv
<1>. SUFFICES ASSUME Init PROVE Inv
  OBVIOUS
<1>1. TypeOK
  BY NoSlotType DEF Init, TypeOK, Ops
<1>2. QED
  BY <1>1 DEF Init, Inv, SlotShape, FreshMeansAbsent, CleanMeansSame,
              BatchesAgree, WriteRecord, WipeEmpties, Writing, NoSlot, Fresh

-----------------------------------------------------------------------------
(* The chain thread's operations.                                          *)

LEMMA GetKeepsInv ==
  ASSUME SyncHoldsNodeLock, Inv, NEW k \in Keys, Get(k)
  PROVE  Inv'
<1>1. op = "idle"
  BY DEF Get, MayUse
<1>2. Fetched(k) = Held(base[k], FALSE, FALSE)
  BY DEF Get, Fetched
<1>3. QED
  BY <1>1, <1>2, FetchedType, PutSlotKeepsInv DEF Get, Held, Inv

LEMMA UncacheKeepsInv ==
  ASSUME SyncHoldsNodeLock, Inv, NEW k \in Keys, Uncache(k)
  PROVE  Inv'
<1>1. op = "idle"
  BY DEF Uncache, MayUse
<1>2. QED
  BY <1>1, NoSlotType, PutSlotKeepsInv DEF Uncache, NoSlot

LEMMA AddKeepsInv ==
  ASSUME SyncHoldsNodeLock, Inv, NEW k \in Keys, NEW c \in Coins,
         NEW overwrite \in BOOLEAN, Add(k, c, overwrite)
  PROVE  Inv'
<1> DEFINE s == AddedSlot(k, c, overwrite)
<1>1. op = "idle"
  BY DEF Add, MayUse
<1>2. s \in Slot
  BY AddedSlotType DEF Inv
<1>3. s.held /\ s.dirty /\ s.coin = c /\ c # NoCoin
  BY CoinsAssumption DEF AddedSlot, Held
<1>4. s.fresh => base[k] = NoCoin
  BY DEF AddedSlot, Held, Add, View, Inv, CleanMeansSame
<1>. HIDE DEF s
<1>5. QED
  BY <1>1, <1>2, <1>3, <1>4, PutSlotKeepsInv DEF Add, s

LEMMA SpendKeepsInv ==
  ASSUME SyncHoldsNodeLock, Inv, NEW k \in Keys, Spend(k)
  PROVE  Inv'
<1>1. op = "idle"
  BY DEF Spend, MayUse
<1>2. SpentSlot(k) \in Slot
  BY SpentSlotType DEF Inv
<1>3. SpentSlot(k) = NoSlot \/ SpentSlot(k) = Held(NoCoin, TRUE, FALSE)
  BY DEF SpentSlot
<1>4. QED
  BY <1>1, <1>2, <1>3, PutSlotKeepsInv DEF Spend, NoSlot, Held

LEMMA SetBestBlockKeepsInv ==
  ASSUME SyncHoldsNodeLock, Inv, NEW b \in Blocks, SetBestBlock(b)
  PROVE  Inv'
<1>1. op = "idle"
  BY DEF SetBestBlock, MayUse
<1>2. TypeOK'
  BY DEF SetBestBlock, disk, control, Inv, TypeOK
<1>3. QED
  BY <1>1, <1>2 DEF SetBestBlock, disk, control, Inv, SlotShape, FreshMeansAbsent,
     CleanMeansSame, BatchesAgree, WriteRecord, WipeEmpties, Writing, Fresh

-----------------------------------------------------------------------------
(* Writing the table out.                                                  *)

LEMMA BeginWriteKeepsInv ==
  ASSUME Inv, NEW kind \in {"flush", "sync"}, BeginWrite(kind)
  PROVE  Inv'
<1>1. TypeOK'
  BY DEF BeginWrite, memory, disk, Inv, TypeOK, Ops
<1>2. visited = {}
  BY DEF BeginWrite, Inv, WriteRecord, Writing
<1>3. QED
  BY <1>1, <1>2 DEF BeginWrite, memory, disk, Inv, SlotShape, FreshMeansAbsent,
     CleanMeansSame, BatchesAgree, WriteRecord, WipeEmpties, Writing, Fresh

LEMMA PartialBatchKeepsInv ==
  ASSUME Inv, NEW S, PartialBatch(S)
  PROVE  Inv'
<1>1. /\ Writing /\ S # {} /\ S \subseteq Dirty /\ S \subseteq Keys
      /\ base' = Written(S) /\ visited' = visited \cup S
      /\ UNCHANGED <<entries, bestBlock, dirtyCount, freshCount, op, stamp>>
  BY DEF PartialBatch, Unwritten, Dirty, memory
<1>2. stamp = bestBlock
  BY <1>1 DEF Inv, WriteRecord
<1>3. OldTip \in Blocks \cup {NoBlock}
  BY DEF OldTip, Inv, TypeOK
<1>4. /\ baseBest' \in Blocks \cup {NoBlock}
      /\ baseHeads' \in {<<>>} \cup (Blocks \X (Blocks \cup {NoBlock}))
  BY <1>3 DEF PartialBatch, Inv, TypeOK
<1>5. TypeOK'
  BY <1>1, <1>4, WrittenType DEF Inv, TypeOK
<1>6. \A k \in Keys : base'[k] = IF k \in S THEN entries[k].coin ELSE base[k]
  BY <1>1 DEF Written
<1>7. SlotShape' /\ WipeEmpties'
  BY <1>1 DEF Inv, SlotShape, WipeEmpties, Writing
<1>8. FreshMeansAbsent'
  BY <1>1, <1>6 DEF Inv, FreshMeansAbsent, Fresh
<1>9. CleanMeansSame'
  BY <1>1, <1>6 DEF Inv, CleanMeansSame, Dirty
<1>10. BatchesAgree'
  BY <1>1, <1>6 DEF Inv, BatchesAgree, TypeOK, Dirty, Writing
<1>11. stamp # NoBlock => baseBest' = NoBlock /\ baseHeads' # <<>> /\ baseHeads' = <<stamp, baseHeads'[2]>>
  BY DEF PartialBatch, Inv, WriteRecord
<1>12. WriteRecord'
  BY <1>1, <1>2, <1>11 DEF WriteRecord, Writing
<1>13. QED
  BY <1>5, <1>7, <1>8, <1>9, <1>10, <1>12 DEF Inv

LEMMA FinalBatchKeepsInv ==
  ASSUME Inv, FinalBatch
  PROVE  Inv'
<1>1. /\ Writing
      /\ base' = Written(Unwritten) /\ visited' = {}
      /\ UNCHANGED <<bestBlock, stamp>>
  BY DEF FinalBatch
<1>2. \A k \in Keys : base'[k] = IF k \in Unwritten THEN entries[k].coin ELSE base[k]
  BY <1>1 DEF Written
<1>3. \A k \in Keys : entries[k].held => entries[k].coin = base'[k]
  BY <1>2 DEF Unwritten, Dirty, Inv, BatchesAgree, CleanMeansSame
<1>4. /\ baseBest' \in Blocks \cup {NoBlock}
      /\ baseHeads' \in {<<>>} \cup (Blocks \X (Blocks \cup {NoBlock}))
  BY DEF FinalBatch, Inv, TypeOK
<1>5. CASE op = "flush"
  <2>1. op' = "idle" /\ EmptyTable
    BY <1>5 DEF FinalBatch
  <2>2. TypeOK'
    BY <1>1, <1>4, <2>1, WrittenType, NoSlotType DEF Inv, TypeOK, EmptyTable, Ops
  <2>3. QED
    BY <1>1, <2>1, <2>2 DEF Inv, EmptyTable, SlotShape, FreshMeansAbsent, Fresh,
       CleanMeansSame, BatchesAgree, WriteRecord, WipeEmpties, Writing, NoSlot
<1>6. CASE op = "sync"
  <2>1. op' = "clear" /\ UNCHANGED <<entries, dirtyCount, freshCount, memBytes>>
    BY <1>6 DEF FinalBatch
  <2>2. TypeOK'
    BY <1>1, <1>4, <2>1, WrittenType DEF Inv, TypeOK, Ops
  <2>3. QED
    BY <1>1, <1>3, <2>1, <2>2 DEF Inv, SlotShape, FreshMeansAbsent, Fresh,
       CleanMeansSame, BatchesAgree, WriteRecord, WipeEmpties, Writing
<1>7. QED
  BY <1>1, <1>5, <1>6 DEF Writing

LEMMA ClearFlagsKeepsInv ==
  ASSUME Inv, ClearFlags
  PROVE  Inv'
<1>1. \A k \in Keys : entries'[k] = Cleared(entries[k])
  BY DEF ClearFlags
<1>2. \A k \in Keys : Cleared(entries[k]) \in Slot
  BY NoSlotType DEF Cleared, Held, Slot, Inv, TypeOK
<1>3. IsFiniteSet(Dirty) /\ IsFiniteSet(Fresh)
  BY KeysAssumption, FS_Subset DEF Dirty, Fresh
<1>4. Cardinality(Dirty) \in Nat /\ Cardinality(Fresh) \in Nat
  BY <1>3, FS_CardinalityType
<1>5. TypeOK'
  BY <1>2, <1>4 DEF ClearFlags, Inv, TypeOK, Ops, disk
<1>6. SlotShape' /\ FreshMeansAbsent'
  <2>1. \A k \in Keys : ~Cleared(entries[k]).fresh
    BY DEF Cleared, Held, NoSlot
  <2>2. \A k \in Keys : ~Cleared(entries[k]).held => Cleared(entries[k]) = NoSlot
    BY DEF Cleared, Held
  <2>3. QED
    BY <1>1, <2>1, <2>2 DEF SlotShape, FreshMeansAbsent, Fresh
<1>7. CleanMeansSame'
  <2>1. \A k \in Keys : Cleared(entries[k]).held => entries[k].held
    BY DEF Cleared, Held, NoSlot, Inv, SlotShape
  <2>2. \A k \in Keys : Cleared(entries[k]).coin = entries[k].coin
    BY DEF Cleared, Held, NoSlot
  <2>3. QED
    BY <1>1, <2>1, <2>2 DEF CleanMeansSame, ClearFlags, disk, Inv, BatchesAgree
<1>8. BatchesAgree' /\ WriteRecord' /\ WipeEmpties'
  BY DEF ClearFlags, Inv, BatchesAgree, WriteRecord, WipeEmpties, Writing
<1>9. QED
  BY <1>5, <1>6, <1>7, <1>8 DEF Inv

-----------------------------------------------------------------------------
(* Wiping, and starting again.                                             *)

LEMMA BeginWipeKeepsInv ==
  ASSUME Inv, BeginWipe
  PROVE  Inv'
<1>1. TypeOK'
  BY NoSlotType DEF BeginWipe, EmptyTable, disk, Inv, TypeOK, Ops
<1>2. QED
  BY <1>1 DEF BeginWipe, EmptyTable, disk, Inv, SlotShape, FreshMeansAbsent, Fresh,
     CleanMeansSame, BatchesAgree, WriteRecord, WipeEmpties, Writing, NoSlot

LEMMA WipeChunkKeepsInv ==
  ASSUME Inv, NEW S, WipeChunk(S)
  PROVE  Inv'
<1>1. TypeOK'
  BY DEF WipeChunk, memory, control, Inv, TypeOK
<1>2. /\ op = "wipe" /\ visited = {} /\ ~Writing
      /\ \A k \in Keys : entries'[k] = NoSlot
      /\ UNCHANGED <<memory, control>>
  BY DEF WipeChunk, memory, Writing, Inv, WriteRecord, WipeEmpties
<1>3. SlotShape' /\ FreshMeansAbsent' /\ CleanMeansSame'
  BY <1>2, NoSlotFlags DEF SlotShape, FreshMeansAbsent, Fresh, CleanMeansSame
<1>4. BatchesAgree' /\ WriteRecord' /\ WipeEmpties'
  BY <1>2 DEF memory, control, Inv, BatchesAgree, WriteRecord, WipeEmpties, Writing
<1>5. QED
  BY <1>1, <1>3, <1>4 DEF Inv

LEMMA EndWipeKeepsInv ==
  ASSUME Inv, EndWipe
  PROVE  Inv'
<1>1. TypeOK'
  BY DEF EndWipe, memory, Inv, TypeOK, Ops
<1>2. /\ visited' = {} /\ op' = "idle"
      /\ \A k \in Keys : entries'[k] = NoSlot
  BY DEF EndWipe, memory, Writing, Inv, WriteRecord, WipeEmpties
<1>3. SlotShape' /\ FreshMeansAbsent' /\ CleanMeansSame'
  BY <1>2, NoSlotFlags DEF SlotShape, FreshMeansAbsent, Fresh, CleanMeansSame
<1>4. BatchesAgree' /\ WriteRecord' /\ WipeEmpties'
  BY <1>2 DEF BatchesAgree, WriteRecord, WipeEmpties, Writing
<1>5. QED
  BY <1>1, <1>3, <1>4 DEF Inv

LEMMA CrashKeepsInv ==
  ASSUME Inv, Crash
  PROVE  Inv'
<1>1. TypeOK'
  BY NoSlotType DEF Crash, EmptyTable, disk, Inv, TypeOK, Ops
<1>2. QED
  BY <1>1 DEF Crash, EmptyTable, disk, Inv, SlotShape, FreshMeansAbsent, Fresh,
     CleanMeansSame, BatchesAgree, WriteRecord, WipeEmpties, Writing, NoSlot

LEMMA NextKeepsInv ==
  ASSUME SyncHoldsNodeLock, Inv, [Next]_vars
  PROVE  Inv'
<1>1. CASE \E k \in Keys : Get(k) \/ Uncache(k) \/ Spend(k)
  BY <1>1, GetKeepsInv, UncacheKeepsInv, SpendKeepsInv
<1>2. CASE \E k \in Keys, c \in Coins, overwrite \in BOOLEAN : Add(k, c, overwrite)
  BY <1>2, AddKeepsInv
<1>3. CASE \E b \in Blocks : SetBestBlock(b)
  BY <1>3, SetBestBlockKeepsInv
<1>4. CASE \E kind \in {"flush", "sync"} : BeginWrite(kind)
  BY <1>4, BeginWriteKeepsInv
<1>5. CASE \E S \in SUBSET Keys : PartialBatch(S) \/ WipeChunk(S)
  BY <1>5, PartialBatchKeepsInv, WipeChunkKeepsInv
<1>6. CASE FinalBatch \/ ClearFlags \/ BeginWipe \/ EndWipe \/ Crash
  BY <1>6, FinalBatchKeepsInv, ClearFlagsKeepsInv, BeginWipeKeepsInv,
     EndWipeKeepsInv, CrashKeepsInv
<1>7. CASE UNCHANGED vars
  BY <1>7 DEF vars, memory, disk, control, Inv, TypeOK, SlotShape, FreshMeansAbsent,
     Fresh, CleanMeansSame, BatchesAgree, WriteRecord, WipeEmpties, Writing
<1>8. QED
  BY <1>1, <1>2, <1>3, <1>4, <1>5, <1>6, <1>7 DEF Next

LEMMA InvariantHolds == ASSUME SyncHoldsNodeLock PROVE Spec => []Inv
<1>1. Inv /\ [Next]_vars => Inv'
  BY NextKeepsInv
<1>2. QED
  BY InitInv, <1>1, PTL DEF Spec

-----------------------------------------------------------------------------
(* Every variable stays in its type: in particular the 'H' record always   *)
(* names a new block, so a restart can tell which transition to finish.    *)
THEOREM TypeCorrect == ASSUME SyncHoldsNodeLock PROVE Spec => []TypeOK
<1>1. Inv => TypeOK
  BY DEF Inv
<1>2. QED
  BY InvariantHolds, <1>1, PTL

(* A FRESH entry is one the base does not have, so a spend may drop it     *)
(* without an erase: no coin spent in the cache is left alive in LevelDB.  *)
THEOREM FreshIsTruthful == ASSUME SyncHoldsNodeLock PROVE Spec => []FreshMeansAbsent
<1>1. Inv => FreshMeansAbsent
  BY DEF Inv
<1>2. QED
  BY InvariantHolds, <1>1, PTL

(* An entry that is not dirty says what the base says: uncaching it, or    *)
(* leaving it out of a batch, loses nothing.                               *)
THEOREM CleanIsTruthful == ASSUME SyncHoldsNodeLock PROVE Spec => []CleanMeansSame
<1>1. Inv => CleanMeansSame
  BY DEF Inv
<1>2. QED
  BY InvariantHolds, <1>1, PTL

-----------------------------------------------------------------------------
(* What the write steps do to the map a reader sees.                       *)

LEMMA PartialBatchView ==
  ASSUME Inv, NEW S, PartialBatch(S)
  PROVE  View' = View
<1>1. S \subseteq Dirty /\ base' = Written(S) /\ entries' = entries
  BY DEF PartialBatch, Unwritten, memory
<1>2. \A k \in S : entries[k].held
  BY <1>1, NoSlotFlags DEF Dirty, Inv, SlotShape
<1>3. \A k \in Keys : ~entries[k].held => base'[k] = base[k]
  BY <1>1, <1>2 DEF Written
<1>4. QED
  BY <1>1, <1>3 DEF View

LEMMA FinalBatchView ==
  ASSUME Inv, FinalBatch
  PROVE  /\ \A k \in Keys : base'[k] = View[k]
         /\ View' = View
<1>1. \A k \in Keys : base'[k] = IF k \in Unwritten THEN entries[k].coin ELSE base[k]
  BY DEF FinalBatch, Written
<1>2. \A k \in Keys : entries[k].held => base'[k] = entries[k].coin
  BY <1>1 DEF Unwritten, Dirty, Inv, BatchesAgree, CleanMeansSame
<1>3. \A k \in Keys : ~entries[k].held => base'[k] = base[k]
  BY <1>1, NoSlotFlags DEF Unwritten, Dirty, Inv, SlotShape
<1>4. \A k \in Keys : base'[k] = View[k]
  BY <1>2, <1>3 DEF View
<1>5. \A k \in Keys : entries'[k].held => entries'[k] = entries[k]
  BY NoSlotFlags DEF FinalBatch, EmptyTable
<1>6. \A k \in Keys : View[k] = IF entries'[k].held THEN entries'[k].coin ELSE base'[k]
  BY <1>2, <1>4, <1>5
<1>7. QED
  BY <1>4, <1>6 DEF View

LEMMA ClearFlagsView ==
  ASSUME Inv, ClearFlags
  PROVE  View' = View
<1>1. \A k \in Keys : entries'[k] = Cleared(entries[k]) /\ base'[k] = base[k]
  BY DEF ClearFlags, disk
<1>2. ASSUME NEW k \in Keys
      PROVE  View[k] = IF entries'[k].held THEN entries'[k].coin ELSE base'[k]
  <2>1. CASE entries[k].held
    <3>1. View[k] = entries[k].coin /\ entries[k].coin = base[k]
      BY <2>1 DEF View, ClearFlags, Inv, BatchesAgree
    <3>2. \/ entries[k].coin = NoCoin /\ ~entries'[k].held
          \/ entries'[k].held /\ entries'[k].coin = entries[k].coin
      BY <1>1, ClearedShape, NoSlotFlags
    <3>3. QED
      BY <1>1, <3>1, <3>2
  <2>2. CASE ~entries[k].held
    <3>1. entries[k].coin = NoCoin /\ View[k] = base[k]
      BY <2>2, NoSlotFlags DEF View, Inv, SlotShape
    <3>2. ~entries'[k].held
      BY <1>1, <3>1, ClearedShape, NoSlotFlags
    <3>3. QED
      BY <1>1, <3>1, <3>2
  <2>3. QED
    BY <2>1, <2>2
<1>3. QED
  BY <1>2 DEF View

(* No batch of a flush or of a sync, nor the pass that clears the flags,   *)
(* changes the coin any outpoint shows to a reader.                        *)
THEOREM WritingIsInvisible == ASSUME SyncHoldsNodeLock PROVE Spec => WriteKeepsView
<1>1. Inv /\ [Next]_vars => [WriteStep => View' = View]_vars
  BY PartialBatchView, FinalBatchView, ClearFlagsView DEF WriteStep
<1>2. QED
  BY InvariantHolds, <1>1, PTL DEF Spec, WriteKeepsView

-----------------------------------------------------------------------------
(* The counters.                                                           *)

(* Setting one bit of a finite bit map moves the number of set bits by the *)
(* difference of the two.                                                  *)
LEMMA CountSetBits ==
  ASSUME NEW f, NEW g, NEW k \in Keys, NEW b \in BOOLEAN,
         f[k] \in BOOLEAN,
         \A j \in Keys : g[j] = IF j = k THEN b ELSE f[j]
  PROVE  Cardinality({j \in Keys : g[j]}) =
            Cardinality({j \in Keys : f[j]}) + One(b) - One(f[k])
<1> DEFINE F == {j \in Keys : f[j]}
           G == {j \in Keys : g[j]}
<1>1. IsFiniteSet(F)
  BY KeysAssumption, FS_Subset
<1>2. Cardinality(F) \in Nat
  BY <1>1, FS_CardinalityType
<1>3. CASE b = f[k]
  <2>1. G = F
    BY <1>3
  <2>2. QED
    BY <1>2, <1>3, <2>1 DEF One
<1>4. CASE b /\ ~f[k]
  <2>1. G = F \cup {k} /\ k \notin F
    BY <1>4
  <2>2. Cardinality(G) = Cardinality(F) + 1
    BY <1>1, <2>1, FS_AddElement
  <2>3. QED
    BY <1>2, <1>4, <2>2 DEF One
<1>5. CASE ~b /\ f[k]
  <2>1. G = F \ {k} /\ k \in F
    BY <1>5
  <2>2. Cardinality(G) = Cardinality(F) - 1
    BY <1>1, <2>1, FS_RemoveElement
  <2>3. QED
    BY <1>2, <1>5, <2>2 DEF One
<1>6. QED
  BY <1>3, <1>4, <1>5

LEMMA PutSlotCounters ==
  ASSUME TypeOK, CountersExact, NEW k \in Keys, NEW s \in Slot, PutSlot(k, s)
  PROVE  CountersExact'
<1>1. entries' = [entries EXCEPT ![k] = s]
  BY DEF PutSlot
<1>2. s.dirty \in BOOLEAN /\ s.fresh \in BOOLEAN /\ entries[k].dirty \in BOOLEAN /\ entries[k].fresh \in BOOLEAN
  BY DEF TypeOK, Slot
<1> DEFINE d == [j \in Keys |-> entries[j].dirty]
           dd == [j \in Keys |-> entries'[j].dirty]
           f == [j \in Keys |-> entries[j].fresh]
           ff == [j \in Keys |-> entries'[j].fresh]
<1>3. \A j \in Keys : entries'[j] = IF j = k THEN s ELSE entries[j]
  BY <1>1 DEF TypeOK
<1>4. Cardinality({j \in Keys : dd[j]}) = Cardinality({j \in Keys : d[j]}) + One(s.dirty) - One(d[k])
  <2>1. \A j \in Keys : dd[j] = IF j = k THEN s.dirty ELSE d[j]
    BY <1>3
  <2>2. d[k] \in BOOLEAN
    BY <1>2
  <2>. HIDE DEF d, dd
  <2>3. QED
    BY <1>2, <2>1, <2>2, CountSetBits
<1>5. Cardinality({j \in Keys : ff[j]}) = Cardinality({j \in Keys : f[j]}) + One(s.fresh) - One(f[k])
  <2>1. \A j \in Keys : ff[j] = IF j = k THEN s.fresh ELSE f[j]
    BY <1>3
  <2>2. f[k] \in BOOLEAN
    BY <1>2
  <2>. HIDE DEF f, ff
  <2>3. QED
    BY <1>2, <2>1, <2>2, CountSetBits
<1>6. /\ {j \in Keys : d[j]} = Dirty /\ {j \in Keys : dd[j]} = Dirty'
      /\ {j \in Keys : f[j]} = Fresh /\ {j \in Keys : ff[j]} = Fresh'
  BY DEF Dirty, Fresh
<1>7. d[k] = entries[k].dirty /\ f[k] = entries[k].fresh
  OBVIOUS
<1>. HIDE DEF d, dd, f, ff
<1>8. QED
  BY <1>4, <1>5, <1>6, <1>7 DEF CountersExact, PutSlot

LEMMA EmptyTableCounters ==
  ASSUME EmptyTable
  PROVE  CountersExact'
<1>1. Dirty' = {} /\ Fresh' = {}
  BY NoSlotFlags DEF EmptyTable, Dirty, Fresh
<1>2. QED
  BY <1>1, FS_EmptySet DEF EmptyTable, CountersExact

LEMMA ClearFlagsCounters ==
  ASSUME Inv, CountersExact, ClearFlags
  PROVE  CountersExact'
<1>1. \A k \in Keys : ~Cleared(entries[k]).dirty /\ ~Cleared(entries[k]).fresh
  BY DEF Cleared, Held, NoSlot
<1>2. Dirty' = {} /\ Fresh' = {}
  BY <1>1 DEF ClearFlags, Dirty, Fresh
<1>3. dirtyCount' = 0 /\ freshCount' = 0
  BY DEF ClearFlags, CountersExact, Inv, TypeOK
<1>4. QED
  BY <1>2, <1>3, FS_EmptySet DEF CountersExact

LEMMA SameTableCounters ==
  ASSUME CountersExact, UNCHANGED <<entries, dirtyCount, freshCount>>
  PROVE  CountersExact'
  BY DEF CountersExact, Dirty, Fresh

LEMMA NextKeepsCounters ==
  ASSUME SyncHoldsNodeLock, Inv, CountersExact, [Next]_vars
  PROVE  CountersExact'
<1>0. TypeOK
  BY DEF Inv
<1>1. ASSUME NEW k \in Keys, Get(k) \/ Uncache(k) \/ Spend(k)
      PROVE  CountersExact'
  <2>1. \E s \in Slot : PutSlot(k, s)
    BY <1>0, <1>1, FetchedType, NoSlotType, SpentSlotType DEF Get, Uncache, Spend
  <2>2. QED
    BY <1>0, <2>1, PutSlotCounters
<1>2. ASSUME NEW k \in Keys, NEW c \in Coins, NEW overwrite \in BOOLEAN,
             Add(k, c, overwrite)
      PROVE  CountersExact'
  <2>1. \E s \in Slot : PutSlot(k, s)
    BY <1>0, <1>2, AddedSlotType DEF Add
  <2>2. QED
    BY <1>0, <2>1, PutSlotCounters
<1>3. CASE \/ \E b \in Blocks : SetBestBlock(b)
           \/ \E kind \in {"flush", "sync"} : BeginWrite(kind)
           \/ \E S \in SUBSET Keys : PartialBatch(S) \/ WipeChunk(S)
           \/ EndWipe
           \/ UNCHANGED vars
  BY <1>3, SameTableCounters
     DEF SetBestBlock, BeginWrite, PartialBatch, WipeChunk, EndWipe, vars, memory
<1>4. CASE FinalBatch
  BY <1>4, EmptyTableCounters, SameTableCounters DEF FinalBatch
<1>5. CASE BeginWipe \/ Crash
  BY <1>5, EmptyTableCounters DEF BeginWipe, Crash
<1>6. CASE ClearFlags
  BY <1>6, ClearFlagsCounters
<1>7. QED
  BY <1>1, <1>2, <1>3, <1>4, <1>5, <1>6 DEF Next

(* The counters the mutators maintain one entry at a time never drift from *)
(* the flags in the table, so the check at the end of a sync never signals.*)
THEOREM CountersNeverDrift == ASSUME SyncHoldsNodeLock PROVE Spec => []CountersExact
<1>1. Init => CountersExact
  <2>1. Init => Dirty = {} /\ Fresh = {}
    BY NoSlotFlags DEF Init, Dirty, Fresh
  <2>2. QED
    BY <2>1, FS_EmptySet DEF Init, CountersExact
<1>2. Inv /\ CountersExact /\ [Next]_vars => CountersExact'
  BY NextKeepsCounters
<1>3. QED
  BY <1>1, <1>2, InvariantHolds, PTL DEF Spec

-----------------------------------------------------------------------------
(* The bytes.  A slot's size moves the table's by as much (BytesMove), and *)
(* dropping slots of one size drops that much for each (BytesDrop).        *)

LEMMA RowOfBytes ==
  ASSUME NEW T, IsFiniteSet(T), NEW n \in Nat
  PROVE  IsFiniteSet(T \X (1..n)) /\ Cardinality(T \X (1..n)) = Cardinality(T) * n
<1>1. IsFiniteSet(1..n) /\ Cardinality(1..n) = n
  BY FS_Interval
<1>2. QED
  BY <1>1, FS_Product

LEMMA BytesFinite ==
  ASSUME NEW size \in [Keys -> Nat]
  PROVE  IsFiniteSet(BytesOf(size)) /\ Cardinality(BytesOf(size)) \in Nat
<1> DEFINE row == [k \in Keys |-> {k} \X (1..size[k])]
           rows == {row[k] : k \in Keys}
<1>1. row \in Surjection(Keys, rows)
  BY DEF Surjection
<1>2. \A k \in Keys : IsFiniteSet(row[k])
  <2> TAKE k \in Keys
  <2>1. IsFiniteSet({k}) /\ size[k] \in Nat
    BY FS_Singleton
  <2>2. QED
    BY <2>1, RowOfBytes
<1>3. BytesOf(size) = UNION rows
  BY DEF BytesOf
<1> HIDE DEF row
<1>4. IsFiniteSet(rows) /\ \A R \in rows : IsFiniteSet(R)
  BY <1>1, <1>2, KeysAssumption, FS_Surjection
<1>5. IsFiniteSet(BytesOf(size))
  BY <1>3, <1>4, FS_UNION
<1>6. QED
  BY <1>5, FS_CardinalityType

(* Where the slots of a set take n bytes each and in the other table none, *)
(* all else alike, the two differ by the set's bytes.                      *)
LEMMA BytesDrop ==
  ASSUME NEW size \in [Keys -> Nat], NEW less \in [Keys -> Nat], NEW T \in SUBSET Keys, NEW n \in Nat,
         \A k \in T : size[k] = n /\ less[k] = 0,
         \A k \in Keys \ T : less[k] = size[k]
  PROVE  Cardinality(BytesOf(size)) = Cardinality(BytesOf(less)) + n * Cardinality(T)
<1> DEFINE gone == T \X (1..n)
<1>1. IsFiniteSet(T)
  BY KeysAssumption, FS_Subset
<1>2. IsFiniteSet(gone) /\ Cardinality(gone) = Cardinality(T) * n /\ Cardinality(T) \in Nat
  BY <1>1, RowOfBytes, FS_CardinalityType
<1>3. IsFiniteSet(BytesOf(less)) /\ Cardinality(BytesOf(less)) \in Nat
  BY BytesFinite
<1>4. /\ \A p : p \in BytesOf(size) <=> \E k \in Keys : \E i \in 1..size[k] : p = <<k, i>>
      /\ \A p : p \in BytesOf(less) <=> \E k \in Keys : \E i \in 1..less[k] : p = <<k, i>>
      /\ \A p : p \in gone <=> \E k \in T : \E i \in 1..n : p = <<k, i>>
  BY DEF BytesOf
<1>5. \A k \in T : 1..less[k] = {} /\ 1..size[k] = 1..n
  OBVIOUS
<1> HIDE DEF gone
<1>6. BytesOf(size) = BytesOf(less) \cup gone
  <2>1. ASSUME NEW p, p \in BytesOf(size) PROVE p \in BytesOf(less) \cup gone
    BY <1>4, <1>5, <2>1
  <2>2. ASSUME NEW p, p \in BytesOf(less) PROVE p \in BytesOf(size)
    BY <1>4, <1>5, <2>2
  <2>3. ASSUME NEW p, p \in gone PROVE p \in BytesOf(size)
    BY <1>4, <1>5, <2>3
  <2>4. QED
    BY <2>1, <2>2, <2>3
<1>7. BytesOf(less) \cap gone = {}
  <2> SUFFICES ASSUME NEW p, p \in BytesOf(less), p \in gone PROVE FALSE
    OBVIOUS
  <2>1. PICK k \in Keys : \E i \in 1..less[k] : p = <<k, i>>
    BY <1>4
  <2>2. k \in T
    BY <1>4, <2>1
  <2>3. QED
    BY <1>5, <2>1, <2>2
<1>8. Cardinality(BytesOf(size)) = Cardinality(BytesOf(less)) + Cardinality(gone) - Cardinality({})
  BY <1>2, <1>3, <1>6, <1>7, FS_Union
<1>9. QED
  BY <1>2, <1>3, <1>8, FS_EmptySet

LEMMA BytesMove ==
  ASSUME NEW size \in [Keys -> Nat], NEW k \in Keys, NEW n \in Nat
  PROVE  Cardinality(BytesOf([size EXCEPT ![k] = n])) = Cardinality(BytesOf(size)) + n - size[k]
<1> DEFINE less == [size EXCEPT ![k] = 0]
           more == [size EXCEPT ![k] = n]
<1>1. less \in [Keys -> Nat] /\ more \in [Keys -> Nat] /\ size[k] \in Nat /\ {k} \in SUBSET Keys
  OBVIOUS
<1>2. /\ \A j \in {k} : size[j] = size[k] /\ less[j] = 0 /\ more[j] = n
      /\ \A j \in Keys \ {k} : less[j] = size[j] /\ less[j] = more[j]
  OBVIOUS
<1>3. Cardinality({k}) = 1
  BY FS_Singleton
<1> HIDE DEF less, more
<1>4. Cardinality(BytesOf(size)) = Cardinality(BytesOf(less)) + size[k] * Cardinality({k})
  BY <1>1, <1>2, BytesDrop
<1>5. Cardinality(BytesOf(more)) = Cardinality(BytesOf(less)) + n * Cardinality({k})
  BY <1>1, <1>2, BytesDrop
<1>6. Cardinality(BytesOf(less)) \in Nat /\ size[k] * 1 = size[k] /\ n * 1 = n
  BY <1>1, BytesFinite
<1>7. QED
  BY <1>1, <1>3, <1>4, <1>5, <1>6 DEF more

Sizes == [k \in Keys |-> SlotBytes(entries[k])]

LEMMA SlotBytesType == ASSUME NEW s \in Slot PROVE SlotBytes(s) \in Nat
<1>1. Overhead \in Nat /\ ScriptSize[s.coin] \in Nat
  BY SizeAssumption DEF Slot
<1>2. QED
  BY <1>1 DEF SlotBytes

LEMMA SizesType == ASSUME TypeOK PROVE Sizes \in [Keys -> Nat]
  BY SlotBytesType DEF TypeOK, Sizes

LEMMA PutSlotBytes ==
  ASSUME TypeOK, MemBytesExact, NEW k \in Keys, NEW s \in Slot, PutSlot(k, s)
  PROVE  MemBytesExact'
<1>1. \A j \in Keys : entries'[j] = IF j = k THEN s ELSE entries[j]
  BY DEF PutSlot, TypeOK
<1>2. Sizes' = [Sizes EXCEPT ![k] = SlotBytes(s)]
  BY <1>1 DEF Sizes
<1>3. SlotBytes(s) \in Nat /\ Sizes \in [Keys -> Nat] /\ Sizes[k] = SlotBytes(entries[k])
  BY SlotBytesType, SizesType DEF Sizes
<1>4. Cardinality(BytesOf(Sizes')) = Cardinality(BytesOf(Sizes)) + SlotBytes(s) - Sizes[k]
  BY <1>2, <1>3, BytesMove
<1>5. memBytes = Cardinality(BytesOf(Sizes)) /\ memBytes' = memBytes + SlotBytes(s) - SlotBytes(entries[k])
  BY DEF MemBytesExact, Sizes, PutSlot
<1>6. QED
  BY <1>3, <1>4, <1>5 DEF MemBytesExact, Sizes

LEMMA NoBytes == ASSUME NEW size, \A k \in Keys : size[k] = 0 PROVE Cardinality(BytesOf(size)) = 0
<1>1. BytesOf(size) = {}
  BY DEF BytesOf
<1>2. QED
  BY <1>1, FS_EmptySet

LEMMA EmptyTableBytes ==
  ASSUME EmptyTable
  PROVE  MemBytesExact'
<1>1. \A k \in Keys : Sizes'[k] = 0
  BY NoSlotFlags DEF EmptyTable, Sizes, SlotBytes
<1>2. Cardinality(BytesOf(Sizes')) = 0
  BY <1>1, NoBytes
<1>3. QED
  BY <1>2 DEF EmptyTable, MemBytesExact, Sizes

(* What the second pass of a sync leaves is the table without tombstones.  *)
LEMMA ClearFlagsBytes ==
  ASSUME Inv, MemBytesExact, ClearFlags
  PROVE  MemBytesExact'
<1> DEFINE n == Overhead + ScriptSize[NoCoin]
<1>1. TypeOK /\ TypeOK' /\ n \in Nat /\ Tombstones \in SUBSET Keys
  BY ClearFlagsKeepsInv, SizeAssumption DEF Inv, Tombstones
<1>2. \A k \in Keys : entries'[k] = Cleared(entries[k])
  BY DEF ClearFlags
<1>3. ASSUME NEW k \in Tombstones PROVE Sizes[k] = n /\ Sizes'[k] = 0
  BY <1>2, ClearedShape, NoSlotFlags DEF Tombstones, Sizes, SlotBytes
<1>4. ASSUME NEW k \in Keys \ Tombstones PROVE Sizes'[k] = Sizes[k]
  <2>1. CASE entries[k].held
    BY <1>2, <2>1, ClearedShape DEF Tombstones, Sizes, SlotBytes
  <2>2. CASE ~entries[k].held
    BY <1>2, <2>2, ClearedShape, NoSlotFlags DEF Inv, SlotShape, Sizes, SlotBytes
  <2>3. QED
    BY <1>1, <2>1, <2>2 DEF TypeOK, Slot
<1>5. Sizes \in [Keys -> Nat] /\ Sizes' \in [Keys -> Nat]
  BY <1>1, SlotBytesType DEF TypeOK, Sizes
<1> HIDE DEF n
<1>6. Cardinality(BytesOf(Sizes)) = Cardinality(BytesOf(Sizes')) + n * Cardinality(Tombstones)
  BY <1>1, <1>3, <1>4, <1>5, BytesDrop
<1>7. memBytes = Cardinality(BytesOf(Sizes)) /\ memBytes' = memBytes - n * Cardinality(Tombstones)
  BY DEF MemBytesExact, Sizes, ClearFlags, n
<1>8. Cardinality(BytesOf(Sizes')) \in Nat /\ Cardinality(Tombstones) \in Nat
  BY <1>1, <1>5, BytesFinite, KeysAssumption, FS_Subset, FS_CardinalityType
<1>9. memBytes' = Cardinality(BytesOf(Sizes'))
  <2> DEFINE m == n * Cardinality(Tombstones)
  <2>1. m \in Int
    BY <1>1, <1>8
  <2> HIDE DEF m
  <2>2. QED
    BY <1>6, <1>7, <1>8, <2>1 DEF m
<1>10. QED
  BY <1>9 DEF MemBytesExact, Sizes

LEMMA NextKeepsBytes ==
  ASSUME SyncHoldsNodeLock, Inv, MemBytesExact, [Next]_vars
  PROVE  MemBytesExact'
<1>0. TypeOK
  BY DEF Inv
<1>1. ASSUME NEW k \in Keys, Get(k) \/ Uncache(k) \/ Spend(k)
      PROVE  MemBytesExact'
  <2>1. \E s \in Slot : PutSlot(k, s)
    BY <1>0, <1>1, FetchedType, NoSlotType, SpentSlotType DEF Get, Uncache, Spend
  <2>2. QED
    BY <1>0, <2>1, PutSlotBytes
<1>2. ASSUME NEW k \in Keys, NEW c \in Coins, NEW overwrite \in BOOLEAN,
             Add(k, c, overwrite)
      PROVE  MemBytesExact'
  <2>1. \E s \in Slot : PutSlot(k, s)
    BY <1>0, <1>2, AddedSlotType DEF Add
  <2>2. QED
    BY <1>0, <2>1, PutSlotBytes
<1>3. ASSUME UNCHANGED <<entries, memBytes>> PROVE MemBytesExact'
  BY <1>3 DEF MemBytesExact
<1>4. CASE \/ \E b \in Blocks : SetBestBlock(b)
           \/ \E kind \in {"flush", "sync"} : BeginWrite(kind)
           \/ \E S \in SUBSET Keys : PartialBatch(S) \/ WipeChunk(S)
           \/ EndWipe
           \/ UNCHANGED vars
  BY <1>3, <1>4 DEF SetBestBlock, BeginWrite, PartialBatch, WipeChunk, EndWipe, vars, memory
<1>5. CASE FinalBatch
  BY <1>3, <1>5, EmptyTableBytes DEF FinalBatch
<1>6. CASE BeginWipe \/ Crash
  BY <1>6, EmptyTableBytes DEF BeginWipe, Crash
<1>7. CASE ClearFlags
  BY <1>7, ClearFlagsBytes
<1>8. QED
  BY <1>1, <1>2, <1>4, <1>5, <1>6, <1>7 DEF Next

(* The estimate of the table's size that triggers a flush is moved by one  *)
(* slot at a time, and by all tombstones at once; it is always the sum of  *)
(* the slots (cache-entry-mem-bytes and the callers that add it up).       *)
THEOREM SizeNeverDrifts == ASSUME SyncHoldsNodeLock PROVE Spec => []MemBytesExact
<1>1. Init => MemBytesExact
  <2> SUFFICES ASSUME Init PROVE MemBytesExact
    OBVIOUS
  <2>1. \A k \in Keys : Sizes[k] = 0
    BY NoSlotFlags DEF Init, Sizes, SlotBytes
  <2>2. QED
    BY <2>1, NoBytes DEF Init, MemBytesExact, Sizes
<1>2. Inv /\ MemBytesExact /\ [Next]_vars => MemBytesExact'
  BY NextKeepsBytes
<1>3. QED
  BY <1>1, <1>2, InvariantHolds, PTL DEF Spec

-----------------------------------------------------------------------------
(* The refinement.                                                         *)

LEMMA ViewType ==
  ASSUME TypeOK
  PROVE  View \in [Keys -> Coins \cup {NoCoin}]
  BY DEF TypeOK, View, Slot

(* Replacing the slot of an outpoint changes what that outpoint shows, and *)
(* nothing else.                                                           *)
LEMMA PutSlotView ==
  ASSUME TypeOK, NEW k \in Keys, NEW s \in Slot, PutSlot(k, s), UNCHANGED base
  PROVE  View' = [View EXCEPT ![k] = IF s.held THEN s.coin ELSE base[k]]
<1>1. \A j \in Keys : entries'[j] = IF j = k THEN s ELSE entries[j]
  BY DEF PutSlot, TypeOK
<1>2. QED
  BY <1>1 DEF View

LEMMA ReadsStutter ==
  ASSUME Inv, NEW k \in Keys, Get(k) \/ Uncache(k)
  PROVE  UNCHANGED Store!vars
<1>1. View' = View
  <2>1. CASE Get(k)
    <3>1. Fetched(k) = Held(base[k], FALSE, FALSE) /\ View[k] = base[k]
      BY <2>1 DEF Get, Fetched, View
    <3>2. Fetched(k).held /\ Fetched(k).coin = base[k]
      BY <3>1 DEF Held
    <3>3. Fetched(k) \in Slot
      BY FetchedType DEF Inv
    <3>4. View' = [View EXCEPT ![k] = base[k]]
      BY <2>1, <3>2, <3>3, PutSlotView DEF Get, disk, Inv
    <3>5. QED
      BY <3>1, <3>4 DEF View
  <2>2. CASE Uncache(k)
    <3>1. View[k] = base[k]
      BY <2>2 DEF Uncache, View, Inv, CleanMeansSame
    <3>2. View' = [View EXCEPT ![k] = base[k]]
      BY <2>2, NoSlotType, NoSlotFlags, PutSlotView DEF Uncache, disk, Inv
    <3>3. QED
      BY <3>1, <3>2 DEF View
  <2>3. QED
    BY <2>1, <2>2
<1>2. QED
  BY <1>1 DEF Get, Uncache, disk, Store!vars

LEMMA AddRefines ==
  ASSUME Inv, NEW k \in Keys, NEW c \in Coins, NEW overwrite \in BOOLEAN,
         Add(k, c, overwrite)
  PROVE  Store!Add(k, c)
<1> DEFINE s == AddedSlot(k, c, overwrite)
<1>1. s \in Slot /\ s.held /\ s.coin = c
  BY AddedSlotType DEF Inv, AddedSlot, Held
<1>. HIDE DEF s
<1>2. View' = [View EXCEPT ![k] = c]
  BY <1>1, PutSlotView DEF Add, disk, Inv, s
<1>3. QED
  BY <1>2 DEF Add, disk, Store!Add

LEMMA SpendRefines ==
  ASSUME SyncHoldsNodeLock, Inv, NEW k \in Keys, Spend(k)
  PROVE  Store!Spend(k)
<1>1. View[k] # NoCoin
  BY DEF Spend, Fetched, Held, View, Inv, SlotShape, NoSlot
<1>2. SpentSlot(k) \in Slot
  BY SpentSlotType DEF Inv
<1>3. SpentSlot(k) = NoSlot \/ SpentSlot(k) = Held(NoCoin, TRUE, FALSE)
  BY DEF SpentSlot
<1>4. SpentSlot(k) = NoSlot => base[k] = NoCoin
  <2>1. op = "idle" /\ visited = {}
    BY DEF Spend, MayUse, Inv, WriteRecord, Writing
  <2>2. ASSUME SpentSlot(k) = NoSlot PROVE Fetched(k).fresh
    BY <2>2 DEF SpentSlot, NoSlot, Held
  <2>3. Fetched(k).fresh => entries[k].fresh
    BY DEF Fetched, Held
  <2>4. QED
    BY <2>1, <2>2, <2>3 DEF Inv, FreshMeansAbsent, Fresh
<1>5. (IF SpentSlot(k).held THEN SpentSlot(k).coin ELSE base[k]) = NoCoin
  BY <1>3, <1>4, NoSlotFlags DEF Held
<1>6. View' = [View EXCEPT ![k] = NoCoin]
  BY <1>2, <1>5, PutSlotView DEF Spend, disk, Inv
<1>7. QED
  BY <1>1, <1>6 DEF Spend, disk, Store!Spend

LEMMA PartialBatchRefines ==
  ASSUME Inv, NEW S, PartialBatch(S)
  PROVE  Store!PartialCommit
<1>1. /\ Writing /\ S # {} /\ S \subseteq Dirty /\ stamp = bestBlock
      /\ base' = Written(S) /\ bestBlock' = bestBlock
  BY DEF PartialBatch, Unwritten, memory, Inv, WriteRecord
<1>2. View' = View
  BY PartialBatchView
<1>3. base' \in [Keys -> Coins \cup {NoCoin}]
  BY <1>1, WrittenType DEF Inv
<1>4. \A k \in Keys : base'[k] \in {base[k], View[k]}
  BY <1>1, NoSlotFlags DEF Written, View, Dirty, Inv, SlotShape
<1>5. IF bestBlock = NoBlock
      THEN UNCHANGED <<baseBest, baseHeads>>
      ELSE baseBest' = NoBlock /\ baseHeads' = <<bestBlock, OldTip>>
  <2>1. CASE bestBlock = NoBlock \/ visited = {}
    BY <1>1, <2>1 DEF PartialBatch
  <2>2. CASE bestBlock # NoBlock /\ visited # {}
    <3>1. /\ baseBest = NoBlock /\ baseHeads # <<>>
          /\ baseHeads = <<bestBlock, baseHeads[2]>>
          /\ UNCHANGED <<baseBest, baseHeads>>
      BY <1>1, <2>2 DEF PartialBatch, Inv, WriteRecord
    <3>2. QED
      BY <2>2, <3>1 DEF OldTip
  <2>3. QED
    BY <2>1, <2>2
<1>6. QED
  BY <1>1, <1>2, <1>3, <1>4, <1>5 DEF Store!PartialCommit, Store!Map, Store!OldTip, OldTip

LEMMA FinalBatchRefines ==
  ASSUME Inv, FinalBatch
  PROVE  Store!Commit
<1>1. /\ Writing /\ stamp = bestBlock
      /\ base' = Written(Unwritten) /\ bestBlock' = bestBlock
      /\ IF stamp = NoBlock THEN UNCHANGED <<baseBest, baseHeads>>
                            ELSE baseBest' = stamp /\ baseHeads' = <<>>
  BY DEF FinalBatch, Inv, WriteRecord
<1>2. base' = View
  BY <1>1, FinalBatchView DEF Written, View
<1>3. QED
  BY <1>1, <1>2, FinalBatchView DEF Store!Commit

LEMMA BeginWipeRefines ==
  ASSUME Inv, BeginWipe
  PROVE  Store!Wipe
<1>1. View' = base
  BY NoSlotFlags DEF BeginWipe, EmptyTable, disk, View, Inv, TypeOK
<1>2. QED
  BY <1>1 DEF BeginWipe, disk, Inv, TypeOK, Store!Wipe, Store!Map

LEMMA WipeChunkRefines ==
  ASSUME Inv, NEW S, WipeChunk(S)
  PROVE  Store!Wipe
<1>1. /\ \A k \in Keys : entries'[k] = NoSlot
      /\ bestBlock' = NoBlock
  BY DEF WipeChunk, memory, Inv, WipeEmpties
<1>2. /\ base' \in [Keys -> Coins \cup {NoCoin}]
      /\ \A k \in Keys : base'[k] \in {base[k], NoCoin}
  BY DEF WipeChunk, Inv, TypeOK
<1>3. View' = base'
  BY <1>1, <1>2, NoSlotFlags DEF View
<1>4. QED
  BY <1>1, <1>2, <1>3 DEF WipeChunk, Store!Wipe, Store!Map

LEMMA EndWipeRefines ==
  ASSUME Inv, EndWipe
  PROVE  Store!Wipe
<1>1. /\ \A k \in Keys : entries'[k] = NoSlot
      /\ bestBlock' = NoBlock
  BY DEF EndWipe, memory, Inv, WipeEmpties
<1>2. base' = [k \in Keys |-> NoCoin]
  BY DEF EndWipe
<1>3. View' = base'
  BY <1>1, <1>2, NoSlotFlags DEF View
<1>4. QED
  BY <1>1, <1>2, <1>3 DEF EndWipe, Store!Wipe, Store!Map, Store!EmptyMap

LEMMA CrashRefines ==
  ASSUME Inv, Crash
  PROVE  Store!Crash
<1>1. View' = base
  BY NoSlotFlags DEF Crash, EmptyTable, disk, View, Inv, TypeOK
<1>2. QED
  BY <1>1 DEF Crash, disk, Store!Crash

LEMMA StepRefines ==
  ASSUME SyncHoldsNodeLock, Inv, [Next]_vars
  PROVE  [Store!Next]_(Store!vars)
<1>1. ASSUME NEW k \in Keys, Get(k) \/ Uncache(k) \/ Spend(k)
      PROVE  [Store!Next]_(Store!vars)
  BY <1>1, ReadsStutter, SpendRefines DEF Store!Next
<1>2. ASSUME NEW k \in Keys, NEW c \in Coins, NEW overwrite \in BOOLEAN,
             Add(k, c, overwrite)
      PROVE  [Store!Next]_(Store!vars)
  BY <1>2, AddRefines DEF Store!Next
<1>3. ASSUME NEW b \in Blocks, SetBestBlock(b)
      PROVE  [Store!Next]_(Store!vars)
  <2>1. View' = View
    BY <1>3 DEF SetBestBlock, View, disk
  <2>2. QED
    BY <1>3, <2>1 DEF SetBestBlock, disk, Store!SetBest, Store!Next
<1>4. ASSUME NEW kind \in {"flush", "sync"}, BeginWrite(kind)
      PROVE  [Store!Next]_(Store!vars)
  BY <1>4 DEF BeginWrite, View, memory, disk, Store!vars
<1>5. ASSUME NEW S \in SUBSET Keys, PartialBatch(S) \/ WipeChunk(S)
      PROVE  [Store!Next]_(Store!vars)
  BY <1>5, PartialBatchRefines, WipeChunkRefines DEF Store!Next
<1>6. CASE FinalBatch \/ BeginWipe \/ EndWipe \/ Crash
  BY <1>6, FinalBatchRefines, BeginWipeRefines, EndWipeRefines, CrashRefines
     DEF Store!Next
<1>7. CASE ClearFlags
  BY <1>7, ClearFlagsView DEF ClearFlags, disk, Store!vars
<1>8. CASE UNCHANGED vars
  BY <1>8 DEF vars, memory, disk, View, Store!vars
<1>9. QED
  BY <1>1, <1>2, <1>3, <1>4, <1>5, <1>6, <1>7, <1>8 DEF Next

(* The cache over the database is the plain store: every read, add, spend, *)
(* batch, wipe chunk and crash is a step of CoinsView or changes nothing a *)
(* caller or a restart can see.                                            *)
THEOREM CacheImplementsStore == ASSUME SyncHoldsNodeLock PROVE Spec => ImplementsStore
<1>1. Init => Store!Init
  <2>1. Init => View = [k \in Keys |-> NoCoin]
    BY NoSlotFlags DEF Init, View
  <2>2. QED
    BY <2>1 DEF Init, Store!Init, Store!EmptyMap
<1>2. Inv /\ [Next]_vars => [Store!Next]_(Store!vars)
  BY StepRefines
<1>3. QED
  BY <1>1, <1>2, InvariantHolds, PTL DEF Spec, ImplementsStore, Store!Spec
=============================================================================
