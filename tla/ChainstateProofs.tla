-------------------------- MODULE ChainstateProofs ---------------------------
(***************************************************************************)
(* Proofs about Chainstate, for every tree of blocks and every set of      *)
(* coins they create and spend, with a crash between any two steps, and    *)
(* for whatever use of UTXO walks and -reindex-chainstate, as long as no   *)
(* start has gone astray.  That one step out of the invariant, and no      *)
(* other, is RebuildNothing over a transition record.                      *)
(***************************************************************************)
EXTENDS Chainstate, WellFoundedInduction, TLAPS

-----------------------------------------------------------------------------
(* The tree.  What holds of every block because it holds of genesis and is *)
(* handed on by parents is shown at a lowest block without it.             *)

LEMMA Lowest ==
    ASSUME NEW S \in SUBSET Blocks, S # {}
    PROVE  \E b \in S : \A c \in S : Height[b] <= Height[c]
<1> DEFINE T == {Height[b] : b \in S}
           R == OpToRel(<, Nat)
<1>1. T \subseteq Nat /\ T # {}
  BY TreeAssumption
<1>2. IsWellFoundedOn(R, Nat)
  BY NatLessThanWellFounded, Zenon
<1>3. ASSUME NEW m \in Nat, NEW n \in Nat, m < n PROVE <<m, n>> \in R
  BY <1>3 DEF OpToRel
<1> HIDE DEF T, R
<1>4. PICK n \in T : \A m \in T : ~(<<m, n>> \in R)
  BY <1>1, <1>2, WFMin
<1>5. \A m \in T : n <= m
  <2> TAKE m \in T
  <2>1. m \in Nat /\ n \in Nat
    BY <1>1
  <2>2. ~(m < n)
    BY <1>3, <1>4, <2>1
  <2> QED BY <2>1, <2>2
<1> QED BY <1>5 DEF T

LEMMA Branch ==
    ASSUME NEW b \in Blocks \ {Genesis}
    PROVE  /\ Parent[b] \in Blocks /\ Chain[b] = Chain[Parent[b]] \cup {b}
           /\ b \notin Chain[Parent[b]] /\ Height[b] = Height[Parent[b]] + 1
           /\ Height[b] \in Nat /\ Height[Parent[b]] \in Nat
BY TreeAssumption

(* A property that genesis has and every child of a block that has it.     *)
LEMMA Inherited ==
    ASSUME NEW S \in SUBSET Blocks, Genesis \in S,
           \A b \in Blocks \ {Genesis} : Parent[b] \in S => b \in S
    PROVE  S = Blocks
<1> SUFFICES ASSUME S # Blocks PROVE FALSE
  OBVIOUS
<1>1. PICK b \in Blocks \ S : \A c \in Blocks \ S : Height[b] <= Height[c]
  BY Lowest
<1>2. b # Genesis /\ Parent[b] \in Blocks \ S
  BY <1>1, Branch
<1> QED BY <1>1, <1>2, Branch

LEMMA OnOwnChain == \A b \in Blocks : b \in Chain[b] /\ Genesis \in Chain[b] /\ Chain[b] \subseteq Blocks
<1> DEFINE S == {b \in Blocks : Genesis \in Chain[b]}
<1>1. S = Blocks
  <2>1. Genesis \in S
    BY TreeAssumption
  <2>2. \A b \in Blocks \ {Genesis} : Parent[b] \in S => b \in S
    BY Branch
  <2> HIDE DEF S
  <2>3. S \in SUBSET Blocks
    BY DEF S
  <2> QED BY <2>1, <2>2, <2>3, Inherited
<1> QED BY <1>1, TreeAssumption

LEMMA ChainsNest == \A b \in Blocks : \A a \in Chain[b] : Chain[a] \subseteq Chain[b]
<1> DEFINE S == {b \in Blocks : \A a \in Chain[b] : Chain[a] \subseteq Chain[b]}
<1>1. Genesis \in S
  BY TreeAssumption
<1>2. \A b \in Blocks \ {Genesis} : Parent[b] \in S => b \in S
  BY Branch
<1>3. S \in SUBSET Blocks
  OBVIOUS
<1> HIDE DEF S
<1>4. S = Blocks
  BY <1>1, <1>2, <1>3, Inherited
<1> QED BY <1>4 DEF S

(* From any block of a branch to its end there is a next one.              *)
LEMMA NextExists ==
    ASSUME NEW b \in Blocks, NEW a \in Chain[b], a # b
    PROVE  \E c \in Chain[b] : c # Genesis /\ Parent[c] = a
<1> DEFINE S == {x \in Blocks : \A y \in Chain[x] : y # x => \E c \in Chain[x] : c # Genesis /\ Parent[c] = y}
<1>1. Genesis \in S
  BY TreeAssumption
<1>2. ASSUME NEW x \in Blocks \ {Genesis}, Parent[x] \in S PROVE x \in S
  <2> SUFFICES ASSUME NEW y \in Chain[x], y # x PROVE \E c \in Chain[x] : c # Genesis /\ Parent[c] = y
    OBVIOUS
  <2>1. CASE y = Parent[x]
    BY <2>1, OnOwnChain
  <2>2. CASE y # Parent[x]
    BY <1>2, <2>2, Branch
  <2> QED BY <2>1, <2>2
<1>3. S \in SUBSET Blocks
  OBVIOUS
<1> HIDE DEF S
<1>4. S = Blocks
  BY <1>1, <1>2, <1>3, Inherited
<1> QED BY <1>4 DEF S

LEMMA NextToIsNext ==
    ASSUME NEW b \in Blocks, NEW a \in Chain[b], a # b
    PROVE  /\ NextTo(a, b) \in Chain[b] /\ NextTo(a, b) \in Blocks \ {Genesis}
           /\ Parent[NextTo(a, b)] = a
BY NextExists, OnOwnChain DEF NextTo

-----------------------------------------------------------------------------
(* The inductive invariant.                                                *)

Modes == {"down", "replay", "replaying", "recover", "reset", "rebuild?", "rebuildWipe",
          "rebuild", "rebuilt", "reconcile", "run", "disconnect", "connect", "rollback",
          "refused"}
Stages == {"none", "marked", "flush", "flushed", "sync", "wipe", "wiped"}
BlockOrNone == Blocks \cup {NoBlock}
CoinMap == [Keys -> BOOLEAN]

TypeOK ==
    /\ tip \in Blocks /\ goal \in Blocks /\ pos \in Blocks
    /\ index \in [Blocks -> {"absent", "body", "undo"}]
    /\ diskIndex \in [Blocks -> {"absent", "body", "undo"}]
    /\ mode \in Modes /\ stage \in Stages
    /\ pending \in BOOLEAN /\ rebuild \in BOOLEAN /\ settled \in BOOLEAN
    /\ astray \in BOOLEAN
    /\ coins \in CoinMap /\ durable \in CoinMap
    /\ best \in BlockOrNone /\ durableBest \in BlockOrNone
    /\ heads = <<>> \/ heads \in Blocks \X BlockOrNone
    /\ fileTip \in BlockOrNone /\ fileMark \in BOOLEAN

(* Which writes a mode may be in.                                          *)
StageFits ==
    /\ mode \in {"down", "refused", "replay", "recover", "rebuild?", "rebuildWipe",
                 "connect", "rollback", "reconcile"} => stage = "none"
    /\ mode = "replaying" => stage \in {"none", "sync"}
    /\ mode = "reset" => stage \in {"wipe", "wiped"}
    /\ mode \in {"rebuilt", "disconnect"} => stage \in {"none", "marked", "flush", "flushed"}
    /\ mode = "rebuild" => stage # "sync"
    /\ mode = "run" => stage \notin {"wipe", "wiped"}

(* Start-up works on the block index as it was read; the index on disk     *)
(* never knows of more than the one in memory.                             *)
FromDisk == {"down", "replay", "replaying", "recover", "reset", "rebuild?", "rebuildWipe",
             "rebuild", "rebuilt", "reconcile", "refused"}
DiskBehind ==
    /\ diskIndex[Genesis] # "absent"
    /\ mode \in FromDisk => index = diskIndex
    /\ \A b \in Blocks : /\ diskIndex[b] # "absent" => index[b] # "absent"
                         /\ diskIndex[b] = "undo" => index[b] = "undo"

(* Placeable, in the index in memory.                                      *)
Rooted(b) ==
    /\ index[b] # "absent"
    /\ \A a \in Chain[b] \ {Genesis} : index[a] = "undo"

(* The coins in memory are those of a block and not being wiped.           *)
Live ==
    \/ mode \in {"run", "disconnect", "connect", "rollback", "rebuilt"}
    \/ mode = "rebuild" /\ stage # "wipe"

(* The coins database says what it holds, also by naming nothing.          *)
SoundStore ==
    /\ durableBest # NoBlock => durable = Utxo[durableBest]
    /\ heads # <<>> => \A k \in Keys :
          durable[k] \in {Utxo[heads[1]][k],
                          IF heads[2] = NoBlock THEN FALSE ELSE Utxo[heads[2]][k]}
    /\ durableBest = NoBlock /\ heads = <<>> => durable = NoCoins

(* What is on disk, at any moment.                                         *)
DiskOK ==
    /\ PointerPlaceable
    /\ durableBest # NoBlock => heads = <<>>
    /\ ~Doomed \/ Live => SoundStore
    /\ fileMark => fileTip # NoBlock
    /\ ~fileMark /\ fileTip # NoBlock => Placeable(fileTip)
    /\ ~fileMark /\ fileTip \notin {NoBlock, Genesis} => durableBest # NoBlock \/ heads # <<>>
    /\ heads # <<>> /\ fileTip # NoBlock => diskIndex[fileTip] # "absent"

(* A write under way.                                                      *)
WriteOK ==
    /\ stage \in {"marked", "flush", "flushed"} => fileMark /\ fileTip = tip /\ Rooted(tip)
    /\ stage \in {"flush", "flushed"} => diskIndex = index
    /\ stage \in {"flush", "sync"} /\ heads # <<>> => heads[1] = best
    /\ stage \in {"flush", "sync"} /\ best # NoBlock => Placeable(best)
    /\ stage = "flushed" => durableBest = best
    /\ stage \in {"none", "marked", "flushed"} /\ Live => heads = <<>>

(* Blocks coming and going.                                                *)
MoveOK ==
    /\ Live => coins = Utxo[At] /\ Rooted(At)
    /\ Live /\ best = NoBlock => durableBest = NoBlock /\ heads = <<>>
    /\ mode \in {"run", "connect", "rebuilt", "rebuild"} /\ Live => tip = At
    /\ mode = "disconnect" => tip = pos /\ best # NoBlock
    /\ mode \in {"disconnect", "connect", "rollback"} => Rooted(pos)
    /\ mode = "connect" => At \in Chain[goal]
    /\ mode \in {"run", "disconnect", "connect", "rollback", "reconcile", "rebuild?"}
           /\ stage \in {"none", "sync"} => ~fileMark

(* The wipes: of coins a start will empty again if this one is cut short,  *)
(* or of an empty database.                                                *)
Emptied == durable = NoCoins /\ heads = <<>> /\ durableBest \in {NoBlock, Genesis}
Wiped == Emptied /\ durableBest = NoBlock /\ coins = NoCoins /\ best = NoBlock
WipeOK ==
    /\ stage = "wipe" => coins = durable /\ best = NoBlock /\ tip = Genesis /\ fileMark
    /\ stage = "wipe" /\ mode = "reset" => Doomed \/ Emptied
    /\ stage = "wipe" /\ mode = "rebuild" => Doomed
    /\ mode = "rebuildWipe" => Doomed /\ tip = Genesis
    /\ stage = "wiped" => Wiped /\ tip = Genesis
    /\ mode \in {"rebuildWipe", "rebuild"} => Rooted(goal) /\ tip \in Chain[goal]

(* Start-up, until its coins are in use.                                   *)
StartOK ==
    /\ mode \in {"down", "replay", "recover", "rebuild?", "rebuildWipe", "reconcile"} =>
          coins = durable /\ best = durableBest
    /\ mode \in {"replay", "replaying", "recover"} =>
          /\ pending = fileMark
          /\ fileMark => tip = fileTip \/ (tip = Genesis /\ Emptied)
          /\ ~fileMark => tip = (IF fileTip = NoBlock THEN Genesis ELSE fileTip)
    /\ mode \in {"recover", "rebuild?"} /\ heads # <<>> => rebuild
    /\ mode \in {"rebuild?", "reconcile"} => Rooted(tip)
    /\ mode \in {"rebuild?", "reconcile"} /\ durableBest = NoBlock /\ heads = <<>> => tip = Genesis
    /\ mode = "reconcile" => heads = <<>>
    /\ settled /\ mode \in {"rebuild?", "reconcile"} =>
          tip = Genesis /\ durableBest = NoBlock /\ heads = <<>>
    /\ mode \in {"replay", "replaying", "recover", "reset", "rebuildWipe", "rebuild", "rebuilt"}
          => ~settled

(* Each coin under a replay is as after the block reached or already as    *)
(* after the block it ends at.                                             *)
ReplayOK ==
    mode = "replaying" =>
        /\ heads # <<>> /\ heads[1] = goal /\ ~rebuild
        /\ Rooted(goal) /\ Rooted(pos)
        /\ ~Doomed => \A k \in Keys : coins[k] \in {Utxo[pos][k], Utxo[goal][k]}
        /\ stage = "sync" => pos = goal /\ best = goal

Inv ==
    /\ TypeOK /\ StageFits /\ DiskBehind /\ ~astray
    /\ DiskOK /\ WriteOK /\ MoveOK /\ WipeOK /\ StartOK /\ ReplayOK
    /\ OnlyWalkBackRefuses

(* Undo data all the way down from a block is so from each of its          *)
(* ancestors, and says nothing of genesis.                                 *)
LEMMA PlaceableBelow ==
    ASSUME diskIndex[Genesis] # "absent", NEW b \in Blocks, Placeable(b), NEW a \in Chain[b]
    PROVE  Placeable(a)
BY ChainsNest DEF Placeable

LEMMA RootedBelow ==
    ASSUME index[Genesis] # "absent", NEW b \in Blocks, Rooted(b), NEW a \in Chain[b]
    PROVE  Rooted(a)
BY ChainsNest DEF Rooted

-----------------------------------------------------------------------------
(* Blocks and coins.                                                       *)

LEMMA UtxoType == \A b \in Blocks : Utxo[b] \in CoinMap
BY BlockAssumption DEF CoinMap

LEMMA GenesisIsEmpty == Utxo[Genesis] = NoCoins
BY BlockAssumption DEF NoCoins

(* A block applied to the coins of its parent gives its own, coin by coin. *)
LEMMA AppliedToParent ==
    ASSUME NEW b \in Blocks \ {Genesis}
    PROVE  Applied(Utxo[Parent[b]], b) = Utxo[b]
BY BlockAssumption DEF Applied

LEMMA UndoneFromBlock ==
    ASSUME NEW b \in Blocks \ {Genesis}
    PROVE  Undone(Utxo[b], b) = Utxo[Parent[b]]
<1>1. Parent[b] \in Blocks
  BY Branch
<1>2. Utxo[Parent[b]] \in [Keys -> BOOLEAN]
  BY <1>1, BlockAssumption
<1>3. ASSUME NEW k \in Keys
      PROVE  (k \in Spends[b] \/ (Utxo[b][k] /\ k \notin Creates[b])) = Utxo[Parent[b]][k]
  <2>1. k \in Spends[b] => Utxo[Parent[b]][k]
    BY BlockAssumption
  <2>2. k \in Creates[b] => ~Utxo[Parent[b]][k]
    BY BlockAssumption
  <2>3. Utxo[b][k] <=> (k \in Creates[b] \/ (Utxo[Parent[b]][k] /\ k \notin Spends[b]))
    BY BlockAssumption
  <2>4. Utxo[Parent[b]][k] \in BOOLEAN
    BY <1>2
  <2> QED BY <2>1, <2>2, <2>3, <2>4
<1> QED BY <1>2, <1>3 DEF Undone

(* Rolling a block back or forward over coins that are each right for the  *)
(* block reached or for the last one: so they are afterwards.              *)
LEMMA DownKeepsMixture ==
    ASSUME NEW b \in Blocks \ {Genesis}, NEW g \in Blocks, NEW m \in CoinMap,
           \A k \in Keys : m[k] \in {Utxo[b][k], Utxo[g][k]}
    PROVE  \A k \in Keys : Undone(m, b)[k] \in {Utxo[Parent[b]][k], Utxo[g][k]}
<1> TAKE k \in Keys
<1>1. Undone(Utxo[b], b) = Utxo[Parent[b]]
  BY UndoneFromBlock
<1>2. CASE m[k] = Utxo[b][k]
  BY <1>1, <1>2 DEF Undone
<1>3. CASE m[k] = Utxo[g][k] /\ k \in Spends[b] \cup Creates[b]
  <2>1. Undone(m, b)[k] = Undone(Utxo[b], b)[k]
    BY <1>3 DEF Undone
  <2> QED BY <1>1, <2>1
<1>4. CASE m[k] = Utxo[g][k] /\ k \notin Spends[b] \cup Creates[b]
  BY <1>4 DEF Undone, CoinMap
<1> QED BY <1>2, <1>3, <1>4

LEMMA UpKeepsMixture ==
    ASSUME NEW b \in Blocks \ {Genesis}, NEW g \in Blocks, NEW m \in CoinMap,
           \A k \in Keys : m[k] \in {Utxo[Parent[b]][k], Utxo[g][k]}
    PROVE  \A k \in Keys : Applied(m, b)[k] \in {Utxo[b][k], Utxo[g][k]}
<1> TAKE k \in Keys
<1>1. Applied(Utxo[Parent[b]], b) = Utxo[b]
  BY AppliedToParent
<1>2. CASE m[k] = Utxo[Parent[b]][k]
  BY <1>1, <1>2 DEF Applied
<1>3. CASE m[k] = Utxo[g][k] /\ k \in Spends[b] \cup Creates[b]
  <2>1. Applied(m, b)[k] = Applied(Utxo[Parent[b]], b)[k]
    BY <1>3 DEF Applied
  <2> QED BY <1>1, <2>1
<1>4. CASE m[k] = Utxo[g][k] /\ k \notin Spends[b] \cup Creates[b]
  BY <1>4 DEF Applied, CoinMap
<1> QED BY <1>2, <1>3, <1>4

LEMMA MovedType ==
    ASSUME NEW m \in CoinMap, NEW b \in Blocks
    PROVE  Applied(m, b) \in CoinMap /\ Undone(m, b) \in CoinMap
BY BlockAssumption DEF Applied, Undone, CoinMap

LEMMA OneMap ==
    ASSUME NEW m \in CoinMap, NEW n \in CoinMap, \A k \in Keys : m[k] = n[k]
    PROVE  m = n
BY DEF CoinMap

(* A coinbase found among the coins of a block is of one below it.         *)
LEMMA CoinbaseBelow ==
    ASSUME NEW c \in Blocks, NEW b \in Blocks \ {Genesis}, Utxo[c][Coinbase[b]]
    PROVE  b \in Chain[c]
BY MaturityAssumption

LEMMA OnlyGenesisIsEmpty ==
    ASSUME NEW b \in Blocks, Utxo[b] = NoCoins
    PROVE  b = Genesis
<1> SUFFICES ASSUME b # Genesis PROVE FALSE
  OBVIOUS
<1>1. Utxo[b][Coinbase[b]]
  BY MaturityAssumption, OnOwnChain
<1>2. Coinbase[b] \in Keys
  BY BlockAssumption
<1> QED BY <1>1, <1>2 DEF NoCoins

-----------------------------------------------------------------------------
(* What a step leaves alone.                                               *)

disk == <<durable, durableBest, heads, file, diskIndex>>

LEMMA StoreKept ==
    ASSUME UNCHANGED <<durable, durableBest, heads>>
    PROVE  SoundStore' = SoundStore /\ Emptied' = Emptied
BY DEF SoundStore, Emptied, NoCoins

LEMMA PlaceableKept ==
    ASSUME UNCHANGED diskIndex PROVE \A b \in Blocks : Placeable(b)' = Placeable(b)
BY DEF Placeable

IndexGrows ==
    \A b \in Blocks : /\ index[b] # "absent" => index'[b] # "absent"
                      /\ index[b] = "undo" => index'[b] = "undo"

LEMMA RootedGrows ==
    ASSUME IndexGrows, NEW b \in Blocks, Rooted(b) PROVE Rooted(b)'
BY OnOwnChain DEF IndexGrows, Rooted

LEMMA DiskKept ==
    ASSUME Inv, UNCHANGED <<disk, astray>>, Live' => Live \/ SoundStore
    PROVE  DiskOK'
<1>1. /\ UNCHANGED <<durable, durableBest, heads, fileTip, fileMark, diskIndex, astray>>
      /\ SoundStore' = SoundStore /\ Doomed' = Doomed
      /\ \A b \in Blocks : Placeable(b)' = Placeable(b)
  BY StoreKept, PlaceableKept DEF disk, file, Doomed
<1>2. PointerPlaceable'
  BY <1>1 DEF Inv, DiskOK, TypeOK, BlockOrNone, PointerPlaceable
<1>3. (~Doomed \/ Live => SoundStore)'
  BY <1>1 DEF Inv, DiskOK
<1>4. (~fileMark /\ fileTip # NoBlock => Placeable(fileTip))'
  BY <1>1 DEF Inv, DiskOK, TypeOK, BlockOrNone
<1> QED BY <1>1, <1>2, <1>3, <1>4 DEF Inv, DiskOK

-----------------------------------------------------------------------------
(* A running node: blocks arrive and the tip moves.                        *)

Running == {"run", "disconnect", "connect", "rollback"}

LEMMA RunningIsLive == mode \in Running => Live
BY DEF Running, Live

(* In a running mode there is no wipe, start-up or replay to speak of.     *)
LEMMA RunningRests ==
    ASSUME mode' \in Running, stage' \notin {"wipe", "wiped"}
    PROVE  WipeOK' /\ StartOK' /\ ReplayOK' /\ OnlyWalkBackRefuses'
BY DEF Running, WipeOK, StartOK, ReplayOK, OnlyWalkBackRefuses

LEMMA RunningKeeps ==
    ASSUME Inv, mode \in Running, stage = "none", mode' \in Running, stage' = "none",
           IndexGrows, UNCHANGED <<disk, astray>>, TypeOK', MoveOK'
    PROVE  Inv'
<1>1. UNCHANGED <<durable, durableBest, heads, fileTip, fileMark, diskIndex, astray>> /\ Live
  BY RunningIsLive DEF disk, file
<1>2. DiskOK'
  BY <1>1, DiskKept
<1>3. StageFits' /\ DiskBehind'
  BY <1>1 DEF Inv, StageFits, DiskBehind, Running, FromDisk, IndexGrows
<1>4. WriteOK'
  BY <1>1 DEF Inv, WriteOK
<1> QED BY <1>1, <1>2, <1>3, <1>4, RunningRests DEF Inv

LEMMA LearnKeeps == ASSUME Inv, NEW b \in Blocks, Learn(b) PROVE Inv'
<1>1. /\ mode = "run" /\ stage = "none" /\ mode' = "run" /\ stage' = "none"
      /\ index' = [index EXCEPT ![b] = "body"] /\ index[b] = "absent"
      /\ UNCHANGED <<tip, goal, pos, pending, rebuild, settled, astray, coins, best, durable,
                     durableBest, heads, fileTip, fileMark, diskIndex>>
  BY DEF Learn, Idle, Known, Indexed, start, store, file
<1>2. IndexGrows
  BY <1>1 DEF IndexGrows, Inv, TypeOK
<1>3. TypeOK'
  BY <1>1 DEF Inv, TypeOK
<1>4. At' = At /\ At \in Blocks /\ Live /\ Rooted(At)
  BY <1>1, TreeAssumption DEF At, Inv, TypeOK, BlockOrNone, Live, MoveOK
<1>5. Rooted(At)'
  BY <1>2, <1>4, RootedGrows
<1>6. MoveOK'
  BY <1>1, <1>4, <1>5 DEF Inv, MoveOK, Live
<1> QED BY <1>1, <1>2, <1>3, <1>6, RunningKeeps DEF Running, disk, file

(* Coins, pointer, tip and undo data of one more block.                    *)
LEMMA MoveUpDoes ==
    ASSUME Inv, NEW b \in Blocks \ {Genesis}, Live, At = Parent[b], MoveUp(b)
    PROVE  /\ coins' \in CoinMap /\ coins' = Utxo[b] /\ best' = b /\ At' = b /\ tip' = b
           /\ index' \in [Blocks -> {"absent", "body", "undo"}] /\ IndexGrows
           /\ Rooted(b)'
           /\ UNCHANGED <<durable, durableBest, heads>>
<1>1. coins = Utxo[Parent[b]] /\ Rooted(Parent[b])
  BY DEF Inv, MoveOK
<1>2. coins' = Utxo[b]
  BY <1>1, AppliedToParent DEF MoveUp
<1>3. index' = [index EXCEPT ![b] = "undo"]
  BY DEF MoveUp
<1>4. IndexGrows
  BY <1>3 DEF IndexGrows, Inv, TypeOK
<1>5. Rooted(b)'
  BY <1>1, <1>3, <1>4, Branch DEF Rooted, IndexGrows, Inv, TypeOK
<1>6. b # NoBlock
  BY TreeAssumption
<1> QED BY <1>2, <1>3, <1>4, <1>5, <1>6, UtxoType DEF MoveUp, At, Inv, TypeOK

LEMMA ConnectKeeps == ASSUME Inv, NEW b \in Blocks, Connect(b) PROVE Inv'
<1>1. /\ mode = "run" /\ stage = "none" /\ mode' = "run" /\ stage' = "none"
      /\ b # Genesis /\ Parent[b] = tip /\ MoveUp(b)
      /\ UNCHANGED <<goal, pos, pending, rebuild, settled, astray, fileTip, fileMark, diskIndex>>
  BY DEF Connect, Idle, start, file
<1>2. Live /\ At = Parent[b]
  BY <1>1 DEF Inv, MoveOK, Live
<1>3. /\ coins' \in CoinMap /\ coins' = Utxo[b] /\ best' = b /\ At' = b /\ tip' = b
      /\ index' \in [Blocks -> {"absent", "body", "undo"}] /\ IndexGrows
      /\ Rooted(b)'
      /\ UNCHANGED <<durable, durableBest, heads>>
  BY <1>1, <1>2, MoveUpDoes
<1>4. TypeOK'
  BY <1>1, <1>3 DEF Inv, TypeOK, BlockOrNone
<1>5. MoveOK'
  BY <1>1, <1>3, TreeAssumption DEF Inv, MoveOK, Live
<1> QED BY <1>1, <1>3, <1>4, <1>5, RunningKeeps DEF Running, disk, file

LEMMA BeginReorgKeeps == ASSUME Inv, NEW b \in Blocks, BeginReorg(b) PROVE Inv'
<1>1. /\ mode = "run" /\ stage = "none" /\ mode' = "disconnect" /\ stage' = "none"
      /\ tip \notin Chain[b] /\ goal' = b /\ pos' = tip
      /\ UNCHANGED <<tip, index, pending, rebuild, settled, astray, coins, best, durable,
                     durableBest, heads, fileTip, fileMark, diskIndex>>
  BY DEF BeginReorg, Idle, start, store, file
<1>2. TypeOK' /\ IndexGrows
  BY <1>1 DEF Inv, TypeOK, Modes, IndexGrows
<1>3. tip = At /\ At \in Blocks /\ Rooted(At) /\ Live
  BY <1>1 DEF Inv, MoveOK, Live, TypeOK
<1>4. best # NoBlock
  BY <1>1, <1>3, OnOwnChain DEF At
<1>5. Rooted(At)' /\ Rooted(pos)' /\ At' = At
  BY <1>1, <1>3 DEF Rooted, At
<1>6. MoveOK'
  BY <1>1, <1>3, <1>4, <1>5 DEF Inv, MoveOK, Live
<1> QED BY <1>1, <1>2, <1>6, RunningKeeps DEF Running, disk, file

(* One block taken back.                                                   *)
LEMMA StepDownDoes ==
    ASSUME Inv, Live, At # Genesis, StepDown
    PROVE  /\ At = best /\ best \in Blocks \ {Genesis} /\ Parent[best] \in Blocks
           /\ coins' \in CoinMap /\ coins' = Utxo[Parent[best]]
           /\ best' = Parent[best] /\ At' = Parent[best] /\ best' # NoBlock
           /\ Rooted(Parent[best])
           /\ UNCHANGED <<durable, durableBest, heads>>
<1>1. At = best /\ best \in Blocks \ {Genesis}
  BY DEF At, Inv, TypeOK, BlockOrNone
<1>2. Parent[best] \in Blocks /\ Parent[best] # NoBlock /\ Parent[best] \in Chain[best]
  BY <1>1, Branch, OnOwnChain, TreeAssumption
<1>3. coins = Utxo[best] /\ Rooted(best)
  BY <1>1 DEF Inv, MoveOK
<1>4. coins' = Utxo[Parent[best]]
  BY <1>1, <1>3, UndoneFromBlock DEF StepDown
<1>5. index[Genesis] # "absent"
  BY TreeAssumption DEF Inv, DiskBehind
<1>6. Rooted(Parent[best])
  BY <1>1, <1>2, <1>3, <1>5, RootedBelow
<1> QED BY <1>1, <1>2, <1>4, <1>6, UtxoType DEF StepDown, At

LEMMA DisconnectKeeps == ASSUME Inv, Disconnect PROVE Inv'
<1>1. /\ mode = "disconnect" /\ stage = "none" /\ mode' = "disconnect" /\ stage' = "none"
      /\ At \notin Chain[goal] /\ StepDown
      /\ UNCHANGED <<tip, index, goal, pos, pending, rebuild, settled, astray, fileTip, fileMark, diskIndex>>
  BY DEF Disconnect, chain, start, file
<1>2. Live /\ At # Genesis
  BY <1>1, OnOwnChain DEF Inv, TypeOK, Live
<1>3. /\ coins' \in CoinMap /\ coins' = Utxo[At'] /\ best' \in Blocks /\ best' # NoBlock
      /\ At' \in Blocks /\ Rooted(At')
      /\ UNCHANGED <<durable, durableBest, heads>>
  BY <1>1, <1>2, StepDownDoes
<1>4. TypeOK' /\ IndexGrows
  BY <1>1, <1>3 DEF Inv, TypeOK, BlockOrNone, IndexGrows
<1>5. Rooted(At)' /\ (Rooted(pos))'
  BY <1>1, <1>3 DEF Inv, MoveOK, Rooted
<1>6. MoveOK'
  BY <1>1, <1>2, <1>3, <1>5 DEF Inv, MoveOK, Live
<1> QED BY <1>1, <1>3, <1>4, <1>6, RunningKeeps DEF Running, disk, file

LEMMA EndDisconnectKeeps == ASSUME Inv, EndDisconnect \/ InterruptDisconnect PROVE Inv'
<1>1. /\ mode = "disconnect" /\ stage = "none" /\ stage' = "none" /\ tip' = At
      /\ \/ mode' = "connect" /\ At \in Chain[goal] /\ UNCHANGED <<goal, pos>>
         \/ mode' = "run" /\ goal' = Genesis /\ pos' = Genesis
      /\ UNCHANGED <<index, pending, rebuild, settled, astray, coins, best, durable,
                     durableBest, heads, fileTip, fileMark, diskIndex>>
  BY DEF EndDisconnect, InterruptDisconnect, EndReorg, start, store, file
<1>2. Live /\ At \in Blocks /\ At' = At
  BY <1>1, TreeAssumption DEF Inv, TypeOK, BlockOrNone, Live, At
<1>3. TypeOK' /\ IndexGrows
  BY <1>1, <1>2, TreeAssumption DEF Inv, TypeOK, Modes, IndexGrows
<1>4. Rooted(At)' /\ (mode' = "connect" => Rooted(pos)')
  BY <1>1, <1>2 DEF Inv, MoveOK, Rooted
<1>5. MoveOK'
  BY <1>1, <1>2, <1>4 DEF Inv, MoveOK, Live
<1> QED BY <1>1, <1>3, <1>5, RunningKeeps DEF Running, disk, file

LEMMA ConnectNextKeeps == ASSUME Inv, ConnectNext PROVE Inv'
<1>1. /\ mode = "connect" /\ stage = "none" /\ mode' = "connect" /\ stage' = "none"
      /\ tip # goal /\ MoveUp(NextTo(tip, goal))
      /\ UNCHANGED <<goal, pos, pending, rebuild, settled, astray, fileTip, fileMark, diskIndex>>
  BY DEF ConnectNext, start, file
<1>2. Live /\ tip = At /\ tip \in Chain[goal] /\ goal \in Blocks
  BY <1>1 DEF Inv, MoveOK, Live, TypeOK
<1>3. PICK b \in Blocks \ {Genesis} : b = NextTo(tip, goal) /\ b \in Chain[goal] /\ Parent[b] = At
  BY <1>1, <1>2, NextToIsNext
<1>4. /\ coins' \in CoinMap /\ coins' = Utxo[b] /\ best' = b /\ At' = b /\ tip' = b
      /\ index' \in [Blocks -> {"absent", "body", "undo"}] /\ IndexGrows
      /\ Rooted(b)'
      /\ UNCHANGED <<durable, durableBest, heads>>
  BY <1>1, <1>2, <1>3, MoveUpDoes
<1>5. TypeOK'
  BY <1>1, <1>3, <1>4 DEF Inv, TypeOK, BlockOrNone
<1>6. Rooted(pos)'
  <2>1. pos \in Blocks /\ Rooted(pos) /\ pos' = pos
    BY <1>1 DEF Inv, TypeOK, MoveOK
  <2>2. IndexGrows
    BY <1>4
  <2> QED BY <2>1, <2>2, RootedGrows
<1>7. MoveOK'
  BY <1>1, <1>3, <1>4, <1>6, TreeAssumption DEF Inv, MoveOK, Live
<1> QED BY <1>1, <1>4, <1>5, <1>7, RunningKeeps DEF Running, disk, file

LEMMA EndConnectKeeps == ASSUME Inv, EndConnect \/ FailConnect PROVE Inv'
<1>1. /\ mode = "connect" /\ stage = "none" /\ stage' = "none"
      /\ \/ mode' = "rollback" /\ UNCHANGED <<goal, pos>>
         \/ mode' = "run" /\ goal' = Genesis /\ pos' = Genesis
      /\ UNCHANGED <<tip, index, pending, rebuild, settled, astray, coins, best, durable,
                     durableBest, heads, fileTip, fileMark, diskIndex>>
  BY DEF EndConnect, FailConnect, EndReorg, chain, start, store, file
<1>2. Live /\ At' = At
  BY <1>1 DEF Inv, Live, At
<1>3. TypeOK' /\ IndexGrows
  BY <1>1, TreeAssumption DEF Inv, TypeOK, Modes, IndexGrows
<1>4. Rooted(At)' /\ (mode' = "rollback" => Rooted(pos)')
  BY <1>1, <1>2 DEF Inv, MoveOK, Rooted
<1>5. MoveOK'
  BY <1>1, <1>2, <1>4 DEF Inv, MoveOK, Live
<1> QED BY <1>1, <1>3, <1>5, RunningKeeps DEF Running, disk, file

LEMMA RollbackDownKeeps == ASSUME Inv, RollbackDown PROVE Inv'
<1>1. /\ mode = "rollback" /\ mode' = "rollback" /\ stage' = stage
      /\ At \notin Chain[pos] /\ StepDown
      /\ UNCHANGED <<tip, index, goal, pos, pending, rebuild, settled, astray, fileTip, fileMark, diskIndex>>
  BY DEF RollbackDown, chain, start, file
<1>2. Live /\ At # Genesis /\ stage = "none"
  BY <1>1, OnOwnChain DEF Inv, TypeOK, Live, StageFits
<1>3. /\ coins' \in CoinMap /\ coins' = Utxo[At'] /\ best' \in Blocks /\ best' # NoBlock
      /\ At' \in Blocks /\ Rooted(At')
      /\ UNCHANGED <<durable, durableBest, heads>>
  BY <1>1, <1>2, StepDownDoes
<1>4. TypeOK' /\ IndexGrows
  BY <1>1, <1>3 DEF Inv, TypeOK, BlockOrNone, IndexGrows
<1>5. Rooted(At)' /\ (Rooted(pos))'
  BY <1>1, <1>3 DEF Inv, MoveOK, Rooted
<1>6. MoveOK'
  BY <1>1, <1>2, <1>3, <1>5 DEF Inv, MoveOK, Live
<1> QED BY <1>1, <1>2, <1>3, <1>4, <1>6, RunningKeeps DEF Running, disk, file

(* One block put back without touching the index.                          *)
LEMMA StepUpDoes ==
    ASSUME Inv, Live, NEW b \in Blocks \ {Genesis}, Parent[b] = At,
           coins' = Applied(coins, b), best' = b
    PROVE  coins' = Utxo[b] /\ coins' \in CoinMap /\ At' = b /\ best' # NoBlock
<1>1. coins = Utxo[Parent[b]] /\ b # NoBlock
  BY TreeAssumption DEF Inv, MoveOK
<1> QED BY <1>1, AppliedToParent, UtxoType DEF At

LEMMA RollbackUpKeeps == ASSUME Inv, RollbackUp PROVE Inv'
<1> DEFINE b == NextTo(At, pos)
<1>1. /\ mode = "rollback" /\ mode' = "rollback" /\ stage' = stage
      /\ At \in Chain[pos] /\ At # pos
      /\ coins' = Applied(coins, b) /\ best' = b
      /\ UNCHANGED <<tip, index, goal, pos, pending, rebuild, settled, astray, durable, durableBest,
                     heads, fileTip, fileMark, diskIndex>>
  BY DEF RollbackUp, chain, start, file
<1>2. Live /\ stage = "none" /\ pos \in Blocks /\ Rooted(pos) /\ index[Genesis] # "absent"
  BY <1>1, TreeAssumption DEF Inv, TypeOK, Live, StageFits, MoveOK, DiskBehind
<1>3. b \in Chain[pos] /\ b \in Blocks \ {Genesis} /\ Parent[b] = At
  BY <1>1, <1>2, NextToIsNext
<1> HIDE DEF b
<1>4. coins' = Utxo[b] /\ coins' \in CoinMap /\ At' = b /\ best' # NoBlock
  BY <1>1, <1>2, <1>3, StepUpDoes
<1>5. TypeOK' /\ IndexGrows
  BY <1>1, <1>3, <1>4 DEF Inv, TypeOK, BlockOrNone, IndexGrows
<1>6. Rooted(b)
  BY <1>2, <1>3, RootedBelow
<1>7. Rooted(At)' /\ Rooted(pos)'
  BY <1>1, <1>2, <1>4, <1>6 DEF Rooted
<1>8. MoveOK'
  BY <1>1, <1>2, <1>4, <1>7 DEF Inv, MoveOK, Live
<1> QED BY <1>1, <1>2, <1>5, <1>8, RunningKeeps DEF Running, disk, file

LEMMA EndRollbackKeeps == ASSUME Inv, EndRollback PROVE Inv'
<1>1. /\ mode = "rollback" /\ mode' = "run" /\ stage' = stage
      /\ At = pos /\ tip' = pos /\ goal' = Genesis /\ pos' = Genesis
      /\ UNCHANGED <<index, pending, rebuild, settled, astray, coins, best, durable,
                     durableBest, heads, fileTip, fileMark, diskIndex>>
  BY DEF EndRollback, EndReorg, start, store, file
<1>2. Live /\ stage = "none" /\ At' = At
  BY <1>1 DEF Inv, Live, StageFits, At
<1>3. TypeOK' /\ IndexGrows
  BY <1>1, TreeAssumption DEF Inv, TypeOK, Modes, IndexGrows
<1>4. Rooted(At)'
  BY <1>1, <1>2 DEF Inv, MoveOK, Rooted
<1>5. MoveOK'
  BY <1>1, <1>2, <1>4 DEF Inv, MoveOK, Live
<1> QED BY <1>1, <1>2, <1>3, <1>5, RunningKeeps DEF Running, disk, file

LEMMA RunKeeps == ASSUME Inv, Run PROVE Inv'
BY LearnKeeps, ConnectKeeps, BeginReorgKeeps, DisconnectKeeps, EndDisconnectKeeps, ConnectNextKeeps,
   EndConnectKeeps, RollbackDownKeeps, RollbackUpKeeps, EndRollbackKeeps DEF Run

-----------------------------------------------------------------------------
(* Writes.                                                                 *)

Flushing == mode \in {"run", "disconnect", "rebuild", "rebuilt"} /\ Live
Flushed == {"marked", "flush", "flushed"}

(* A flush is of coins in use: no start-up or replay is disturbed by it.   *)
LEMMA FlushIsLive == ASSUME Inv, stage \in Flushed PROVE Flushing
BY DEF Inv, TypeOK, StageFits, Modes, Flushed, Flushing, Live

LEMMA FlushRests ==
    ASSUME Inv, Flushing, mode' = mode, stage' \in Flushed, UNCHANGED <<index, chain, start>>
    PROVE  StageFits' /\ WipeOK' /\ StartOK' /\ ReplayOK' /\ OnlyWalkBackRefuses'
<1>1. /\ mode \in {"run", "disconnect", "rebuild", "rebuilt"} /\ (mode # "rebuild" \/ stage # "wipe")
      /\ stage' \in {"marked", "flush", "flushed"}
      /\ UNCHANGED <<tip, index, goal, pos, pending, rebuild, settled, astray>>
  BY DEF Flushing, Flushed, chain, start, Live
<1>2. WipeOK'
  BY <1>1 DEF Inv, WipeOK, Rooted
<1> QED BY <1>1, <1>2 DEF Inv, StageFits, StartOK, ReplayOK, OnlyWalkBackRefuses

LEMMA FlushMarkKeeps == ASSUME Inv, FlushMark PROVE Inv'
<1>1. /\ stage = "none" /\ stage' = "marked" /\ fileTip' = tip /\ fileMark' = TRUE
      /\ mode \in {"run", "disconnect", "rebuild", "rebuilt"} /\ mode' = mode
      /\ UNCHANGED <<tip, index, goal, pos, pending, rebuild, settled, astray, coins, best, durable,
                     durableBest, heads, diskIndex>>
  BY DEF FlushMark, MayFlush, Save, chain, start, store
<1>2. Live /\ Live' /\ Flushing /\ At' = At
  BY <1>1 DEF Live, Flushing, At
<1>3. heads = <<>> /\ SoundStore
  BY <1>1, <1>2 DEF Inv, WriteOK, DiskOK
<1>4. tip \in Blocks /\ Rooted(tip)
  <2>1. tip = At \/ (tip = pos /\ mode = "disconnect")
    BY <1>1, <1>2 DEF Inv, MoveOK
  <2> QED BY <1>2, <2>1 DEF Inv, MoveOK, TypeOK
<1>5. TypeOK'
  BY <1>1, <1>4 DEF Inv, TypeOK, Stages, BlockOrNone
<1>6. DiskOK'
  <2>1. PointerPlaceable'
    BY <1>1, <1>3 DEF Inv, DiskOK, TypeOK, BlockOrNone, PointerPlaceable, Placeable
  <2>2. SoundStore'
    BY <1>1, <1>3, StoreKept
  <2> QED BY <1>1, <1>3, <1>4, <2>1, <2>2, TreeAssumption DEF Inv, DiskOK
<1>7. WriteOK'
  BY <1>1, <1>3, <1>4 DEF Inv, WriteOK, Rooted
<1>8. MoveOK'
  <2>1. Rooted(At)' = Rooted(At) /\ Rooted(pos)' = Rooted(pos)
    BY <1>1, <1>2 DEF Rooted
  <2> QED BY <1>1, <1>2, <2>1 DEF Inv, TypeOK, MoveOK
<1>9. DiskBehind'
  BY <1>1 DEF Inv, DiskBehind
<1> QED BY <1>1, <1>2, <1>5, <1>6, <1>7, <1>8, <1>9, FlushRests DEF Inv, Flushed, chain, start

(* Writing the block index makes placeable what was rooted in memory.      *)
LEMMA SaveIndexPlaces ==
    ASSUME Inv, SaveIndex
    PROVE  /\ diskIndex' \in [Blocks -> {"absent", "body", "undo"}] /\ diskIndex'[Genesis] # "absent"
           /\ \A b \in Blocks : Rooted(b) => Placeable(b)'
           /\ \A b \in Blocks : Placeable(b) => Placeable(b)'
           /\ \A b \in Blocks : diskIndex[b] # "absent" => diskIndex'[b] # "absent"
<1>1. diskIndex' = index
  BY DEF SaveIndex
<1>2. \A b \in Blocks : Rooted(b) => Placeable(b)'
  BY <1>1 DEF Rooted, Placeable
<1>3. \A b \in Blocks : Placeable(b) => Rooted(b)
  BY OnOwnChain DEF Rooted, Placeable, Inv, DiskBehind
<1> QED BY <1>1, <1>2, <1>3, TreeAssumption DEF Inv, TypeOK, DiskBehind

(* Writing the index changes nothing else that is said of the disk.        *)
LEMMA SaveIndexDisk ==
    ASSUME Inv, SaveIndex, UNCHANGED <<durable, durableBest, heads, fileTip, fileMark, astray>>,
           Live' => Live
    PROVE  DiskOK'
<1>1. SoundStore' = SoundStore /\ Doomed' = Doomed
  BY StoreKept DEF Doomed
<1>2. PointerPlaceable'
  BY SaveIndexPlaces DEF Inv, DiskOK, TypeOK, BlockOrNone, PointerPlaceable
<1>3. /\ ~fileMark /\ fileTip # NoBlock => Placeable(fileTip)'
      /\ heads # <<>> /\ fileTip # NoBlock => diskIndex'[fileTip] # "absent"
  BY SaveIndexPlaces DEF Inv, DiskOK, TypeOK, BlockOrNone
<1>4. (~Doomed \/ Live => SoundStore)'
  BY <1>1 DEF Inv, DiskOK
<1>5. (~fileMark /\ fileTip # NoBlock => Placeable(fileTip))'
  BY <1>3 DEF Placeable
<1> QED BY <1>2, <1>3, <1>4, <1>5 DEF Inv, DiskOK

LEMMA FlushIndexKeeps == ASSUME Inv, FlushIndex PROVE Inv'
<1>1. /\ stage = "marked" /\ stage' = "flush" /\ mode' = mode /\ SaveIndex /\ diskIndex' = index
      /\ UNCHANGED <<tip, index, goal, pos, pending, rebuild, settled, astray, coins, best, durable,
                     durableBest, heads, fileTip, fileMark>>
  BY DEF FlushIndex, SaveIndex, chain, start, store, file
<1>2. Live /\ Live' /\ Flushing /\ At' = At /\ mode \in Modes
  BY <1>1, FlushIsLive DEF Live, Flushing, Flushed, At, Inv, TypeOK
<1>3. /\ heads = <<>> /\ fileMark /\ fileTip = tip /\ Rooted(tip) /\ tip \in Blocks
      /\ At \in Blocks /\ Rooted(At) /\ (best # NoBlock => best = At)
  BY <1>1, <1>2, TreeAssumption DEF Inv, TypeOK, BlockOrNone, WriteOK, MoveOK, At
<1>4. TypeOK'
  BY <1>1, SaveIndexPlaces DEF Inv, TypeOK, Stages
<1>5. DiskOK'
  BY <1>1, <1>2, SaveIndexDisk
<1>6. WriteOK'
  <2>1. best # NoBlock => Placeable(best)'
    BY <1>1, <1>3, SaveIndexPlaces
  <2> QED BY <1>1, <1>3, <2>1 DEF WriteOK, Rooted, Placeable
<1>7. MoveOK'
  <2>1. Rooted(At)' = Rooted(At) /\ Rooted(pos)' = Rooted(pos)
    BY <1>1, <1>2 DEF Rooted
  <2> QED BY <1>1, <1>2, <2>1 DEF Inv, TypeOK, MoveOK
<1>8. DiskBehind'
  BY <1>1, SaveIndexPlaces DEF Inv, DiskBehind
<1> QED BY <1>1, <1>2, <1>4, <1>5, <1>6, <1>7, <1>8, FlushRests DEF Inv, Flushed, chain, start

LEMMA SyncKeeps == ASSUME Inv, Sync PROVE Inv'
<1>1. /\ mode = "run" /\ mode' = "run" /\ stage = "none" /\ stage' = "sync"
      /\ IF best = NoBlock THEN UNCHANGED diskIndex ELSE SaveIndex
      /\ UNCHANGED <<tip, index, goal, pos, pending, rebuild, settled, astray, coins, best, durable,
                     durableBest, heads, fileTip, fileMark>>
  BY DEF Sync, Idle, chain, start, store, file
<1>2. Live /\ Live' /\ At' = At /\ mode \in Running /\ mode' \in Running
  BY <1>1 DEF Live, Running, At
<1>3. heads = <<>> /\ At \in Blocks /\ Rooted(At) /\ (best # NoBlock => best = At)
  BY <1>1, <1>2, TreeAssumption DEF Inv, TypeOK, BlockOrNone, WriteOK, MoveOK, At
<1>4. TypeOK' /\ DiskBehind'
  BY <1>1, SaveIndexPlaces DEF Inv, TypeOK, Stages, DiskBehind, SaveIndex, FromDisk
<1>5. DiskOK'
  BY <1>1, <1>2, SaveIndexDisk, DiskKept DEF disk, file
<1>6. WriteOK'
  <2>1. best # NoBlock => Placeable(best)'
    BY <1>1, <1>3, SaveIndexPlaces
  <2> QED BY <1>1, <1>3, <2>1 DEF WriteOK, Placeable
<1>7. MoveOK'
  <2>1. Rooted(At)' = Rooted(At) /\ Rooted(pos)' = Rooted(pos)
    BY <1>1, <1>2 DEF Rooted
  <2> QED BY <1>1, <1>2, <2>1 DEF Inv, TypeOK, MoveOK
<1>8. StageFits'
  BY <1>1 DEF StageFits
<1> QED BY <1>1, <1>2, <1>4, <1>5, <1>6, <1>7, <1>8, RunningRests DEF Inv

LEMMA StutterKeeps == ASSUME Inv, UNCHANGED vars PROVE Inv'
<1>1. UNCHANGED <<tip, index, goal, pos, mode, stage, pending, rebuild, settled, astray, coins, best,
                  durable, durableBest, heads, fileTip, fileMark, diskIndex>>
  BY DEF vars, chain, start, store, file
<1>2. TypeOK' /\ StageFits' /\ DiskBehind'
  BY <1>1 DEF Inv, TypeOK, StageFits, DiskBehind
<1>3. DiskOK'
  BY <1>1, DiskKept DEF disk, file, Live
<1>4. At' = At /\ Rooted(At)' = Rooted(At) /\ Rooted(tip)' = Rooted(tip) /\ Rooted(pos)' = Rooted(pos)
      /\ Rooted(goal)' = Rooted(goal) /\ Live' = Live
  BY <1>1 DEF At, Rooted, Live
<1>5. WriteOK' /\ MoveOK'
  BY <1>1, <1>4 DEF Inv, WriteOK, MoveOK, Placeable
<1>6. WipeOK' /\ StartOK' /\ ReplayOK'
  BY <1>1, <1>4 DEF Inv, WipeOK, Wiped, StartOK, ReplayOK, Emptied, Doomed, NoCoins
<1>7. OnlyWalkBackRefuses'
  BY <1>1, <1>4 DEF Inv, OnlyWalkBackRefuses, Known, Indexed
<1> QED BY <1>1, <1>2, <1>3, <1>5, <1>6, <1>7 DEF Inv

LEMMA StoreMap == Store!Map = CoinMap
BY DEF Store!Map, CoinMap

(* A batch of a write, for a block whose coins are in memory: its record   *)
(* brackets the coins, and can be placed when both its blocks can.         *)
LEMMA BatchIsSound ==
    ASSUME Inv, best \in Blocks, coins = Utxo[best], heads # <<>> => heads[1] = best,
           SoundStore, Store!PartialCommit
    PROVE  SoundStore'
<1>1. /\ durableBest' = NoBlock /\ heads' = <<best, Store!OldTip>> /\ best # NoBlock
      /\ \A k \in Keys : durable'[k] \in {durable[k], Utxo[best][k]}
  BY TreeAssumption DEF Store!PartialCommit
<1> DEFINE old(k) == IF Store!OldTip = NoBlock THEN FALSE ELSE Utxo[Store!OldTip][k]
<1>2. ASSUME NEW k \in Keys PROVE durable[k] \in {Utxo[best][k], old(k)}
  <2>1. CASE durableBest # NoBlock
    BY <2>1 DEF SoundStore, Store!OldTip
  <2>2. CASE durableBest = NoBlock /\ heads = <<>>
    BY <2>2 DEF SoundStore, NoCoins, Store!OldTip
  <2>3. CASE durableBest = NoBlock /\ heads # <<>>
    BY <2>3 DEF SoundStore, Store!OldTip
  <2> QED BY <2>1, <2>2, <2>3
<1>3. ASSUME NEW k \in Keys PROVE durable'[k] \in {Utxo[best][k], old(k)}
  BY <1>1, <1>2
<1>4. heads'[1] = best /\ heads'[2] = Store!OldTip /\ heads' # <<>>
  BY <1>1
<1> QED BY <1>1, <1>3, <1>4 DEF SoundStore

LEMMA BatchRecords ==
    ASSUME Inv, best \in Blocks, Placeable(best), UNCHANGED diskIndex, Store!PartialCommit
    PROVE  /\ durable' \in CoinMap /\ durableBest' = NoBlock /\ heads' # <<>>
           /\ heads' \in Blocks \X BlockOrNone /\ heads'[1] = best /\ PointerPlaceable'
<1>1. /\ durableBest' = NoBlock /\ heads' = <<best, Store!OldTip>> /\ best # NoBlock
      /\ durable' \in CoinMap
  BY TreeAssumption, StoreMap DEF Store!PartialCommit
<1>2. Store!OldTip \in BlockOrNone
  BY DEF Store!OldTip, Inv, TypeOK, BlockOrNone
<1>3. Store!OldTip # NoBlock => Placeable(Store!OldTip)
  BY DEF Store!OldTip, Inv, DiskOK, PointerPlaceable
<1>4. heads'[1] = best /\ heads'[2] = Store!OldTip
  BY <1>1
<1>5. PointerPlaceable'
  BY <1>1, <1>3, <1>4 DEF PointerPlaceable, Placeable
<1> QED BY <1>1, <1>2, <1>4, <1>5

LEMMA WriteIsOf ==
    ASSUME Inv, stage \in {"flush", "sync"}
    PROVE  /\ mode \in {"run", "disconnect", "rebuild", "rebuilt", "replaying"}
           /\ mode # "replaying" => Live
           /\ stage = "flush" => Flushing
BY FlushIsLive DEF Inv, TypeOK, StageFits, Modes, Live, Flushed, Flushing

LEMMA WriteBatchKeeps == ASSUME Inv, WriteBatch PROVE Inv'
<1>1. /\ stage \in {"flush", "sync"} /\ stage' = stage /\ mode' = mode
      /\ Store!PartialCommit /\ UNCHANGED <<coins, best>>
      /\ UNCHANGED <<tip, index, goal, pos, pending, rebuild, settled, astray, fileTip, fileMark, diskIndex>>
  BY DEF WriteBatch, Store!PartialCommit, chain, start, file
<1>2. /\ mode \in {"run", "disconnect", "rebuild", "rebuilt", "replaying"}
      /\ (mode # "replaying" => Live) /\ Live' = Live
  BY <1>1, WriteIsOf DEF Live
<1>3. At' = At
  BY <1>1 DEF At
<1>4. CASE best = NoBlock
  <2>1. Live /\ durableBest = NoBlock /\ heads = <<>> /\ coins = NoCoins
    BY <1>1, <1>2, <1>4, GenesisIsEmpty, TreeAssumption DEF Inv, StageFits, ReplayOK, TypeOK, MoveOK, At
  <2>2. durable = NoCoins
    BY <2>1 DEF Inv, DiskOK, SoundStore
  <2>3. durable' = NoCoins
    <3>1. durable' \in CoinMap /\ \A k \in Keys : durable'[k] \in {NoCoins[k]}
      BY <1>1, <2>1, <2>2, StoreMap DEF Store!PartialCommit
    <3> QED BY <3>1, OneMap, UtxoType, GenesisIsEmpty, TreeAssumption
  <2>4. UNCHANGED vars
    BY <1>1, <1>4, <2>2, <2>3 DEF Store!PartialCommit, vars, chain, start, store, file
  <2> QED BY <2>4, StutterKeeps
<1>5. CASE best # NoBlock
  <2>1. best \in Blocks /\ Placeable(best) /\ (heads # <<>> => heads[1] = best) /\ best = At
    BY <1>1, <1>5 DEF Inv, TypeOK, BlockOrNone, WriteOK, At
  <2>2. /\ durable' \in CoinMap /\ durableBest' = NoBlock /\ heads' # <<>>
        /\ heads' \in Blocks \X BlockOrNone /\ heads'[1] = best /\ PointerPlaceable'
    BY <1>1, <2>1, BatchRecords
  <2>3. TypeOK' /\ StageFits' /\ DiskBehind'
    <3>1. TypeOK'
      BY <1>1, <2>2 DEF Inv, TypeOK, BlockOrNone
    <3> QED BY <1>1, <3>1 DEF Inv, StageFits, DiskBehind
  <2>4. ~Doomed \/ Live => SoundStore'
    <3> SUFFICES ASSUME ~Doomed \/ Live PROVE SoundStore'
      OBVIOUS
    <3>1. SoundStore
      BY DEF Inv, DiskOK
    <3>2. coins = Utxo[best]
      <4>1. CASE Live
        BY <2>1, <4>1 DEF Inv, MoveOK
      <4>2. CASE ~Live
        <5>1. mode = "replaying" /\ stage = "sync" /\ ~Doomed
          BY <1>1, <1>2, <4>2 DEF Inv, StageFits
        <5>2. pos = goal /\ best = goal /\ \A k \in Keys : coins[k] \in {Utxo[goal][k]}
          BY <5>1 DEF Inv, ReplayOK
        <5> QED BY <2>1, <5>2, OneMap, UtxoType DEF Inv, TypeOK
      <4> QED BY <4>1, <4>2
    <3> QED BY <1>1, <2>1, <3>1, <3>2, BatchIsSound
  <2>5. fileTip # NoBlock => diskIndex[fileTip] # "absent"
    <3>1. CASE stage = "flush"
      BY <3>1 DEF Inv, WriteOK, Rooted
    <3>2. CASE mode = "run" /\ stage = "sync"
      BY <3>2 DEF Inv, DiskOK, MoveOK, Placeable
    <3>3. CASE mode = "replaying"
      BY <3>3 DEF Inv, DiskOK, ReplayOK
    <3> QED BY <1>1, <1>2, <3>1, <3>2, <3>3 DEF Inv, StageFits
  <2>7. DiskOK'
    BY <1>1, <1>2, <2>2, <2>4, <2>5 DEF Inv, DiskOK, Doomed, Placeable
  <2>8. WriteOK'
    BY <1>1, <1>2, <2>1, <2>2 DEF Inv, WriteOK, Rooted, Placeable
  <2>9. MoveOK'
    <3>1. Rooted(At)' = Rooted(At) /\ Rooted(pos)' = Rooted(pos)
      BY <1>1, <1>3 DEF Rooted
    <3> QED BY <1>1, <1>2, <1>3, <1>5, <3>1 DEF Inv, MoveOK
  <2>10. WipeOK' /\ StartOK' /\ OnlyWalkBackRefuses'
    <3>1. WipeOK'
      BY <1>1, <1>2 DEF Inv, WipeOK, Rooted
    <3>2. mode = "replaying" /\ fileMark => tip = fileTip
      BY DEF Inv, ReplayOK, StartOK, Emptied
    <3>3. StartOK'
      BY <1>1, <1>2, <3>2 DEF Inv, StartOK
    <3> QED BY <1>1, <1>2, <3>1, <3>3 DEF OnlyWalkBackRefuses
  <2>11. ReplayOK'
    BY <1>1, <2>1, <2>2 DEF Inv, ReplayOK, Rooted, Doomed
  <2> QED BY <1>1, <2>3, <2>7, <2>8, <2>9, <2>10, <2>11 DEF Inv
<1> QED BY <1>4, <1>5

LEMMA WriteLastBatchKeeps == ASSUME Inv, WriteLastBatch PROVE Inv'
<1>1. /\ stage \in {"flush", "sync"} /\ stage' = (IF stage = "flush" THEN "flushed" ELSE "none")
      /\ IF mode = "replaying" THEN mode' = "recover" /\ goal' = Genesis /\ pos' = Genesis
                               ELSE UNCHANGED <<mode, goal, pos>>
      /\ durable' = coins /\ UNCHANGED <<coins, best>>
      /\ IF best = NoBlock THEN UNCHANGED <<durableBest, heads>> ELSE durableBest' = best /\ heads' = <<>>
      /\ UNCHANGED <<tip, index, pending, rebuild, settled, astray, fileTip, fileMark, diskIndex>>
  BY DEF WriteLastBatch, Store!Commit, start, file
<1>2. /\ mode \in {"run", "disconnect", "rebuild", "rebuilt", "replaying"}
      /\ (mode # "replaying" => Live)
      /\ (stage = "flush" => Flushing)
  BY <1>1, WriteIsOf
<1>3. At' = At /\ Rooted(At)' = Rooted(At) /\ Rooted(pos)' = Rooted(pos') /\ Rooted(tip)' = Rooted(tip)
  BY <1>1 DEF At, Rooted
<1>4. CASE mode # "replaying"
  <2>1. /\ Live /\ coins = Utxo[At] /\ mode' = mode /\ goal' = goal /\ pos' = pos
        /\ best \in BlockOrNone /\ coins \in CoinMap
        /\ best = NoBlock => durableBest = NoBlock /\ heads = <<>>
    BY <1>1, <1>2, <1>4 DEF Inv, TypeOK, MoveOK
  <2>2. durableBest' = best /\ heads' = <<>>
    BY <1>1, <2>1
  <2>3. Live'
    BY <1>1, <2>1 DEF Live
  <2>4. TypeOK' /\ DiskBehind'
    <3>1. TypeOK'
      BY <1>1, <2>1, <2>2 DEF Inv, TypeOK, Stages
    <3> QED BY <1>1, <2>1, <3>1 DEF Inv, DiskBehind
  <2>5. SoundStore'
    <3>1. best = NoBlock => coins = NoCoins
      BY <2>1, GenesisIsEmpty DEF At
    <3>2. best # NoBlock => coins = Utxo[best]
      BY <2>1 DEF At
    <3> QED BY <1>1, <2>2, <3>1, <3>2 DEF SoundStore, NoCoins
  <2>6. PointerPlaceable'
    BY <1>1, <2>2 DEF Inv, WriteOK, PointerPlaceable, Placeable
  <2>7. ~fileMark /\ fileTip \notin {NoBlock, Genesis} => best # NoBlock
    BY <2>1 DEF Inv, DiskOK
  <2>8. DiskOK'
    BY <1>1, <2>2, <2>5, <2>6, <2>7 DEF Inv, DiskOK, Placeable
  <2>9. WriteOK'
    BY <1>1, <1>3, <2>1, <2>2 DEF Inv, WriteOK
  <2>10. MoveOK'
    BY <1>1, <1>3, <2>1, <2>2 DEF Inv, MoveOK, Live
  <2>11. WipeOK' /\ StartOK' /\ ReplayOK' /\ OnlyWalkBackRefuses' /\ StageFits'
    <3>1. Rooted(goal)' = Rooted(goal)
      BY <1>1, <2>1 DEF Rooted
    <3>2. WipeOK'
      BY <1>1, <1>2, <1>4, <2>1, <3>1 DEF Inv, WipeOK
    <3>3. StartOK' /\ ReplayOK' /\ OnlyWalkBackRefuses'
      BY <1>1, <1>2, <1>4, <2>1 DEF Inv, StartOK, ReplayOK, OnlyWalkBackRefuses
    <3>4. StageFits'
      BY <1>1, <1>2, <1>4, <2>1 DEF Inv, StageFits
    <3> QED BY <3>2, <3>3, <3>4
  <2> QED BY <1>1, <2>4, <2>8, <2>9, <2>10, <2>11 DEF Inv
<1>5. CASE mode = "replaying"
  <2>1. /\ stage = "sync" /\ pos = goal /\ best = goal /\ goal \in Blocks /\ best # NoBlock
        /\ heads # <<>> /\ ~rebuild /\ ~settled /\ pending = fileMark /\ coins \in CoinMap
        /\ (fileMark => tip = fileTip) /\ (~fileMark => tip = IF fileTip = NoBlock THEN Genesis ELSE fileTip)
    BY <1>1, <1>5, TreeAssumption DEF Inv, TypeOK, StageFits, ReplayOK, StartOK, Emptied
  <2>2. mode' = "recover" /\ stage' = "none" /\ durableBest' = best /\ heads' = <<>>
    BY <1>1, <1>5, <2>1
  <2>3. TypeOK' /\ DiskBehind' /\ StageFits'
    <3>1. TypeOK'
      BY <1>1, <1>5, <2>1, <2>2, TreeAssumption DEF Inv, TypeOK, Stages, Modes, BlockOrNone
    <3> QED BY <1>1, <1>5, <2>2, <3>1 DEF Inv, DiskBehind, StageFits, FromDisk
  <2>4. ~Doomed => SoundStore'
    <3> SUFFICES ASSUME ~Doomed PROVE SoundStore'
      OBVIOUS
    <3>1. \A k \in Keys : coins[k] \in {Utxo[goal][k]}
      BY <1>5, <2>1 DEF Inv, ReplayOK
    <3>2. coins = Utxo[best]
      BY <2>1, <3>1, OneMap, UtxoType
    <3> QED BY <1>1, <2>1, <2>2, <3>2 DEF SoundStore, NoCoins
  <2>5. PointerPlaceable'
    BY <1>1, <2>1, <2>2 DEF Inv, WriteOK, PointerPlaceable, Placeable
  <2>6. DiskOK'
    BY <1>1, <2>1, <2>2, <2>4, <2>5 DEF Inv, DiskOK, Placeable, Doomed, Live
  <2>7. WriteOK' /\ MoveOK' /\ WipeOK' /\ ReplayOK' /\ OnlyWalkBackRefuses'
    BY <2>2 DEF WriteOK, MoveOK, WipeOK, ReplayOK, OnlyWalkBackRefuses, Live
  <2>8. StartOK'
    BY <1>1, <1>5, <2>1, <2>2 DEF Inv, StartOK
  <2> QED BY <1>1, <2>3, <2>6, <2>7, <2>8 DEF Inv
<1> QED BY <1>4, <1>5

LEMMA FlushClearKeeps == ASSUME Inv, FlushClear PROVE Inv'
<1>1. /\ stage = "flushed" /\ stage' = "none" /\ fileTip' = tip /\ fileMark' = FALSE
      /\ mode' = (IF mode = "rebuilt" THEN "reconcile" ELSE mode)
      /\ UNCHANGED <<tip, index, goal, pos, pending, rebuild, settled, astray, coins, best, durable,
                     durableBest, heads, diskIndex>>
  BY DEF FlushClear, Save, chain, start, store
<1>2. Flushing /\ Live /\ At' = At /\ heads = <<>> /\ durableBest = best /\ diskIndex = index
      /\ Rooted(tip) /\ tip \in Blocks /\ SoundStore /\ coins = Utxo[At]
  BY <1>1, FlushIsLive DEF Flushing, Flushed, At, Inv, WriteOK, TypeOK, DiskOK, MoveOK
<1>3. mode \in {"run", "disconnect", "rebuild", "rebuilt"} /\ (mode' # "reconcile" => Live')
  BY <1>1, <1>2 DEF Flushing, Live
<1>4. best = NoBlock => tip = Genesis
  BY <1>2, <1>3 DEF Inv, MoveOK, At
<1>5. Placeable(tip)
  BY <1>2 DEF Rooted, Placeable
<1>6. TypeOK' /\ StageFits' /\ DiskBehind'
  BY <1>1, <1>2, <1>3 DEF Inv, TypeOK, BlockOrNone, Stages, Modes, StageFits, DiskBehind, FromDisk
<1>7. DiskOK'
  <2>1. SoundStore'
    BY <1>1, <1>2, StoreKept
  <2>2. PointerPlaceable'
    BY <1>1, <1>2 DEF Inv, DiskOK, PointerPlaceable, Placeable
  <2> QED BY <1>1, <1>2, <1>4, <1>5, <2>1, <2>2 DEF DiskOK, Placeable
<1>8. Rooted(At)' = Rooted(At) /\ Rooted(pos)' = Rooted(pos) /\ Rooted(goal)' = Rooted(goal)
      /\ Rooted(tip)' = Rooted(tip)
  BY <1>1, <1>2 DEF Rooted
<1>9. WriteOK' /\ MoveOK' /\ WipeOK'
  BY <1>1, <1>2, <1>3, <1>8 DEF Inv, WriteOK, MoveOK, WipeOK, Live
<1>10. mode' = "reconcile" => coins = durable
  <2>1. best = NoBlock => coins = NoCoins /\ durable = NoCoins
    BY <1>2, GenesisIsEmpty DEF At, SoundStore
  <2>2. best # NoBlock => durable = Utxo[best] /\ coins = Utxo[best]
    BY <1>2 DEF At, SoundStore
  <2> QED BY <2>1, <2>2
<1>11. StartOK'
  BY <1>1, <1>2, <1>3, <1>4, <1>8, <1>10 DEF Inv, StartOK
<1>12. ReplayOK' /\ OnlyWalkBackRefuses'
  BY <1>1, <1>3 DEF ReplayOK, OnlyWalkBackRefuses
<1> QED BY <1>1, <1>6, <1>7, <1>9, <1>11, <1>12 DEF Inv

(* A chunk of a wipe, and the last one.                                    *)
LEMMA WipeChunkKeeps == ASSUME Inv, WipeSome \/ WipeLast PROVE Inv'
<1>1. /\ stage = "wipe" /\ mode' = mode /\ Store!Wipe
      /\ \/ stage' = "wipe" /\ heads' = heads
         \/ stage' = "wiped" /\ durable' = NoCoins /\ durableBest' = NoBlock /\ heads' = <<>>
      /\ UNCHANGED <<tip, index, goal, pos, pending, rebuild, settled, astray, fileTip, fileMark, diskIndex>>
  BY DEF WipeSome, WipeLast, chain, start, file
<1>2. /\ durable' \in CoinMap /\ \A k \in Keys : durable'[k] \in {durable[k], FALSE}
      /\ durableBest' \in {durableBest, NoBlock} /\ heads' \in {heads, <<>>}
      /\ coins' = durable' /\ best' = NoBlock
  BY <1>1, StoreMap DEF Store!Wipe
<1>3. mode \in {"reset", "rebuild"} /\ tip = Genesis /\ fileMark /\ (Doomed \/ Emptied)
  BY <1>1 DEF Inv, TypeOK, StageFits, Modes, WipeOK
<1>4. TypeOK' /\ StageFits' /\ DiskBehind'
  <2>1. TypeOK'
    BY <1>1, <1>2 DEF Inv, TypeOK, Stages, BlockOrNone
  <2> QED BY <1>1, <1>3, <2>1 DEF Inv, StageFits, DiskBehind
<1>5. Emptied => Emptied'
  <2> SUFFICES ASSUME Emptied PROVE Emptied'
    OBVIOUS
  <2>1. durable' = NoCoins
    <3>1. \A k \in Keys : durable'[k] = NoCoins[k]
      BY <1>2 DEF Emptied, NoCoins
    <3> QED BY <1>2, <3>1, OneMap, UtxoType, GenesisIsEmpty, TreeAssumption
  <2> QED BY <1>2, <2>1 DEF Emptied, NoCoins
<1>6. Emptied' => SoundStore'
  BY GenesisIsEmpty DEF Emptied, SoundStore, NoCoins
<1>7. stage' = "wiped" => Wiped' /\ Emptied'
  BY <1>1, <1>2 DEF Wiped, Emptied, NoCoins
<1>8. DiskOK'
  <2>1. PointerPlaceable'
    BY <1>1, <1>2 DEF Inv, DiskOK, PointerPlaceable, Placeable
  <2>2. (~Doomed \/ Live => SoundStore)'
    BY <1>1, <1>3, <1>5, <1>6, <1>7 DEF Doomed, Live
  <2> QED BY <1>1, <1>2, <1>3, <2>1, <2>2 DEF Inv, DiskOK, Placeable
<1>9. WriteOK'
  BY <1>1 DEF WriteOK
<1>10. Rooted(goal)' = Rooted(goal) /\ Rooted(Genesis)' /\ Genesis \in Blocks
  BY <1>1, TreeAssumption DEF Inv, DiskBehind, Rooted
<1>11. MoveOK'
  <2>1. Live' => coins' = NoCoins /\ best' = NoBlock /\ durableBest' = NoBlock /\ heads' = <<>>
    BY <1>1, <1>2, <1>3 DEF Live
  <2>2. Live' => At' = Genesis
    BY <2>1 DEF At
  <2>3. Live' => (coins = Utxo[At])' /\ Rooted(At)'
    BY <1>10, <2>1, <2>2, GenesisIsEmpty DEF Rooted
  <2> QED BY <1>1, <1>3, <2>1, <2>2, <2>3 DEF MoveOK
<1>12. WipeOK'
  BY <1>1, <1>2, <1>3, <1>5, <1>7, <1>10 DEF Inv, WipeOK, Doomed
<1>13. StartOK' /\ ReplayOK' /\ OnlyWalkBackRefuses'
  BY <1>1, <1>3 DEF Inv, StartOK, ReplayOK, OnlyWalkBackRefuses
<1> QED BY <1>1, <1>4, <1>8, <1>9, <1>11, <1>12, <1>13 DEF Inv

LEMMA WriteKeeps == ASSUME Inv, Write PROVE Inv'
BY FlushMarkKeeps, FlushIndexKeeps, FlushClearKeeps, SyncKeeps, WriteBatchKeeps,
   WriteLastBatchKeeps, WipeChunkKeeps DEF Write

(* The files are what they were, and say what they are.                    *)
LEMMA CrashKeeps == ASSUME Inv, Crash PROVE Inv'
<1>1. /\ mode' = "down" /\ stage' = "none" /\ coins' = durable /\ best' = durableBest
      /\ tip' = Genesis /\ goal' = Genesis /\ pos' = Genesis /\ index' = diskIndex
      /\ pending' = FALSE /\ rebuild' = FALSE /\ settled' = FALSE
      /\ UNCHANGED <<durable, durableBest, heads, fileTip, fileMark, diskIndex, astray>>
  BY DEF Crash, Store!Crash, file
<1>2. TypeOK'
  BY <1>1, TreeAssumption DEF Inv, TypeOK, Modes, Stages
<1>3. DiskBehind'
  BY <1>1 DEF Inv, DiskBehind
<1>4. DiskOK'
  BY <1>1, DiskKept DEF disk, file, Live
<1>5. StageFits' /\ WriteOK' /\ MoveOK' /\ WipeOK' /\ StartOK' /\ ReplayOK' /\ OnlyWalkBackRefuses'
  BY <1>1 DEF StageFits, WriteOK, MoveOK, WipeOK, StartOK, ReplayOK, OnlyWalkBackRefuses, Live
<1> QED BY <1>1, <1>2, <1>3, <1>4, <1>5 DEF Inv

-----------------------------------------------------------------------------
(* Start-up.                                                               *)

LEMMA GenesisIsRooted == ASSUME Inv PROVE Rooted(Genesis) /\ Placeable(Genesis)
BY TreeAssumption DEF Inv, DiskBehind, Rooted, Placeable

LEMMA LoadKeeps == ASSUME Inv, Load PROVE Inv'
<1> DEFINE t == IF fileTip = NoBlock THEN Genesis ELSE fileTip
<1>1. /\ mode = "down" /\ mode' = "replay" /\ stage' = stage
      /\ tip' = (IF ~Known(t) /\ coins = NoCoins THEN Genesis ELSE t)
      /\ pending' = fileMark /\ rebuild' \in BOOLEAN /\ settled' = FALSE
      /\ UNCHANGED <<index, goal, pos, astray, coins, best, durable, durableBest, heads,
                     fileTip, fileMark, diskIndex>>
  BY DEF Load, store, file
<1>2. /\ stage = "none" /\ coins = durable /\ best = durableBest /\ index = diskIndex
      /\ t \in Blocks
  BY <1>1, TreeAssumption DEF Inv, TypeOK, BlockOrNone, StageFits, StartOK, DiskBehind, FromDisk
<1>3. TypeOK'
  <2> HIDE DEF t
  <2>1. rebuild' \in BOOLEAN
    BY <1>1
  <2>2. tip' \in Blocks
    BY <1>1, <1>2, TreeAssumption
  <2>3. UNCHANGED <<index, goal, pos, stage, astray, coins, best, durable, durableBest, heads,
                    fileTip, fileMark, diskIndex>>
    BY <1>1
  <2>4. mode' \in Modes /\ pending' \in BOOLEAN /\ settled' \in BOOLEAN
    BY <1>1 DEF Inv, TypeOK, Modes
  <2> QED BY <2>1, <2>2, <2>3, <2>4 DEF Inv, TypeOK
<1>4. DiskOK'
  BY <1>1, DiskKept DEF disk, file, Live
<1>5. ~Known(t) => diskIndex[t] = "absent" /\ t # Genesis /\ fileTip = t /\ fileMark
  BY <1>2, TreeAssumption DEF Known, Indexed, Inv, DiskBehind, DiskOK, Placeable
<1>6. ~Known(t) /\ coins = NoCoins => Emptied
  <2> SUFFICES ASSUME ~Known(t), coins = NoCoins PROVE Emptied
    OBVIOUS
  <2>1. heads = <<>> /\ SoundStore
    BY <1>2, <1>5, TreeAssumption DEF Inv, DiskOK, Doomed
  <2>2. durableBest \in {NoBlock, Genesis}
    BY <1>2, <2>1, OnlyGenesisIsEmpty DEF Inv, TypeOK, BlockOrNone, SoundStore
  <2> QED BY <1>2, <2>1, <2>2 DEF Emptied
<1>7. StartOK'
  <2>1. Emptied' = Emptied
    BY <1>1, StoreKept
  <2>2. fileMark => tip' = fileTip \/ (tip' = Genesis /\ Emptied)
    BY <1>1, <1>6 DEF Inv, DiskOK
  <2>3. ~fileMark => tip' = t
    BY <1>1, <1>5
  <2> QED BY <1>1, <1>2, <2>1, <2>2, <2>3 DEF StartOK
<1>8. StageFits' /\ DiskBehind' /\ WriteOK' /\ MoveOK' /\ WipeOK' /\ ReplayOK' /\ OnlyWalkBackRefuses'
  BY <1>1, <1>2 DEF Inv, StageFits, DiskBehind, WriteOK, MoveOK, WipeOK, ReplayOK,
                    OnlyWalkBackRefuses, Live
<1> QED BY <1>1, <1>3, <1>4, <1>7, <1>8 DEF Inv

(* Until the coins are in use a step of start-up that leaves the disk      *)
(* alone has little to show.                                               *)
Starting == {"replay", "replaying", "recover", "rebuild?", "reconcile"}
LEMMA StartKeeps ==
    ASSUME Inv, mode \in Starting, stage = "none", mode' \in Starting, stage' = "none",
           UNCHANGED <<disk, index, astray>>, TypeOK', StartOK', ReplayOK',
           mode' \in {"rebuild?", "reconcile"} => ~fileMark
    PROVE  Inv'
<1>1. UNCHANGED <<durable, durableBest, heads, fileTip, fileMark, diskIndex>>
  BY DEF disk, file
<1>2. DiskOK'
  BY <1>1, DiskKept DEF Starting, Live
<1>3. StageFits' /\ DiskBehind'
  BY <1>1 DEF Inv, StageFits, DiskBehind, Starting, FromDisk
<1>4. WriteOK' /\ MoveOK' /\ WipeOK' /\ OnlyWalkBackRefuses'
  BY <1>1 DEF WriteOK, MoveOK, WipeOK, OnlyWalkBackRefuses, Starting, Live
<1> QED BY <1>2, <1>3, <1>4 DEF Inv

LEMMA ReplayNothingKeeps == ASSUME Inv, ReplayNothing PROVE Inv'
<1>1. /\ mode = "replay" /\ mode' = "recover" /\ stage' = stage /\ (heads = <<>> \/ rebuild)
      /\ UNCHANGED <<tip, index, goal, pos, pending, rebuild, settled, astray, coins, best, durable,
                     durableBest, heads, fileTip, fileMark, diskIndex>>
  BY DEF ReplayNothing, chain, start, store, file
<1>2. stage = "none" /\ TypeOK'
  BY <1>1 DEF Inv, StageFits, TypeOK, Modes
<1>3. StartOK'
  BY <1>1 DEF Inv, StartOK, Emptied, NoCoins
<1>4. ReplayOK'
  BY <1>1 DEF ReplayOK
<1> QED BY <1>1, <1>2, <1>3, <1>4, StartKeeps DEF Starting, disk, file

LEMMA ReplayBeginKeeps == ASSUME Inv, ReplayBegin PROVE Inv'
<1>1. /\ mode = "replay" /\ mode' = "replaying" /\ stage' = stage /\ heads # <<>> /\ ~rebuild
      /\ goal' = heads[1] /\ pos' = (IF heads[2] = NoBlock THEN Genesis ELSE heads[2])
      /\ UNCHANGED <<tip, index, pending, rebuild, settled, astray, coins, best, durable,
                     durableBest, heads, fileTip, fileMark, diskIndex>>
  BY DEF ReplayBegin, start, store, file
<1>2. /\ stage = "none" /\ coins = durable /\ index = diskIndex
      /\ heads[1] \in Blocks /\ heads[2] \in BlockOrNone
  BY <1>1 DEF Inv, StageFits, StartOK, DiskBehind, FromDisk, TypeOK
<1>3. goal' \in Blocks /\ pos' \in Blocks
  BY <1>1, <1>2, TreeAssumption DEF BlockOrNone
<1>4. TypeOK'
  BY <1>1, <1>3 DEF Inv, TypeOK, Modes
<1>5. StartOK'
  BY <1>1 DEF Inv, StartOK, Emptied, NoCoins
<1>6. ReplayOK'
  <2>1. Placeable(goal') /\ Placeable(pos')
    BY <1>1, GenesisIsRooted DEF Inv, DiskOK, PointerPlaceable
  <2>2. Rooted(goal)' /\ Rooted(pos)'
    BY <1>1, <1>2, <2>1 DEF Rooted, Placeable
  <2>3. ASSUME ~Doomed', NEW k \in Keys PROVE coins'[k] \in {Utxo[pos'][k], Utxo[goal'][k]}
    <3>1. SoundStore
      BY <1>1, <2>3 DEF Inv, DiskOK, Doomed
    <3>2. durable[k] \in {Utxo[heads[1]][k], IF heads[2] = NoBlock THEN FALSE ELSE Utxo[heads[2]][k]}
      BY <1>1, <3>1 DEF SoundStore
    <3>3. Utxo[Genesis][k] = FALSE
      BY GenesisIsEmpty DEF NoCoins
    <3> QED BY <1>1, <1>2, <3>2, <3>3
  <2> QED BY <1>1, <1>2, <2>2, <2>3 DEF ReplayOK
<1> QED BY <1>1, <1>2, <1>4, <1>5, <1>6, StartKeeps DEF Starting, disk, file

LEMMA ReplayDownKeeps == ASSUME Inv, ReplayDown PROVE Inv'
<1>1. /\ mode = "replaying" /\ stage = "none" /\ mode' = "replaying" /\ stage' = "none"
      /\ pos \notin Chain[goal] /\ coins' = Undone(coins, pos) /\ best' = Parent[pos] /\ pos' = Parent[pos]
      /\ UNCHANGED <<tip, index, goal, pending, rebuild, settled, astray, durable,
                     durableBest, heads, fileTip, fileMark, diskIndex>>
  BY DEF ReplayDown, start, file
<1>2. goal \in Blocks /\ pos \in Blocks \ {Genesis} /\ coins \in CoinMap /\ Parent[pos] \in Blocks
      /\ Parent[pos] \in Chain[pos]
  BY <1>1, OnOwnChain, Branch DEF Inv, TypeOK
<1>3. TypeOK'
  BY <1>1, <1>2, MovedType DEF Inv, TypeOK, BlockOrNone
<1>4. StartOK'
  BY <1>1 DEF Inv, StartOK, Emptied, NoCoins
<1>5. ReplayOK'
  <2>1. Rooted(goal) /\ Rooted(Parent[pos])
    BY <1>1, <1>2, RootedBelow, GenesisIsRooted DEF Inv, ReplayOK, Rooted
  <2>2. Rooted(goal)' /\ Rooted(pos)'
    BY <1>1, <2>1 DEF Rooted
  <2>3. ~Doomed => \A k \in Keys : coins'[k] \in {Utxo[pos'][k], Utxo[goal][k]}
    BY <1>1, <1>2, DownKeepsMixture DEF Inv, ReplayOK
  <2> QED BY <1>1, <2>2, <2>3 DEF Inv, ReplayOK, Doomed
<1> QED BY <1>1, <1>3, <1>4, <1>5, StartKeeps DEF Starting, disk, file

LEMMA ReplayUpKeeps == ASSUME Inv, ReplayUp PROVE Inv'
<1>1. /\ mode = "replaying" /\ stage = "none" /\ mode' = "replaying" /\ stage' = "none"
      /\ pos \in Chain[goal] /\ pos # goal
      /\ coins' = Applied(coins, NextTo(pos, goal)) /\ pos' = NextTo(pos, goal)
      /\ UNCHANGED <<tip, index, goal, pending, rebuild, settled, astray, best, durable,
                     durableBest, heads, fileTip, fileMark, diskIndex>>
  BY DEF ReplayUp, start, file
<1>2. goal \in Blocks /\ coins \in CoinMap
  BY DEF Inv, TypeOK
<1>3. PICK b \in Blocks \ {Genesis} : b = NextTo(pos, goal) /\ b \in Chain[goal] /\ Parent[b] = pos
  BY <1>1, <1>2, NextToIsNext
<1>4. TypeOK'
  BY <1>1, <1>2, <1>3, MovedType DEF Inv, TypeOK
<1>5. StartOK'
  BY <1>1 DEF Inv, StartOK, Emptied, NoCoins
<1>6. ReplayOK'
  <2>1. Rooted(goal) /\ Rooted(b)
    BY <1>1, <1>2, <1>3, RootedBelow, GenesisIsRooted DEF Inv, ReplayOK, Rooted
  <2>2. Rooted(goal)' /\ Rooted(pos)'
    BY <1>1, <1>3, <2>1 DEF Rooted
  <2>3. ~Doomed => \A k \in Keys : coins'[k] \in {Utxo[b][k], Utxo[goal][k]}
    BY <1>1, <1>2, <1>3, UpKeepsMixture DEF Inv, ReplayOK
  <2> QED BY <1>1, <1>3, <2>2, <2>3 DEF Inv, ReplayOK, Doomed
<1> QED BY <1>1, <1>4, <1>5, <1>6, StartKeeps DEF Starting, disk, file

LEMMA ReplayFlushKeeps == ASSUME Inv, ReplayFlush PROVE Inv'
<1>1. /\ mode = "replaying" /\ stage = "none" /\ mode' = "replaying" /\ stage' = "sync"
      /\ pos = goal /\ best' = goal /\ SaveIndex /\ diskIndex' = index
      /\ UNCHANGED <<tip, index, goal, pos, pending, rebuild, settled, astray, coins, durable,
                     durableBest, heads, fileTip, fileMark>>
  BY DEF ReplayFlush, SaveIndex, chain, start, file
<1>2. goal \in Blocks /\ Rooted(goal) /\ heads[1] = goal /\ Rooted(pos)
  BY <1>1 DEF Inv, TypeOK, ReplayOK
<1>3. TypeOK' /\ DiskBehind'
  BY <1>1, <1>2, SaveIndexPlaces DEF Inv, TypeOK, BlockOrNone, Stages, DiskBehind
<1>4. DiskOK'
  BY <1>1, SaveIndexDisk DEF Live
<1>5. WriteOK'
  BY <1>1, <1>2 DEF WriteOK, Rooted, Placeable, Live
<1>6. MoveOK' /\ WipeOK' /\ OnlyWalkBackRefuses' /\ StageFits'
  BY <1>1 DEF MoveOK, WipeOK, OnlyWalkBackRefuses, StageFits, Live
<1>7. StartOK'
  BY <1>1 DEF Inv, StartOK, Emptied, NoCoins
<1>8. ReplayOK'
  BY <1>1, <1>2 DEF Inv, ReplayOK, Doomed, Rooted
<1> QED BY <1>1, <1>3, <1>4, <1>5, <1>6, <1>7, <1>8 DEF Inv


(* Some block of a set of blocks of one branch is the highest.             *)
LEMMA HeightBelow == \A b \in Blocks : \A a \in Chain[b] : Height[a] <= Height[b]
<1> DEFINE S == {b \in Blocks : \A a \in Chain[b] : Height[a] <= Height[b]}
<1>1. Genesis \in S
  BY TreeAssumption
<1>2. ASSUME NEW b \in Blocks \ {Genesis}, Parent[b] \in S PROVE b \in S
  <2> SUFFICES ASSUME NEW a \in Chain[b] PROVE Height[a] <= Height[b]
    OBVIOUS
  <2>1. a = b \/ (a \in Chain[Parent[b]] /\ Height[a] <= Height[Parent[b]])
    BY <1>2, Branch
  <2>2. a \in Blocks
    BY OnOwnChain
  <2> QED BY <2>1, <2>2, Branch, TreeAssumption
<1>3. S \in SUBSET Blocks
  OBVIOUS
<1> HIDE DEF S
<1>4. S = Blocks
  BY <1>1, <1>2, <1>3, Inherited
<1> QED BY <1>4 DEF S

LEMMA HighestIsOne ==
    ASSUME NEW t \in Blocks, NEW S \in SUBSET Chain[t], S # {}
    PROVE  Highest(S) \in S
<1> DEFINE Topped(T) == \E b \in T : \A a \in T : Height[a] <= Height[b]
           D == {x \in Blocks : \A T \in SUBSET Chain[x] : T # {} => Topped(T)}
<1>1. Genesis \in D
  BY TreeAssumption
<1>2. ASSUME NEW b \in Blocks \ {Genesis}, Parent[b] \in D PROVE b \in D
  <2> SUFFICES ASSUME NEW T \in SUBSET Chain[b], T # {} PROVE Topped(T)
    OBVIOUS
  <2>1. CASE b \in T
    BY <2>1, HeightBelow
  <2>2. CASE b \notin T
    <3>1. T \in SUBSET Chain[Parent[b]]
      BY <2>2, Branch
    <3> QED BY <1>2, <3>1
  <2> QED BY <2>1, <2>2
<1>3. D \in SUBSET Blocks
  OBVIOUS
<1>4. D = Blocks
  <2> HIDE DEF D
  <2> QED BY <1>1, <1>2, <1>3, Inherited
<1>5. Topped(S)
  BY <1>4
<1> QED BY <1>5 DEF Highest

LEMMA RecoverNothingKeeps == ASSUME Inv, RecoverNothing PROVE Inv'
<1>1. /\ mode = "recover" /\ mode' = "rebuild?" /\ stage' = stage /\ ~pending
      /\ UNCHANGED <<tip, index, goal, pos, pending, rebuild, settled, astray, coins, best, durable,
                     durableBest, heads, fileTip, fileMark, diskIndex>>
  BY DEF RecoverNothing, chain, start, store, file
<1>2. /\ stage = "none" /\ ~fileMark /\ index = diskIndex /\ fileTip \in BlockOrNone
      /\ tip = (IF fileTip = NoBlock THEN Genesis ELSE fileTip) /\ tip \in Blocks
  BY <1>1 DEF Inv, StageFits, StartOK, DiskBehind, FromDisk, TypeOK
<1>3. TypeOK'
  BY <1>1 DEF Inv, TypeOK, Modes
<1>4. Rooted(tip)'
  <2>1. Placeable(tip)
    BY <1>2, GenesisIsRooted DEF Inv, DiskOK
  <2> QED BY <1>1, <1>2, <2>1 DEF Placeable, Rooted
<1>5. durableBest = NoBlock /\ heads = <<>> => tip = Genesis
  BY <1>1, <1>2 DEF Inv, DiskOK
<1>6. StartOK'
  BY <1>1, <1>4, <1>5 DEF Inv, StartOK
<1>7. ReplayOK'
  BY <1>1 DEF ReplayOK
<1> QED BY <1>1, <1>2, <1>3, <1>6, <1>7, StartKeeps DEF Starting, disk, file

LEMMA RecoverAtGenesisKeeps == ASSUME Inv, RecoverAtGenesis PROVE Inv'
<1>1. /\ mode = "recover" /\ pending /\ tip = Genesis /\ mode' = "reset" /\ stage' = "wipe"
      /\ coins' = durable /\ best' = NoBlock
      /\ UNCHANGED <<tip, index, goal, pos, pending, rebuild, settled, astray, durable,
                     durableBest, heads, fileTip, fileMark, diskIndex>>
  BY DEF RecoverAtGenesis, BeginWipe, chain, start, file
<1>2. TypeOK'
  BY <1>1 DEF Inv, TypeOK, Modes, Stages, BlockOrNone
<1>3. StageFits' /\ DiskBehind'
  BY <1>1 DEF Inv, StageFits, DiskBehind, FromDisk
<1>4. DiskOK'
  BY <1>1, DiskKept DEF disk, file, Live
<1>5. fileMark /\ (Doomed \/ Emptied)
  BY <1>1 DEF Inv, StartOK, Doomed
<1>6. Doomed' = Doomed /\ Emptied' = Emptied
  BY <1>1, StoreKept DEF Doomed
<1>7. WriteOK' /\ MoveOK' /\ WipeOK' /\ ReplayOK' /\ OnlyWalkBackRefuses'
  BY <1>1, <1>5, <1>6 DEF WriteOK, MoveOK, WipeOK, ReplayOK, OnlyWalkBackRefuses, Live
<1>8. StartOK'
  BY <1>1 DEF Inv, StartOK
<1> QED BY <1>1, <1>2, <1>3, <1>4, <1>7, <1>8 DEF Inv

LEMMA RecoverResetKeeps == ASSUME Inv, RecoverReset PROVE Inv'
<1>1. /\ mode = "reset" /\ stage = "wiped" /\ mode' = "rebuild?" /\ stage' = "none"
      /\ fileTip' = tip /\ fileMark' = FALSE /\ settled' = TRUE
      /\ UNCHANGED <<tip, index, goal, pos, pending, rebuild, astray, coins, best, durable,
                     durableBest, heads, diskIndex>>
  BY DEF RecoverReset, Save, chain, store
<1>2. Wiped /\ tip = Genesis
  BY <1>1 DEF Inv, WipeOK
<1>3. TypeOK'
  BY <1>1 DEF Inv, TypeOK, Modes, Stages, BlockOrNone
<1>4. StageFits' /\ DiskBehind'
  BY <1>1 DEF Inv, StageFits, DiskBehind, FromDisk
<1>5. SoundStore' /\ PointerPlaceable'
  BY <1>1, <1>2 DEF Wiped, Emptied, SoundStore, PointerPlaceable, NoCoins
<1>6. Placeable(Genesis)' /\ Rooted(Genesis)'
  BY <1>1, GenesisIsRooted DEF Placeable, Rooted
<1>7. DiskOK'
  BY <1>1, <1>2, <1>5, <1>6 DEF DiskOK, Wiped, Emptied, Placeable
<1>8. WriteOK' /\ MoveOK' /\ WipeOK' /\ ReplayOK' /\ OnlyWalkBackRefuses'
  BY <1>1 DEF WriteOK, MoveOK, WipeOK, ReplayOK, OnlyWalkBackRefuses, Live
<1>9. StartOK'
  <2>1. Rooted(tip)'
    BY <1>1, <1>2, <1>6 DEF Rooted
  <2> QED BY <1>1, <1>2, <2>1 DEF Inv, StartOK, Wiped, Emptied
<1> QED BY <1>1, <1>3, <1>4, <1>7, <1>8, <1>9 DEF Inv

(* A coinbase found among coins that say what they are is of a block that  *)
(* start-up can place.                                                     *)
LEMMA CommittedIsPlaceable ==
    ASSUME Inv, SoundStore, NEW b \in Blocks \ {Genesis}, durable[Coinbase[b]]
    PROVE  Placeable(b) /\ ~(durableBest = NoBlock /\ heads = <<>>)
<1>1. Coinbase[b] \in Keys /\ diskIndex[Genesis] # "absent" /\ durableBest \in BlockOrNone
  BY BlockAssumption DEF Inv, DiskBehind, TypeOK
<1>2. CASE durableBest # NoBlock
  <2>1. PICK c \in Blocks : c = durableBest
    BY <1>1, <1>2 DEF BlockOrNone
  <2>2. durable = Utxo[c] /\ Placeable(c)
    BY <1>2, <2>1 DEF Inv, DiskOK, PointerPlaceable, SoundStore
  <2>3. b \in Chain[c]
    BY <2>2, CoinbaseBelow
  <2>4. Placeable(b)
    BY <1>1, <2>2, <2>3, PlaceableBelow
  <2> QED BY <1>2, <2>4
<1>3. CASE heads # <<>>
  <2>1. /\ heads[1] \in Blocks /\ heads[2] \in BlockOrNone /\ Placeable(heads[1])
        /\ heads[2] # NoBlock => Placeable(heads[2])
    BY <1>3 DEF Inv, TypeOK, DiskOK, PointerPlaceable
  <2>2. \/ Utxo[heads[1]][Coinbase[b]]
        \/ heads[2] # NoBlock /\ Utxo[heads[2]][Coinbase[b]]
    BY <1>1, <1>3 DEF SoundStore
  <2>3. PICK c \in Blocks : Placeable(c) /\ Utxo[c][Coinbase[b]]
    BY <2>1, <2>2 DEF BlockOrNone
  <2>4. b \in Chain[c]
    BY <2>3, CoinbaseBelow
  <2>5. Placeable(b)
    BY <1>1, <2>3, <2>4, PlaceableBelow
  <2> QED BY <1>3, <2>5
<1>4. CASE durableBest = NoBlock /\ heads = <<>>
  BY <1>1, <1>4 DEF SoundStore, NoCoins
<1> QED BY <1>2, <1>3, <1>4

LEMMA RecoverTipKeeps == ASSUME Inv, RecoverTip PROVE Inv'
<1>1. /\ mode = "recover" /\ mode' = "rebuild?" /\ stage' = stage /\ pending /\ tip # Genesis
      /\ Committed(tip) \/ CommittedBelow(tip) # {}
      /\ tip' = (IF Committed(tip) THEN tip ELSE Highest(CommittedBelow(tip)))
      /\ fileTip' = tip' /\ fileMark' = FALSE
      /\ UNCHANGED <<index, goal, pos, pending, rebuild, settled, astray, coins, best, durable,
                     durableBest, heads, diskIndex>>
  BY DEF RecoverTip, Save, start, store
<1>2. /\ stage = "none" /\ index = diskIndex /\ tip \in Blocks /\ coins = durable
      /\ fileMark /\ fileTip = tip /\ SoundStore
  BY <1>1 DEF Inv, StageFits, StartOK, DiskBehind, FromDisk, TypeOK, DiskOK, Doomed
<1>3. PICK t \in Blocks \ {Genesis} : t = tip' /\ coins[Coinbase[t]]
  <2>1. CASE Committed(tip)
    BY <1>1, <1>2, <2>1 DEF Committed
  <2>2. CASE ~Committed(tip)
    <3>1. CommittedBelow(tip) \in SUBSET Chain[tip] /\ CommittedBelow(tip) # {}
      BY <1>1, <2>2 DEF CommittedBelow
    <3>2. tip' \in CommittedBelow(tip)
      BY <1>1, <1>2, <2>2, <3>1, HighestIsOne
    <3>3. tip' \in Blocks /\ Committed(tip')
      BY <1>2, <3>1, <3>2, OnOwnChain DEF CommittedBelow
    <3> QED BY <3>3 DEF Committed
  <2> QED BY <2>1, <2>2
<1>4. Placeable(t) /\ ~(durableBest = NoBlock /\ heads = <<>>)
  BY <1>2, <1>3, CommittedIsPlaceable
<1>5. TypeOK'
  BY <1>1, <1>3 DEF Inv, TypeOK, Modes, BlockOrNone
<1>6. StageFits' /\ DiskBehind'
  BY <1>1, <1>2 DEF Inv, StageFits, DiskBehind, FromDisk
<1>7. SoundStore' /\ PointerPlaceable'
  BY <1>1, <1>2, StoreKept DEF Inv, DiskOK, PointerPlaceable, Placeable
<1>8. Placeable(t)' /\ Rooted(t)'
  BY <1>1, <1>2, <1>4 DEF Placeable, Rooted
<1>9. DiskOK'
  <2>1. (~fileMark /\ fileTip # NoBlock => Placeable(fileTip))'
    BY <1>1, <1>3, <1>8 DEF Placeable
  <2>2. (durableBest # NoBlock => heads = <<>>)'
    BY <1>1 DEF Inv, DiskOK
  <2>3. (heads # <<>> /\ fileTip # NoBlock => diskIndex[fileTip] # "absent")'
    BY <1>1, <1>3, <1>4 DEF Placeable
  <2> QED BY <1>1, <1>3, <1>4, <1>7, <2>1, <2>2, <2>3, TreeAssumption DEF DiskOK
<1>10. WriteOK' /\ MoveOK' /\ WipeOK' /\ ReplayOK' /\ OnlyWalkBackRefuses'
  BY <1>1, <1>2 DEF WriteOK, MoveOK, WipeOK, ReplayOK, OnlyWalkBackRefuses, Live
<1>11. StartOK'
  <2>1. Rooted(tip)'
    BY <1>3, <1>8 DEF Rooted
  <2> QED BY <1>1, <1>3, <1>4, <2>1 DEF Inv, StartOK
<1> QED BY <1>1, <1>5, <1>6, <1>7, <1>9, <1>10, <1>11 DEF Inv

(* Nothing to rebuild, and no transition record, or the start goes astray. *)
LEMMA RebuildNothingKeeps == ASSUME Inv, RebuildNothing PROVE Inv' \/ astray'
<1> SUFFICES ASSUME ~astray' PROVE Inv'
  OBVIOUS
<1>1. /\ mode = "rebuild?" /\ mode' = "reconcile" /\ stage' = stage
      /\ astray' = (astray \/ heads # <<>>)
      /\ UNCHANGED <<tip, index, goal, pos, pending, rebuild, settled, coins, best, durable,
                     durableBest, heads, fileTip, fileMark, diskIndex>>
  BY DEF RebuildNothing, chain, store, file
<1>2. stage = "none" /\ ~fileMark /\ Rooted(tip) /\ tip \in Blocks
  BY <1>1 DEF Inv, StageFits, MoveOK, StartOK, TypeOK
<1>3. heads = <<>> /\ astray = FALSE /\ astray' = FALSE
  BY <1>1 DEF Inv, TypeOK
<1>4. TypeOK'
  BY <1>1, <1>3 DEF Inv, TypeOK, Modes
<1>5. Rooted(tip)'
  BY <1>1, <1>2 DEF Rooted
<1>6. StartOK'
  BY <1>1, <1>3, <1>5 DEF Inv, StartOK
<1>7. ReplayOK'
  BY <1>1 DEF ReplayOK
<1> QED BY <1>1, <1>2, <1>3, <1>4, <1>6, <1>7, StartKeeps DEF Starting, disk, file

LEMMA RebuildMarkKeeps == ASSUME Inv, RebuildMark PROVE Inv'
<1>1. /\ mode = "rebuild?" /\ mode' = "rebuildWipe" /\ stage' = stage /\ rebuild /\ tip # Genesis
      /\ goal' = tip /\ tip' = Genesis /\ fileTip' = Genesis /\ fileMark' = TRUE
      /\ UNCHANGED <<index, pos, pending, rebuild, settled, astray, coins, best, durable,
                     durableBest, heads, diskIndex>>
  BY DEF RebuildMark, Save, start, store
<1>2. stage = "none" /\ Rooted(tip) /\ tip \in Blocks /\ Genesis \in Chain[tip]
  BY <1>1, OnOwnChain DEF Inv, StageFits, StartOK, TypeOK
<1>3. TypeOK'
  BY <1>1, TreeAssumption DEF Inv, TypeOK, Modes, BlockOrNone
<1>4. StageFits' /\ DiskBehind'
  BY <1>1, <1>2 DEF Inv, StageFits, DiskBehind, FromDisk
<1>5. DiskOK'
  <2>1. PointerPlaceable'
    BY <1>1 DEF Inv, DiskOK, PointerPlaceable, Placeable
  <2> QED BY <1>1, <2>1, TreeAssumption DEF Inv, DiskOK, DiskBehind, Doomed, Live
<1>6. Rooted(goal)'
  BY <1>1, <1>2 DEF Rooted
<1>7. WipeOK'
  BY <1>1, <1>2, <1>6 DEF WipeOK, Doomed
<1>8. WriteOK' /\ MoveOK' /\ ReplayOK' /\ OnlyWalkBackRefuses'
  BY <1>1, <1>2 DEF WriteOK, MoveOK, ReplayOK, OnlyWalkBackRefuses, Live
<1>9. StartOK'
  BY <1>1 DEF Inv, StartOK
<1> QED BY <1>1, <1>3, <1>4, <1>5, <1>7, <1>8, <1>9 DEF Inv

LEMMA RebuildWipeKeeps == ASSUME Inv, RebuildWipe PROVE Inv'
<1>1. /\ mode = "rebuildWipe" /\ mode' = "rebuild" /\ stage' = "wipe"
      /\ coins' = durable /\ best' = NoBlock
      /\ UNCHANGED <<tip, index, goal, pos, pending, rebuild, settled, astray, durable,
                     durableBest, heads, fileTip, fileMark, diskIndex>>
  BY DEF RebuildWipe, BeginWipe, chain, start, file
<1>2. TypeOK'
  BY <1>1 DEF Inv, TypeOK, Modes, Stages, BlockOrNone
<1>3. StageFits' /\ DiskBehind'
  BY <1>1 DEF Inv, StageFits, DiskBehind, FromDisk
<1>4. DiskOK'
  BY <1>1, DiskKept DEF disk, file, Live
<1>5. Doomed' /\ fileMark' /\ tip = Genesis /\ Rooted(goal) /\ tip \in Chain[goal]
  BY <1>1 DEF Inv, WipeOK, Doomed
<1>6. Rooted(goal)'
  BY <1>1, <1>5 DEF Rooted
<1>7. WipeOK'
  BY <1>1, <1>5, <1>6 DEF WipeOK
<1>8. WriteOK' /\ MoveOK' /\ ReplayOK' /\ OnlyWalkBackRefuses'
  BY <1>1 DEF WriteOK, MoveOK, ReplayOK, OnlyWalkBackRefuses, Live
<1>9. StartOK'
  BY <1>1 DEF Inv, StartOK
<1> QED BY <1>1, <1>2, <1>3, <1>4, <1>7, <1>8, <1>9 DEF Inv

(* A rebuild over coins that are in use.                                   *)
LEMMA RebuildingKeeps ==
    ASSUME Inv, mode = "rebuild", stage \in {"none", "wiped"}, mode' \in {"rebuild", "rebuilt"},
           stage' = "none", heads = <<>>, UNCHANGED <<disk, index, settled, astray>>,
           TypeOK', MoveOK', mode' = "rebuild" => Rooted(goal)' /\ tip' \in Chain[goal']
    PROVE  Inv'
<1>1. UNCHANGED <<durable, durableBest, heads, fileTip, fileMark, diskIndex, astray>> /\ Live
  BY DEF disk, file, Live
<1>2. DiskOK'
  BY <1>1, DiskKept
<1>3. StageFits' /\ DiskBehind'
  BY <1>1 DEF Inv, StageFits, DiskBehind, FromDisk
<1>4. WriteOK' /\ WipeOK'
  BY <1>1 DEF WriteOK, WipeOK
<1>5. StartOK' /\ ReplayOK' /\ OnlyWalkBackRefuses'
  BY <1>1 DEF Inv, StartOK, ReplayOK, OnlyWalkBackRefuses
<1> QED BY <1>1, <1>2, <1>3, <1>4, <1>5 DEF Inv

LEMMA RebuildBeginKeeps == ASSUME Inv, RebuildBegin PROVE Inv'
<1>1. /\ mode = "rebuild" /\ mode' = "rebuild" /\ stage = "wiped" /\ stage' = "none"
      /\ UNCHANGED <<tip, index, goal, pos, pending, rebuild, settled, astray, coins, best, durable,
                     durableBest, heads, fileTip, fileMark, diskIndex>>
  BY DEF RebuildBegin, chain, start, store, file
<1>2. heads = <<>> /\ Rooted(goal) /\ tip \in Chain[goal] /\ Live /\ Rooted(At)
  BY <1>1 DEF Inv, WipeOK, Wiped, Emptied, Live, MoveOK
<1>3. Rooted(goal)' /\ Rooted(At)' /\ At' = At
  BY <1>1, <1>2 DEF Rooted, At
<1>4. TypeOK'
  BY <1>1 DEF Inv, TypeOK, Stages
<1>5. MoveOK'
  BY <1>1, <1>2, <1>3 DEF Inv, MoveOK, Live
<1> QED BY <1>1, <1>2, <1>3, <1>4, <1>5, RebuildingKeeps DEF disk, file

LEMMA RebuildConnectKeeps == ASSUME Inv, RebuildConnect PROVE Inv'
<1>1. /\ mode = "rebuild" /\ mode' = "rebuild" /\ stage = "none" /\ stage' = "none" /\ tip # goal
      /\ coins' = Applied(coins, NextTo(tip, goal)) /\ best' = NextTo(tip, goal)
      /\ tip' = NextTo(tip, goal)
      /\ UNCHANGED <<index, goal, pos, pending, rebuild, settled, astray, durable,
                     durableBest, heads, fileTip, fileMark, diskIndex>>
  BY DEF RebuildConnect, start, file
<1>2. /\ heads = <<>> /\ Rooted(goal) /\ tip \in Chain[goal] /\ goal \in Blocks /\ Live /\ tip = At
      /\ index[Genesis] # "absent"
  BY <1>1, GenesisIsRooted DEF Inv, WipeOK, WriteOK, Live, MoveOK, TypeOK, Rooted
<1>3. PICK b \in Blocks \ {Genesis} : b = NextTo(tip, goal) /\ b \in Chain[goal] /\ Parent[b] = tip
  BY <1>1, <1>2, NextToIsNext
<1>4. coins' = Utxo[b] /\ coins' \in CoinMap /\ At' = b /\ best' # NoBlock
  BY <1>1, <1>2, <1>3, StepUpDoes
<1>5. Rooted(b) /\ Rooted(goal)
  BY <1>2, <1>3, RootedBelow
<1>6. Rooted(goal)' /\ Rooted(At)'
  BY <1>1, <1>4, <1>5 DEF Rooted
<1>7. TypeOK'
  BY <1>1, <1>3, <1>4 DEF Inv, TypeOK, BlockOrNone
<1>8. MoveOK'
  BY <1>1, <1>3, <1>4, <1>6 DEF MoveOK, Live
<1> QED BY <1>1, <1>2, <1>3, <1>6, <1>7, <1>8, RebuildingKeeps DEF disk, file

LEMMA RebuildEndKeeps == ASSUME Inv, RebuildEnd PROVE Inv'
<1>1. /\ mode = "rebuild" /\ mode' = "rebuilt" /\ stage = "none" /\ stage' = "none"
      /\ goal' = Genesis
      /\ UNCHANGED <<tip, index, pos, pending, rebuild, settled, astray, coins, best, durable,
                     durableBest, heads, fileTip, fileMark, diskIndex>>
  BY DEF RebuildEnd, start, store, file
<1>2. heads = <<>> /\ Live /\ Rooted(At)
  BY <1>1 DEF Inv, WriteOK, Live, MoveOK
<1>3. Rooted(At)' /\ At' = At
  BY <1>1, <1>2 DEF Rooted, At
<1>4. TypeOK'
  BY <1>1, TreeAssumption DEF Inv, TypeOK, Modes
<1>5. MoveOK'
  BY <1>1, <1>2, <1>3 DEF Inv, MoveOK, Live
<1> QED BY <1>1, <1>2, <1>4, <1>5, RebuildingKeeps DEF disk, file

(* The coins come into use: the pointer is the tip, or there are none.     *)
LEMMA Reconciling ==
    ASSUME Inv, mode = "reconcile"
    PROVE  /\ stage = "none" /\ ~fileMark /\ heads = <<>> /\ SoundStore /\ index = diskIndex
           /\ coins = durable /\ best = durableBest /\ Rooted(tip) /\ tip \in Blocks
           /\ durableBest \in BlockOrNone
           /\ settled => durableBest = NoBlock
           /\ durableBest = NoBlock => tip = Genesis /\ coins = NoCoins
           /\ durableBest # NoBlock => coins = Utxo[durableBest] /\ Placeable(durableBest)
<1>1. /\ stage = "none" /\ heads = <<>> /\ index = diskIndex /\ coins = durable /\ best = durableBest
      /\ Rooted(tip) /\ tip \in Blocks /\ durableBest \in BlockOrNone
      /\ settled => durableBest = NoBlock
      /\ durableBest = NoBlock => tip = Genesis
  BY DEF Inv, StageFits, StartOK, DiskBehind, FromDisk, TypeOK
<1>2. ~fileMark
  BY <1>1 DEF Inv, MoveOK
<1>3. SoundStore /\ PointerPlaceable
  BY <1>2 DEF Inv, DiskOK, Doomed
<1> QED BY <1>1, <1>2, <1>3 DEF SoundStore, PointerPlaceable

LEMMA ReconcileKeepKeeps == ASSUME Inv, ReconcileKeep PROVE Inv'
<1>1. /\ mode = "reconcile" /\ mode' = "run" /\ stage' = stage
      /\ settled \/ durableBest = NoBlock \/ durableBest = tip \/ (coins = NoCoins /\ durableBest # Genesis)
      /\ best' \in {best, Genesis} /\ (best # NoBlock => best' = best)
      /\ UNCHANGED <<tip, index, goal, pos, pending, rebuild, settled, astray, coins, durable,
                     durableBest, heads, fileTip, fileMark, diskIndex>>
  BY DEF ReconcileKeep, chain, start, file
<1>2. /\ stage = "none" /\ ~fileMark /\ heads = <<>> /\ SoundStore /\ index = diskIndex
      /\ coins = durable /\ best = durableBest /\ Rooted(tip) /\ tip \in Blocks
      /\ durableBest \in BlockOrNone
      /\ settled => durableBest = NoBlock
      /\ durableBest = NoBlock => tip = Genesis /\ coins = NoCoins
      /\ durableBest # NoBlock => coins = Utxo[durableBest] /\ Placeable(durableBest)
  BY <1>1, Reconciling
<1>3. At' = tip /\ coins = Utxo[tip]
  <2>1. CASE durableBest = NoBlock
    <3>1. best' \in {NoBlock, Genesis}
      BY <1>1, <1>2, <2>1
    <3> QED BY <1>2, <2>1, <3>1, GenesisIsEmpty DEF At
  <2>2. CASE durableBest # NoBlock
    <3>1. durableBest = tip
      BY <1>1, <1>2, <2>2, OnlyGenesisIsEmpty DEF BlockOrNone
    <3> QED BY <1>1, <1>2, <2>2, <3>1 DEF At
  <2> QED BY <2>1, <2>2
<1>4. TypeOK'
  BY <1>1, TreeAssumption DEF Inv, TypeOK, Modes, BlockOrNone
<1>5. StageFits' /\ DiskBehind'
  BY <1>1, <1>2 DEF Inv, StageFits, DiskBehind, FromDisk
<1>6. DiskOK'
  BY <1>1, <1>2, DiskKept DEF disk, file
<1>7. WriteOK' /\ WipeOK' /\ StartOK' /\ ReplayOK' /\ OnlyWalkBackRefuses'
  BY <1>1, <1>2 DEF WriteOK, WipeOK, StartOK, ReplayOK, OnlyWalkBackRefuses
<1>8. Rooted(At)'
  BY <1>1, <1>2, <1>3 DEF Rooted
<1>9. MoveOK'
  BY <1>1, <1>2, <1>3, <1>8 DEF MoveOK
<1> QED BY <1>1, <1>4, <1>5, <1>6, <1>7, <1>9 DEF Inv

LEMMA ReconcileMoveKeeps == ASSUME Inv, ReconcileMove PROVE Inv'
<1>1. /\ mode = "reconcile" /\ mode' = "run" /\ stage' = stage /\ durableBest # NoBlock
      /\ tip' = durableBest /\ fileTip' = durableBest /\ fileMark' = FALSE
      /\ UNCHANGED <<index, goal, pos, pending, rebuild, settled, astray, coins, best, durable,
                     durableBest, heads, diskIndex>>
  BY DEF ReconcileMove, Misplaced, Save, start, store
<1>2. /\ stage = "none" /\ heads = <<>> /\ SoundStore /\ index = diskIndex /\ best = durableBest
      /\ coins = Utxo[durableBest] /\ Placeable(durableBest) /\ durableBest \in BlockOrNone
  BY <1>1, Reconciling
<1>3. PICK b \in Blocks : b = durableBest /\ Placeable(b)
  BY <1>1, <1>2 DEF BlockOrNone
<1>4. Placeable(b)' /\ Rooted(b)'
  BY <1>1, <1>2, <1>3 DEF Placeable, Rooted
<1>5. TypeOK'
  BY <1>1, <1>3 DEF Inv, TypeOK, Modes, BlockOrNone
<1>6. StageFits' /\ DiskBehind'
  BY <1>1, <1>2 DEF Inv, StageFits, DiskBehind, FromDisk
<1>7. DiskOK'
  <2>1. SoundStore' /\ PointerPlaceable'
    BY <1>1, <1>2, StoreKept DEF Inv, DiskOK, PointerPlaceable, Placeable
  <2>2. Placeable(fileTip)'
    BY <1>1, <1>3, <1>4 DEF Placeable
  <2> QED BY <1>1, <1>2, <2>1, <2>2 DEF DiskOK
<1>8. WriteOK' /\ WipeOK' /\ StartOK' /\ ReplayOK' /\ OnlyWalkBackRefuses'
  BY <1>1, <1>2 DEF WriteOK, WipeOK, StartOK, ReplayOK, OnlyWalkBackRefuses
<1>9. At' = b
  BY <1>1, <1>2, <1>3 DEF At
<1>10. Rooted(At)'
  BY <1>4, <1>9 DEF Rooted
<1>11. MoveOK'
  BY <1>1, <1>2, <1>3, <1>9, <1>10 DEF MoveOK
<1> QED BY <1>1, <1>5, <1>6, <1>7, <1>8, <1>11 DEF Inv

(* Of the four reasons there are for a refusal only the walk back is left. *)
LEMMA RefuseKeeps == ASSUME Inv, Refuse PROVE Inv'
<1>1. /\ stage = "none" /\ stage' = "none" /\ mode' = "refused"
      /\ \/ mode = "replay" /\ heads # <<>> /\ ~(Known(heads[1]) /\ heads[2] \in Indexed \cup {NoBlock})
         \/ mode = "replaying" /\ pos \notin Chain[goal] /\ index[pos] # "undo"
         \/ /\ mode = "recover" /\ pending /\ tip # Genesis
            /\ ~Committed(tip) /\ CommittedBelow(tip) = {}
         \/ mode = "reconcile" /\ durableBest # NoBlock /\ ~Known(durableBest)
      /\ UNCHANGED <<tip, index, goal, pos, pending, rebuild, settled, astray, coins, best, durable,
                     durableBest, heads, fileTip, fileMark, diskIndex>>
  BY DEF Refuse, Misplaced, chain, start, store, file
<1>2. \A b \in Blocks : Placeable(b) /\ index = diskIndex => Known(b) /\ b \in Indexed
  BY DEF Placeable, Known, Indexed
<1>3. ~(mode = "replay" /\ heads # <<>> /\ ~(Known(heads[1]) /\ heads[2] \in Indexed \cup {NoBlock}))
  <2> SUFFICES ASSUME mode = "replay", heads # <<>>
               PROVE  Known(heads[1]) /\ heads[2] \in Indexed \cup {NoBlock}
    OBVIOUS
  <2>1. /\ index = diskIndex /\ heads[1] \in Blocks /\ heads[2] \in BlockOrNone /\ Placeable(heads[1])
        /\ heads[2] # NoBlock => Placeable(heads[2])
    BY DEF Inv, TypeOK, DiskBehind, FromDisk, DiskOK, PointerPlaceable
  <2> QED BY <1>2, <2>1 DEF BlockOrNone
<1>4. ~(mode = "replaying" /\ pos \notin Chain[goal] /\ index[pos] # "undo")
  BY OnOwnChain DEF Inv, ReplayOK, Rooted, TypeOK
<1>5. ~(mode = "reconcile" /\ durableBest # NoBlock /\ ~Known(durableBest))
  BY <1>2, Reconciling DEF BlockOrNone
<1>6. /\ mode = "recover" /\ pending /\ tip # Genesis
      /\ ~Committed(tip) /\ CommittedBelow(tip) = {}
  BY <1>1, <1>3, <1>4, <1>5
<1>7. /\ tip \in Blocks /\ coins = durable /\ best = durableBest /\ best \in BlockOrNone
      /\ SoundStore /\ (heads = <<>> \/ rebuild)
  BY <1>6 DEF Inv, TypeOK, StartOK, DiskOK, Doomed
<1>8. ASSUME heads = <<>>, Known(tip) PROVE Chain[tip] \cap Chain[At] = {Genesis}
  <2>1. At \in Blocks
    BY <1>7, TreeAssumption DEF At, BlockOrNone
  <2>2. Genesis \in Chain[tip] \cap Chain[At] /\ Chain[tip] \subseteq Blocks
    BY <1>7, <2>1, OnOwnChain
  <2>3. ASSUME NEW a \in Chain[tip] \cap Chain[At], a # Genesis PROVE FALSE
    <3>1. best # NoBlock /\ At = best
      BY <2>3, TreeAssumption DEF At
    <3>2. coins = Utxo[At]
      BY <1>7, <3>1 DEF SoundStore
    <3>3. a \in Blocks \ {Genesis} /\ a \in Chain[At]
      BY <2>2, <2>3
    <3>4. coins[Coinbase[a]]
      BY <2>1, <3>2, <3>3, MaturityAssumption
    <3>5. Committed(a)
      BY <3>3, <3>4 DEF Committed
    <3> QED BY <1>6, <1>8, <2>3, <3>5 DEF CommittedBelow
  <2> QED BY <2>2, <2>3
<1>9. OnlyWalkBackRefuses'
  <2>1. At' = At /\ Known(tip)' = Known(tip)
    BY <1>1 DEF At, Known, Indexed
  <2> QED BY <1>1, <1>6, <1>7, <1>8, <2>1 DEF OnlyWalkBackRefuses
<1>10. TypeOK'
  BY <1>1 DEF Inv, TypeOK, Modes
<1>11. DiskOK'
  BY <1>1, DiskKept DEF disk, file, Live
<1>12. StageFits' /\ DiskBehind'
  BY <1>1, <1>6 DEF Inv, StageFits, DiskBehind, FromDisk
<1>13. WriteOK' /\ MoveOK' /\ WipeOK' /\ StartOK' /\ ReplayOK'
  BY <1>1 DEF WriteOK, MoveOK, WipeOK, StartOK, ReplayOK, Live
<1> QED BY <1>1, <1>9, <1>10, <1>11, <1>12, <1>13 DEF Inv

LEMMA StartUpKeeps == ASSUME Inv, StartUp PROVE Inv' \/ astray'
BY LoadKeeps, ReplayNothingKeeps, ReplayBeginKeeps, ReplayDownKeeps, ReplayUpKeeps,
   ReplayFlushKeeps, RecoverNothingKeeps, RecoverAtGenesisKeeps, RecoverResetKeeps,
   RecoverTipKeeps, RebuildNothingKeeps, RebuildMarkKeeps, RebuildWipeKeeps,
   RebuildBeginKeeps, RebuildConnectKeeps, RebuildEndKeeps, ReconcileKeepKeeps,
   ReconcileMoveKeeps, RefuseKeeps DEF StartUp

-----------------------------------------------------------------------------
(* The invariant, and what follows from it.                                *)

LEMMA InitInv == ASSUME Init PROVE Inv
<1>1. /\ tip = Genesis /\ goal = Genesis /\ pos = Genesis /\ mode = "down" /\ stage = "none"
      /\ index = [b \in Blocks |-> IF b = Genesis THEN "body" ELSE "absent"] /\ diskIndex = index
      /\ pending = FALSE /\ rebuild = FALSE /\ settled = FALSE /\ astray = FALSE
      /\ coins = NoCoins /\ durable = NoCoins /\ best = NoBlock /\ durableBest = NoBlock /\ heads = <<>>
      /\ fileTip = NoBlock /\ fileMark = FALSE
  BY DEF Init, Store!Init, Store!EmptyMap, NoCoins
<1>2. NoCoins \in CoinMap
  BY DEF NoCoins, CoinMap
<1>3. TypeOK
  BY <1>1, <1>2, TreeAssumption DEF TypeOK, Modes, Stages, BlockOrNone
<1>4. DiskBehind /\ StageFits
  BY <1>1, TreeAssumption DEF DiskBehind, StageFits
<1>5. DiskOK
  BY <1>1 DEF DiskOK, PointerPlaceable, SoundStore, NoCoins
<1>6. WriteOK /\ MoveOK /\ WipeOK /\ StartOK /\ ReplayOK /\ OnlyWalkBackRefuses
  BY <1>1 DEF WriteOK, MoveOK, WipeOK, StartOK, ReplayOK, OnlyWalkBackRefuses, Live
<1> QED BY <1>1, <1>3, <1>4, <1>5, <1>6 DEF Inv

LEMMA StepInv == ASSUME Inv, [Next]_vars PROVE Inv' \/ astray'
BY RunKeeps, WriteKeeps, CrashKeeps, StartUpKeeps, StutterKeeps DEF Next

(* A start that has gone astray is not forgotten.                          *)
LEMMA AstrayStays == ASSUME astray, [Next]_vars PROVE astray'
<1>1. ASSUME Run PROVE astray' = astray
  BY <1>1 DEF Run, Learn, Connect, BeginReorg, Disconnect, EndDisconnect, InterruptDisconnect,
              ConnectNext, EndConnect, FailConnect, RollbackDown, RollbackUp, EndRollback, start
<1>2. ASSUME Write PROVE astray' = astray
  BY <1>2 DEF Write, FlushMark, FlushIndex, FlushClear, Sync, WriteBatch, WriteLastBatch,
              WipeSome, WipeLast, start
<1>3. ASSUME StartUp PROVE astray'
  BY <1>3 DEF StartUp, Load, ReplayNothing, ReplayBegin, ReplayDown, ReplayUp, ReplayFlush,
              RecoverNothing, RecoverAtGenesis, RecoverReset, RecoverTip, RebuildNothing,
              RebuildMark, RebuildWipe, RebuildBegin, RebuildConnect, RebuildEnd,
              ReconcileKeep, ReconcileMove, Refuse, start
<1> QED BY <1>1, <1>2, <1>3 DEF Next, Crash, vars, start

LEMMA Always == Spec => [](astray \/ Inv)
BY InitInv, StepInv, AstrayStays, PTL DEF Spec

(* Whatever a crash leaves in the coins database, the block or the         *)
(* transition record found with it says what the coins are, each of them,  *)
(* and both can be placed in the block index on disk with undo data: the   *)
(* order of %flush-chainstate and of *persist-block-index-hook* suffices,  *)
(* for any tree of blocks and wherever the crash falls, until a start with *)
(* -reindex-chainstate passes over a record and has nothing to rebuild.    *)
THEOREM DiskSaysWhatItIs == Spec => []DurableSaysWhatItIs
<1>1. astray \/ Inv => DurableSaysWhatItIs
  BY DEF Inv, DiskOK, SoundStore, DurableSaysWhatItIs, DurableNamesItsCoins, HeadsBracketCoins
<1> QED BY <1>1, Always, PTL

(* The pointer of the coins cache names the block whose coins are in       *)
(* memory wherever a flush may begin (connect-block, perform-reorg, its    *)
(* rollback, do-reindex-chainstate), and a node that moves no block has    *)
(* that block for its tip, after whatever crash, recovery or interrupted   *)
(* reorganisation (%init-chain-tip, reconcile-coins-db-best-block), unless *)
(* a start with -reindex-chainstate has gone astray.                       *)
THEOREM TipIsOfItsCoins == Spec => []TipMatchesCoins
<1>1. astray \/ Inv => TipMatchesCoins
  BY DEF Inv, MoveOK, Live, TipMatchesCoins, CoinsFollowPointer, Idle
<1> QED BY <1>1, Always, PTL

(* replay-coins-db-blocks and reconcile-coins-db-best-block never refuse a *)
(* start after a crash; the walk back of recover-inconsistent-chainstate   *)
(* does, and then the marked tip is not in the index on disk or has        *)
(* nothing above genesis in common with the coins (or a start with         *)
(* -reindex-chainstate has gone astray).                                   *)
THEOREM RefusalsAreWalkBacks == Spec => []OnlyWalkBackRefuses
<1>1. astray \/ Inv => OnlyWalkBackRefuses
  BY DEF Inv, OnlyWalkBackRefuses
<1> QED BY <1>1, Always, PTL

-----------------------------------------------------------------------------
(* The chainstate implements KeptTip, step by step.                        *)

Showing ==
    \/ mode \in {"run", "disconnect", "connect", "rollback", "rebuilt", "reconcile"}
    \/ mode = "rebuild" /\ stage \notin {"wipe", "wiped"}

TipStep == [Tip!Next]_<<Shown, Kept>>

LEMMA ShownIs == /\ Showing => Shown = At
                 /\ ~Showing => Shown = NoBlock
BY DEF Showing, Shown

LEMMA ShownIsNext == /\ Showing' => Shown' = At'
                     /\ ~Showing' => Shown' = NoBlock
BY DEF Showing, Shown

LEMMA AtType == ASSUME Inv PROVE At \in Blocks /\ At # NoBlock
BY TreeAssumption DEF Inv, TypeOK, BlockOrNone, At

LEMMA KeptStays == ASSUME UNCHANGED <<durableBest, heads>> PROVE Kept' = Kept
BY DEF Kept

LEMMA ShowsTheSame ==
    ASSUME UNCHANGED <<durableBest, heads>>, Showing' = Showing, Showing => At' = At
    PROVE  TipStep
BY KeptStays, ShownIs, ShownIsNext DEF TipStep

LEMMA ShowsNothing ==
    ASSUME UNCHANGED <<durableBest, heads>>, ~Showing'
    PROVE  TipStep
BY KeptStays, ShownIsNext DEF TipStep, Tip!Next, Tip!Stop

LEMMA ShowsNext ==
    ASSUME Inv, UNCHANGED <<durableBest, heads>>, Showing, Showing',
           NEW b \in Blocks \ {Genesis}, Parent[b] = At, At' = b
    PROVE  TipStep
<1>1. Shown = At /\ Shown' = b /\ At # NoBlock /\ Kept' = Kept
  BY ShownIs, ShownIsNext, AtType, KeptStays
<1> QED BY <1>1 DEF TipStep, Tip!Next, Tip!Up

LEMMA ShowsParent ==
    ASSUME Inv, UNCHANGED <<durableBest, heads>>, Showing, Showing', At # Genesis, At' = Parent[At]
    PROVE  TipStep
<1>1. Shown = At /\ Shown' = Parent[At] /\ At # NoBlock /\ Kept' = Kept
  BY ShownIs, ShownIsNext, AtType, KeptStays
<1> QED BY <1>1 DEF TipStep, Tip!Next, Tip!Down

LEMMA ShowsKept ==
    ASSUME UNCHANGED <<durableBest, heads>>, ~Showing, Showing', At' = Kept
    PROVE  TipStep
<1>1. Shown = NoBlock /\ Shown' = Kept /\ Kept' = Kept
  BY ShownIs, ShownIsNext, KeptStays
<1> QED BY <1>1 DEF TipStep, Tip!Next, Tip!Restart

LEMMA KeepsShown ==
    ASSUME Inv, Showing, Showing', At' = At, Kept' = At
    PROVE  TipStep
<1>1. Shown = At /\ Shown' = At /\ At # NoBlock
  BY ShownIs, ShownIsNext, AtType
<1> QED BY <1>1 DEF TipStep, Tip!Next, Tip!Keep

LEMMA GivesUp ==
    ASSUME ~Showing, ~Showing', Kept' \in {Kept, Genesis}
    PROVE  TipStep
<1>1. Shown = NoBlock /\ Shown' = NoBlock
  BY ShownIs, ShownIsNext
<1> QED BY <1>1 DEF TipStep, Tip!Next, Tip!GiveUp

LEMMA RunTip == ASSUME Inv, Run PROVE TipStep
<1>1. CASE \/ \E b \in Blocks : Learn(b) \/ BeginReorg(b)
           \/ EndDisconnect \/ InterruptDisconnect \/ EndConnect \/ FailConnect \/ EndRollback
  <2>1. UNCHANGED <<durableBest, heads, best>> /\ Showing /\ Showing'
    BY <1>1 DEF Learn, BeginReorg, EndDisconnect, InterruptDisconnect, EndConnect, FailConnect,
                EndRollback, EndReorg, Idle, store, Showing
  <2> QED BY <2>1, ShowsTheSame DEF At
<1>2. ASSUME NEW b \in Blocks, Connect(b) PROVE TipStep
  <2>1. /\ mode = "run" /\ mode' = "run" /\ b # Genesis /\ Parent[b] = tip /\ best' = b
        /\ UNCHANGED <<durableBest, heads>>
    BY <1>2 DEF Connect, MoveUp, Idle
  <2>2. tip = At /\ At' = b
    BY <2>1, TreeAssumption DEF Inv, MoveOK, Live, At
  <2> QED BY <2>1, <2>2, ShowsNext DEF Showing
<1>3. CASE ConnectNext
  <2>1. /\ mode = "connect" /\ mode' = "connect" /\ tip # goal /\ best' = NextTo(tip, goal)
        /\ UNCHANGED <<durableBest, heads>>
    BY <1>3 DEF ConnectNext, MoveUp
  <2>2. tip = At /\ At \in Chain[goal] /\ goal \in Blocks
    BY <2>1 DEF Inv, MoveOK, Live, TypeOK
  <2>3. PICK b \in Blocks \ {Genesis} : b = NextTo(tip, goal) /\ Parent[b] = tip
    BY <2>1, <2>2, NextToIsNext
  <2>4. At' = b
    BY <2>1, <2>3, TreeAssumption DEF At
  <2> QED BY <2>1, <2>2, <2>3, <2>4, ShowsNext DEF Showing
<1>4. CASE RollbackUp
  <2>1. /\ mode = "rollback" /\ mode' = "rollback" /\ At \in Chain[pos] /\ At # pos
        /\ best' = NextTo(At, pos) /\ pos \in Blocks /\ UNCHANGED <<durableBest, heads>>
    BY <1>4 DEF RollbackUp, Inv, TypeOK
  <2>2. PICK b \in Blocks \ {Genesis} : b = NextTo(At, pos) /\ Parent[b] = At
    BY <2>1, NextToIsNext
  <2>3. At' = b
    BY <2>1, <2>2, TreeAssumption DEF At
  <2> QED BY <2>1, <2>2, <2>3, ShowsNext DEF Showing
<1>5. CASE Disconnect \/ RollbackDown
  <2>1. /\ mode \in {"disconnect", "rollback"} /\ mode' = mode /\ StepDown
        /\ goal \in Blocks /\ pos \in Blocks /\ (At \notin Chain[goal] \/ At \notin Chain[pos])
    BY <1>5 DEF Disconnect, RollbackDown, Inv, TypeOK
  <2>2. Live /\ At # Genesis
    BY <2>1, OnOwnChain DEF Live
  <2>3. At' = Parent[At] /\ UNCHANGED <<durableBest, heads>>
    BY <2>1, <2>2, StepDownDoes
  <2> QED BY <2>1, <2>2, <2>3, ShowsParent DEF Showing
<1> QED BY <1>1, <1>2, <1>3, <1>4, <1>5 DEF Run

LEMMA WriteTip == ASSUME Inv, Write PROVE TipStep
<1>1. CASE FlushMark \/ FlushIndex \/ FlushClear \/ Sync
  <2>1. UNCHANGED <<durableBest, heads, best>> /\ Showing' = Showing
    BY <1>1 DEF FlushMark, MayFlush, FlushIndex, FlushClear, Sync, Idle, store, Showing
  <2> QED BY <2>1, ShowsTheSame DEF At
<1>2. CASE WriteBatch \/ WriteLastBatch
  <2>1. /\ stage \in {"flush", "sync"} /\ best' = best /\ best \in BlockOrNone
        /\ stage' \in {"flush", "sync", "flushed", "none"}
        /\ mode' = mode \/ (mode = "replaying" /\ mode' = "recover")
        /\ best = NoBlock => UNCHANGED <<durableBest, heads>>
        /\ best # NoBlock => \/ durableBest' = best
                             \/ durableBest' = NoBlock /\ heads' # <<>> /\ heads'[1] = best
    <3>1. best \in BlockOrNone
      BY DEF Inv, TypeOK
    <3>2. CASE WriteBatch
      BY <3>1, <3>2 DEF WriteBatch, Store!PartialCommit
    <3>3. CASE WriteLastBatch
      BY <3>1, <3>3 DEF WriteLastBatch, Store!Commit
    <3> QED BY <1>2, <3>2, <3>3
  <2>2. At' = At /\ (best # NoBlock => Kept' = best /\ At = best)
    BY <2>1 DEF At, Kept
  <2>3. CASE mode = "replaying"
    <3>1. stage = "sync" /\ best = goal /\ goal \in Blocks /\ heads # <<>>
      BY <2>1, <2>3 DEF Inv, ReplayOK, StageFits, TypeOK
    <3>2. best # NoBlock /\ heads[1] = best /\ durableBest = NoBlock
      BY <2>1, <3>1, TreeAssumption DEF Inv, WriteOK, DiskOK
    <3>3. Kept = best /\ Kept' = best
      BY <2>2, <3>1, <3>2 DEF Kept
    <3> QED BY <2>1, <2>3, <3>3, GivesUp DEF Showing
  <2>4. CASE mode # "replaying"
    <3>1. Showing /\ Showing'
      BY <2>1, <2>4, WriteIsOf DEF Showing
    <3>2. best = NoBlock => TipStep
      BY <2>1, <2>2, <3>1, ShowsTheSame
    <3>3. best # NoBlock => TipStep
      BY <2>2, <3>1, KeepsShown
    <3> QED BY <3>2, <3>3
  <2> QED BY <2>3, <2>4
<1>3. CASE WipeSome \/ WipeLast
  <2>1. /\ stage = "wipe" /\ stage' \in {"wipe", "wiped"} /\ mode' = mode
        /\ durableBest' \in {durableBest, NoBlock} /\ heads' \in {heads, <<>>}
        /\ heads' # heads => durableBest' = NoBlock
    BY <1>3 DEF WipeSome, WipeLast, Store!Wipe
  <2>2. mode \in {"reset", "rebuild"} /\ (durableBest # NoBlock => heads = <<>>)
    BY <2>1 DEF Inv, TypeOK, StageFits, Modes, DiskOK
  <2>3. Kept' \in {Kept, Genesis}
    BY <2>1, <2>2 DEF Kept
  <2> QED BY <2>1, <2>2, <2>3, GivesUp DEF Showing
<1> QED BY <1>1, <1>2, <1>3 DEF Write

LEMMA StartUpTip == ASSUME Inv, StartUp PROVE TipStep \/ astray'
<1>1. CASE \/ Load \/ ReplayNothing \/ ReplayBegin \/ ReplayDown \/ ReplayUp \/ ReplayFlush
           \/ RecoverNothing \/ RecoverAtGenesis \/ RecoverReset \/ RecoverTip
           \/ RebuildMark \/ RebuildWipe \/ Refuse
  <2>1. UNCHANGED <<durableBest, heads>>
    BY <1>1 DEF Load, ReplayNothing, ReplayBegin, ReplayDown, ReplayUp, ReplayFlush,
                RecoverNothing, RecoverAtGenesis, RecoverReset, RecoverTip, RebuildMark,
                RebuildWipe, Refuse, BeginWipe, store
  <2>2. mode' \in {"replay", "replaying", "recover", "rebuild?", "reset", "rebuildWipe", "refused"}
        \/ (mode' = "rebuild" /\ stage' = "wipe")
    BY <1>1 DEF Load, ReplayNothing, ReplayBegin, ReplayDown, ReplayUp, ReplayFlush,
                RecoverNothing, RecoverAtGenesis, RecoverReset, RecoverTip, RebuildMark,
                RebuildWipe, Refuse
  <2> QED BY <2>1, <2>2, ShowsNothing DEF Showing
<1>2. CASE RebuildNothing
  <2>1. /\ mode = "rebuild?" /\ mode' = "reconcile" /\ best' = best
        /\ UNCHANGED <<durableBest, heads>> /\ astray' = (astray \/ heads # <<>>)
    BY <1>2 DEF RebuildNothing, store
  <2>2. best = durableBest /\ (heads = <<>> \/ astray')
    BY <2>1 DEF Inv, TypeOK, StartOK
  <2>3. heads = <<>> => At' = Kept
    BY <2>1, <2>2 DEF At, Kept
  <2> QED BY <2>1, <2>2, <2>3, ShowsKept DEF Showing
<1>3. CASE RebuildBegin
  <2>1. /\ mode = "rebuild" /\ mode' = "rebuild" /\ stage = "wiped" /\ stage' = "none"
        /\ UNCHANGED <<durableBest, heads, best>>
    BY <1>3 DEF RebuildBegin, store
  <2>2. At' = Kept
    BY <2>1 DEF Inv, WipeOK, Wiped, Emptied, At, Kept
  <2> QED BY <2>1, <2>2, ShowsKept DEF Showing
<1>4. CASE RebuildConnect
  <2>1. /\ mode = "rebuild" /\ mode' = "rebuild" /\ stage = "none" /\ stage' = "none"
        /\ tip # goal /\ best' = NextTo(tip, goal) /\ UNCHANGED <<durableBest, heads>>
    BY <1>4 DEF RebuildConnect
  <2>2. tip = At /\ At \in Chain[goal] /\ goal \in Blocks
    BY <2>1 DEF Inv, MoveOK, WipeOK, Live, TypeOK
  <2>3. PICK b \in Blocks \ {Genesis} : b = NextTo(tip, goal) /\ Parent[b] = tip
    BY <2>1, <2>2, NextToIsNext
  <2>4. At' = b
    BY <2>1, <2>3, TreeAssumption DEF At
  <2> QED BY <2>1, <2>2, <2>3, <2>4, ShowsNext DEF Showing
<1>5. CASE RebuildEnd
  <2>1. UNCHANGED <<durableBest, heads, best>> /\ Showing /\ Showing'
    BY <1>5 DEF RebuildEnd, store, Showing
  <2> QED BY <2>1, ShowsTheSame DEF At
<1>6. CASE ReconcileKeep \/ ReconcileMove
  <2>1. UNCHANGED <<durableBest, heads>> /\ Showing /\ Showing'
    BY <1>6 DEF ReconcileKeep, ReconcileMove, Misplaced, store, Showing
  <2>2. At' = At
    BY <1>6 DEF ReconcileKeep, ReconcileMove, store, At
  <2> QED BY <2>1, <2>2, ShowsTheSame
<1> QED BY <1>1, <1>2, <1>3, <1>4, <1>5, <1>6 DEF StartUp

LEMMA CrashTip == ASSUME Crash \/ UNCHANGED vars PROVE TipStep
<1>1. CASE Crash
  <2>1. mode' = "down" /\ UNCHANGED <<durableBest, heads>>
    BY <1>1 DEF Crash, Store!Crash
  <2> QED BY <2>1, ShowsNothing DEF Showing
<1>2. CASE UNCHANGED vars
  <2>1. UNCHANGED <<durableBest, heads, best, mode, stage>>
    BY <1>2 DEF vars, store
  <2> QED BY <2>1, ShowsTheSame DEF At, Showing
<1> QED BY <1>1, <1>2

(* From outside: the tip moves one block at a time, a start shows the tip  *)
(* that was kept or, after a wipe, genesis, and what is kept changes only  *)
(* to the tip of the moment or, while no tip is shown, to genesis, through *)
(* every crash, replay, recovery and rebuild (KeptTip), until a start with *)
(* -reindex-chainstate goes astray.                                        *)
THEOREM NodeKeepsItsTip == Spec => ImplementsKeptTip
<1>1. Init => Tip!Init
  BY DEF Init, Store!Init, Tip!Init, Shown, Kept
<1>2. Inv /\ [Next]_vars => [Tip!Next \/ astray']_<<Shown, Kept>>
  BY RunTip, WriteTip, StartUpTip, CrashTip DEF Next, TipStep
<1>3. astray /\ [Next]_vars => [Tip!Next \/ astray']_<<Shown, Kept>>
  BY AstrayStays
<1> QED BY <1>1, <1>2, <1>3, Always, PTL DEF Spec, ImplementsKeptTip
=============================================================================
