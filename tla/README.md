# bitcoin-lisp in TLA+

A verification project for bitcoin-lisp, a Bitcoin full node in Common Lisp
(SBCL) with a web interface in JavaScript.  Paths below are those of the
repository; `storage/x.lisp` means `src/storage/x.lisp` in it, and `x.js` means
`ui/js/x.js`.

The modules are translated from the code.  They keep the control of the
functions they model (guards, early returns, the order of writes, where an
interrupt, a crash or a late answer may fall) and abstract the data (a coin is a
model value, a block is its coins' delta and its parent, a form's text is one of
a few values).

## 1. The system

The node is one process.  A chain thread validates blocks and moves the tip, a
message loop serves peers, RPC threads answer clients, index threads follow the
chain, and all of them share the chainstate under one node lock.  Everything
that must survive a restart is in LevelDB databases and flat files below the
data directory.

The web interface is one page that talks JSON-RPC to the node.  It is
single-threaded, but each handler is cut into pieces by its `await`s, and
between two pieces the user, the poll and every other handler may run.

| component | code | state | what makes it hard |
|---|---|---|---|
| UTXO cache and coins database | `storage/coins-view-cache.lisp`, `storage/coins-view.lisp` | table of coins with DIRTY/FRESH flags, counters, block pointer; LevelDB records `C`, `B`, `H` | flags go stale across a write; a write is several batches; a crash between any two; walks by RPC threads |
| Chainstate flush and recovery | `node/flush.lisp`, `node/recovery.lisp`, `node/reindex.lisp`, `node/init.lisp` | `chainstate.dat` {tip, in-transition}, block index on disk, coins database | three phases, each its own file; start-up must undo or finish whatever was under way |
| Chain activation | `validation/block.lisp`, `storage/chain.lisp`, `storage/block-tree-db.lisp` | block index (status, chain work, sequence), bodies, undo records, tip | reorganisation in three phases with interrupts, rollback, missing bodies, events to subscribers |
| Block files and pruning | `storage/blocks.lisp`, `kv/flatfile.lisp`, `storage/prune-policy.lisp`, `storage/block-undo.lisp` | blk/rev files, file info, prune locks | pruning races readers and reorgs |
| Optional indexes | `storage/index-base.lisp`, `txindex`, `txospenderindex`, `coinstatsindex`, `blockfilterindex`, `node/indexes.lisp` | per-index best block, a sync thread, a live event queue | sync thread meets live events and reorgs |
| Assumeutxo | `node/assumeutxo.lisp` | snapshot chainstate beside a background one | two chainstates over one block index |
| Headers sync and block download | `networking/headers-sync.lisp`, `networking/ibd.lisp` | per-peer header state machine, in-flight blocks, stall timers | timeouts race answers, peers disconnect mid-download |
| Transaction download | `networking/txrequest.lisp`, `networking/txdownloadman.lisp`, `mempool/orphan.lisp` | announcements per peer and hash, orphan pool, reject filters | expiry races answers, per-peer quotas, reorged filters |
| Peers and connections | `networking/peer.lisp`, `connection.lisp`, `eviction.lisp`, `node/peers.lisp`, `networking/protocol.lisp` | peer table, handshake state, ban scores, slots | disconnects from any thread |
| Address manager | `networking/addrman.lisp`, `addrdb.lisp` | new and tried tables, collisions | bucket collisions and reference counts |
| Transports | `networking/v2-transport.lisp`, `socks5`, `torcontrol`, `i2p`, `netaddress` | cipher and handshake state per connection | fallback, reconnect |
| Transaction reconciliation | `networking/txreconciliation-set.lisp`, `private-broadcast` | set per peer, round state | round interleavings |
| Mempool | `mempool/mempool.lisp`, `txgraph.lisp`, `cluster-linearize.lisp`, `spanning-forest.lisp` | entries, graph of clusters, size limit | staging and trim, reorg re-add |
| Fee estimator | `mempool/block-policy-estimator.lisp` | bucketed counters with decay | numeric |
| Policy and packages | `validation/packages.lisp`, `validation/transaction.lisp` | none of its own | all-or-nothing submission |
| Deployment state | `validation/versionbits.lisp` | state per period, cached | boundary arithmetic |
| Mining | `mining/*.lisp`, `rpc/mining.lisp` | template, long poll | stale template |
| Wallet | `wallet/*.lisp` | transactions, coins, keys, lock state, store | reorg and rescan, encryption mid-way |
| RPC, REST, ZMQ | `rpc/*.lisp`, `zmq.lisp` | request table, queues | lock discipline |
| Script interpreter | `coalton/*.lisp` | none (pure) | size |
| Serialisation, crypto | `serialization/*.lisp`, `crypto/*.lisp` | none (pure) | size |
| Configuration, logging, tools, CLI | `config/`, `logging.lisp`, `cli/`, `tools/` | little | input and output |
| Web UI: session, poll, dashboard | `app.js`, `rpc.js`, `router.js`, `dashboard.js` | credential, timer and epoch of the poll, `tipHash`, table of blocks | polls outlive the session and the visibility they were sent under |
| Web UI: wallet page | `wallet.js` | selected wallet, tab, history page, address book, `refreshing` | answers land on the page as it is when they come |
| Web UI: spending | `wallet.js`, `wallet-psbt.js` | send form, review, PSBT, action row, bump preview | what is confirmed is not what is drawn |
| Web UI: unlocking, security tab | `wallet.js`, `wallet-crypt.js` | one panel, prompts, borrowed unlock | clicks compete for the panel; the unlock must go back |
| Web UI: explorer | `explorer.js` | epoch, block page, input rows and their resolution | late answers, chunks drawn before or after batches |
| Web UI: peers view, console; QR, formatting | `peers.js`, `console.js`, `qr.js`, `format.js` | what is on screen; none | little |
| Gap-analysis scripts | `scripts/gap-analysis/` | none of the program's | not part of the program |

How they meet:

* **One node lock, one chainstate mutex.**  Every call that may move the tip
  (a block from a peer, `submitblock`, the sync loop's round, `preciousblock`,
  `invalidateblock`, `reconsiderblock`) runs under the chainstate mutex; the
  flush and the UTXO walks of RPC threads are meant to run under the node lock.
* **Events.**  A move of the tip ends in `block-disconnected` and
  `block-connected` events, told after the move: the indexes, the wallet, the
  mempool, the fee estimator and the download manager hang on them.
* **Disk.**  `chainstate.dat`, the block index and the coins database are three
  stores written one after the other.  Each index's records go to a database of
  its own as blocks arrive; its marker goes there after a chainstate flush.
* **The message loop.**  One thread drains the peers in turn.  Handshakes run on
  a thread per connection, and any thread may disconnect a peer.
* **The poll.**  Three seconds after one poll ends the next begins: the
  dashboard's `tick`, then the view on screen.  `refresh` of the wallet page is
  called by it and by what the user does, one at a time.
* **The unlock.**  Every click that signs goes through `withWalletUnlocked`,
  which borrows the Security tab's panel for its prompt.
* **Leaving.**  A logout, or a 401 that answers any poll, resets every view;
  requests under way run on.

What makes each component correct:

* *Coins*: what a caller reads does not depend on what is cached or being
  written; flags never lead to a lost or a resurrected coin; the counters that
  decide when to flush are exact; after a crash the database is at a block, or
  records between which two blocks it is.
* *Flush and recovery*: whatever a crash leaves, the next start either runs with
  coins that are those of its tip, or refuses; it refuses only when it must.
* *Activation*: no block with an invalid ancestor becomes active, every call
  ends in agreement of tip, coins and what subscribers were told, no call ends
  on a worse tip than it began with (unless an operator asked, or the steps
  toward a best block far above go through less work), and the node reaches the
  best branch it has whole.
* *Indexes*: every answer below the marker is complete and right on the active
  chain; an index never makes the node refuse a start without a cause; pruning
  waits for an index.
* *Transaction download*: nobody is asked twice, one peer's behaviour costs no
  other peer its announcement, nobody who announced waits for ever, and nothing
  of a peer stays behind.
* *Session and poll*: one chain of polls while a signed-in user looks, none
  otherwise; the dashboard reaches the tip.
* *Wallet page*: the tab on screen settles on the selected wallet whatever was
  under way when it was selected; a poll destroys no edit.
* *Spending*: what is confirmed is what was shown, of the wallet it was shown
  for.
* *Unlocking*: no prompt stays behind unanswered, every click ends, and a wallet
  unlocked for a click is locked after it.
* *Explorer*: the page is that of the last visit, shows only what is known, and
  comes to rest.
* *Block files*: nothing a restart will need is pruned; undo data is there for
  every block that a reorganisation may disconnect.
* *Headers sync and block download*: no memory for a chain without the minimum
  work; a block that some peer has is fetched; a slow peer is dropped and an
  innocent one is not.
* *Orphanage, mempool*: no peer's orphans push out another's within its
  allowance; the graph's clusters are those of the entries, none exceeds its
  limit, re-added transactions are consistent with the new chain.
* *Peers, addresses*: slots are freed once; each address is in exactly the
  buckets its reference count says.
* *Wallet (node)*: the state of each transaction follows the chain over
  reorganisations and rescans; nothing is spendable while locked.

The hazards behind these, each at the line where it bites and with the
properties that watch it, are in `PROJECT.json`.  Hazards of the components that
are not modelled:

| where | what |
|---|---|
| `mempool/orphan.lisp:438` | adding an orphan may evict that very orphan; allowances are read before any eviction |
| `mempool/orphan.lisp:549` | the mark to reconsider an orphan is put on one random announcer's entry, and goes when that peer does |
| `mempool/mempool.lisp:2484` | transactions of disconnected blocks go back one by one; links and the trim follow at the end |
| `mempool/txgraph.lisp:693` | dependencies that wait may name transactions removed meanwhile |
| `mempool/block-policy-estimator.lisp:457` | after a reorganisation a block at or below the best height is ignored |
| `networking/txdownloadman.lisp:466` | candidates for an orphan's parents are read before the tracker forgets the orphan |
| `networking/ibd.lisp:1566` | a download clock starts only when a peer's in-flight list becomes non-empty |
| `networking/ibd.lisp:1723` | a block request that times out is taken from the in-flight table directly |
| `networking/ibd.lisp:1803` | stall and download time-outs race the block already in the socket |
| `networking/headers-sync.lisp:312` | the second pass may be over another chain than the first |
| `networking/txreconciliation-set.lisp:394` | a second request takes a new snapshot over the first round's |
| `networking/private-broadcast.lisp:196` | the count of connections to open is clamped at zero |
| `networking/addrman.lisp:470`, `:844` | reference counts changed by six operations; a collision resolved against whoever holds the slot by then |
| `node/assumeutxo.lisp:334` | a validated snapshot is marked in memory before anything is written |
| `wallet/wallet-crypt.lisp:217`, `:383` | an old relock deadline meets a new unlock; encryption is one batch and a rewrite |
| `rpc/mining.lisp:338` | the long poll reads tip and mempool counter one after the other |

## 2. What there is

| module | models | role |
|---|---|---|
| `CoinsView` | what the UTXO store promises | abstract specification of `CoinsCache`; the store of `Chainstate` |
| `CoinsCache` | `coins-view-cache.lisp` over `coins-view.lisp` | detailed, refines `CoinsView` |
| `KeptTip` | what the chainstate promises across restarts | abstract specification of `Chainstate` |
| `Chainstate` | `flush.lisp`, `recovery.lisp`, `reindex.lisp`, start-up order of `init.lisp`, moves of `block.lisp` | detailed, refines `KeptTip`, instantiates `CoinsView` |
| `Activation` | `activate-block`, `activate-best-chain`, `perform-reorg`, the operator's calls | block by block, with events |
| `Indexes` | the four indexes under `node/indexes.lisp` | event queue, flush, crash |
| `TxRequest` | `txrequest.lisp` under `txdownloadman.lisp`, handshake and turns | threads and clock |
| `Session` | `app.js`, `rpc.js`, `dashboard.js` | session and polls |
| `WalletPage` | `wallet.js`: selection, refresh, history, book | extends `Session`, composing the page with the poll that refreshes it |
| `WalletUnlock` | `wallet-crypt.js` and the Security tab of `wallet.js` | prompts and the one panel |
| `WalletSend` | `wallet.js`, `wallet-psbt.js`: send form, PSBT panel, fee bump | forms under a changing selection |
| `Explorer` | `explorer.js` and the search box of `app.js` | visits under an epoch |
| `CoinsCacheProofs`, `ChainstateProofs`, `ActivationProofs`, `IndexesProofs`, `TxRequestProofs`, `WalletUnlockProofs`, `WalletSendProofs` | | theorems about the modules they are named for |
| `PageProofs` | | theorems about `WalletPage` (with `Session`) and `Explorer` |
| `MC*` | | the instances TLC checks |

`PROJECT.json` maps each definition to the lines it models.

**CoinsCache.**  `entries` is the hash table; an outpoint's slot is not held, a
coin or a tombstone, with its DIRTY and FRESH flags.  `Get`, `Uncache`, `Add`,
`Spend`, `SetBestBlock` are the functions of these names.  A flush is
`BeginWrite("flush")`, any number of `PartialBatch(S)` (the code cuts batches by
size, so any subset may go first), `FinalBatch`; a sync ends in `ClearFlags`
instead of emptying the table.  `SyncHoldsNodeLock` says whether a sync keeps
the node lock between its passes, as its caller contract demands.

**Chainstate.**  `mode` is what the node does; each write to a file or batch to
the database is an action, and `Crash` is possible after any.  Start-up is
`Load`, then the replay of an interrupted coins write, the recovery of an
in-transition chainstate, a rebuild when asked for, and the reconciliation of
tip and coins.  Applying and undoing blocks work on any map of coins,
since replay applies them to mixtures.  The coins store is `CoinsView`, not
`CoinsCache`: that the latter implements it is checked and proved.  `astray` is
history: it becomes true in the one step in which the code goes wrong
(`RebuildNothing` with a transition record in the database; see the observations),
and the safety properties speak of behaviours up to it.

**Activation.**  `phase` is how far `perform-reorg` is, `then` is what its caller
does with the outcome.  `Check`, `Disconnect`, `LandOnFork`, `Connect`,
`FailConnect`, `RollbackDown`, `RollbackUp`, `TellGone`, `TellCame` are its
stages; a stop request is honoured between any two blocks.  Bodies and headers
come in any order, which covers whatever the download does.  `waiting[p]` is
p's queue in `*blocks-unlinked*`: the bodies received under p while some ancestor
is missing.  `Waits` and `Park` are `park-unlinked-block`, `Unparked` is
`drop-unlinked-block`, `Queues` what `link-unlinked-bodies` rebuilds at a start.
`note-block-received` hands out sequence ids from a queue of its own, breadth
first; `Linked` is the set it goes through and `Sooner` the order (lower blocks
first, those of a height as their branches stand in the queue where they part),
so a block's id is `nextSeq` plus the number of those before it.

**Indexes.**  A behaviour follows one index of one kind.  The chain moves in one
step and queues its events; `Connected` is one index's hook for one event, whose
reads and writes may fail; `FlushIndex`, `FlushTip`, `FlushMarker` are the
flush; `StartSync`, `SyncBlock`, `SyncEnd` are the start-up sync; `Prune` obeys
the lock.  Values that hashes commit to (filter headers, the running MuHash) are
represented by how often each block was folded in.  `tell` are the events still to
come, of which the lowest is `Due`.  The rewinds take back one block after another
from the marker down and stop at the first that cannot be; `TakenBack` are those
blocks, so that each rewind is stated by what it leaves.  `Reverts` is the check of
`coinstatsindex-revert-block`: the running value less the blocks taken back so far
must be the value recorded of the parent.  `TxAssumption` has BIP30's rule, no two
transactions of one chain with one hash, on which the tx index's single location
per hash rests; its sync passes over a block whose last transaction's record is
there already (`Recorded`); `NoneAssumption` says that `None` is no record.

**TxRequest.**  `track` holds, per hash, the live and the completed announcers,
who is asked and what is left of times; `byPeer`, `inFlight` and `quiet` are the
tables kept beside it.  `BeginTurn`, the handlers and `EndTurn` are one peer's
turn in the message loop; `Register` and `MakeReady` are the end of a handshake
on its thread; `Close` and `DisconnectedPeer` are the two halves of
`disconnect-peer`, which any thread calls; `Tick` is the clock.

**Session.**  `tick[t]` is a poll under way: what it waits for, the credential
its request carries, and whether it is of the chain that is current
(`live`; the code compares epochs).  `stopPolling` makes ghosts of those under
way.  `NodeTick` is the node saying its tip, `StatsNew`, `StatsSame` and
`GotBlocks` the pieces of the dashboard's `tick` (`recent.whole` says whether any
entry of the two batches of `refreshRecentBlocks` failed), `EndPoll` the end of `poll`.
`SessionEnds` are the steps that call `showLogin`.

**WalletPage.**  `run[c]` is the refresh of a poll or of the user: it asks for
the list (`NodeLists` is where the node answers, since the list can change before
the page handles it), for the directory, then for the data of the tab that is on
screen by then, of the wallet selected by then.  `aside` is a request that
goes beside the refresh (a history page, a saved label), `change` a wallet being
loaded or unloaded.

**WalletUnlock.**  `at[o]` is how far `withUnlocked` is for click `o`; `panel` is
whose form the Security tab shows, `form[w]` how far that form's request is.
Every request is two steps, the node's and the page's.  `said` is what
`promptUnlock` resolves to; `by` (whose passphrase unlocked the wallet) and
`slip` are history variables for the property.

**WalletSend.**  What a handler captured at the click is in its record (`op`,
`reviews`, `loads`), what it reads when it runs is read there; `stale` marks one
whose captured model is no longer the page's.  `SelectWallet` resets the form;
`UnloadCurrent` and `RefreshWalletList` take the selected wallet away and leave the
form as it is, and `NoWallet` in a review's `of` (a history field) says that this
happened since the review was asked for.  The gate `withWalletUnlocked`
lets a click through (`Send`) or cancels it (`Failed`).

**Explorer.**  `visit[my]` is the handler of the visit with that epoch; each
compares its epoch after each answer.  `texts` are the input rows drawn so far,
`found` what is resolved; `GotPrevouts` is one batch with any part of it failed.
The list of funding transactions, which the code builds as it goes through the inputs,
is the set of first uses (`FirstUses`), each with its place in the list (`Place`).

### The runs

| run | shows | bounds |
|---|---|---|
| `coins_cache` | flags truthful, counters and bytes exact, writing invisible, `CoinsView` implemented | 2 outpoints, 2 coins of different size, 2 blocks |
| `chainstate` | after any crash the node runs with the coins of its tip, at the tip it last kept, with UTXO walks and interrupted `-reindex-chainstate` in any order, until a start goes astray; start-up ends | 5 blocks, fork of 1 against 2, a coin both branches spend; `Followed` |
| `activation` | agreement after each call, no invalid block active, no worse tip, best branch reached | 5 blocks, the heavy branch ends in an invalid block |
| `activation_ties` | sequence ids and ties with `preciousblock`, pruned bodies fetched again | 4 blocks, two that tie |
| `indexes` | records right, no gap but after a fault, the marker covers the tip, prune lock obeyed | 5 blocks, one transaction in both branches, 1 fault |
| `spender_hole` | **violation**: a crash after a reorganisation loses spends for good | the same |
| `tx_request` | tables agree, nobody asked twice, nobody costs another, everyone's turn comes | 2 peers, 2 hashes of one transaction and its witness-stripped twin |
| `wallet_page` | one chain of polls, the table reaches the tip and is whole if the tip came while the node answered, the tab settles on the selected wallet, label edits are left alone | 2 polls under way, 2 wallets, 2 history pages, 2 tips, 2 cookies |
| `wallet_unlock` | no prompt left behind, a borrowed unlock handed back, every click ends | 2 clicks and a form opened by hand, requests lost |
| `wallet_send` | the review is the selected wallet's (unless that was unloaded from under it) and what its button pays, the PSBT row fits its PSBT | 2 wallets, one without keys; 2 clicks, 2 reviews, 2 loads, 3 PSBTs |
| `bump_unseen` | **violation**: a fee bump signs a rate that was not shown | the same, 2 rates |
| `explorer` | never a stale page, only what is known is shown, every page settles | 2 visits, 5 transactions in a block, 4 funding transactions |

Why the bounds are enough.  *Coins*: flags and counters are per outpoint, and
what two outpoints add is a batch that takes one and leaves the other.
*Chainstate*: a write has a first and a last batch with a crash between, a
replay goes down and up, a rollback of a failed reorganisation passes the fork;
a longer branch repeats these.  No coinbase output is spent within the tree, as
in any real tree of fewer than 100 blocks; `%coinbase-committed-p` relies on it.
The constraint `Followed` ends a behaviour where a node runs on after a start that
went astray: that start is followed to its end, for `StartUpEnds`, and of what such
a node does to its coins afterwards no safety property says anything.
*Activation*: `StepBlocks` = 1 stands for 1000, so that a step ends inside a
branch; `MaxTries` = 2 for 4, so that the tries do run out; `PruneDepth` stands
for 288, and is 1 in `activation_ties`, so that bodies of both branches go
missing, and above the tree's height in `activation`, which has no pruning;
`MaxPrecious` is 0 in `activation` and 2 in `activation_ties`; `MaxSeq` and
`MaxPrecious` cap the two counters in the guards and leave room for each block
to arrive and to be received again.  `MCActivation` assumes `StepsPay` of both
trees: the proof of `MovesAreSound` needs it too.  *Indexes*: `PruneKeep` = 1 for 288 and
`PruneBuffer` = 0 for 10; one fault is a crash or one failing read or write;
what only two faults together could break is outside the run.  *TxRequest*: each
delay is one tick and the interval two, so a request outlives a delay;
`MaxAnnouncements` = `MaxInFlight` = 1 meets both limits at once, with one peer
exempt (`Permitted`).  With `MaxAnnouncements` = 1 the delay of an overloaded
peer is never added by a peer that is not exempt and already has a request, so
that summand is not exercised by the run (the proofs cover it: they hold for
every value).

*Session and WalletPage*: `MaxPolls` = 2 is a current poll and a ghost; a new
poll waits in the model until there is room.  A behaviour exercises one of the
sets in `MCUsages`, because features that share no variable but the selection
multiply states and not cases; the polls, the refresh and the switching of
wallets are in all of them.  `MaxTip` = 2 is one move of the tip, `MaxPage` = 1
one turn of the pager, two cookies one restart.  *WalletUnlock*: a prompt has at
most one other prompt and one form opened by hand to meet in the one panel.
*WalletSend*: two clicks, reviews and loads are one that is overtaken and one that
overtakes; the three tabs share only the selection, so a behaviour works in one.
*Explorer*: a visit and the one it left; with pages of 2, batches of 2, a cap of
3 and chunks of 2 (25, 25, 200 and 100 in the code) each of these ends in an
incomplete part and one input lies beyond the cap.

`CHECK_DEADLOCK FALSE` stands in the Indexes configurations because a
refused or aborted node stops for good.

### Fairness

* `Chainstate!FairSpec`: weak fairness of start-up's steps and of the steps of a
  write.  The process that runs them has nothing to wait for; crashes are not
  fair, so `StartUpEnds` says that a start that is not interrupted ends.
* `Activation!FairSpec`: weak fairness of the steps of a call under way, which
  holds the mutex and does not wait; strong fairness of `ActivateBest`, because
  the sync loop runs it in each pass (`ibd.lisp:3221`) while other calls may hold
  the mutex in between.  Nothing is assumed of peers.
* `TxRequest!FairSpec`: the clock runs; validation ends; `disconnect-peer`
  returns (weak fairness).  The loop begins each peer's turn again and again
  (`dolist` in `pump-peer-messages`) and a turn ends (a byte budget per turn):
  strong fairness, since a turn may begin only between the other peers' turns and
  may end only between two handlers.
* `WalletPage!FairSpec`, `Explorer!FairExplorer`: a request is answered or fails
  (`rpc.js` has no other outcome of a `fetch`), the poll's timer fires, a
  handler whose answer is there runs (the browser's event loop).  Nothing is
  assumed of the user: what should settle is stated for a user who has come to
  rest, and for a node that answers from then on (`~flaky`).
* `WalletUnlock!FairSpec`: the same, and the user does not leave a form on the
  screen for ever (`Cancel`): the code has no time-out for a prompt.

### What the violations say

Each quotes the sentence of the source it contradicts (`findings`).

* `spender_hole`: rows of the abandoned branch are erased at once, while the
  marker and the tip wait for the flush.
* `bump_unseen`: the rate of a fee bump is read from its input when the request
  goes out, after the preview and after the unlock prompt, while the input can be
  edited; "PREVIEW, THEN CONFIRM" is what the comment promises.

### Further observations

Met while modelling; the models are as the code is.

The node:

* `dumptxoutset` walks the UTXO set without the node lock, against the caller
  contract of `coins-view-cache-sync`.  With `SyncHoldsNodeLock = FALSE` the
  configuration of `coins_cache` violates `WriteKeepsView`: a coin spent between
  the two passes of the sync is unspent afterwards.
* The walk back looks for a block whose coinbase is among the coins; genesis has
  none there, so a crash in the first flush makes the next start refuse with
  every block on disk (`OnlyWalkBackRefuses` leaves this case out).
* The first flush of a rebuild replaces the mark at genesis by one at the height
  replayed before its coins are written, so a crash between the two is not
  resolved by the genesis branch, as the comment in `do-reindex-chainstate` has
  it ("until the first replay flush commits"), but meets that walk back over
  empty coins.
* A start with `-reindex-chainstate` skips the replay of an interrupted coins write
  (`init.lisp:1285`), since `start-wipes-coins-p` has it that such a start "empties
  the coins database before anything reads it"; but when the recorded tip is genesis,
  `do-reindex-chainstate` finds an "empty chain, nothing to rebuild" and returns
  without wiping (`reindex.lisp:67-69`).  The node then runs at genesis over a
  half-written database, or refuses.  It takes a UTXO walk (`gettxoutsetinfo`) whose
  sync is cut by a crash while chainstate.dat still has genesis, and then that flag.
  This is the step that sets `astray`.  Without the exception TLC finds
  `TipMatchesCoins` violated; with it the proofs show, for every tree and every
  order of walks, rebuilds and crashes, that this step is the only way out.
* The cap of a prune lock is dropped only when the index is seen at or below it,
  which nobody looks at between the rewind and the next block: a lowered lock
  never comes back up.  The prune lock of an index at height 0 constrains
  nothing.
* `prune-lock-ceiling` is at least 1, also for a lock moved back to genesis by a
  reorganisation that leaves out every block.  The body of the first block left can
  then be pruned; a crash between the flush of the chainstate and that of the
  markers brings back a marker on the branch left, whose blocks cannot all be read,
  and the start is refused.  TLC finds it on a tree that forks at genesis with the
  filter index (`CoversTip`); `TipIsCovered` excludes such trees.
* `activate-best-chain` returns at its first candidate that is refused or fails,
  and tries the next only in the sync loop's next round.
* The transaction index goes on above a block whose write failed; spender rows
  above the committed marker may stay after a crash (`NoGapOtherwise` states
  what remains).  `txindex`'s `index-rewind-block` is not called.
* After a restart two blocks may hold the sequence id -1, which the docstring of
  `preciousblock`'s counter rules out.  Its counter also starts again whenever the
  tip has more work than at the last call: the block asked for can then get the id
  -1 while the tip has -2, and the next `activate-best-chain` goes back, although
  the docstring has it that the id "is what keeps it there".  `EveryMoveImproves`
  lets a call move between two blocks of equal work with negative ids.
* `activate-best-chain` goes toward its candidate 1000 blocks at a time, and stops
  at the end of such a step when its tries run out or a block of the next one is
  invalid.  Where the candidate's ancestor 1000 above the tip has less work than
  the tip (a branch of easier blocks that forked off below and is the best only
  for what comes later), the call ends on a tip with less work than it began
  with, though the docstring says that "each successful switch moves the tip TO
  the maximum-work candidate".  `StepsPay` excludes such trees.
* A body that waits for a pruned parent stays in its queue until the parent is
  fetched again, also when every ancestor has been received once; and
  `link-unlinked-bodies` queues blocks that were received and pruned since, which
  `check-block-index` would reject.  `IdsFollowBodies` says of a waiting block that
  a body is missing between it and the active chain.
* `disconnect-peer` during a handshake is overwritten by the handshake thread
  (`networking/peer.lisp:1643`): the peer's registration, and its count among the
  wtxid peers, stay.  `GoneHoldsNothing` bounds the effect.
* `txdownload-mempool-rejected-tx` says every verdict but a missing input
  forgets the wtxid; a stripped witness does not.

The web interface:

* *Review.*  Adding or removing a recipient takes over the form's settings but
  leaves the review on screen with those it was made with; an old review can be
  confirmed while the estimate of a new one is under way, and pays what the new
  one will show.  A spend of a wallet that was left ends by drawing the review of
  the wallet in use again, with its button enabled.  `ReviewIsCurrent` speaks of
  recipients, and of when no estimate is under way, for this reason.
* *Unloading.*  `unloadCurrent` (`wallet.js:1321-1332`) deselects the wallet and
  `refreshWalletList` (`wallet.js:1572-1582`) selects the first of the list; so does
  a list that has not the selected wallet.  Neither resets what `selectWallet`
  resets: the send form, its review and the PSBT stay, and the review's button then
  pays from the wallet selected next (`wallet.js:1937-1938`).  With none selected the
  request goes to a wallet of the name `null` and is refused.  `ReviewIsCurrent`
  allows exactly this (`shown.of = NoWallet`): a review is the selected wallet's, or
  its wallet was taken away since it was asked for.
* *Switching during a prompt.*  The endpoint of a signing request is read when
  it goes out: confirmed for one wallet, it is sent to the one selected by then
  (`Send`).
* *Unlocking.*  A prompt that is closed or replaced with its `walletpassphrase`
  on the way leaves the wallet unlocked, and so does a lost request about the lock: the two
  exceptions of `UnlockHandedBack`.  `WalletUnlock` has one wallet; after a
  switch during a prompt the look, the unlock and the lock each go to the
  wallet selected at that moment.
* *Address book.*  The book of the wallet selected before can land under the
  wallet selected since; it is then not empty and not fetched again, and a label
  saved from it goes to the wallet in use.  A book asked for while there was none
  can land on an edit begun in a book that came otherwise (`NoFetchUnderEdit` is about
  asking).
* *Sessions.*  A 401 that answers a poll of the session before logs the new one
  out and clears the credential a login is probing.  `resetWallet` clears
  `refreshing` with a refresh under way.  A wallet list asked for before a load
  deselects the wallet just loaded.  An error for one of the dashboard's
  blocks (and not for the batch) is filtered out and the tip noted all the same
  (`dashboard.js:173-178`, `:219`), so the table stays short until the next tip, also
  when the node answers again.  `TableFollowsTip` therefore promises the tip's table
  to whoever looks, and all of its rows only for a tip that came when the node
  answered already.

### What is proved

The proof modules hold for every value of the constants under the assumptions
the modules state (no bound of the configurations is among them).

*`CoinsCacheProofs`* assumes `SyncHoldsNodeLock`; without it there is the
counterexample above.  `FreshMeansAbsent` and
`CleanMeansSame` are not inductive: a write under way has to be described too.
`Inv` adds that the batches written so far agree with the cache
(`BatchesAgree`), what the record of the transition names (`WriteRecord`), that
a wipe leaves no entries (`WipeEmpties`), and the shape of a slot that is not
held (`SlotShape`).  From it: type correctness, both flags' truth, that no step
of a write changes what a caller reads (`WritingIsInvisible`), that the
counters are the numbers of flags (`CountersNeverDrift`, with a lemma on what
one slot adds to a cardinality), that the size estimate is the sum of the slots'
sizes (`SizeNeverDrifts`: the property counts the table's bytes as a set, whose
cardinality is that sum, so a slot moves it by the difference of the two sizes and
the tombstones leave together, without an induction over the table; sizes are
natural numbers, `SizeAssumption`), and, step by step, that the cache implements
`CoinsView` (`CacheImplementsStore`).

*`ChainstateProofs`* proves, for every tree of blocks, every set of coins they
create and spend and a crash after any step, `DurableSaysWhatItIs`,
`TipMatchesCoins`, `OnlyWalkBackRefuses` and the refinement `ImplementsKeptTip`.
UTXO walks and rebuilds may come in any order, and there is no hypothesis beyond
the module's assumptions; what the four except is the start gone astray of the
observations above, by naming it.  What is shown to hold always is
`astray \/ Inv`: `Inv` is kept by every step but that one, and `astray` stays true.
None of the four is inductive, since a crash throws
away all that memory knew: what is on disk has to say by itself that start-up
will manage.  `Inv` adds

* `DiskOK`: what the files and the database say together, among it `SoundStore`
  (a database that names a block or a transition holds its coins, and one that
  names nothing is empty) unless chainstate.dat dooms the coins;
* `DiskBehind` and `Rooted`: the index on disk knows no more than the one in
  memory, and every block the node stands on, will return to or will write coins
  for has undo data down to genesis;
* `WriteOK`, `MoveOK`, `WipeOK`: what a write, a move of the tip and a wipe under
  way may count on, such as that a wipe erases only coins a later start would
  erase again, or an empty database;
* `StartOK`, `ReplayOK`: what each stage of start-up hands to the next.  Under a
  replay each coin is as after the block reached or already as after the last
  one; `DownKeepsMixture` and `UpKeepsMixture` are why applying and undoing
  blocks over such a mixture is right;
* `StageFits`: which writes a mode may be in.

That the walk back ends at a block of the recorded chain that can be placed
rests on `MaturityAssumption`.  For the refinement, one lemma per kind of step
that is seen from outside (`ShowsNext`, `ShowsKept`, `KeepsShown` and so on), and
one case per action.

*`ActivationProofs`* proves, for every tree of blocks with any of them
unacceptable, `NoFailedBlockActive`, `IdleAgrees`, `HeardMovesByOne`,
`IdsFollowBodies` and `MovesAreSound`, the last in two theorems, since only its
second half needs a hypothesis.  None of the first three is inductive: a rollback goes back to blocks recorded when the move began, so
that they are fit to go back to has to be carried along.  `Inv` adds `Walk` (the
queued blocks lead from where the subscribers are to where the coins are),
`Placed` (how far `perform-reorg` is), `CallerOK` (what its caller does when it
returns), `AllSound` (no block the tip or the coins may come to stand on has a
marked or unacceptable ancestor) and `FailureIsInherited`.  What the proof needs
of the tree (chains nest, every height below a block is met once on its chain) is
shown by taking a lowest block without it.  The assumption is `TreeAssumption`.

The bodies and their ids need `StoreInv`.  `QueueOf` and `Queued` say of each
block where it must and where it cannot wait, `IdOK` what its id says of its
ancestors, and `AllHeld` that every block the tip, the coins or the subscribers
are on, or were on earlier in the call, has been received with all its ancestors
and that nothing waits on it: such a block is never linked by another's arrival.  That ids given together are
distinct comes from `Sooner` being a strict order on `Linked`; a block's rank is a
cardinality that grows along it (`Ranks`).  Pruning is why the rest is as it is: a
body that is gone and comes again may find its children received, with ids of
their own.  From `StoreInv` follow `WaitingIsForAncestors` (`IdsFollowBodies`) and
`BodiesStay` (`BodiesAtHand`).

`CallsEndNoWorse` is `MovesAreSound` under the hypothesis `StepsPay`, explained among
the observations.  `EndInv` carries how the call will end: unless the block it
began on has been marked, each stage of `perform-reorg` leaves only ways out that
are no worse (`WayOut`), a failed move goes back to a block that was no worse or to
where the call began, with nothing in its way (`GoingBack`), and `activate-block`
and `invalidate-block` move for the reason they were called for (`Purpose`).

*`IndexesProofs`* proves, for every tree of blocks, each kind of index and any number
of crashes and of failing reads and writes, `RecordsRight`, `NoGapOtherwise` and
`LockHolds`, and `CoversTip` under `OneFirstBlock`: all chains share their first
block above genesis, as those of a network's nodes do (without it there is the
counterexample of the observations above).  The invariant has three layers, since
what can be said depends on what has failed:

* `Base` holds whatever fails.  `IndexOK` says of the records in the database, of
  the index in memory and of the marker last committed that each value is the fold
  of its block's own chain, and that a block with a record has records of all its
  ancestors (`RecordsFit`); the last is why a rewind of the filter index ends at a
  block whose ancestors are all there, and why a revert of the statistics cannot
  land on another block's value.  `ChainOK` says that the events still to come are
  the blocks between two blocks of the tip's chain, the lower of which is `Told`;
  `BestOK` which blocks the markers may name, `SyncOK` how far the start-up sync is.
  `LockOK` is stronger than `LockHolds`: while the marker is on a branch the chain
  has left, it is the cap a reorganisation put on the lock (`Guarded`) that keeps
  the blocks above the fork, so what is pruned has to be bounded at the marker and
  at the fork.
* `Going` holds while nothing fails: the index has every block it was told of and
  the cap is no higher (`Following`), a restart finds every block it will want
  (`Startable`), and the spender index has no rows but those of blocks it has gone
  through (`RowsOK`, the second half of `RecordsRight`).
* `Complete` holds while nothing crashes either, for the two indexes that keep no
  record per block: every block below the marker is indexed (`Spends`, `Located`); a start
  finds its tip at or below the marker (`Starts`), so its sync meets only blocks whose
  records are there and, with one block per transaction on a chain (`TxOnce`), loses
  nothing by passing over or writing again.

One lemma says what each rewind and each write leaves (`SpenderRewinds`,
`CoinstatsRewinds`, `FilterWrites` and so on), two join them over the kinds
(`PreparedIs`, `WrittenIs`), and each layer has one lemma per action.

*`TxRequestProofs`* assumes what `TxRequest` assumes of its constants.  `Inv` is
the four invariants together, since each operation relies on the others' tables,
with one more part: whoever was asked is an announcer still, and a live one only
while the request is to it (`AskedAnnounced`).  Without it a step could ask again
whoever was asked before, so `AskedOnce` would not follow.  One lemma
per operation on the tracker's tables (completing, forgetting, expiry,
requesting), one per action.  `OthersUntouched` rests on two facts: a message
changes only its sender's announcements, or forgets a hash.

*`PageProofs`* proves `PollsWhenItShould` for every number of polls under
way: with the variables' types it is inductive, and the lemmas say what
`startPolling`, `stopPolling` and `showLogin` do to the chain.  `NoFetchUnderEdit`
is about steps; it holds because a label under edit belongs to a book the page
holds, and only a refresh that stands at `tab` has a tab's data on its way
(`EditInv`).  Of the explorer it proves `NeverStale`, which is inductive as it stands,
and `PageIsRight` under `ExplorerAssumption`: inputs that spend outputs of funding
transactions, at least one per transaction, a coinbase only by itself.  Its invariant
`ShownInv` has a part per kind of page and one for the look-ups under way
(`LookUpsOK`), whose core is `Looked`: an input is resolved, one way or the other,
when the first input that spends from the same funding transaction has its place in
an earlier batch.  Every input has such a first use (`FirstUse`) and its place is at
most the number of funding transactions (`PlaceIs`), so after the last batch nothing
is unresolved unless the cap left some out (`LastBatch`), and then no fee is shown.
A row drawn before the answers and one drawn after show the same (`MoreRowsAre`,
`PatchedRows`).  For the pager, `PageEnds` is what a division rounded up says of the
last page.

*`WalletUnlockProofs`* proves, for every set of clicks and with lost requests,
`PromptHasPanel` and `UnlockHandedBack`.  The first follows from `PanelInv`: a
click waits for its prompt exactly while its form has the panel.  The second
needs `Lent`, what is known of a click at each of its stages: before its prompt it
has sent nothing, during the prompt only a request that is still being answered
can have unlocked the wallet, and afterwards the click knows that it did and is
yet to lock.

*`WalletSendProofs`* proves `ReviewIsCurrent` and `RowFitsPsbt`.  The first needs
`LiveIsSelected`: an estimate whose answer will be shown was asked for the wallet
in use, or that wallet was taken away since.  The second needs `RowOK`: the row's buttons are what its stamp allows,
the stamp is of the PSBT loaded, and a PSBT that could be signed has a wallet
with keys; and `OpsOK` and `PanelOK`, that what is being signed or read is a PSBT.

Every safety invariant of the passing runs is stated by a theorem.  Beyond the
provers: every liveness property, `ENABLED`, and induction over data.  No module declares
a RECURSIVE operator.

## 3. Plan

The modules were built in this order: `CoinsView` with `CoinsCache`, `KeptTip`
with `Chainstate`, `Activation`, `Indexes`, `TxRequest`, each with the one it
rests on; then the web interface: `Session` with `WalletPage`, `WalletUnlock`,
`WalletSend`, `Explorer`.  The web interface was taken before the components
below because its handlers interleave at every request, while its tests run few
of them against each other.

The whole is kept to a dozen runs and forty checked properties, so that all of it
can be checked again after every change, and it is at that size.  What comes next
would take the place of `tx_request`, of `activation_ties` (which can merge into
`activation`) or of a violation that has been settled:

1. **`Orphanage`, `TxDownload`**: `mempool/orphan.lisp` (announcements per peer,
   allowances, eviction, the work set) and the manager composing it with
   `TxRequest`.  No peer within its allowance loses an orphan to another; a
   reconsideration is lost only with the last announcer.
2. **`BlockFiles`**: file info, the choice of files to prune, undo, against what
   a flush recorded.  What recovery will read is there.
3. **`HeadersSync`, `BlockDownload`**: one request per block, clocks that belong
   to a request, memory bounded until the work is shown, a block some live peer
   has is fetched.
4. **`Mempool`**: a set closed under parents that conflicts with nothing on the
   chain, through package submission and the re-adding of a reorganisation.
5. **`Wallet`** (the node's): transaction states over events and rescans,
   encryption and relocking.
6. **`Addrman`, `Reconciliation`, `PrivateBroadcast`, `Assumeutxo`**: reference
   counts; rounds; the promotion of a snapshot.
7. **Algorithms** over bounded inputs: `versionbits`, fee diagrams, difficulty
   adjustment, `prune-policy`.

## 4. Not modelled

Each with its reason in `PROJECT.json`.  In short: transports, serialisation,
cryptography, the script interpreter, configuration, logging and tools are pure
or input and output; mining, the fee estimator and the deployment state have
little state of their own; block files, assumeutxo, the download of headers and
blocks, connections, addresses, reconciliation, the mempool and the node's wallet
are the components of section 3.  Of the web interface: the peers view, the
console, the QR encoder and formatting.

Within the modelled ones: migrations of old data formats, the block index's own
file format, the snapshot chainstate (Chainstate, Indexes), a failing write to
`chainstate.dat` (Chainstate), the rebuild branches of the index driver, a power
loss that undoes a LevelDB write the process saw succeed (Indexes), the orphanage
behind the tracker and a mock clock set backwards (TxRequest); how the poll tells
a 403 from a 401, what the dashboard draws beside its table (Session); the receive
tab, the mask and the texts of what is visible (WalletPage); a wallet switch while
a prompt is open, backup and restore, which share one form (WalletUnlock);
validation of amounts and addresses, and what the panels print (WalletSend).

## 5. Running it

    tlc -config MCActivation.cfg MCActivation     # and so for each .cfg
    tlapm CoinsCacheProofs.tla                    # and so for each proof module
