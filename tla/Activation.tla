----------------------------- MODULE Activation -----------------------------
(***************************************************************************)
(* Which chain the node is on: validation/block.lisp, with the sequence    *)
(* ids and failure marks of storage/chain.lisp and                         *)
(* storage/block-tree-db.lisp.                                             *)
(*                                                                         *)
(* Every call that may move the tip (activate-block, activate-best-chain,  *)
(* invalidate-block, reconsider-block, precious-block) runs under one      *)
(* mutex, and moves it with perform-reorg: check, disconnect to the fork,  *)
(* connect, and only then tell the subscribers.  Here each block of it is  *)
(* a step, because a stop request is honoured between any two blocks and   *)
(* because other threads read the tip in between.                          *)
(*                                                                         *)
(* The coins are represented by the block they belong to (at); what they   *)
(* are, and what survives a crash, is Chainstate's subject.                *)
(***************************************************************************)
EXTENDS Integers, FiniteSets, SequencesExt

CONSTANTS
    Blocks, Genesis,
    Parent,       \* [Blocks -> Blocks]; the parent of Genesis is not used
    Chain,        \* [Blocks -> SUBSET Blocks]: a block and its ancestors
    Height,       \* [Blocks -> Nat]
    Work,         \* [Blocks -> Nat]: chain work
    Bad,          \* blocks that no validation will ever accept
    StepBlocks,   \* +activation-step-blocks+
    MaxTries,     \* how often activate-best-chain goes round (4)
    PruneDepth,   \* how far below the tip a body may be pruned
    MaxSeq,       \* bound on the sequence counter
    MaxPrecious   \* bound on the precious counter

VARIABLES
    known,        \* blocks in the index
    received,     \* blocks whose transactions were received at some time
    bodies,       \* blocks in the block store
    failed,       \* blocks marked :invalid
    seq,          \* sequence id of each block
    nextSeq,      \* *next-block-sequence-id*
    waiting,      \* *blocks-unlinked*: per parent, in arrival order
    precious,     \* *block-reverse-sequence-id*
    preciousWork, \* *last-precious-chainwork*
    tip,          \* best-block-hash
    at,           \* the block the coins belong to
    stopping,     \* interrupt-requested-p
    \* the call under way
    phase,        \* "idle", or how far perform-reorg is
    before,       \* the tip when the call began
    from, to,     \* the old and new tip of perform-reorg
    gone, came,   \* the blocks it disconnected and connected, in that order
    result,       \* its outcome
    then,         \* what the caller does with it
    tries,        \* rounds left for activate-best-chain
    heard         \* the tip as a subscriber knows it from the events

index == <<known, received, failed>>
order == <<seq, nextSeq, waiting, precious, preciousWork>>
place == <<tip, at>>
reorg == <<from, to, gone, came>>
call == <<phase, before, result, then, tries>>
vars == <<index, bodies, order, place, stopping, reorg, call, heard>>

ASSUME TreeAssumption ==
    /\ Genesis \in Blocks
    /\ Parent \in [Blocks -> Blocks]
    /\ Height \in [Blocks -> Nat] /\ Work \in [Blocks -> Nat]
    /\ Chain \in [Blocks -> SUBSET Blocks] /\ Chain[Genesis] = {Genesis}
    /\ \A b \in Blocks \ {Genesis} :
          /\ Chain[b] = Chain[Parent[b]] \cup {b} /\ b \notin Chain[Parent[b]]
          /\ Height[b] = Height[Parent[b]] + 1 /\ Work[b] > Work[Parent[b]]
ASSUME BadAssumption == Bad \subseteq Blocks \ {Genesis}
ASSUME BoundAssumption ==
    /\ StepBlocks \in Nat \ {0} /\ MaxTries \in Nat \ {0} /\ PruneDepth \in Nat
    /\ MaxSeq \in Nat /\ MaxPrecious \in Nat

-----------------------------------------------------------------------------
(* The index.                                                              *)

Descendants(b) == {d \in known : b \in Chain[d]}

(* entry-better-p                                                          *)
Better(a, b) ==
    Work[a] > Work[b] \/ (Work[a] = Work[b] /\ seq[a] < seq[b])

BestOf(S) == {c \in S : \A d \in S : ~Better(d, c)}

(* The block after p on the way to b.                                      *)
NextTo(p, b) == CHOOSE c \in Chain[b] : c # Genesis /\ Parent[c] = p

(* The blocks a move from a to b disconnects or connects.                  *)
Between(a, b) == (Chain[a] \ Chain[b]) \cup (Chain[b] \ Chain[a])

(* %tip-candidates and %first-reachable-candidate                          *)
Candidates == {c \in bodies \ failed : Better(c, tip)}
Reachable == {c \in Candidates : Chain[c] \ Chain[tip] \subseteq bodies}

(* best-valid-tip: when no candidate is complete, the best one, so that    *)
(* its missing bodies are asked for.                                       *)
BestEvenIncomplete == BestOf(Candidates)   \* Mutant: %first-reachable-candidate is left out
BestValidTips == BestOf(IF Reachable # {} THEN Reachable ELSE Candidates)

(* %activation-step-target                                                 *)
StepTarget(t) ==
    IF Height[t] <= Height[tip] + StepBlocks THEN t
    ELSE CHOOSE a \in Chain[t] : Height[a] = Height[tip] + StepBlocks

(* %entry-have-chain-txs-p                                                 *)
HaveChainTxs(b) ==
    \E a \in Chain[b] :
        /\ seq[a] > 1 \/ a \in Chain[tip]
        /\ Chain[b] \ Chain[a] \subseteq received

(* Whether b is in the queue of the bodies that wait for its parent.       *)
Waits(b) == b \in Range(waiting[Parent[b]])

(* What b's arrival links: b, and what waits on it, directly or through    *)
(* others that wait.                                                       *)
Linked(b) == {d \in known : b \in Chain[d] /\ \A c \in Chain[d] \ Chain[b] : Waits(c)}

(* They get their ids breadth first: the lower before the higher, those of *)
(* a height as they, or those they descend from, are in some queue.        *)
Sooner(c, d) ==
    \/ Height[c] < Height[d]
    \/ /\ Height[c] = Height[d]
       /\ \E p \in known : \E i, j \in DOMAIN waiting[p] :
             i < j /\ waiting[p][i] \in Chain[c] /\ waiting[p][j] \in Chain[d]

Park(b) ==
    waiting' = IF Waits(b) THEN waiting ELSE [waiting EXCEPT ![Parent[b]] = Append(@, b)]

(* Mutant: the bodies that wait on b are not looked at.                    *)
NoteReceivedAlone(b) ==
    IF seq[b] > 1 \/ b \in Chain[tip] THEN UNCHANGED <<seq, nextSeq, waiting>>
    ELSE IF HaveChainTxs(Parent[b])
    THEN seq' = [seq EXCEPT ![b] = nextSeq] /\ nextSeq' = nextSeq + 1 /\ UNCHANGED waiting
    ELSE Park(b) /\ UNCHANGED <<seq, nextSeq>>

(* note-block-received                                                     *)
NoteReceived(b) ==
    IF seq[b] > 1 \/ b \in Chain[tip]
    THEN UNCHANGED <<seq, nextSeq, waiting>>
    ELSE IF HaveChainTxs(Parent[b])
    THEN /\ seq' = [x \in Blocks |->
                       IF x \in Linked(b)
                       THEN nextSeq + Cardinality({d \in Linked(b) : Sooner(d, x)}) ELSE seq[x]]
         /\ nextSeq' = nextSeq + Cardinality(Linked(b))
         /\ waiting' = [p \in Blocks |-> IF p \in Linked(b) THEN <<>> ELSE waiting[p]]
    ELSE Park(b) /\ UNCHANGED <<seq, nextSeq>>

(* %store-accepted-block-body                                              *)
Store(b) ==
    /\ bodies' = bodies \cup {b} /\ received' = received \cup {b}
    /\ NoteReceived(b)
    /\ UNCHANGED <<precious, preciousWork>>

(* Mutant: the descendants are left alone.                                 *)
MarkAlone(b) == failed' = failed \cup {b}

(* %mark-block-subtree-invalid                                             *)
Mark(b) == failed' = failed \cup Descendants(b)

-----------------------------------------------------------------------------
Nothing == [do |-> "nothing", block |-> Genesis]

Init ==
    /\ known = {Genesis} /\ received = {Genesis} /\ bodies = {Genesis} /\ failed = {}
    /\ seq = [b \in Blocks |-> IF b = Genesis THEN 0 ELSE 1]
    /\ nextSeq = 2 /\ waiting = [p \in Blocks |-> <<>>] /\ precious = -1 /\ preciousWork = 0
    /\ tip = Genesis /\ at = Genesis
    /\ stopping = FALSE
    /\ phase = "idle" /\ before = Genesis /\ from = Genesis /\ to = Genesis
    /\ gone = <<>> /\ came = <<>> /\ result = "ok" /\ then = Nothing /\ tries = 0
    /\ heard = Genesis

Idle == phase = "idle"

(* A call ends.                                                            *)
Return ==
    /\ phase' = "idle" /\ result' = "ok" /\ then' = Nothing /\ tries' = 0
    /\ before' = Genesis /\ from' = Genesis /\ to' = Genesis
    /\ UNCHANGED <<gone, came, heard, stopping>>

(* Nothing of the chain moves.                                             *)
Quiet == UNCHANGED <<place, reorg, call, heard, stopping>>

(* perform-reorg is called, from the tip.                                  *)
Reorg(target, what) ==
    /\ phase' = "check"
    /\ from' = tip /\ to' = target /\ gone' = <<>> /\ came' = <<>>
    /\ then' = what /\ result' = "ok"
    /\ UNCHANGED <<place, heard, stopping>>

(* One round of activate-best-chain.                                       *)
ActivateRound(round) ==
    IF round > 0 /\ Candidates # {}
    THEN /\ \E best \in BestValidTips :
               Reorg(StepTarget(best), [do |-> "activate", block |-> Genesis])
         /\ tries' = round - 1
         /\ before' = IF Idle THEN tip ELSE before
    ELSE Return /\ UNCHANGED place

(* connect-block on the tip: coins, tip and index move together, then the  *)
(* subscribers hear of it.                                                 *)
ConnectTip(b) ==
    /\ tip' = b /\ at' = b
    /\ came' = <<b>> /\ gone' = <<>>
    /\ phase' = "tell" /\ result' = "ok" /\ then' = Nothing
    /\ UNCHANGED <<from, to, tries, heard, stopping>>

-----------------------------------------------------------------------------
(* What arrives.                                                           *)

(* A header is accepted; on an invalid parent it is entered invalid.       *)
Header(b) ==
    /\ Idle
    /\ b \notin known /\ Parent[b] \in known
    /\ known' = known \cup {b}
    /\ failed' = IF Parent[b] \in failed THEN failed \cup {b} ELSE failed
    /\ UNCHANGED <<received, bodies, order>> /\ Quiet

(* A body for a block that is in the index, is not marked invalid and is   *)
(* not stored yet: activate-block.                                         *)
Awaited(b) ==
    /\ Idle
    /\ b \in known \ (bodies \cup failed \cup Chain[tip])
    /\ nextSeq + Cardinality({w \in known : Waits(w)}) < MaxSeq

(* Case 1: it extends the tip.                                             *)
Extend(b) ==
    /\ Awaited(b)
    /\ Parent[b] = tip
    /\ Store(b)
    /\ IF b \notin Bad
       THEN ConnectTip(b) /\ before' = tip /\ UNCHANGED failed
       ELSE Mark(b) /\ Quiet
    /\ UNCHANGED known

(* Case 2: with it a competing branch has more work.  The body is stored   *)
(* before the reorganisation toward its parent.                            *)
PreReorg(b) ==
    /\ Awaited(b)
    /\ Parent[b] # tip /\ Work[b] > Work[tip]
    /\ Store(b)
    /\ before' = tip
    /\ Reorg(Parent[b], [do |-> "extend", block |-> b])
    /\ UNCHANGED <<known, failed, tries>>

(* Case 3: its branch has no more work than the tip.                       *)
StoreOnly(b) ==
    /\ Awaited(b)
    /\ Parent[b] # tip /\ Work[b] <= Work[tip]
    /\ Store(b)
    /\ UNCHANGED <<known, failed>> /\ Quiet

(* drop-unlinked-block                                                     *)
Unparked(b) ==
    IF Waits(b) THEN [waiting EXCEPT ![Parent[b]] = RemoveAt(@, CHOOSE i \in DOMAIN @ : @[i] = b)]
    ELSE waiting

(* A body far enough below the tip is pruned, on any branch.               *)
Prune(b) ==
    /\ Idle
    /\ b \in bodies \ {Genesis} /\ Height[b] + PruneDepth <= Height[tip]
    /\ bodies' = bodies \ {b}
    /\ waiting' = Unparked(b)
    /\ UNCHANGED <<index, seq, nextSeq, precious, preciousWork>> /\ Quiet

-----------------------------------------------------------------------------
(* Calls that look for a better tip.                                       *)

(* activate-best-chain, from the sync loop and at start-up.                *)
ActivateBest ==
    /\ Idle /\ ~stopping
    /\ Candidates # {}
    /\ ActivateRound(MaxTries)
    /\ UNCHANGED <<index, bodies, order>>

(* %activate-best-valid-chain: one attempt, at complete branches only.     *)
ActivateOnce ==
    IF Reachable # {}
    THEN (\E best \in BestOf(Reachable) : Reorg(best, Nothing)) /\ UNCHANGED <<tries, before>>
    ELSE Return /\ UNCHANGED place

(* Mutant: the mark comes first.                                           *)
InvalidateMarksFirst(b) ==
    /\ Idle
    /\ b \in known \ {Genesis}
    /\ before' = tip
    /\ Mark(b)
    /\ IF b \in Chain[tip] THEN Reorg(Parent[b], Nothing)
       ELSE phase' = "look" /\ UNCHANGED <<result, then, place, reorg, heard, stopping>>
    /\ UNCHANGED <<known, received, bodies, order, tries>>

(* invalidateblock: off the active chain first, marked only then.          *)
Invalidate(b) ==
    /\ Idle
    /\ b \in known \ {Genesis}
    /\ before' = tip
    /\ IF b \in Chain[tip]
       THEN Reorg(Parent[b], [do |-> "mark", block |-> b]) /\ UNCHANGED failed
       ELSE /\ Mark(b)
            /\ phase' = "look"
            /\ UNCHANGED <<result, then, place, reorg, heard, stopping>>
    /\ UNCHANGED <<known, received, bodies, order, tries>>

(* reconsiderblock: the marks of the block's ancestors and descendants go, *)
(* then the best tip is looked for in a step of its own.                   *)
Reconsider(b) ==
    /\ Idle
    /\ b \in known
    /\ failed' = {f \in failed : f \notin Chain[b] /\ b \notin Chain[f]}
    /\ before' = tip
    /\ phase' = "look"
    /\ UNCHANGED <<result, then, tries, known, received, bodies, order, place, reorg, heard, stopping>>

Look ==
    /\ phase = "look"
    /\ ActivateOnce
    /\ UNCHANGED <<index, bodies, order>>

(* Mutant: the switch is made and no id is given.                          *)
PreciousWithoutId(b) ==
    /\ Idle
    /\ b \in known /\ Work[b] >= Work[tip] /\ b # tip /\ b \in bodies \ failed
    /\ Reorg(b, Nothing) /\ before' = tip
    /\ UNCHANGED <<index, bodies, order, tries>>

(* preciousblock                                                           *)
Precious(b) ==
    /\ Idle
    /\ b \in known /\ Work[b] >= Work[tip] /\ precious > -MaxPrecious
    /\ LET p == IF Work[tip] > preciousWork THEN -1 ELSE precious
       IN  seq' = [seq EXCEPT ![b] = p] /\ precious' = p - 1
    /\ preciousWork' = Work[tip]
    /\ IF b = tip \/ b \in failed \/ b \notin bodies
       THEN Quiet
       ELSE Reorg(b, Nothing) /\ before' = tip /\ UNCHANGED tries
    /\ UNCHANGED <<index, bodies, nextSeq, waiting>>

-----------------------------------------------------------------------------
(* perform-reorg.                                                          *)

(* Mutant: only the bodies to connect are looked for.                      *)
RefusedForConnect ==
    CASE (Chain[to] \ Chain[from]) \cap failed # {} -> "invalid"
      [] ~(Chain[to] \ Chain[from] \subseteq bodies) -> "missing"
      [] OTHER -> "no"

(* Refused before anything moves: a block to connect is marked invalid, or *)
(* a body is missing on either side.                                       *)
Refused ==
    CASE (Chain[to] \ Chain[from]) \cap failed # {} -> "invalid"
      [] ~(Between(from, to) \subseteq bodies) -> "missing"
      [] OTHER -> "no"

Check ==
    /\ phase = "check"
    /\ IF Refused = "no" THEN phase' = "down" /\ UNCHANGED result
       ELSE phase' = "done" /\ result' = Refused
    /\ UNCHANGED <<index, bodies, order, place, stopping, reorg, before, then, tries, heard>>

(* Phase A, one block.                                                     *)
Disconnect ==
    /\ phase = "down" /\ ~stopping
    /\ at \notin Chain[to]
    /\ at' = Parent[at]
    /\ gone' = Append(gone, at)
    /\ UNCHANGED <<index, bodies, order, tip, stopping, from, to, came, call, heard>>

(* Mutant: the tip lands on the fork, wherever the coins stopped.          *)
LandOnFork ==
    /\ phase = "down"
    /\ at \in Chain[to] \/ stopping
    /\ tip' = CHOOSE f \in Chain[from] \cap Chain[to] :
                 \A g \in Chain[from] \cap Chain[to] : Height[g] <= Height[f]
    /\ IF at \in Chain[to] THEN phase' = "up" /\ UNCHANGED result
       ELSE phase' = "tell" /\ result' = "interrupted"
    /\ UNCHANGED <<index, bodies, order, at, stopping, reorg, before, then, tries, heard>>

(* The tip lands where the coins are: on the fork, or short of it when a   *)
(* stop request was seen, and then nothing is connected.                   *)
Land ==
    /\ phase = "down"
    /\ at \in Chain[to] \/ stopping
    /\ tip' = at
    /\ IF at \in Chain[to] THEN phase' = "up" /\ UNCHANGED result
       ELSE phase' = "tell" /\ result' = "interrupted"
    /\ UNCHANGED <<index, bodies, order, at, stopping, reorg, before, then, tries, heard>>

(* Phase B, one block.                                                     *)
Connect ==
    /\ phase = "up" /\ ~stopping
    /\ tip # to /\ NextTo(tip, to) \notin Bad
    /\ LET b == NextTo(tip, to)
       IN  at' = b /\ tip' = b /\ came' = Append(came, b)
    /\ UNCHANGED <<index, bodies, order, stopping, from, to, gone, call, heard>>

EndConnect ==
    /\ phase = "up"
    /\ tip = to \/ stopping
    /\ phase' = "tell"
    /\ result' = IF tip = to THEN "ok" ELSE "interrupted"
    /\ UNCHANGED <<index, bodies, order, place, stopping, reorg, before, then, tries, heard>>

(* A block of the branch fails: it and its descendants are marked, and     *)
(* what was done is undone.                                                *)
FailConnect ==
    /\ phase = "up" /\ ~stopping
    /\ tip # to /\ NextTo(tip, to) \in Bad
    /\ Mark(NextTo(tip, to))
    /\ phase' = "back"
    /\ UNCHANGED <<known, received, bodies, order, place, stopping, reorg, before, result, then, tries, heard>>

(* %rollback-partial-reorg: the connected blocks newest first, then the    *)
(* disconnected ones lowest first, then the tip.                           *)
RollbackDown ==
    /\ phase = "back" /\ came # <<>>
    /\ at' = Parent[came[Len(came)]]
    /\ came' = SubSeq(came, 1, Len(came) - 1)
    /\ UNCHANGED <<index, bodies, order, tip, stopping, from, to, gone, call, heard>>

RollbackUp ==
    /\ phase = "back" /\ came = <<>> /\ gone # <<>>
    /\ at' = gone[Len(gone)]
    /\ gone' = SubSeq(gone, 1, Len(gone) - 1)
    /\ UNCHANGED <<index, bodies, order, tip, stopping, from, to, came, call, heard>>

EndRollback ==
    /\ phase = "back" /\ came = <<>> /\ gone = <<>>
    /\ tip' = from
    /\ phase' = "done" /\ result' = "invalid"
    /\ UNCHANGED <<index, bodies, order, at, stopping, reorg, before, then, tries, heard>>

(* Mutant: the lowest disconnected block is told first.                    *)
TellGoneLowest ==
    /\ phase = "tell" /\ gone # <<>>
    /\ heard' = Parent[gone[Len(gone)]]
    /\ gone' = SubSeq(gone, 1, Len(gone) - 1)
    /\ UNCHANGED <<index, bodies, order, place, stopping, from, to, came, call>>

(* Phase C: the disconnected blocks are told tip first, then the connected *)
(* ones lowest first.                                                      *)
TellGone ==
    /\ phase = "tell" /\ gone # <<>>
    /\ heard' = Parent[Head(gone)]
    /\ gone' = Tail(gone)
    /\ UNCHANGED <<index, bodies, order, place, stopping, from, to, came, call>>

TellCame ==
    /\ phase = "tell" /\ gone = <<>> /\ came # <<>>
    /\ heard' = Head(came)
    /\ came' = Tail(came)
    /\ UNCHANGED <<index, bodies, order, place, stopping, from, to, gone, call>>

Told ==
    /\ phase = "tell" /\ gone = <<>> /\ came = <<>>
    /\ phase' = "done"
    /\ UNCHANGED <<index, bodies, order, place, stopping, reorg, before, result, then, tries, heard>>

-----------------------------------------------------------------------------
(* What the caller of perform-reorg does next.                             *)

(* Nothing more: a revert, preciousblock, %activate-best-valid-chain, and  *)
(* every caller whose reorganisation was refused or interrupted, but for   *)
(* activate-block when bodies are missing.                                 *)
Done ==
    /\ phase = "done"
    /\ \/ then = Nothing
       \/ result # "ok" /\ ~(then.do = "extend" /\ result = "missing")
    /\ Return
    /\ UNCHANGED <<index, bodies, order, place>>

(* activate-block toward a branch with missing bodies: some other branch   *)
(* may be better than the tip and complete.                                *)
AfterMissing ==
    /\ phase = "done" /\ then.do = "extend" /\ result = "missing"
    /\ ActivateRound(MaxTries)
    /\ UNCHANGED <<index, bodies, order>>

(* activate-block, on its parent now: connect the block ...                *)
AfterExtend ==
    /\ phase = "done" /\ then.do = "extend" /\ result = "ok"
    /\ then.block \notin Bad
    /\ ConnectTip(then.block)
    /\ UNCHANGED <<index, bodies, order, before>>

(* Mutant: the node stays on the branch.                                   *)
AfterExtendBadStays ==
    /\ phase = "done" /\ then.do = "extend" /\ result = "ok"
    /\ then.block \in Bad
    /\ Mark(then.block)
    /\ Return
    /\ UNCHANGED <<known, received, bodies, order, place>>

(* ... or mark it and go back to where the call began.                     *)
AfterExtendBad ==
    /\ phase = "done" /\ then.do = "extend" /\ result = "ok"
    /\ then.block \in Bad
    /\ Mark(then.block)
    /\ Reorg(before, Nothing)
    /\ UNCHANGED <<known, received, bodies, order, before, tries>>

(* activate-best-chain goes round again.                                   *)
AfterStep ==
    /\ phase = "done" /\ then.do = "activate" /\ result = "ok"
    /\ ActivateRound(tries)
    /\ UNCHANGED <<index, bodies, order>>

(* invalidate-block, off the block now.                                    *)
AfterLeave ==
    /\ phase = "done" /\ then.do = "mark" /\ result = "ok"
    /\ Mark(then.block)
    /\ phase' = "look" /\ then' = Nothing
    /\ UNCHANGED <<known, received, bodies, order, place, stopping, reorg, before, result, tries, heard>>

-----------------------------------------------------------------------------
(* A stop is requested, and a pause of the sync is over.                   *)
Stop == ~stopping /\ stopping' = TRUE /\ UNCHANGED <<index, bodies, order, place, reorg, call, heard>>
Resume == stopping /\ stopping' = FALSE /\ UNCHANGED <<index, bodies, order, place, reorg, call, heard>>

(* A restart between two calls: the active chain outranks every tie, and   *)
(* the bodies still waiting for an ancestor's are found again, in any      *)
(* order (mark-best-chain-from-disk, link-unlinked-bodies).                *)
Unlinked(p) ==
    {b \in received \ {Genesis} : Parent[b] = p /\ ~(Chain[b] \subseteq received)}
Queues(p) == Bijection(1..Cardinality(Unlinked(p)), Unlinked(p))
(* Mutant: the bodies that wait are not found again.                       *)
RestartForgets ==
    /\ Idle
    /\ seq' = [b \in Blocks |-> IF b \in Chain[tip] THEN 0 ELSE 1]
    /\ nextSeq' = 2 /\ precious' = -1 /\ preciousWork' = 0
    /\ waiting' = [p \in Blocks |-> <<>>]
    /\ stopping' = FALSE
    /\ UNCHANGED <<index, bodies, place, reorg, call, heard>>
Restart ==
    /\ Idle
    /\ seq' = [b \in Blocks |-> IF b \in Chain[tip] THEN 0 ELSE 1]
    /\ nextSeq' = 2 /\ precious' = -1 /\ preciousWork' = 0
    /\ \E w \in [Blocks -> UNION {Queues(p) : p \in Blocks}] :
          (\A p \in Blocks : w[p] \in Queues(p)) /\ waiting' = w
    /\ stopping' = FALSE
    /\ UNCHANGED <<index, bodies, place, reorg, call, heard>>

Arrival == \E b \in Blocks : Header(b) \/ Extend(b) \/ PreReorg(b) \/ StoreOnly(b) \/ Prune(b)
Operator == (\E b \in Blocks : Invalidate(b) \/ Reconsider(b) \/ Precious(b)) \/ Restart
PerformReorg ==
    \/ Check \/ Disconnect \/ Land \/ Connect \/ EndConnect \/ FailConnect
    \/ RollbackDown \/ RollbackUp \/ EndRollback
    \/ TellGone \/ TellCame \/ Told
Caller == Done \/ AfterMissing \/ AfterExtend \/ AfterExtendBad \/ AfterStep \/ AfterLeave \/ Look

Next == Arrival \/ Operator \/ ActivateBest \/ PerformReorg \/ Caller \/ Stop \/ Resume

Spec == Init /\ [][Next]_vars

(* A call runs to its end on the thread that made it, and the sync loop    *)
(* makes one for the best chain in every round.                            *)
FairSpec == Spec /\ WF_vars(PerformReorg \/ Caller) /\ SF_vars(ActivateBest)

-----------------------------------------------------------------------------
(* Properties.                                                             *)

(* Between two calls the tip, the coins and what the subscribers were told *)
(* agree: also after a stop request in the middle, a rollback, a revert    *)
(* and a refusal.                                                          *)
IdleAgrees == Idle => at = tip /\ heard = tip

(* A subscriber hears of one block at a time, each on top of the one       *)
(* before or taken off it, and of no branch that was rolled back.          *)
HeardMovesByOne ==
    [][ heard' # heard =>
          \/ heard # Genesis /\ heard' = Parent[heard]
          \/ heard' # Genesis /\ heard = Parent[heard'] ]_vars

(* Descendants of a marked block are marked, so that a candidate's own     *)
(* mark says whether its branch is eligible (%tip-candidates looks at no   *)
(* other).                                                                 *)
FailureIsInherited ==
    \A b \in known \ {Genesis} : Parent[b] \in failed => b \in failed

(* The chain the coins are on, and the one the tip is on, hold no block    *)
(* that is marked or that validation would refuse, at any step of a call,  *)
(* nor will they be moved to one, as every branch above a mark has it.     *)
(* invalidate-block's order (off the chain first, marked only then) and    *)
(* the check before a reorganisation are there for it.                     *)
NoFailedBlockActive ==
    /\ (Chain[tip] \cup Chain[at]) \cap (failed \cup Bad) = {}
    /\ FailureIsInherited

(* activate-best-chain goes toward a best block far above the tip in steps *)
(* of StepBlocks, and may run out of tries, or of valid blocks, at the end *)
(* of one.  That a step is worth its while is a property of the tree.      *)
StepsPay ==
    \A a, b \in Blocks : Height[b] = Height[a] + StepBlocks => Work[b] > Work[a]

(* A call that is not stopped and not invalidateblock ends on the tip it   *)
(* began with or on a better one, by entry-better-p as it is by then: no   *)
(* refusal, rollback or revert costs work, and a tip is not displaced by a *)
(* block it ties with, but for two that preciousblock gave ids.            *)
EveryMoveImproves ==
    [][ ~Idle /\ Idle' /\ before \notin failed /\ ~stopping /\ result # "interrupted"
          => \/ tip' = before \/ Better(tip', before)
             \/ Work[tip'] = Work[before] /\ seq[tip'] < 0 /\ seq[before] < 0 ]_vars

(* A stored body that lacks an ancestor's waits for it: one that were      *)
(* forgotten would never get its id (a restart and a prune in between      *)
(* included).  None waits that has every body down to the active chain, as *)
(* it would never be a candidate in its turn (check-block-index).  An id   *)
(* says that the whole branch came, and no two blocks tie on one.          *)
Complete == {b \in Blocks : Chain[b] \subseteq received}
IdsFollowBodies ==
    /\ \A b \in bodies \ Complete : Waits(b)
    /\ \A b \in known \ {Genesis} : Waits(b) => ~(Chain[b] \ Chain[tip] \subseteq bodies)
    /\ \A b \in Blocks : seq[b] > 1 =>
          /\ b \in Complete /\ seq[b] < nextSeq
          /\ \A c \in Blocks \ {b} : seq[c] # seq[b]

(* A block is only taken off or put on with its body at hand.  The body is *)
(* looked for once, before the first step, and a missing one would be      *)
(* passed over in silence: at every later step, of a rollback and of a     *)
(* revert too, it must still be there.                                     *)
BodiesAtHand ==
    [][ at' # at => IF at' \in Chain[at] THEN Chain[at] \ Chain[at'] \subseteq bodies'
                                        ELSE Chain[at'] \ Chain[at] \subseteq bodies' ]_vars

(* A move of the tip has the bodies it needs all the way and is worth it.  *)
MovesAreSound == BodiesAtHand /\ EveryMoveImproves

(* No eligible complete branch is better than the tip, other than one that *)
(* validation will refuse.                                                 *)
Settled == Idle /\ \A c \in Reachable : Chain[c] \cap Bad # {}

(* Unless operators, prunes or stop requests go on for ever, the node ends *)
(* up on the best branch it has: nothing but the sync loop's own rounds is *)
(* needed.                                                                 *)
EventuallySettled ==
    \/ []<><<Operator>>_vars
    \/ []<>stopping
    \/ []<>Settled
=============================================================================
