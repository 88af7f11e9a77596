------------------------------- MODULE Explorer ------------------------------
(***************************************************************************)
(* The explorer of the web UI (explorer.js, with the search box of app.js  *)
(* and the hash router): block pages with their pager, transaction pages   *)
(* whose inputs are looked up in batches and drawn in chunks, and the      *)
(* search that turns what was typed into a page.                           *)
(*                                                                         *)
(* Every visit is a handler of its own that goes on after the user has     *)
(* left: it compares its number with the epoch before it touches the page. *)
(***************************************************************************)
EXTENDS Integers, Sequences, FiniteSets, FiniteSetsExt

CONSTANTS
    Blocks,      \* block hashes; BlockTxs[b] is the number of transactions
    BlockTxs,
    Txs,         \* transactions the node knows
    Ins,         \* per transaction: its inputs, [from, vout], or Coinbase
    Out,         \* per transaction: the sum of its outputs
    Paid,        \* per funding transaction: the values of its outputs
    Heights,     \* heights a user may ask for; At[h] is the hash or Nothing
    At,
    TXS_PER_PAGE, PREVOUT_BATCH, MAX_PREVOUT_TXS, IO_CHUNK,
    MaxVisits,   \* bound on the navigations
    Coinbase, Nothing

ASSUME ExplorerAssumption ==
    /\ {TXS_PER_PAGE, PREVOUT_BATCH, MAX_PREVOUT_TXS, IO_CHUNK, MaxVisits} \subseteq Nat \ {0}
    /\ Nothing \notin Blocks \cup Txs /\ Blocks \cap Txs = {}
    /\ BlockTxs \in [Blocks -> Nat \ {0}] /\ At \in [Heights -> Blocks \cup {Nothing}]
    /\ Ins \in [Txs -> Seq([from : DOMAIN Paid, vout : Nat] \cup {Coinbase})]
    /\ \A t \in Txs : Ins[t] # <<>> /\ (Len(Ins[t]) > 1 => \A i \in DOMAIN Ins[t] : Ins[t][i] # Coinbase)

VARIABLES
    epoch,   \* the explorer's epoch: the number of the visit on the page
    visit,   \* per epoch: the handler of that visit
    page,    \* what the page shows
    listed,  \* a block page: the page of its transaction list
    texts,   \* a transaction page: the text of each input row drawn so far
    found,   \* a transaction page: the entries' resolved field
    fee,     \* a transaction page: its fee line
    query    \* the search under way; the search box is disabled meanwhile

tx == <<texts, found, fee>>
explorer == <<epoch, visit, page, listed, tx, query>>

NoPage == [kind |-> "none", of |-> 0, what |-> Nothing]

InitExplorer ==
    /\ epoch = 0 /\ visit = <<>> /\ page = NoPage /\ listed = 0
    /\ texts = <<>> /\ found = <<>> /\ fee = "none" /\ query = Nothing

-----------------------------------------------------------------------------
(* Visits.  A handler is at "height", "block" or "tx" while it waits for   *)
(* that answer, at "prevouts" between batches, and over at "done".         *)

Targets ==
    {[kind |-> "block", what |-> b, page |-> p] : b \in Blocks, p \in {-1, 1, 2, 9}}
        \cup {[kind |-> "height", what |-> h, page |-> 1] : h \in Heights}
        \cup {[kind |-> "tx", what |-> t, page |-> 1] : t \in Txs}

(* showBlock and showTx, up to the first request.  One that is no height   *)
(* or no txid is refused without a request: the answer Refuse gives.       *)
Show(target) ==
    /\ epoch < MaxVisits
    /\ epoch' = epoch + 1
    /\ visit' = Append(visit, [at |-> target.kind, what |-> target.what,
                               page |-> target.page, next |-> 1])
    /\ page' = [kind |-> "loading", of |-> epoch', what |-> Nothing]
    /\ listed' = 0 /\ texts' = <<>> /\ found' = <<>> /\ fee' = "none"

Navigate(target) == Show(target) /\ UNCHANGED query

End(my) == visit' = [visit EXCEPT ![my].at = "done"]

(* Mutant: an error is shown by whichever handler meets it.                *)
RefuseAnyway(my) ==
    /\ visit[my].at \in {"height", "block", "tx"}
    /\ End(my)
    /\ page' = [kind |-> "error", of |-> my, what |-> Nothing]
    /\ UNCHANGED <<epoch, listed, tx, query>>

(* The node has no such thing, or does not answer.                         *)
Refuse(my) ==
    /\ visit[my].at \in {"height", "block", "tx"}
    /\ End(my)
    /\ page' = IF my = epoch THEN [kind |-> "error", of |-> my, what |-> Nothing] ELSE page
    /\ UNCHANGED <<epoch, listed, tx, query>>

GotHash(my) ==
    /\ visit[my].at = "height" /\ At[visit[my].what] # Nothing
    /\ IF my = epoch
       THEN visit' = [visit EXCEPT ![my].at = "block", ![my].what = At[visit[my].what]]
       ELSE End(my)
    /\ UNCHANGED <<epoch, page, listed, tx, query>>

Pages(b) == Max({1, (BlockTxs[b] + TXS_PER_PAGE - 1) \div TXS_PER_PAGE})

(* Mutant: the page asked for is taken as it is.                           *)
Unclamped(b, p) == p

(* renderBlockTxPage                                                       *)
Clamped(b, p) == Min({Max({1, p}), Pages(b)})

GotBlock(my) ==
    /\ visit[my].at = "block" /\ End(my)
    /\ IF my = epoch
       THEN /\ page' = [kind |-> "block", of |-> my, what |-> visit[my].what]
            /\ listed' = Clamped(visit[my].what, visit[my].page)
       ELSE UNCHANGED <<page, listed>>
    /\ UNCHANGED <<epoch, tx, query>>

(* The pager's two buttons.                                                *)
Goto(p) ==
    /\ page.kind = "block" /\ p \in {listed - 1, listed + 1} \cap 1..Pages(page.what)
    /\ listed' = Clamped(page.what, p)
    /\ UNCHANGED <<epoch, visit, page, tx, query>>

-----------------------------------------------------------------------------
(* Transaction pages.                                                      *)

Spends(t) == {i \in DOMAIN Ins[t] : Ins[t][i] # Coinbase}
IsCoinbase(t) == Spends(t) = {}

(* The funding transactions come in the order of their first use: the      *)
(* inputs that are the first to spend from theirs, and the place of each.  *)
FirstUses == [t \in Txs |->
    {i \in Spends(t) : \A j \in Spends(t) : j < i => Ins[t][j].from # Ins[t][i].from}]
Place == [t \in Txs |-> [i \in FirstUses[t] |-> Cardinality({j \in FirstUses[t] : j <= i})]]
Funders == [t \in Txs |-> Cardinality(FirstUses[t])]

(* inputRow and applyResolved: the text of a row that is drawn.            *)
RowText(t, i, resolved) ==
    CASE IsCoinbase(t) -> "-"
      [] ~IsCoinbase(t) /\ resolved[i] = "undefined" -> "resolving"
      [] OTHER -> resolved[i]

(* Mutant: a row is drawn as unresolved, whatever is known by now.         *)
MoreRowsUnresolved(t, drawn, resolved) ==
    drawn \o [i \in 1..Min({IO_CHUNK, Len(Ins[t]) - Len(drawn)}) |->
                 IF IsCoinbase(t) THEN "-" ELSE "resolving"]

(* appendChunked, given the rows already drawn.                            *)
MoreRows(t, drawn, resolved) ==
    drawn \o [i \in 1..Min({IO_CHUNK, Len(Ins[t]) - Len(drawn)}) |->
                 RowText(t, Len(drawn) + i, resolved)]

(* renderTx                                                                *)
GotTx(my) ==
    /\ visit[my].at = "tx"
    /\ LET t == visit[my].what
           unresolved == [i \in DOMAIN Ins[t] |-> "undefined"]
       IN IF my # epoch THEN End(my) /\ UNCHANGED <<page, tx>>
          ELSE /\ page' = [kind |-> "tx", of |-> my, what |-> t]
               /\ found' = unresolved /\ texts' = MoreRows(t, <<>>, unresolved)
               /\ fee' = IF IsCoinbase(t) THEN "coinbase" ELSE "resolving"
               /\ visit' = [visit EXCEPT ![my].at = IF IsCoinbase(t) THEN "done" ELSE "prevouts"]
    /\ UNCHANGED <<epoch, listed, query>>

ShowMore ==
    /\ page.kind = "tx" /\ Len(texts) < Len(Ins[page.what])
    /\ texts' = MoreRows(page.what, texts, found)
    /\ UNCHANGED <<epoch, visit, page, listed, found, fee, query>>

Capped(t) == Min({MAX_PREVOUT_TXS, Funders[t]})
Chunk(my) ==
    LET t == visit[my].what
        from == visit[my].next
        upto == Min({from + PREVOUT_BATCH - 1, Capped(t)})
    IN  {Ins[t][i].from : i \in {i \in FirstUses[t] : Place[t][i] \in from..upto}}

(* The output an input spends, if the node gave the transaction that has   *)
(* it; an output that is not there is as good as no transaction.           *)
Resolved(input, answered) ==
    IF input.from \in answered /\ input.vout \in DOMAIN Paid[input.from]
    THEN "value" ELSE "unavailable"

Patched(t, resolved) == [i \in DOMAIN texts |-> RowText(t, i, resolved)]

InSats(t) == MapThenSumSet(LAMBDA i : Paid[Ins[t][i].from][Ins[t][i].vout], DOMAIN Ins[t])
Fee(t) == InSats(t) - Out[t]

(* Mutant: an input that was not found counts for nothing.                 *)
FeeLineAnyway(t, resolved) == IF Fee(t) >= 0 THEN "shown" ELSE "inconsistent"

(* The fee is shown when every input was found and they cover the outputs. *)
FeeLine(t, resolved) ==
    CASE \E i \in DOMAIN Ins[t] : resolved[i] = "unavailable" -> "unavailable"
      [] (\A i \in DOMAIN Ins[t] : resolved[i] = "value") /\ Fee(t) < 0 -> "inconsistent"
      [] OTHER -> "shown"

(* Mutant: the inputs beyond the cap are left as they are.                 *)
LeftOver(t, resolved) == resolved

(* The inputs beyond the cap are given up.                                 *)
GivenUp(t, resolved) ==
    [i \in DOMAIN Ins[t] |-> IF resolved[i] = "undefined" THEN "given up" ELSE resolved[i]]

(* A batch of resolvePrevouts; one that fails resolves to nothing.  The    *)
(* last one decides on the fee.                                            *)
GotPrevouts(my) ==
    /\ visit[my].at = "prevouts"
    /\ IF my # epoch THEN End(my) /\ UNCHANGED tx
       ELSE \E answered \in SUBSET Chunk(my) :
            LET t == visit[my].what
                next == visit[my].next + PREVOUT_BATCH
                resolved == [i \in DOMAIN Ins[t] |->
                    IF Ins[t][i].from \in Chunk(my) THEN Resolved(Ins[t][i], answered)
                                                    ELSE found[i]]
                tooMany == Funders[t] > MAX_PREVOUT_TXS
            IN  /\ IF next <= Capped(t)
                   THEN /\ visit' = [visit EXCEPT ![my].next = next]
                        /\ found' = resolved /\ UNCHANGED fee
                   ELSE /\ End(my)
                        /\ found' = IF tooMany THEN GivenUp(t, resolved) ELSE resolved
                        /\ fee' = IF tooMany THEN "too many" ELSE FeeLine(t, resolved)
                /\ texts' = Patched(t, found')
    /\ UNCHANGED <<epoch, page, listed, query>>

-----------------------------------------------------------------------------
(* The search box.                                                         *)

(* What is typed: a height, or a hash, which may be of neither kind.       *)
Search(q) ==
    /\ query = Nothing /\ query' = q
    /\ UNCHANGED <<epoch, visit, page, listed, tx>>

SearchFails ==
    /\ query # Nothing /\ query' = Nothing
    /\ UNCHANGED <<epoch, visit, page, listed, tx>>

(* navigate: the page of what was found.  A hash is tried as a block's     *)
(* first.                                                                  *)
SearchFinds ==
    /\ query # Nothing
    /\ \E target \in {s \in Targets : s.page = 1} :
          /\ \/ query.kind = "height" /\ At[query.what] # Nothing
                /\ target.kind = "block" /\ target.what = At[query.what]
             \/ query.kind = "hash" /\ target.kind \in {"block", "tx"} /\ target.what = query.what
          /\ Show(target)
    /\ query' = Nothing

-----------------------------------------------------------------------------
VisitStep(my) ==
    \/ Refuse(my) \/ GotHash(my) \/ GotBlock(my) \/ GotTx(my) \/ GotPrevouts(my)

Queries ==
    {[kind |-> "height", what |-> h] : h \in Heights}
        \cup {[kind |-> "hash", what |-> x] : x \in Blocks \cup Txs}

ExplorerStep ==
    \/ \E target \in Targets : Navigate(target)
    \/ \E my \in 1..epoch : VisitStep(my)
    \/ \E p \in {listed - 1, listed + 1} : Goto(p)
    \/ ShowMore
    \/ \E q \in Queries : Search(q)
    \/ SearchFails \/ SearchFinds

ExplorerSpec == InitExplorer /\ [][ExplorerStep]_explorer

(* Requests are answered, or fail.                                         *)
FairExplorer ==
    /\ ExplorerSpec
    /\ \A my \in 1..MaxVisits : WF_explorer(my <= epoch /\ VisitStep(my))

-----------------------------------------------------------------------------
(* Properties.                                                             *)

(* The page is that of the last navigation, whatever answers come late     *)
(* (explorer.js: "so a stale fetch never clobbers the current page").      *)
NeverStale == page.of = epoch

(* A row shows what is known of its input, whether it was drawn before the *)
(* answer came or after; and a fee is shown only when every input was      *)
(* found, and it is not negative.                                          *)
RowsShowWhatIsKnown ==
    page.kind = "tx" =>
        /\ \A i \in DOMAIN texts :
              texts[i] = IF IsCoinbase(page.what) THEN "-"
                         ELSE IF found[i] = "undefined" THEN "resolving" ELSE found[i]
        /\ fee = "shown" => ~(Fee(page.what) < 0) /\ \A i \in DOMAIN found : found[i] = "value"

(* A block's list of transactions is complete under its pager: a page is   *)
(* never empty, and the button that goes on is missing only at the end.    *)
PagerHolds ==
    page.kind = "block" =>
        LET n == BlockTxs[page.what]
            first == (listed - 1) * TXS_PER_PAGE + 1
        IN  /\ first \in 1..n
            /\ listed = Pages(page.what) <=> first + TXS_PER_PAGE > n

(* What a page shows is what is known: the rows of a transaction and its   *)
(* fee ("report the fee only when every input's prevout resolved"), and    *)
(* the list of a block.                                                    *)
PageIsRight == RowsShowWhatIsKnown /\ PagerHolds

Settled ==
    /\ page.kind # "loading" /\ fee # "resolving"
    /\ \A i \in DOMAIN texts : texts[i] # "resolving"

(* Every visit comes to rest, unless the user leaves it: no "loading" and  *)
(* no "resolving" stays, not in a row drawn later either.                  *)
PageSettles == \A my \in 1..MaxVisits : epoch = my ~> (epoch # my \/ []Settled)
=============================================================================
