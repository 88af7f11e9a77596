----------------------------- MODULE WalletSend ------------------------------
(***************************************************************************)
(* Composing on the wallet page of the web UI (wallet.js): the send form   *)
(* with its review, the PSBT panel (wallet-psbt.js) and the fee bump with  *)
(* its preview, while the user may select another wallet at any moment and *)
(* the wallet in use may be unloaded.                                      *)
(*                                                                         *)
(* Every answer comes back at some later step, to handlers that hold on to *)
(* what they captured at the click and read the rest when they run.  The   *)
(* gate all signing clicks pass, withWalletUnlocked, is the module         *)
(* WalletUnlock; here it lets the click through or cancels it.             *)
(***************************************************************************)
EXTENDS Naturals

CONSTANTS
    Wallets,  \* the wallets
    NoWallet, \* none selected; a request to it is refused
    Keyless,  \* those with private keys disabled
    Payees,   \* recipient lists that validateRecipients accepts
    Blank,    \* recipients it does not: an empty or half typed row
    Options,  \* settings of the send form: target, replace-by-fee, subtract-fee
    Default,  \* freshSend's settings
    Texts,    \* the PSBTs a user may paste
    Complete, \* those finalizepsbt can finish
    Signer,   \* per PSBT: the wallets that hold a key for it
    Signed,   \* per PSBT: what a signature makes of it
    Rates,    \* fee rates for a bump
    Ops,      \* clicks that send a signing request; each is made once
    Reviews, Loads,  \* fee estimates and PSBT loads that can be under way
    Usages,   \* the tabs a behaviour works in: sets of "send", "psbt", "bump"
    Nobody

ASSUME WalletAssumption ==
    /\ Keyless \subseteq Wallets /\ Nobody \notin Wallets \cup {NoWallet} /\ NoWallet \notin Wallets
    /\ Blank \notin Payees /\ Nobody \notin Payees \cup {Blank}
    /\ Default \in Options /\ Nobody \notin Options /\ Nobody \notin Rates
ASSUME PsbtAssumption ==
    /\ Complete \subseteq Texts /\ Nobody \notin Texts
    /\ Signer \in [Texts -> SUBSET (Wallets \ Keyless)] /\ Signed \in [Texts -> Texts]

VARIABLES
    usage,
    selected, \* state.selected
    info,     \* the wallet whose getwalletinfo the page holds
    asked,    \* the wallet a poll under way asks about
    op,       \* the signing clicks
    typed, chosen, \* the send form on screen: recipients, settings
    rows,     \* send.recipients
    settings, \* send.confTarget, send.rbf and send.sffo
    cleaned,  \* send.cleaned
    shown,    \* the review on screen
    reviews,  \* reviews waiting for estimatesmartfee
    psbt,     \* state.psbt
    row,      \* the PSBT panel's action row
    loads,    \* PSBTs being read
    rate, preview \* the bump's input; the preview on screen

page == <<usage, selected, info, asked>>
form == <<typed, chosen, rows, settings, cleaned, shown, reviews>>
panel == <<psbt, row, loads>>
bump == <<rate, preview>>
vars == <<page, op, form, panel, bump>>

NoOp == [kind |-> "none", at |-> "new", arg |-> Nobody, of |-> Nobody, stale |-> FALSE,
         drift |-> FALSE]
NoReview == [to |-> Nobody, with |-> Nobody, of |-> Nobody, busy |-> Nobody]
NoEstimate == [of |-> Nobody, stale |-> FALSE]
NoPsbt == [text |-> Nobody, complete |-> FALSE, could |-> FALSE]
NoStamp == [text |-> Nobody, complete |-> FALSE, could |-> FALSE, keyless |-> FALSE, have |-> FALSE]
NoRow == [stamp |-> NoStamp, buttons |-> {}, armed |-> Nobody]
NoPreview == [rate |-> Nobody, keyless |-> FALSE, busy |-> Nobody]
NoLoad == [text |-> Nobody, of |-> Nobody]

Init ==
    /\ usage \in Usages
    /\ selected \in Wallets /\ info = Nobody /\ asked = Nobody
    /\ op = [o \in Ops |-> NoOp]
    /\ typed = Blank /\ chosen = Default /\ rows = Blank /\ settings = Default
    /\ cleaned = Blank /\ shown = NoReview
    /\ reviews = [r \in Reviews |-> NoEstimate]
    /\ psbt = NoPsbt /\ row = NoRow /\ loads = [l \in Loads |-> NoLoad]
    /\ rate \in Rates /\ preview = NoPreview

-----------------------------------------------------------------------------
(* The page: the selected wallet, and the poll.                            *)

UnderWay(o) == op[o].at \in {"asking", "gate", "sent"}

(* selectWallet.  Handlers under way keep the send model or the history    *)
(* row they captured; the PSBT panel is not drawn again.                   *)
SelectWallet(w) ==
    /\ w # selected
    /\ selected' = w /\ info' = Nobody
    /\ typed' = Blank /\ rows' = Blank /\ settings' = Default
    /\ cleaned' = Blank /\ shown' = NoReview
    /\ reviews' = [r \in Reviews |-> [reviews[r] EXCEPT !.stale = reviews[r].of # Nobody]]
    /\ op' = [o \in Ops |-> [op[o] EXCEPT !.stale = UnderWay(o) /\ op[o].kind # "sign"]]
    /\ psbt' = NoPsbt /\ preview' = NoPreview
    /\ UNCHANGED <<usage, asked, chosen, row, loads, rate>>

(* unloadCurrent, once the node has unloaded the wallet, and               *)
(* refreshWalletList, when the list has not the wallet selected: the page  *)
(* goes on with none, or with another of the list.  The form, its reviews  *)
(* and the PSBT stay.  A review's "of" is history, for ReviewIsCurrent:    *)
(* the wallet selected since it was asked for, NoWallet once it was taken. *)
Taken(w) ==
    /\ selected' = w
    /\ shown' = IF shown = NoReview THEN shown ELSE [shown EXCEPT !.of = NoWallet]
    /\ reviews' = [r \in Reviews |-> IF reviews[r].of = Nobody THEN reviews[r]
                                     ELSE [reviews[r] EXCEPT !.of = NoWallet]]
    /\ UNCHANGED <<usage, asked, op, typed, chosen, rows, settings, cleaned, panel, bump>>
UnloadCurrent == selected # NoWallet /\ Taken(NoWallet) /\ UNCHANGED info
RefreshWalletList ==
    /\ asked = Nobody
    /\ \E w \in (Wallets \cup {NoWallet}) \ {selected} : Taken(w)
    /\ info' = Nobody

HaveWallet == selected # NoWallet

(* encryptionState of the wallet object the page holds.                    *)
WatchOnly(of) == of \in Keyless

SignEnabled(p, of, have) == ~p.complete /\ have /\ ~WatchOnly(of) /\ p.could
Buttons(p, of, have) ==
    {b \in {"sign", "broadcast"} : IF b = "sign" THEN SignEnabled(p, of, have) ELSE p.complete}

(* Mutant: the stamp leaves the text out.                                  *)
StampOfState(p, of) == [text |-> "any", complete |-> p.complete, could |-> p.could,
                        keyless |-> WatchOnly(of), have |-> HaveWallet]
Stamp(p, of) == [text |-> p.text, complete |-> p.complete, could |-> p.could,
                 keyless |-> WatchOnly(of), have |-> HaveWallet]

(* Mutant: an emptied row keeps its stamp.                                 *)
DrawnKeepingStamp(p, of) ==
    CASE p = NoPsbt -> [NoRow EXCEPT !.stamp = row.stamp]
      [] p # NoPsbt /\ row.stamp = Stamp(p, of) -> row
      [] OTHER -> [stamp |-> Stamp(p, of), buttons |-> Buttons(p, of, HaveWallet), armed |-> Nobody]

(* renderPsbt's action row: built anew, and so disarmed, only when what it *)
(* acts on changed.                                                        *)
Drawn(p, of) ==
    CASE p = NoPsbt -> NoRow
      [] p # NoPsbt /\ row.stamp = Stamp(p, of) -> row
      [] OTHER -> [stamp |-> Stamp(p, of), buttons |-> Buttons(p, of, HaveWallet), armed |-> Nobody]

(* refresh on the PSBT tab; a failed read leaves the object in place.      *)
Poll ==
    /\ "psbt" \in usage /\ asked = Nobody /\ HaveWallet
    /\ asked' = selected
    /\ UNCHANGED <<usage, selected, info, op, form, panel, bump>>
Polled ==
    /\ asked # Nobody /\ asked' = Nobody
    /\ info' \in {asked, info}
    /\ row' = Drawn(psbt, info')
    /\ UNCHANGED <<usage, selected, op, form, psbt, loads, bump>>

-----------------------------------------------------------------------------
(* The send form.                                                          *)

Type ==
    /\ "send" \in usage
    /\ typed' \in Payees \cup {Blank} /\ chosen' \in Options
    /\ UNCHANGED <<page, op, rows, settings, cleaned, shown, reviews, panel, bump>>

(* addRecipient and removeRecipient: syncSendFromDom, then the rows change.*)
ChangeRows ==
    /\ "send" \in usage
    /\ settings' = chosen
    /\ rows' \in Payees \cup {Blank} /\ typed' = rows'
    /\ UNCHANGED <<page, op, chosen, cleaned, shown, reviews, panel, bump>>

(* onReviewSend, up to its request.  The recipients are taken at once; the *)
(* review on screen is replaced when the estimate comes.                   *)
ReviewRefused ==
    /\ "send" \in usage /\ typed = Blank
    /\ rows' = typed /\ settings' = chosen /\ shown' = NoReview
    /\ UNCHANGED <<page, op, typed, chosen, cleaned, reviews, panel, bump>>
ReviewSend(r) ==
    /\ "send" \in usage /\ typed # Blank /\ reviews[r].of = Nobody
    /\ rows' = typed /\ settings' = chosen /\ cleaned' = typed
    /\ reviews' = [reviews EXCEPT ![r] = [of |-> selected, stale |-> FALSE]]
    /\ UNCHANGED <<page, op, typed, chosen, shown, panel, bump>>

Review(to, of) == [to |-> to, with |-> settings, of |-> of, busy |-> Nobody]
(* renderReview of a review that is on screen already: its button is new.  *)
Redrawn == IF shown = NoReview THEN shown ELSE [shown EXCEPT !.to = cleaned, !.busy = Nobody]

(* Mutant: the handler reads state.send when it runs, and not before.      *)
EstimatedAnyway(r) ==
    /\ reviews[r].of # Nobody
    /\ shown' = Review(cleaned, reviews[r].of)
    /\ reviews' = [reviews EXCEPT ![r] = NoEstimate]
    /\ UNCHANGED <<page, op, typed, chosen, rows, settings, cleaned, panel, bump>>

(* The estimate, or its failure, comes: renderReview, of the model in use  *)
(* now; the review goes to the model captured, which may be another.       *)
Estimated(r) ==
    /\ reviews[r].of # Nobody
    /\ shown' = IF reviews[r].stale THEN Redrawn ELSE Review(cleaned, reviews[r].of)
    /\ reviews' = [reviews EXCEPT ![r] = NoEstimate]
    /\ UNCHANGED <<page, op, typed, chosen, rows, settings, cleaned, panel, bump>>

Edit ==
    /\ shown # NoReview /\ shown' = NoReview
    /\ UNCHANGED <<page, op, typed, chosen, rows, settings, cleaned, reviews, panel, bump>>

-----------------------------------------------------------------------------
(* Clicks that sign.                                                       *)

Begin(o, kind, arg, drift) ==
    /\ op[o].at = "new"
    /\ op' = [op EXCEPT ![o] = [NoOp EXCEPT !.kind = kind, !.at = "gate", !.arg = arg,
                                            !.drift = drift]]

(* onConfirmSend: the request is built from the model at the click.        *)
ConfirmSend(o) ==
    /\ shown # NoReview /\ shown.busy = Nobody
    /\ Begin(o, "send", cleaned, shown.to # cleaned \/ shown.with # settings)
    /\ shown' = [shown EXCEPT !.busy = o]
    /\ UNCHANGED <<page, typed, chosen, rows, settings, cleaned, reviews, panel, bump>>

SignPsbt(o) ==
    /\ "sign" \in row.buttons /\ psbt # NoPsbt
    /\ Begin(o, "sign", psbt.text, FALSE)
    /\ UNCHANGED <<page, form, panel, bump>>

(* bumpFeeControls: doPreview asks for walletinfo and then decides whether *)
(* the wallet can sign, before the gate.                                   *)
PreviewBump(o) ==
    /\ "bump" \in usage /\ op[o].at = "new"
    /\ op' = [op EXCEPT ![o] = [NoOp EXCEPT !.kind = "preview", !.at = "asking",
                                            !.of = selected]]
    /\ preview' = NoPreview
    /\ UNCHANGED <<page, form, panel, rate>>
WalletRead(o) ==
    /\ op[o].at = "asking"
    /\ info' \in {info} \cup ({op[o].of} \ {NoWallet})
    /\ op' = [op EXCEPT ![o].at = "gate", ![o].of = info']
    /\ UNCHANGED <<usage, selected, asked, form, panel, bump>>
ExecuteBump(o) ==
    /\ preview.rate # Nobody /\ ~preview.keyless /\ preview.busy = Nobody
    /\ Begin(o, "bump", preview.rate, FALSE)
    /\ preview' = [preview EXCEPT !.busy = o]
    /\ UNCHANGED <<page, form, panel, rate>>

(* The gate lets the click through: the request goes out, to the wallet    *)
(* selected by now; the rate of a bump is read from its input only here.   *)
(* To no wallet it fails.                                                  *)
Send(o) ==
    /\ op[o].at = "gate" /\ HaveWallet
    /\ op' = [op EXCEPT ![o].at = "sent",
                        ![o].arg = CASE op[o].kind = "preview" -> rate
                                     [] op[o].kind = "sign" /\ selected \in Signer[op[o].arg] ->
                                            Signed[op[o].arg]
                                     [] OTHER -> @,
                        ![o].drift = @ \/ (op[o].kind = "bump" /\ op[o].arg # rate)]
    /\ UNCHANGED <<page, form, panel, bump>>

Over(o) == [op EXCEPT ![o] = [NoOp EXCEPT !.at = "done", !.drift = op[o].drift]]

(* The gate was cancelled, or the node refused.                            *)
Failed(o) ==
    /\ UnderWay(o) /\ op[o].at # "asking" /\ op' = Over(o)
    /\ shown' = IF shown.busy = o THEN [shown EXCEPT !.busy = Nobody] ELSE shown
    /\ preview' = IF preview.busy = o THEN [preview EXCEPT !.busy = Nobody] ELSE preview
    /\ UNCHANGED <<page, typed, chosen, rows, settings, cleaned, reviews, panel, rate>>

(* Mutant: the form is emptied, the review stays.                          *)
SentKeepsReview(o) ==
    /\ op[o].kind = "send" /\ op[o].at = "sent" /\ op' = Over(o)
    /\ IF op[o].stale
       THEN typed' = rows /\ UNCHANGED <<rows, cleaned, shown>>
       ELSE typed' = Blank /\ rows' = Blank /\ cleaned' = Blank /\ UNCHANGED shown
    /\ UNCHANGED <<page, chosen, settings, reviews, panel, bump>>

(* A spend went out.  The captured model is emptied; what is drawn again   *)
(* is the model in use, its confirm button enabled.                        *)
Sent(o) ==
    /\ op[o].kind = "send" /\ op[o].at = "sent" /\ op' = Over(o)
    /\ IF op[o].stale
       THEN /\ typed' = rows /\ UNCHANGED <<rows, cleaned>>
            /\ shown' = Redrawn
       ELSE typed' = Blank /\ rows' = Blank /\ cleaned' = Blank /\ shown' = NoReview
    /\ UNCHANGED <<page, chosen, settings, reviews, panel, bump>>

(* signPsbt's answer is loaded like a paste.                               *)
PsbtSigned(o, l) ==
    /\ op[o].kind = "sign" /\ op[o].at = "sent" /\ loads[l] = NoLoad /\ op' = Over(o)
    /\ loads' = [loads EXCEPT ![l] = [text |-> op[o].arg, of |-> Nobody]]
    /\ UNCHANGED <<page, form, psbt, row, bump>>

(* The preview's numbers, unless its row is off the screen by now.         *)
Previewed(o) ==
    /\ op[o].kind = "preview" /\ op[o].at = "sent" /\ op' = Over(o)
    /\ preview' = IF op[o].stale THEN preview
                  ELSE [rate |-> op[o].arg, keyless |-> WatchOnly(op[o].of), busy |-> Nobody]
    /\ UNCHANGED <<page, form, panel, rate>>
Bumped(o) ==
    /\ op[o].kind = "bump" /\ op[o].at = "sent" /\ op' = Over(o)
    /\ preview' = IF op[o].stale THEN preview ELSE NoPreview
    /\ UNCHANGED <<page, form, panel, rate>>

(* renderHistory with other entries, as another wallet's or a new block's: *)
(* the expanded row and its preview are made anew.                         *)
HistoryRedrawn ==
    /\ "bump" \in usage /\ preview' = NoPreview
    /\ op' = [o \in Ops |-> IF op[o].kind \in {"preview", "bump"} /\ UnderWay(o)
                            THEN [op[o] EXCEPT !.stale = TRUE] ELSE op[o]]
    /\ UNCHANGED <<page, form, panel, rate>>

TypeRate ==
    /\ "bump" \in usage /\ rate' \in Rates
    /\ UNCHANGED <<page, op, form, panel, preview>>

-----------------------------------------------------------------------------
(* The PSBT panel.                                                         *)

LoadPsbt(l, text) ==
    /\ "psbt" \in usage /\ loads[l] = NoLoad
    /\ loads' = [loads EXCEPT ![l] = [text |-> text, of |-> Nobody]]
    /\ UNCHANGED <<page, op, form, psbt, row, bump>>

(* A preview of a wallet that cannot sign opens in the panel.              *)
OpenPsbtInPanel(l) ==
    /\ preview.keyless /\ loads[l] = NoLoad
    /\ \E text \in Texts \ Complete : loads' = [loads EXCEPT ![l] = [text |-> text, of |-> Nobody]]
    /\ UNCHANGED <<page, op, form, psbt, row, bump>>

(* The paste does not parse, or a request fails.                           *)
Unload(l) ==
    /\ loads[l] # NoLoad
    /\ loads' = [loads EXCEPT ![l] = NoLoad]
    /\ psbt' = NoPsbt /\ row' = Drawn(NoPsbt, info)
    /\ UNCHANGED <<page, op, form, bump>>
(* Filled, decoded and analysed; the wallet selected now is asked which    *)
(* inputs are its own.                                                     *)
AskOwner(l) ==
    /\ loads[l] # NoLoad /\ loads[l].of = Nobody
    /\ loads' = [loads EXCEPT ![l].of = selected]
    /\ UNCHANGED <<page, op, form, psbt, row, bump>>
Loaded(l) ==
    /\ loads[l].of # Nobody
    /\ psbt' = [text |-> loads[l].text, complete |-> loads[l].text \in Complete,
                could |-> loads[l].of \in Signer[loads[l].text]]
    /\ row' = Drawn(psbt', info)
    /\ loads' = [loads EXCEPT ![l] = NoLoad]
    /\ UNCHANGED <<page, op, form, bump>>

ClearPsbt ==
    /\ "psbt" \in usage /\ psbt # NoPsbt
    /\ psbt' = NoPsbt /\ row' = Drawn(NoPsbt, info)
    /\ UNCHANGED <<page, op, form, loads, bump>>

(* The two clicks of broadcast; the second acts on state.psbt.             *)
Arm ==
    /\ "broadcast" \in row.buttons /\ row.armed = Nobody
    /\ row' = [row EXCEPT !.armed = row.stamp.text]
    /\ UNCHANGED <<page, op, form, psbt, loads, bump>>
Disarm ==
    /\ row.armed # Nobody
    /\ row' = [row EXCEPT !.armed = Nobody]
    /\ UNCHANGED <<page, op, form, psbt, loads, bump>>

-----------------------------------------------------------------------------
Next ==
    \/ \E w \in Wallets : SelectWallet(w)
    \/ UnloadCurrent \/ RefreshWalletList \/ HistoryRedrawn
    \/ Poll \/ Polled
    \/ Type \/ ChangeRows \/ ReviewRefused \/ Edit \/ TypeRate
    \/ \E r \in Reviews : ReviewSend(r) \/ Estimated(r)
    \/ \E o \in Ops : \/ ConfirmSend(o) \/ SignPsbt(o) \/ PreviewBump(o) \/ WalletRead(o)
                      \/ ExecuteBump(o)
                      \/ Send(o) \/ Failed(o) \/ Sent(o) \/ Previewed(o) \/ Bumped(o)
    \/ \E o \in Ops, l \in Loads : PsbtSigned(o, l)
    \/ \E l \in Loads : \/ \E text \in Texts : LoadPsbt(l, text)
                        \/ OpenPsbtInPanel(l) \/ Unload(l) \/ AskOwner(l) \/ Loaded(l)
    \/ ClearPsbt \/ Arm \/ Disarm

Spec == Init /\ [][Next]_vars

-----------------------------------------------------------------------------
(* Properties.                                                             *)

(* The review on screen belongs to the wallet selected now, whenever its   *)
(* estimate came, unless that wallet was taken from the page since the     *)
(* review was asked for (unloaded: the form is not reset as it is when the *)
(* user selects another); and it lists the recipients its button would pay *)
(* once no other review is under way: after edits, spends that end         *)
(* meanwhile, of this wallet or another, and refused reviews.              *)
ReviewIsCurrent ==
    shown # NoReview =>
        /\ shown.of \in {selected, NoWallet}
        /\ (\A r \in Reviews : reviews[r].of = Nobody \/ reviews[r].stale) => shown.to = cleaned

(* A loaded PSBT has its buttons: the row that is kept from poll to poll   *)
(* is the row of this PSBT, for the wallet object of its last drawing and  *)
(* whether a wallet was selected then; and a broadcast is confirmed for    *)
(* the PSBT it was armed for: nothing that loads, signs or clears in       *)
(* between leaves the armed button standing.                               *)
RowFitsPsbt ==
    psbt # NoPsbt =>
        /\ \E of \in Wallets \cup {Nobody}, have \in BOOLEAN :
              row.buttons = Buttons(psbt, of, have)
        /\ row.armed # Nobody => psbt.text = row.armed

(* wallet.js: "the numbers have to be on screen before any signature       *)
(* exists".                                                                *)
SignsWhatWasShown == \A o \in Ops : ~op[o].drift
=============================================================================
