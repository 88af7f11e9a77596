-------------------------- MODULE WalletSendProofs ---------------------------
(***************************************************************************)
(* Proofs about reviews and the PSBT panel, for every set of wallets,      *)
(* recipients, PSBTs and clicks.                                           *)
(***************************************************************************)
EXTENDS WalletSend, TLAPS

Selection == Wallets \cup {NoWallet}
To == Payees \cup {Blank, Nobody}
Screen == [to : To, with : Options \cup {Nobody}, of : Selection \cup {Nobody},
           busy : Ops \cup {Nobody}]
Estimate == [of : Selection \cup {Nobody}, stale : BOOLEAN]

(* The variables of the send form have their types.                        *)
FormOK ==
    /\ selected \in Selection
    /\ typed \in Payees \cup {Blank} /\ chosen \in Options
    /\ rows \in Payees \cup {Blank} /\ settings \in Options /\ cleaned \in Payees \cup {Blank}
    /\ shown \in Screen /\ reviews \in [Reviews -> Estimate]

(* An estimate whose answer will be shown is one of the wallet in use,     *)
(* unless that was taken from the page meanwhile.                          *)
LiveIsSelected == \A r \in Reviews :
    reviews[r].of # Nobody /\ ~reviews[r].stale => reviews[r].of \in {selected, NoWallet}

ReviewInv == FormOK /\ LiveIsSelected /\ ReviewIsCurrent

-----------------------------------------------------------------------------
(* The send form.                                                          *)

LEMMA NoReviewOK == NoReview \in Screen /\ NoReview.of = Nobody
BY DEF NoReview, Screen, To

LEMMA ReviewInit == ASSUME Init PROVE ReviewInv
<1>1. FormOK
  BY NoReviewOK, WalletAssumption DEF Init, FormOK, Estimate, NoEstimate, Selection
<1> QED BY <1>1 DEF Init, ReviewInv, LiveIsSelected, ReviewIsCurrent, NoEstimate

(* A step that leaves the review and the estimates.                        *)
LEMMA ReviewStays ==
    ASSUME ReviewInv, UNCHANGED <<selected, cleaned, shown, reviews>>,
           typed' \in Payees \cup {Blank}, chosen' \in Options, rows' \in Payees \cup {Blank},
           settings' \in Options
    PROVE  ReviewInv'
BY DEF ReviewInv, FormOK, LiveIsSelected, ReviewIsCurrent

(* The button of the review on screen goes busy, or is enabled again.      *)
LEMMA ReviewBusy ==
    ASSUME ReviewInv, NEW busy \in Ops \cup {Nobody}, shown' = [shown EXCEPT !.busy = busy],
           shown # NoReview,
           UNCHANGED <<selected, typed, chosen, rows, settings, cleaned, reviews>>
    PROVE  ReviewInv'
<1>1. shown' \in Screen /\ shown'.of = shown.of /\ shown'.to = shown.to
  BY DEF ReviewInv, FormOK, Screen
<1> QED BY <1>1 DEF ReviewInv, FormOK, LiveIsSelected, ReviewIsCurrent

LEMMA ReviewOfWallet ==
    ASSUME ReviewInv, NEW w \in Selection, NEW to \in Payees \cup {Blank}
    PROVE  /\ Review(to, w) \in Screen /\ Review(to, w).of = w /\ Review(to, w).to = to
BY DEF Review, Screen, To, ReviewInv, FormOK

(* renderReview of the review on screen.                                   *)
LEMMA RedrawnOK ==
    ASSUME ReviewInv
    PROVE  /\ Redrawn \in Screen /\ Redrawn.of = shown.of
           /\ shown = NoReview => Redrawn = NoReview
           /\ shown # NoReview => Redrawn.to = cleaned
BY DEF Redrawn, Screen, To, ReviewInv, FormOK

LEMMA NoEstimateOK == NoEstimate \in Estimate /\ NoEstimate.of = Nobody
BY DEF NoEstimate, Estimate

LEMMA EstimatedKeeps ==
    ASSUME ReviewInv, NEW r \in Reviews, Estimated(r) PROVE ReviewInv'
<1> DEFINE w == reviews[r].of
<1>1. w \in Selection /\ w # Nobody /\ reviews' = [reviews EXCEPT ![r] = NoEstimate]
  BY DEF Estimated, ReviewInv, FormOK, Estimate
<1>2. UNCHANGED <<selected, typed, chosen, rows, settings, cleaned>>
  BY DEF Estimated, page
<1>3. reviews' \in [Reviews -> Estimate] /\ LiveIsSelected'
  BY <1>1, <1>2, NoEstimateOK DEF ReviewInv, FormOK, LiveIsSelected
<1>4. CASE reviews[r].stale
  <2>1. shown' = Redrawn
    BY <1>4 DEF Estimated
  <2> QED BY <1>2, <1>3, <2>1, RedrawnOK DEF ReviewInv, FormOK, ReviewIsCurrent
<1>5. CASE ~reviews[r].stale
  <2>1. shown' = Review(cleaned, w)
    BY <1>5 DEF Estimated
  <2>2. shown' \in Screen /\ shown'.of = w /\ shown'.to = cleaned
    BY <1>1, <2>1, ReviewOfWallet DEF ReviewInv, FormOK
  <2>3. w \in {selected, NoWallet}
    BY <1>1, <1>5 DEF ReviewInv, LiveIsSelected
  <2> QED BY <1>2, <1>3, <2>2, <2>3 DEF ReviewInv, FormOK, ReviewIsCurrent
<1> QED BY <1>4, <1>5

LEMMA FormSteps ==
    ASSUME ReviewInv,
           Type \/ ChangeRows \/ ReviewRefused \/ Edit \/ \E r \in Reviews : ReviewSend(r)
    PROVE  ReviewInv'
<1>1. CASE Type \/ ChangeRows
  BY <1>1, ReviewStays DEF Type, ChangeRows, page, ReviewInv, FormOK
<1>2. CASE ReviewRefused \/ Edit
  <2>1. FormOK' /\ shown' = NoReview /\ UNCHANGED <<selected, reviews>>
    BY <1>2, NoReviewOK DEF ReviewRefused, Edit, page, ReviewInv, FormOK
  <2> QED BY <2>1 DEF ReviewInv, LiveIsSelected, ReviewIsCurrent
<1>3. ASSUME NEW r \in Reviews, ReviewSend(r) PROVE ReviewInv'
  <2>1. /\ reviews' = [reviews EXCEPT ![r] = [of |-> selected, stale |-> FALSE]]
        /\ UNCHANGED <<selected, typed, chosen, shown>>
        /\ cleaned' = typed /\ rows' = typed /\ settings' = chosen
    BY <1>3 DEF ReviewSend, page
  <2>2. FormOK'
    BY <2>1 DEF ReviewInv, FormOK, Estimate
  <2>3. LiveIsSelected'
    BY <2>1 DEF ReviewInv, FormOK, LiveIsSelected
  <2>4. reviews'[r].of # Nobody /\ ~reviews'[r].stale
    BY <2>1, WalletAssumption DEF ReviewInv, FormOK, Selection
  <2> QED BY <2>1, <2>2, <2>3, <2>4 DEF ReviewInv, ReviewIsCurrent
<1> QED BY <1>1, <1>2, <1>3

LEMMA SelectKeeps ==
    ASSUME ReviewInv, NEW w \in Wallets, SelectWallet(w) PROVE ReviewInv'
<1>1. \A r \in Reviews : /\ reviews'[r].of = reviews[r].of
                         /\ reviews'[r].stale <=> reviews[r].of # Nobody
  BY DEF SelectWallet, ReviewInv, FormOK, Estimate
<1>2. reviews' \in [Reviews -> Estimate]
  BY DEF SelectWallet, ReviewInv, FormOK, Estimate
<1>3. FormOK'
  BY <1>2, NoReviewOK, WalletAssumption DEF SelectWallet, ReviewInv, FormOK, Selection
<1> QED BY <1>1, <1>3 DEF SelectWallet, ReviewInv, LiveIsSelected, ReviewIsCurrent

(* The wallet is taken from the page: what is on screen or under way       *)
(* belongs to none from now on.                                            *)
LEMMA TakenKeeps ==
    ASSUME ReviewInv, NEW w \in Selection, Taken(w) PROVE ReviewInv'
<1>1. UNCHANGED <<typed, chosen, rows, settings, cleaned>> /\ selected' = w
  BY DEF Taken
<1>2. /\ shown' \in Screen /\ shown'.to = shown.to
      /\ shown = NoReview => shown' = NoReview
      /\ shown # NoReview => shown'.of = NoWallet
  BY DEF Taken, ReviewInv, FormOK, Screen, Selection
<1>3. ASSUME NEW r \in Reviews
      PROVE  /\ reviews'[r] \in Estimate /\ (reviews'[r].stale <=> reviews[r].stale)
             /\ reviews[r].of = Nobody => reviews'[r].of = Nobody
             /\ reviews[r].of # Nobody => reviews'[r].of = NoWallet
  BY DEF Taken, ReviewInv, FormOK, Estimate, Selection
<1>4. reviews' \in [Reviews -> Estimate]
  BY <1>3 DEF Taken
<1>5. FormOK'
  BY <1>1, <1>2, <1>4 DEF ReviewInv, FormOK
<1>6. LiveIsSelected'
  BY <1>3 DEF LiveIsSelected
<1>7. (\A r \in Reviews : reviews'[r].of = Nobody \/ reviews'[r].stale)
         => \A r \in Reviews : reviews[r].of = Nobody \/ reviews[r].stale
  BY <1>3, WalletAssumption
<1> QED BY <1>1, <1>2, <1>5, <1>6, <1>7 DEF ReviewInv, ReviewIsCurrent

LEMMA SentKeeps ==
    ASSUME ReviewInv, NEW o \in Ops, Sent(o) PROVE ReviewInv'
<1>1. UNCHANGED <<selected, chosen, settings, reviews>>
  BY DEF Sent, page
<1>2. CASE ~op[o].stale
  <2>1. typed' = Blank /\ rows' = Blank /\ cleaned' = Blank /\ shown' = NoReview
    BY <1>2 DEF Sent
  <2> QED BY <1>1, <2>1, NoReviewOK DEF ReviewInv, FormOK, LiveIsSelected, ReviewIsCurrent
<1>3. CASE op[o].stale
  <2>1. typed' = rows /\ UNCHANGED <<rows, cleaned>> /\ shown' = Redrawn
    BY <1>3 DEF Sent
  <2> QED BY <1>1, <2>1, RedrawnOK DEF ReviewInv, FormOK, LiveIsSelected, ReviewIsCurrent
<1> QED BY <1>2, <1>3

LEMMA ReviewStep ==
    ASSUME ReviewInv, [Next]_vars PROVE ReviewInv'
<1>1. ASSUME NEW o \in Ops, ConfirmSend(o) PROVE ReviewInv'
  BY <1>1, ReviewBusy DEF ConfirmSend, page
<1>2. ASSUME NEW o \in Ops, Failed(o) PROVE ReviewInv'
  <2>1. CASE shown.busy = o /\ shown # NoReview
    BY <1>2, <2>1, ReviewBusy DEF Failed, page
  <2>2. CASE shown' = shown
    BY <1>2, <2>2, ReviewStays DEF Failed, page, ReviewInv, FormOK
  <2>3. CASE shown.busy = o /\ shown = NoReview
    <3>1. shown' = shown
      BY <1>2, <2>3 DEF Failed, NoReview
    <3> QED BY <2>2, <3>1
  <2> QED BY <1>2, <2>1, <2>2, <2>3 DEF Failed
<1>3. CASE UNCHANGED <<selected, form>>
  BY <1>3, ReviewStays DEF form, ReviewInv, FormOK
<1>4. CASE Poll \/ Polled \/ HistoryRedrawn \/ TypeRate \/ ClearPsbt \/ Arm \/ Disarm \/ UNCHANGED vars
  BY <1>3, <1>4 DEF Poll, Polled, HistoryRedrawn, TypeRate, ClearPsbt, Arm, Disarm, vars, page
<1>5. ASSUME NEW o \in Ops, \/ SignPsbt(o) \/ PreviewBump(o) \/ WalletRead(o) \/ ExecuteBump(o)
                            \/ Send(o) \/ Previewed(o) \/ Bumped(o) \/ \E l \in Loads : PsbtSigned(o, l)
      PROVE ReviewInv'
  BY <1>3, <1>5 DEF SignPsbt, PreviewBump, WalletRead, ExecuteBump, Send, Previewed, Bumped, PsbtSigned, page
<1>6. ASSUME NEW l \in Loads, \/ \E text \in Texts : LoadPsbt(l, text)
                              \/ OpenPsbtInPanel(l) \/ Unload(l) \/ AskOwner(l) \/ Loaded(l)
      PROVE ReviewInv'
  BY <1>3, <1>6 DEF LoadPsbt, OpenPsbtInPanel, Unload, AskOwner, Loaded, page
<1>7. CASE UnloadCurrent \/ RefreshWalletList
  BY <1>7, TakenKeeps DEF UnloadCurrent, RefreshWalletList, Selection
<1> QED BY <1>1, <1>2, <1>4, <1>5, <1>6, <1>7, EstimatedKeeps, FormSteps, SelectKeeps, SentKeeps
        DEF Next

(* The review on screen is of the wallet in use, unless that was unloaded  *)
(* from under it, and of the recipients its button pays (onReviewSend,     *)
(* onConfirmSend, selectWallet and unloadCurrent of wallet.js).            *)
THEOREM ReviewsStayCurrent == Spec => []ReviewIsCurrent
<1>1. ReviewInv /\ [Next]_vars => ReviewInv'
  BY ReviewStep
<1> QED BY ReviewInit, <1>1, PTL DEF Spec, ReviewInv
-----------------------------------------------------------------------------
(* The PSBT panel.                                                         *)

AnyText == Texts \cup {Nobody}
Stamps == [text : AnyText, complete : BOOLEAN, could : BOOLEAN, keyless : BOOLEAN,
           have : BOOLEAN]
Psbts == [text : AnyText, complete : BOOLEAN, could : BOOLEAN]
Rows == [stamp : Stamps, buttons : SUBSET {"sign", "broadcast"}, armed : AnyText]
SomeLoad == [text : AnyText, of : Selection \cup {Nobody}]

(* A click is a record; what its argument is depends on its kind.          *)
ClickFields == {"kind", "at", "arg", "of", "stale", "drift"}
OpsOK ==
    /\ op = [o \in Ops |-> op[o]]
    /\ \A o \in Ops : DOMAIN op[o] = ClickFields
    /\ \A o \in Ops : op[o].kind = "sign" /\ op[o].at \in {"asking", "gate", "sent"}
            => op[o].arg \in Texts

(* The variables of the panel have their types, and so has a PSBT that is  *)
(* being read.                                                             *)
PanelOK ==
    /\ psbt \in Psbts /\ (psbt # NoPsbt => psbt.text \in Texts)
    /\ row \in Rows
    /\ loads \in [Loads -> SomeLoad]
    /\ \A l \in Loads : loads[l] # NoLoad => loads[l].text \in Texts

(* A row's buttons are what its stamp allows, and it is armed for the PSBT *)
(* of its stamp only; the stamp is of the PSBT loaded, if there is one.    *)
Allowed(stamp) ==
    {b \in {"sign", "broadcast"} :
        IF b = "sign" THEN ~stamp.complete /\ stamp.have /\ ~stamp.keyless /\ stamp.could
        ELSE stamp.complete}
RowOK ==
    /\ row # NoRow => row.buttons = Allowed(row.stamp)
    /\ row.armed \in {Nobody, row.stamp.text}
    /\ psbt # NoPsbt => /\ row.stamp.text = psbt.text
                        /\ row.stamp.complete <=> psbt.complete
                        /\ row.stamp.could <=> psbt.could
                        /\ row.stamp.keyless => \E w \in Wallets : w \in Keyless

PsbtInv == PanelOK /\ OpsOK /\ RowOK /\ selected \in Selection

LEMMA StampOK ==
    ASSUME NEW p \in Psbts, NEW of
    PROVE  /\ Stamp(p, of) \in Stamps
           /\ Buttons(p, of, HaveWallet) = Allowed(Stamp(p, of))
           /\ Buttons(p, of, HaveWallet) \subseteq {"sign", "broadcast"}
           /\ Stamp(p, of).text = p.text /\ (Stamp(p, of).complete <=> p.complete)
           /\ Stamp(p, of).could <=> p.could
           /\ Stamp(p, of).keyless => \E w \in Wallets : w \in Keyless
<1>1. WatchOnly(of) \in BOOLEAN /\ HaveWallet \in BOOLEAN
  BY DEF WatchOnly, HaveWallet
<1>2. Stamp(p, of) \in Stamps
  BY <1>1 DEF Stamp, Stamps, Psbts
<1>3. Stamp(p, of).keyless => \E w \in Wallets : w \in Keyless
  BY <1>1, WalletAssumption DEF Stamp, WatchOnly
<1> QED BY <1>1, <1>2, <1>3 DEF Stamp, Stamps, Psbts, Buttons, SignEnabled, Allowed

LEMMA NoRowOK == NoRow \in Rows /\ NoRow.armed = Nobody /\ NoRow.stamp.text = Nobody
BY DEF NoRow, NoStamp, Rows, Stamps, AnyText

(* Drawing the row: what it shows fits its stamp, and the PSBT.            *)
LEMMA DrawnRow ==
    ASSUME PsbtInv, NEW p \in Psbts, p # NoPsbt => p.text \in Texts, NEW of,
           row' = Drawn(p, of), psbt' = p
    PROVE  RowOK' /\ row' \in Rows
<1>1. CASE p = NoPsbt
  <2>1. row' = NoRow
    BY <1>1 DEF Drawn
  <2> QED BY <1>1, <2>1, NoRowOK DEF RowOK
<1>2. CASE p # NoPsbt /\ row.stamp = Stamp(p, of)
  <2>1. row' = row
    BY <1>2 DEF Drawn
  <2>2. row.stamp.text = p.text /\ row # NoRow
    BY <1>2, NoRowOK, PsbtAssumption DEF Stamp
  <2> QED BY <1>2, <2>1, <2>2, StampOK DEF RowOK, PsbtInv, PanelOK
<1>3. CASE p # NoPsbt /\ row.stamp # Stamp(p, of)
  <2>1. row' = [stamp |-> Stamp(p, of), buttons |-> Buttons(p, of, HaveWallet), armed |-> Nobody]
    BY <1>3 DEF Drawn
  <2>2. row' \in Rows
    BY <2>1, StampOK DEF Rows, AnyText
  <2> QED BY <1>3, <2>1, <2>2, StampOK DEF RowOK
<1> QED BY <1>1, <1>2, <1>3

LEMMA NoPsbtOK == NoPsbt \in Psbts /\ NoPsbt.text = Nobody
BY DEF NoPsbt, Psbts, AnyText

LEMMA PsbtInit == ASSUME Init PROVE PsbtInv
BY NoPsbtOK, NoRowOK DEF Init, PsbtInv, PanelOK, OpsOK, RowOK, NoOp, NoLoad, SomeLoad, AnyText,
   ClickFields, Selection

(* A step that changes neither the panel nor what is being signed.         *)
LEMMA PsbtStays ==
    ASSUME PsbtInv, OpsOK', UNCHANGED <<selected, panel>>
    PROVE  PsbtInv'
BY DEF PsbtInv, PanelOK, RowOK, panel

LEMMA StaleClick ==
    ASSUME NEW c, DOMAIN c = ClickFields, NEW stale
    PROVE  LET d == [c EXCEPT !.stale = stale]
           IN  DOMAIN d = ClickFields /\ d.kind = c.kind /\ d.at = c.at /\ d.arg = c.arg
BY DEF ClickFields

LEMMA PsbtPage ==
    ASSUME PsbtInv, Poll \/ Polled \/ UnloadCurrent \/ RefreshWalletList \/ \E w \in Wallets : SelectWallet(w) PROVE PsbtInv'
<1>1. CASE Poll
  BY <1>1, PsbtStays DEF Poll, panel, PsbtInv, OpsOK
<1>2. CASE Polled
  <2>1. row' = Drawn(psbt, info') /\ UNCHANGED <<selected, op, psbt, loads>>
    BY <1>2 DEF Polled
  <2>2. RowOK' /\ row' \in Rows
    BY <2>1, DrawnRow DEF PsbtInv, PanelOK, RowOK
  <2> QED BY <2>1, <2>2 DEF PsbtInv, PanelOK, OpsOK
<1>3. ASSUME NEW w \in Wallets, SelectWallet(w) PROVE PsbtInv'
  <2>1. psbt' = NoPsbt /\ selected' = w /\ UNCHANGED <<row, loads>>
        /\ op' = [o \in Ops |-> [op[o] EXCEPT !.stale = UnderWay(o) /\ op[o].kind # "sign"]]
    BY <1>3 DEF SelectWallet
  <2>2. ASSUME NEW o \in Ops
        PROVE  DOMAIN op'[o] = ClickFields /\ op'[o].kind = op[o].kind
               /\ op'[o].at = op[o].at /\ op'[o].arg = op[o].arg
    BY <2>1, StaleClick DEF PsbtInv, OpsOK
  <2>3. OpsOK'
    BY <2>1, <2>2 DEF PsbtInv, OpsOK
  <2> QED BY <2>1, <2>3, NoPsbtOK DEF PsbtInv, PanelOK, RowOK, Selection
<1>4. ASSUME NEW w \in Selection, Taken(w) PROVE PsbtInv'
  BY <1>4 DEF Taken, panel, PsbtInv, PanelOK, RowOK, OpsOK
<1> QED BY <1>1, <1>2, <1>3, <1>4 DEF UnloadCurrent, RefreshWalletList, Selection

LEMMA BeginOps ==
    ASSUME OpsOK, NEW o \in Ops, NEW kind, NEW arg, NEW drift, Begin(o, kind, arg, drift),
           kind = "sign" => arg \in Texts
    PROVE  OpsOK'
BY DEF OpsOK, Begin, NoOp, ClickFields

LEMMA OverOps == ASSUME OpsOK, NEW o \in Ops, op' = Over(o) PROVE OpsOK'
BY DEF OpsOK, Over, NoOp, ClickFields

LEMMA SentClick ==
    ASSUME NEW c, DOMAIN c = ClickFields, NEW arg, NEW drift
    PROVE  LET d == [c EXCEPT !.at = "sent", !.arg = arg, !.drift = drift]
           IN  DOMAIN d = ClickFields /\ d.kind = c.kind /\ d.arg = arg
BY DEF ClickFields

LEMMA SendOps == ASSUME OpsOK, NEW o \in Ops, Send(o) PROVE OpsOK'
<1> DEFINE c == op[o]
<1> DEFINE arg == CASE c.kind = "preview" -> rate
                    [] c.kind = "sign" /\ selected \in Signer[c.arg] -> Signed[c.arg]
                    [] OTHER -> c.arg
<1> DEFINE drift == c.drift \/ (c.kind = "bump" /\ c.arg # rate)
<1>1. c.at = "gate" /\ DOMAIN c = ClickFields
  BY DEF OpsOK, Send
<1>2. c.kind = "sign" => arg \in Texts
  <2>1. c.kind = "sign" => c.arg \in Texts /\ Signed[c.arg] \in Texts
    BY <1>1, PsbtAssumption DEF OpsOK
  <2> QED BY <2>1
<1>3. op' = [op EXCEPT ![o] = [c EXCEPT !.at = "sent", !.arg = arg, !.drift = drift]]
  BY <1>1 DEF Send, OpsOK
<1> HIDE DEF arg, drift
<1>4. op' = [p \in Ops |-> op'[p]] /\ op'[o] = [c EXCEPT !.at = "sent", !.arg = arg, !.drift = drift]
      /\ \A p \in Ops \ {o} : op'[p] = op[p]
  BY <1>3 DEF OpsOK
<1>5. DOMAIN op'[o] = ClickFields /\ op'[o].kind = c.kind /\ op'[o].arg = arg
  BY <1>1, <1>4, SentClick
<1> QED BY <1>2, <1>4, <1>5 DEF OpsOK

LEMMA BumpOps ==
    ASSUME OpsOK, NEW o \in Ops, PreviewBump(o) \/ WalletRead(o) \/ HistoryRedrawn
    PROVE  OpsOK'
<1>1. CASE PreviewBump(o)
  BY <1>1 DEF PreviewBump, OpsOK, NoOp, ClickFields
<1>2. CASE WalletRead(o)
  BY <1>2 DEF WalletRead, OpsOK, ClickFields
<1>3. CASE HistoryRedrawn
  <2>1. ASSUME NEW q \in Ops
        PROVE  DOMAIN op'[q] = ClickFields /\ op'[q].kind = op[q].kind
               /\ op'[q].at = op[q].at /\ op'[q].arg = op[q].arg
    BY <1>3, StaleClick DEF HistoryRedrawn, OpsOK
  <2> QED BY <1>3, <2>1 DEF HistoryRedrawn, OpsOK
<1> QED BY <1>1, <1>2, <1>3

LEMMA PsbtClicks ==
    ASSUME PsbtInv, NEW o \in Ops,
           \/ ConfirmSend(o) \/ SignPsbt(o) \/ PreviewBump(o) \/ WalletRead(o)
           \/ ExecuteBump(o) \/ HistoryRedrawn \/ Send(o) \/ Failed(o) \/ Sent(o) \/ Previewed(o) \/ Bumped(o)
    PROVE  PsbtInv'
<1>1. UNCHANGED <<selected, panel>>
  BY DEF ConfirmSend, SignPsbt, PreviewBump, WalletRead, ExecuteBump, HistoryRedrawn, Send, Failed,
         Sent, Previewed, Bumped, page
<1>2. OpsOK'
  BY BeginOps, BumpOps, OverOps, SendOps
  DEF ConfirmSend, SignPsbt, ExecuteBump, Failed, Sent, Previewed, Bumped,
      PsbtInv, PanelOK
<1> QED BY <1>1, <1>2, PsbtStays

LEMMA LoadsWith ==
    ASSUME PanelOK, NEW l \in Loads, NEW text \in Texts, NEW of \in Selection \cup {Nobody},
           loads' = [loads EXCEPT ![l] = [text |-> text, of |-> of]]
    PROVE  loads' \in [Loads -> SomeLoad] /\ \A k \in Loads : loads'[k] # NoLoad => loads'[k].text \in Texts
BY DEF PanelOK, SomeLoad, AnyText

LEMMA PsbtLoads ==
    ASSUME PsbtInv, NEW l \in Loads,
           \/ \E text \in Texts : LoadPsbt(l, text)
           \/ OpenPsbtInPanel(l) \/ AskOwner(l) \/ \E o \in Ops : PsbtSigned(o, l)
    PROVE  PsbtInv'
<1>1. UNCHANGED <<selected, psbt, row>>
  BY DEF LoadPsbt, OpenPsbtInPanel, AskOwner, PsbtSigned, page
<1>2. PICK text \in Texts, of \in Selection \cup {Nobody} :
         loads' = [loads EXCEPT ![l] = [text |-> text, of |-> of]]
  <2>1. CASE \E text \in Texts : LoadPsbt(l, text)
    BY <2>1 DEF LoadPsbt
  <2>2. CASE OpenPsbtInPanel(l)
    BY <2>2 DEF OpenPsbtInPanel
  <2>3. CASE AskOwner(l)
    <3>1. loads[l].text \in Texts /\ loads[l] \in SomeLoad /\ loads \in [Loads -> SomeLoad]
      BY <2>3 DEF AskOwner, PsbtInv, PanelOK
    <3>2. [loads[l] EXCEPT !.of = selected] = [text |-> loads[l].text, of |-> selected]
      BY <3>1 DEF SomeLoad
    <3>3. loads' = [loads EXCEPT ![l] = [text |-> loads[l].text, of |-> selected]]
      BY <2>3, <3>1, <3>2 DEF AskOwner
    <3> QED BY <3>1, <3>3 DEF PsbtInv
  <2>4. ASSUME NEW o \in Ops, PsbtSigned(o, l)
        PROVE  \E text \in Texts : \E of \in Selection \cup {Nobody} :
                  loads' = [loads EXCEPT ![l] = [text |-> text, of |-> of]]
    <3>1. op[o].arg \in Texts
      BY <2>4 DEF PsbtSigned, PsbtInv, OpsOK
    <3> QED BY <2>4, <3>1 DEF PsbtSigned
  <2> QED BY <2>1, <2>2, <2>3, <2>4
<1>3. OpsOK'
  <2>1. CASE op' = op
    BY <2>1 DEF PsbtInv, OpsOK
  <2> QED BY <2>1, OverOps DEF LoadPsbt, OpenPsbtInPanel, AskOwner, PsbtSigned, PsbtInv
<1>4. PanelOK'
  BY <1>1, <1>2, LoadsWith DEF PsbtInv, PanelOK
<1> QED BY <1>1, <1>3, <1>4 DEF PsbtInv, RowOK

LEMMA PsbtDrawn ==
    ASSUME PsbtInv, ClearPsbt \/ \E l \in Loads : Unload(l) \/ Loaded(l) PROVE PsbtInv'
<1>1. UNCHANGED <<selected, op, info>>
  BY DEF ClearPsbt, Unload, Loaded, page
<1>2. loads' \in [Loads -> SomeLoad] /\ \A l \in Loads : loads'[l] # NoLoad => loads'[l].text \in Texts
  BY DEF ClearPsbt, Unload, Loaded, PsbtInv, PanelOK, NoLoad, SomeLoad, AnyText
<1>3. CASE psbt' = NoPsbt /\ row' = Drawn(NoPsbt, info)
  <2>1. RowOK' /\ row' \in Rows
    BY <1>3, DrawnRow, NoPsbtOK
  <2> QED BY <1>1, <1>2, <1>3, <2>1, NoPsbtOK DEF PsbtInv, PanelOK, OpsOK
<1>4. ASSUME NEW l \in Loads, Loaded(l) PROVE PsbtInv'
  <2>1. /\ psbt' = [text |-> loads[l].text, complete |-> loads[l].text \in Complete,
                    could |-> loads[l].of \in Signer[loads[l].text]]
        /\ row' = Drawn(psbt', info) /\ loads[l].of # Nobody
    BY <1>4, <1>1 DEF Loaded
  <2>2. loads[l].text \in Texts
    BY <2>1 DEF PsbtInv, PanelOK, NoLoad
  <2>3. psbt' \in Psbts /\ psbt'.text \in Texts
    BY <2>1, <2>2 DEF Psbts, AnyText
  <2>5. RowOK' /\ row' \in Rows
    BY <2>1, <2>3, DrawnRow
  <2> QED BY <1>1, <1>2, <2>3, <2>5 DEF PsbtInv, PanelOK, OpsOK
<1> QED BY <1>1, <1>3, <1>4 DEF ClearPsbt, Unload

LEMMA PsbtArm == ASSUME PsbtInv, Arm \/ Disarm PROVE PsbtInv'
<1>1. UNCHANGED <<selected, op, psbt, loads>>
  BY DEF Arm, Disarm, page
<1>2. PICK armed \in {Nobody, row.stamp.text} : row' = [row EXCEPT !.armed = armed]
  BY DEF Arm, Disarm
<1>3. row.stamp.text \in AnyText
  BY DEF PsbtInv, PanelOK, Rows, Stamps
<1>4. row' \in Rows /\ row'.stamp = row.stamp /\ row'.buttons = row.buttons /\ row'.armed = armed
  BY <1>2, <1>3 DEF PsbtInv, PanelOK, Rows, AnyText
<1>5. row' # NoRow => row.buttons = Allowed(row.stamp)
  <2>1. CASE row = NoRow
    BY <2>1 DEF NoRow, NoStamp, Allowed
  <2>2. CASE row # NoRow
    BY <2>2 DEF PsbtInv, RowOK
  <2> QED BY <2>1, <2>2
<1> QED BY <1>1, <1>2, <1>4, <1>5 DEF PsbtInv, PanelOK, OpsOK, RowOK

LEMMA PsbtStep ==
    ASSUME PsbtInv, [Next]_vars PROVE PsbtInv'
<1>1. CASE Type \/ ChangeRows \/ ReviewRefused \/ Edit \/ TypeRate \/ UNCHANGED vars
           \/ \E r \in Reviews : ReviewSend(r) \/ Estimated(r)
  <2>1. UNCHANGED <<selected, op, panel>>
    BY <1>1 DEF Type, ChangeRows, ReviewRefused, Edit, TypeRate, vars, ReviewSend, Estimated, page
  <2> QED BY <2>1, PsbtStays DEF PsbtInv, OpsOK
<1>2. CASE HistoryRedrawn
  <2>1. CASE Ops = {}
    BY <1>2, <2>1 DEF HistoryRedrawn, page, panel, PsbtInv, PanelOK, OpsOK, RowOK
  <2>2. CASE \E o \in Ops : TRUE
    BY <1>2, <2>2, PsbtClicks
  <2> QED BY <2>1, <2>2
<1> QED BY <1>1, <1>2, PsbtPage, PsbtClicks, PsbtLoads, PsbtDrawn, PsbtArm DEF Next

(* The buttons of the PSBT panel are those of the PSBT it holds, and an    *)
(* armed broadcast is for that PSBT (renderPsbt, broadcastPsbt of          *)
(* wallet.js), whatever is read, signed, cleared or switched meanwhile.    *)
THEOREM RowsFit == Spec => []RowFitsPsbt
<1>1. PsbtInv /\ [Next]_vars => PsbtInv'
  BY PsbtStep
<1>2. PsbtInv => RowFitsPsbt
  <2> SUFFICES ASSUME PsbtInv, psbt # NoPsbt
               PROVE  /\ \E of \in Wallets \cup {Nobody}, have \in BOOLEAN :
                         row.buttons = Buttons(psbt, of, have)
                      /\ row.armed # Nobody => psbt.text = row.armed
    BY DEF RowFitsPsbt
  <2>1. row # NoRow /\ row.buttons = Allowed(row.stamp)
    BY NoRowOK, PsbtAssumption DEF PsbtInv, PanelOK, RowOK
  <2>2. PICK of \in Wallets \cup {Nobody} : row.stamp.keyless <=> of \in Keyless
    BY WalletAssumption DEF PsbtInv, RowOK, PanelOK, Rows, Stamps
  <2>3. row.stamp.have \in BOOLEAN /\ row.buttons = Buttons(psbt, of, row.stamp.have)
    BY <2>1, <2>2 DEF PsbtInv, PanelOK, RowOK, Rows, Stamps, Psbts, Allowed, Buttons, SignEnabled, WatchOnly
  <2>4. row.armed # Nobody => psbt.text = row.armed
    BY DEF PsbtInv, RowOK
  <2> QED BY <2>3, <2>4
<1> QED BY PsbtInit, <1>1, <1>2, PTL DEF Spec
=============================================================================
