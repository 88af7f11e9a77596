---------------------------- MODULE WalletUnlock -----------------------------
(***************************************************************************)
(* The borrowed unlock of the web UI's wallet page: withUnlocked of        *)
(* wallet-crypt.js as wallet.js wires it to the inline forms of the        *)
(* Security tab.  A click that needs the wallet's keys (a send, a          *)
(* signature, a fee bump) looks whether the wallet is locked, raises the   *)
(* unlock form if it is, runs, and locks the wallet again.                 *)
(*                                                                         *)
(* One page in one login session, one wallet selected.  Every request is   *)
(* two steps, the node carrying it out and the page handling the answer;   *)
(* whatever else the user can click lies in between.  The user may go to   *)
(* any tab at any time, so the tab on screen restricts nothing.            *)
(***************************************************************************)
EXTENDS Naturals

CONSTANTS
    Ops,      \* clicks that need the wallet's keys; each is made once
    Hand,     \* a form of the Security tab the user opened without being asked
    Nobody,
    MayLose   \* BOOLEAN: may a request about the lock, or its answer, be lost

ASSUME OwnerAssumption ==
    /\ Hand \notin Ops /\ Nobody \notin Ops \cup {Hand} /\ Hand # Nobody
    /\ MayLose \in BOOLEAN

VARIABLES
    lock,     \* the wallet on the node: "unencrypted", "no-keys", "locked" ...
    by,       \* whose passphrase unlocked it
    info,     \* state.walletinfo, as the lock state it stands for
    at, got,  \* per click: how far it is, the answer it waits to handle
    said,     \* per click: did its prompt's form report an unlock
    slip,     \* per click: why it may have left the wallet unlocked
    panel,    \* whose form the Security tab shows
    form,     \* per form: how far its request is
    hand      \* what the form opened by hand asks for

unlocking == <<lock, by, info>>
clicks == <<at, got, said, slip>>
forms == <<panel, form, hand>>
vars == <<unlocking, clicks, forms>>

Owners == Ops \cup {Hand}
Ended == {"ok", "failed", "cancelled"}
InFlight == {"sent", "ok", "read"}

(* What an answer may be: what it is, or lost.                             *)
Answer(a) == IF MayLose THEN {a, "lost"} ELSE {a}

Init ==
    /\ lock \in {"unencrypted", "no-keys", "locked"} /\ by = Nobody /\ info = "unknown"
    /\ at = [o \in Ops |-> "new"] /\ got = [o \in Ops |-> "none"]
    /\ said = [o \in Ops |-> FALSE] /\ slip = [o \in Ops |-> "none"]
    /\ panel = Nobody /\ form = [w \in Owners |-> "none"] /\ hand = "none"

-----------------------------------------------------------------------------
(* The Security tab's panel.  Closing it settles the prompt it belongs to. *)

(* Mutant: the callback is dropped and not called.                         *)
SettledSilently(stages, reported) == stages

(* closeSecPanel fires secPanelOnClose, on which promptUnlock resolves.    *)
Settled(stages, reported) ==
    IF panel \notin Ops THEN stages
    ELSE [stages EXCEPT ![panel] = IF reported[panel] THEN "relook" ELSE "cancelled"]

(* The form taken off the screen; a request of it goes on.                 *)
TakenOff(f) ==
    IF panel # Nobody /\ f[panel] = "open" THEN [f EXCEPT ![panel] = "none"] ELSE f

(* A prompt closed with its passphrase on the way will not know of it.     *)
Dismissed ==
    IF panel \in Ops /\ form[panel] \in InFlight
    THEN [slip EXCEPT ![panel] = "dismissed"] ELSE slip

(* openSecPanel by hand: the buttons renderSecurity offers.                *)
OpenByHand ==
    /\ form[Hand] = "none"
    /\ hand' \in {"unlock", "encrypt", "other"}
    /\ hand' = "unlock" => info = "locked"
    /\ hand' = "encrypt" => info = "unencrypted"
    /\ at' = Settled(at, said) /\ slip' = Dismissed
    /\ panel' = Hand
    /\ form' = [TakenOff(form) EXCEPT ![Hand] = "open"]
    /\ UNCHANGED <<unlocking, got, said>>

Cancel ==
    /\ panel # Nobody
    /\ at' = Settled(at, said) /\ slip' = Dismissed
    /\ panel' = Nobody /\ form' = TakenOff(form)
    /\ UNCHANGED <<unlocking, got, said, hand>>

Submit(w) ==
    /\ panel = w /\ form[w] = "open"
    /\ form' = [form EXCEPT ![w] = "sent"]
    /\ UNCHANGED <<unlocking, clicks, panel, hand>>

Asks(w) == IF w = Hand THEN hand ELSE "unlock"

(* The node carries out a form's request: walletpassphrase, encryptwallet, *)
(* or one that leaves the lock alone.                                      *)
Effect(w) ==
    CASE Asks(w) = "unlock" /\ lock \in {"locked", "unlocked"} -> lock' = "unlocked" /\ by' = w
      [] Asks(w) = "encrypt" /\ lock = "unencrypted" -> lock' = "locked" /\ UNCHANGED by
      [] OTHER -> UNCHANGED <<lock, by>>
NodeForm(w) ==
    /\ form[w] = "sent"
    /\ \/ Effect(w) /\ \E a \in Answer("ok") :
             /\ form' = [form EXCEPT ![w] = IF a = "ok" THEN "ok" ELSE "refused"]
             /\ slip' = IF w \in Ops /\ a = "lost" THEN [slip EXCEPT ![w] = "lost"] ELSE slip
       \/ UNCHANGED <<lock, by, slip>> /\ form' = [form EXCEPT ![w] = "refused"]
    /\ UNCHANGED <<info, at, got, said, panel, hand>>

(* The form's handler after an answer; a form still on screen that was     *)
(* refused can be sent again.                                              *)
PageRefused(w) ==
    /\ form[w] = "refused"
    /\ form' = [form EXCEPT ![w] = IF panel = w THEN "open" ELSE "none"]
    /\ UNCHANGED <<unlocking, clicks, panel, hand>>

(* unlockPanel reads getwalletinfo next; the others close the panel,       *)
(* whoever's it is by now.                                                 *)
PageDone(w) ==
    /\ form[w] = "ok"
    /\ IF Asks(w) = "unlock"
       THEN form' = [form EXCEPT ![w] = "read"] /\ UNCHANGED <<at, slip, panel>>
       ELSE /\ at' = Settled(at, said) /\ slip' = Dismissed
            /\ panel' = Nobody /\ form' = [TakenOff(form) EXCEPT ![w] = "none"]
    /\ UNCHANGED <<unlocking, got, said, hand>>

(* unlockPanel's last part: the prompt is told, the panel is closed.       *)
PageRead(w) ==
    /\ form[w] = "read"
    /\ \E a \in Answer(lock) : info' = IF a = "lost" THEN info ELSE a
    /\ LET told == IF w \in Ops THEN [said EXCEPT ![w] = TRUE] ELSE said
       IN  /\ said' = told /\ at' = Settled(at, told)
           /\ slip' = IF panel = w THEN slip ELSE Dismissed
           /\ form' = [TakenOff(form) EXCEPT ![w] = "none"]
    /\ panel' = Nobody
    /\ UNCHANGED <<lock, by, got, hand>>

-----------------------------------------------------------------------------
(* withUnlocked, for each click.                                           *)

Click(o) ==
    /\ at[o] = "new"
    /\ at' = [at EXCEPT ![o] = "look"]
    /\ UNCHANGED <<unlocking, got, said, slip, forms>>

(* unlockDeps.state: getwalletinfo, before and after the prompt.           *)
NodeLooks(o) ==
    /\ at[o] \in {"look", "relook"}
    /\ at' = [at EXCEPT ![o] = IF @ = "look" THEN "looked" ELSE "relooked"]
    /\ \E a \in Answer(lock) :
          /\ got' = [got EXCEPT ![o] = a]
          /\ slip' = IF a = "lost" THEN [slip EXCEPT ![o] = "lost"] ELSE slip
    /\ UNCHANGED <<unlocking, said, forms>>

(* A failed re-read leaves the previous object in place.                   *)
Reread(o) ==
    /\ info' = IF got[o] = "lost" THEN info ELSE got[o]
    /\ got' = [got EXCEPT ![o] = "none"]

(* Mutant: the panel of another prompt is replaced and not closed.         *)
RaiseOver(o) ==
    /\ at' = [at EXCEPT ![o] = "prompt"]
    /\ slip' = Dismissed /\ panel' = o
    /\ form' = [TakenOff(form) EXCEPT ![o] = "open"]

(* promptUnlock: the prompt's form takes the panel.                        *)
Raise(o) ==
    /\ at' = [Settled(at, said) EXCEPT ![o] = "prompt"]
    /\ slip' = Dismissed /\ panel' = o
    /\ form' = [TakenOff(form) EXCEPT ![o] = "open"]

PageLooked(o) ==
    /\ at[o] = "looked" /\ Reread(o)
    /\ IF info' = "locked"
       THEN Raise(o)
       ELSE at' = [at EXCEPT ![o] = "run"] /\ UNCHANGED <<slip, panel, form>>
    /\ UNCHANGED <<lock, by, said, hand>>

(* Still locked is a cancel.                                               *)
PageRelooked(o) ==
    /\ at[o] = "relooked" /\ Reread(o)
    /\ at' = [at EXCEPT ![o] = IF info' = "locked" THEN "cancelled" ELSE "run"]
    /\ UNCHANGED <<lock, by, said, slip, forms>>

(* The node carries out the click's request; it refuses without the keys,  *)
(* and may for reasons of its own.                                         *)
NodeRuns(o) ==
    /\ at[o] = "run"
    /\ at' = [at EXCEPT ![o] = "ran"]
    /\ \E a \in {"failed"} \cup (IF lock \in {"locked", "no-keys"} THEN {} ELSE {"ok"}) :
          got' = [got EXCEPT ![o] = a]
    /\ UNCHANGED <<unlocking, said, slip, forms>>

(* Mutant: a spend that failed keeps the unlock it borrowed.               *)
PageRanForgets(o) ==
    /\ at[o] = "ran"
    /\ at' = [at EXCEPT ![o] = IF said[o] /\ got[o] = "ok" THEN "lock" ELSE got[o]]
    /\ UNCHANGED <<unlocking, got, said, slip, forms>>

(* What was borrowed is handed back, whatever the answer.                  *)
PageRan(o) ==
    /\ at[o] = "ran"
    /\ at' = [at EXCEPT ![o] = IF said[o] THEN "lock" ELSE got[o]]
    /\ UNCHANGED <<unlocking, got, said, slip, forms>>

(* unlockDeps.lock: walletlock, best effort.                               *)
NodeLocks(o) ==
    /\ at[o] = "lock"
    /\ at' = [at EXCEPT ![o] = "relocked"]
    /\ \/ lock' = "locked" /\ by' = Nobody /\ UNCHANGED slip
       \/ MayLose /\ UNCHANGED <<lock, by>> /\ slip' = [slip EXCEPT ![o] = "lost"]
    /\ UNCHANGED <<info, got, said, forms>>

PageRelocked(o) ==
    /\ at[o] = "relocked"
    /\ \E a \in Answer(lock) : info' = IF a = "lost" THEN info ELSE a
    /\ at' = [at EXCEPT ![o] = got[o]]
    /\ UNCHANGED <<lock, by, got, said, slip, forms>>

-----------------------------------------------------------------------------
(* The node's timer, the lock button (its re-read is RefreshWalletInfo)    *)
(* and the poll.                                                           *)

Relock ==
    /\ lock = "unlocked"
    /\ lock' = "locked" /\ by' = Nobody
    /\ UNCHANGED <<info, clicks, forms>>

LockNow ==
    /\ info = "unlocked" /\ lock \in {"locked", "unlocked"}
    /\ lock' = "locked" /\ by' = Nobody
    /\ UNCHANGED <<info, clicks, forms>>

RefreshWalletInfo ==
    /\ info' = lock
    /\ UNCHANGED <<lock, by, clicks, forms>>

-----------------------------------------------------------------------------
Node(o) == NodeLooks(o) \/ NodeRuns(o) \/ NodeLocks(o)
Page(o) == PageLooked(o) \/ PageRelooked(o) \/ PageRan(o) \/ PageRelocked(o)
Request(w) == NodeForm(w) \/ PageRefused(w) \/ PageDone(w) \/ PageRead(w)

Next ==
    \/ \E o \in Ops : Node(o) \/ Page(o) \/ Click(o)
    \/ \E w \in Owners : Request(w) \/ Submit(w)
    \/ OpenByHand \/ Cancel
    \/ Relock \/ LockNow \/ RefreshWalletInfo

Spec == Init /\ [][Next]_vars

(* Requests are answered or fail, and the user does not leave a form on    *)
(* the screen for ever.                                                    *)
FairSpec ==
    /\ Spec
    /\ \A o \in Ops : WF_vars(Node(o) \/ Page(o))
    /\ \A w \in Owners : WF_vars(Request(w))
    /\ WF_vars(Cancel)

-----------------------------------------------------------------------------
(* Properties.                                                             *)

(* A click that waits for an unlock has its form in the panel: nothing     *)
(* that opens or closes a panel leaves a prompt behind unanswered          *)
(* (closeSecPanel "settles exactly once").                                 *)
PromptHasPanel == \A o \in Ops : at[o] = "prompt" => panel = o

(* Every click comes to an end, with its buttons enabled again, however    *)
(* many prompts, forms and refusals cross.                                 *)
EveryClickEnds == \A o \in Ops : at[o] = "look" ~> at[o] \in Ended

(* An unlock that was borrowed for a click is handed back by the time the  *)
(* click is over, whatever became of it, but in two cases: its prompt was  *)
(* closed with the passphrase already on its way, or a request about the   *)
(* lock was lost.                                                          *)
UnlockHandedBack ==
    \A o \in Ops : by = o /\ at[o] \in Ended => slip[o] # "none"
=============================================================================
