------------------------- MODULE WalletUnlockProofs --------------------------
(***************************************************************************)
(* Proofs about the borrowed unlock, for every set of clicks, with lost    *)
(* requests or without.                                                    *)
(***************************************************************************)
EXTENDS WalletUnlock, TLAPS

Stages ==
    {"new", "look", "looked", "prompt", "relook", "relooked", "run", "ran", "lock", "relocked"}
        \cup Ended
Locks == {"unencrypted", "no-keys", "locked", "unlocked"}
Answers == Locks \cup {"none", "lost", "ok", "failed"}
FormStages == {"none", "open", "sent", "ok", "read", "refused"}

TypeOK ==
    /\ lock \in Locks /\ by \in Owners \cup {Nobody} /\ info \in Locks \cup {"unknown"}
    /\ at \in [Ops -> Stages] /\ got \in [Ops -> Answers]
    /\ said \in [Ops -> BOOLEAN] /\ slip \in [Ops -> {"none", "lost", "dismissed"}]
    /\ panel \in Owners \cup {Nobody} /\ form \in [Owners -> FormStages]
    /\ hand \in {"none", "unlock", "encrypt", "other"}

(* An answer that waits is one to what was asked.                          *)
GotFits == \A o \in Ops :
    /\ at[o] \in {"looked", "relooked"} => got[o] \in Locks \cup {"lost"}
    /\ at[o] \in {"ran", "lock", "relocked"} => got[o] \in {"ok", "failed"}

(* A click waits for its prompt exactly while its form has the panel.      *)
PromptsInPanel == \A o \in Ops : at[o] = "prompt" <=> panel = o

PanelInv == TypeOK /\ GotFits /\ PromptsInPanel

-----------------------------------------------------------------------------
(* Opening and closing the panel.                                          *)

LEMMA OwnersDiffer == Nobody \notin Owners /\ Hand \in Owners /\ Ops \subseteq Owners /\ Hand \notin Ops
BY OwnerAssumption DEF Owners

LEMMA SettledType ==
    ASSUME TypeOK, NEW reported \in [Ops -> BOOLEAN]
    PROVE  /\ Settled(at, reported) \in [Ops -> Stages]
           /\ \A o \in Ops : Settled(at, reported)[o] =
                 IF panel = o THEN IF reported[o] THEN "relook" ELSE "cancelled" ELSE at[o]
BY DEF TypeOK, Settled, Stages, Ended

LEMMA TakenOffType ==
    ASSUME TypeOK
    PROVE  /\ TakenOff(form) \in [Owners -> FormStages]
           /\ \A w \in Owners : TakenOff(form)[w] =
                 IF panel = w /\ form[w] = "open" THEN "none" ELSE form[w]
BY OwnersDiffer DEF TypeOK, TakenOff, FormStages

LEMMA DismissedType ==
    ASSUME TypeOK
    PROVE  /\ Dismissed \in [Ops -> {"none", "lost", "dismissed"}]
           /\ \A o \in Ops : Dismissed[o] =
                 IF panel = o /\ form[o] \in InFlight THEN "dismissed" ELSE slip[o]
BY OwnersDiffer DEF TypeOK, Dismissed, InFlight

LEMMA AnswerType == \A a \in Locks : Answer(a) \subseteq Answers /\ \A b \in Answer(a) : b = a \/ b = "lost"
BY DEF Answer, Locks, Answers

-----------------------------------------------------------------------------
(* Types and the panel.                                                    *)

LEMMA PanelInit == ASSUME Init PROVE PanelInv
BY OwnersDiffer
DEF Init, PanelInv, TypeOK, GotFits, PromptsInPanel, Stages, Locks, Answers, FormStages

(* A step of a click that leaves the panel alone.                          *)
LEMMA PanelStays ==
    ASSUME PanelInv, NEW o \in Ops, NEW stage \in Stages, at[o] # "prompt", stage # "prompt",
           at' = [at EXCEPT ![o] = stage], got' \in [Ops -> Answers],
           \A q \in Ops : q # o => got'[q] = got[q],
           stage \in {"looked", "relooked"} => got'[o] \in Locks \cup {"lost"},
           stage \in {"ran", "lock", "relocked"} => got'[o] \in {"ok", "failed"},
           lock' \in Locks, by' \in Owners \cup {Nobody}, info' \in Locks \cup {"unknown"},
           slip' \in [Ops -> {"none", "lost", "dismissed"}], said' = said, UNCHANGED forms
    PROVE  PanelInv'
<1>1. TypeOK'
  BY DEF PanelInv, TypeOK, forms
<1>2. GotFits'
  BY DEF PanelInv, TypeOK, GotFits
<1>3. PromptsInPanel'
  BY DEF PanelInv, TypeOK, PromptsInPanel, forms
<1> QED BY <1>1, <1>2, <1>3 DEF PanelInv

LEMMA PanelClick ==
    ASSUME PanelInv, NEW o \in Ops, Node(o) \/ Page(o) \/ Click(o) PROVE PanelInv'
<1> USE DEF PanelInv
<1>1. CASE Click(o)
  <2>1. "look" \in Stages
    BY DEF Stages
  <2> QED BY <1>1, <2>1, PanelStays DEF Click, TypeOK, unlocking
<1>2. CASE NodeLooks(o)
  <2>1. PICK a \in Answer(lock) : got' = [got EXCEPT ![o] = a]
    BY <1>2 DEF NodeLooks
  <2>2. a \in Locks \cup {"lost"} /\ a \in Answers
    BY AnswerType DEF TypeOK
  <2>3. slip' \in [Ops -> {"none", "lost", "dismissed"}]
    BY <1>2 DEF NodeLooks, TypeOK
  <2>4. PICK stage \in {"looked", "relooked"} : at' = [at EXCEPT ![o] = stage]
    BY <1>2 DEF NodeLooks
  <2>5. stage \in Stages /\ stage # "prompt" /\ at[o] # "prompt"
    BY <1>2 DEF Stages, NodeLooks
  <2> QED BY <1>2, <2>1, <2>2, <2>3, <2>4, <2>5, PanelStays DEF NodeLooks, TypeOK, unlocking
<1>3. CASE NodeRuns(o)
  <2>1. PICK a \in {"ok", "failed"} : got' = [got EXCEPT ![o] = a]
    BY <1>3 DEF NodeRuns
  <2>2. a \in Answers /\ "ran" \in Stages
    BY DEF Answers, Stages
  <2> QED BY <1>3, <2>1, <2>2, PanelStays DEF NodeRuns, TypeOK, unlocking
<1>4. CASE NodeLocks(o)
  <2>1. "relocked" \in Stages /\ lock' \in Locks /\ by' \in Owners \cup {Nobody}
    BY <1>4 DEF NodeLocks, TypeOK, Stages, Locks
  <2>2. slip' \in [Ops -> {"none", "lost", "dismissed"}] /\ got[o] \in {"ok", "failed"}
    BY <1>4 DEF NodeLocks, TypeOK, GotFits
  <2> QED BY <1>4, <2>1, <2>2, PanelStays DEF NodeLocks, TypeOK
<1>5. CASE PageLooked(o)
  <2>1. /\ at[o] = "looked" /\ got' = [got EXCEPT ![o] = "none"] /\ UNCHANGED <<lock, by, said, hand>>
        /\ info' \in Locks \cup {"unknown"}
    BY <1>5 DEF PageLooked, Reread, TypeOK, GotFits, Locks
  <2>2. got' \in [Ops -> Answers]
    BY <2>1 DEF TypeOK, Answers
  <2>3. CASE info' = "locked"
    <3>1. Raise(o)
      BY <1>5, <2>3 DEF PageLooked
    <3>2. at' \in [Ops -> Stages]
      BY <3>1, SettledType DEF Raise, TypeOK, Stages
    <3>3. \A q \in Ops : at'[q] = IF q = o THEN "prompt"
                                  ELSE IF panel = q THEN IF said[q] THEN "relook" ELSE "cancelled"
                                  ELSE at[q]
      BY <3>1, SettledType DEF Raise, TypeOK
    <3>4. slip' \in [Ops -> {"none", "lost", "dismissed"}] /\ form' \in [Owners -> FormStages]
      BY <3>1, DismissedType, TakenOffType, OwnersDiffer DEF Raise, FormStages
    <3>5. panel' = o
      BY <3>1 DEF Raise
    <3>6. TypeOK'
      BY <2>1, <2>2, <3>2, <3>4, <3>5, OwnersDiffer DEF TypeOK
    <3>7. GotFits'
      BY <2>1, <3>3 DEF GotFits, TypeOK
    <3>8. PromptsInPanel'
      BY <3>3, <3>5 DEF PromptsInPanel
    <3> QED BY <3>6, <3>7, <3>8
  <2>4. CASE info' # "locked"
    <3>1. "run" \in Stages /\ at' = [at EXCEPT ![o] = "run"] /\ UNCHANGED <<slip, forms>>
      BY <1>5, <2>4 DEF PageLooked, Stages, forms
    <3> QED BY <2>1, <2>2, <3>1, PanelStays DEF TypeOK
  <2> QED BY <2>3, <2>4
<1>6. CASE PageRelooked(o)
  <2>1. /\ at[o] = "relooked" /\ got' = [got EXCEPT ![o] = "none"]
        /\ UNCHANGED <<lock, by, said, slip, forms>> /\ info' \in Locks \cup {"unknown"}
    BY <1>6 DEF PageRelooked, Reread, TypeOK, GotFits, Locks
  <2>2. got' \in [Ops -> Answers]
    BY <2>1 DEF TypeOK, Answers
  <2>3. PICK stage \in {"cancelled", "run"} : at' = [at EXCEPT ![o] = stage]
    BY <1>6 DEF PageRelooked
  <2>4. stage \in Stages
    BY DEF Stages, Ended
  <2> QED BY <2>1, <2>2, <2>3, <2>4, PanelStays DEF TypeOK
<1>7. CASE PageRan(o)
  <2>1. at[o] = "ran" /\ got[o] \in {"ok", "failed"} /\ UNCHANGED <<unlocking, got, said, slip, forms>>
    BY <1>7 DEF PageRan, GotFits
  <2>2. PICK stage \in {"ok", "failed", "lock"} : at' = [at EXCEPT ![o] = stage]
    BY <1>7, <2>1 DEF PageRan
  <2>3. stage \in Stages
    BY DEF Stages, Ended
  <2> QED BY <2>1, <2>2, <2>3, PanelStays DEF TypeOK, unlocking
<1>8. CASE PageRelocked(o)
  <2>1. at[o] = "relocked" /\ got[o] \in {"ok", "failed"} /\ UNCHANGED <<lock, by, got, said, slip, forms>>
    BY <1>8 DEF PageRelocked, GotFits
  <2>2. info' \in Locks \cup {"unknown"}
    BY <1>8, AnswerType DEF PageRelocked, TypeOK
  <2>3. at' = [at EXCEPT ![o] = got[o]] /\ got[o] \in Stages
    BY <1>8, <2>1 DEF PageRelocked, Stages, Ended
  <2> QED BY <2>1, <2>2, <2>3, PanelStays DEF TypeOK
<1> QED BY <1>1, <1>2, <1>3, <1>4, <1>5, <1>6, <1>7, <1>8 DEF Node, Page

(* The panel closed, or opened by hand, with what the prompt in it was     *)
(* told.                                                                   *)
LEMMA PanelCloses ==
    ASSUME PanelInv, NEW told \in [Ops -> BOOLEAN], at' = Settled(at, told), said' = told,
           panel' \in {Nobody, Hand}, slip' \in [Ops -> {"none", "lost", "dismissed"}],
           form' \in [Owners -> FormStages], hand' \in {"none", "unlock", "encrypt", "other"},
           lock' \in Locks, by' \in Owners \cup {Nobody}, info' \in Locks \cup {"unknown"}, got' = got
    PROVE  PanelInv'
<1>1. /\ at' \in [Ops -> Stages]
      /\ \A o \in Ops : at'[o] = IF panel = o THEN IF told[o] THEN "relook" ELSE "cancelled"
                                 ELSE at[o]
  BY SettledType DEF PanelInv
<1>2. TypeOK'
  BY <1>1, OwnersDiffer DEF PanelInv, TypeOK
<1>3. GotFits'
  BY <1>1 DEF PanelInv, GotFits
<1>4. PromptsInPanel'
  BY <1>1, OwnersDiffer DEF PanelInv, PromptsInPanel
<1> QED BY <1>2, <1>3, <1>4 DEF PanelInv

LEMMA PanelForm ==
    ASSUME PanelInv, NEW w \in Owners, Request(w) \/ Submit(w) PROVE PanelInv'
<1> USE DEF PanelInv
<1>1. CASE Submit(w)
  BY <1>1 DEF Submit, TypeOK, GotFits, PromptsInPanel, FormStages, unlocking, clicks
<1>2. CASE NodeForm(w)
  <2>1. lock' \in Locks /\ by' \in Owners \cup {Nobody}
    BY <1>2 DEF NodeForm, Effect, TypeOK, Locks
  <2>2. form' \in [Owners -> FormStages]
    BY <1>2 DEF NodeForm, TypeOK, FormStages
  <2>3. slip' \in [Ops -> {"none", "lost", "dismissed"}]
    BY <1>2 DEF NodeForm, TypeOK
  <2> QED BY <1>2, <2>1, <2>2, <2>3 DEF NodeForm, TypeOK, GotFits, PromptsInPanel
<1>3. CASE PageRefused(w)
  BY <1>3 DEF PageRefused, TypeOK, GotFits, PromptsInPanel, FormStages, unlocking, clicks
<1>4. CASE PageDone(w)
  <2>1. CASE Asks(w) = "unlock"
    BY <1>4, <2>1 DEF PageDone, TypeOK, GotFits, PromptsInPanel, FormStages, unlocking
  <2>2. CASE Asks(w) # "unlock"
    <3>1. form' \in [Owners -> FormStages] /\ slip' \in [Ops -> {"none", "lost", "dismissed"}]
      BY <1>4, <2>2, TakenOffType, DismissedType DEF PageDone, FormStages
    <3> QED BY <1>4, <2>2, <3>1, PanelCloses DEF PageDone, TypeOK, unlocking
  <2> QED BY <2>1, <2>2
<1>5. CASE PageRead(w)
  <2>1. form' \in [Owners -> FormStages] /\ slip' \in [Ops -> {"none", "lost", "dismissed"}]
    BY <1>5, TakenOffType, DismissedType DEF PageRead, FormStages, TypeOK
  <2>2. info' \in Locks \cup {"unknown"}
    BY <1>5, AnswerType DEF PageRead, TypeOK
  <2>3. said' \in [Ops -> BOOLEAN] /\ at' = Settled(at, said')
    BY <1>5 DEF PageRead, TypeOK
  <2> QED BY <1>5, <2>1, <2>2, <2>3, PanelCloses DEF PageRead, TypeOK
<1> QED BY <1>1, <1>2, <1>3, <1>4, <1>5 DEF Request

LEMMA PanelStep ==
    ASSUME PanelInv, [Next]_vars PROVE PanelInv'
<1> USE DEF PanelInv
<1>1. CASE OpenByHand
  <2>1. form' \in [Owners -> FormStages] /\ slip' \in [Ops -> {"none", "lost", "dismissed"}]
    BY <1>1, TakenOffType, DismissedType DEF OpenByHand, FormStages
  <2> QED BY <1>1, <2>1, PanelCloses DEF OpenByHand, TypeOK, unlocking
<1>2. CASE Cancel
  <2>1. form' \in [Owners -> FormStages] /\ slip' \in [Ops -> {"none", "lost", "dismissed"}]
    BY <1>2, TakenOffType, DismissedType DEF Cancel
  <2> QED BY <1>2, <2>1, PanelCloses DEF Cancel, TypeOK, unlocking
<1>3. CASE Relock \/ LockNow \/ RefreshWalletInfo \/ UNCHANGED vars
  BY <1>3 DEF Relock, LockNow, RefreshWalletInfo, vars, unlocking, clicks, forms,
              TypeOK, GotFits, PromptsInPanel, Locks
<1> QED BY <1>1, <1>2, <1>3, PanelClick, PanelForm DEF Next

(* No click waits for a prompt that is not on the screen, whatever opens   *)
(* or closes panels meanwhile (closeSecPanel, promptUnlock of wallet.js).  *)
THEOREM NoPromptLeftBehind == Spec => []PromptHasPanel
<1>1. PanelInv /\ [Next]_vars => PanelInv'
  BY PanelStep
<1>2. PanelInv => PromptHasPanel
  BY DEF PanelInv, PromptsInPanel, PromptHasPanel
<1> QED BY PanelInit, <1>1, <1>2, PTL DEF Spec
-----------------------------------------------------------------------------
(* Borrowed unlocks.                                                       *)

Before == {"new", "look", "looked"}
Borrowing == {"relook", "relooked", "run", "ran", "lock"}

(* What may be known of a click: before its prompt it has sent nothing; in *)
(* its prompt the wallet is unlocked for it only by a request whose answer *)
(* is still to be handled; later, unless it slipped, no request of it is   *)
(* left that could unlock the wallet, and if the wallet is unlocked for it *)
(* the click knows, and is yet to lock it.                                 *)
Lent(o) ==
    /\ at[o] \in Before => form[o] = "none" /\ ~said[o] /\ by # o
    /\ at[o] = "prompt" => ~said[o] /\ (by = o => form[o] \in {"ok", "read"} \/ slip[o] # "none")
    /\ at[o] \notin Before \cup {"prompt"} /\ slip[o] = "none" =>
         /\ form[o] \in {"none", "refused"}
         /\ by = o => /\ said[o] /\ at[o] \in Borrowing
                      /\ at[o] = "relooked" => got[o] = "unlocked"
    /\ by = o => lock = "unlocked"

LendingInv == PanelInv /\ \A o \in Ops : Lent(o)

LEMMA LendingInit == ASSUME Init PROVE \A o \in Ops : Lent(o)
BY OwnersDiffer DEF Init, Lent, Before

(* A step of other clicks and forms that leaves this one's prompt alone.   *)
LEMMA LentElsewhere ==
    ASSUME NEW o \in Ops, Lent(o), at'[o] = at[o], got'[o] = got[o], said'[o] = said[o],
           slip'[o] = slip[o], form'[o] = form[o], by' # o \/ (by' = by /\ lock' = lock)
    PROVE  Lent(o)'
BY DEF Lent

(* What closing the panel does to a click whose form may have been in it.  *)
LEMMA LentWhenClosed ==
    ASSUME LendingInv, NEW o \in Ops, at'[o] = Settled(at, said)[o], slip'[o] = Dismissed[o],
           form'[o] = TakenOff(form)[o], UNCHANGED <<lock, by>>, got'[o] = got[o], said'[o] = said[o]
    PROVE  Lent(o)'
<1>1. CASE panel = o
  <2>1. at[o] = "prompt" /\ ~said[o]
    BY <1>1 DEF LendingInv, PanelInv, PromptsInPanel, Lent
  <2>2. at'[o] = "cancelled"
    BY <1>1, <2>1, SettledType DEF LendingInv, PanelInv, TypeOK
  <2>3. CASE form[o] \in InFlight
    <3>1. slip'[o] = "dismissed"
      BY <1>1, <2>3, DismissedType DEF LendingInv, PanelInv
    <3> QED BY <2>2, <3>1 DEF Lent, LendingInv, Before
  <2>4. CASE form[o] \notin InFlight
    <3>1. slip'[o] = slip[o]
      BY <1>1, <2>4, DismissedType DEF LendingInv, PanelInv
    <3>2. form'[o] \in {"none", "refused"}
      BY <1>1, <2>4, TakenOffType, OwnersDiffer
      DEF LendingInv, PanelInv, TypeOK, FormStages, InFlight
    <3>3. by = o => slip[o] # "none"
      BY <2>1, <2>4 DEF LendingInv, Lent, InFlight
    <3> QED BY <2>2, <3>1, <3>2, <3>3 DEF LendingInv, Lent, Before
  <2> QED BY <2>3, <2>4
<1>2. CASE panel # o
  <2>1. at'[o] = at[o] /\ slip'[o] = slip[o] /\ form'[o] = form[o]
    BY <1>2, SettledType, DismissedType, TakenOffType, OwnersDiffer DEF LendingInv, PanelInv, TypeOK
  <2> QED BY <2>1, LentElsewhere DEF LendingInv
<1> QED BY <1>1, <1>2

LEMMA LentClick ==
    ASSUME LendingInv, NEW p \in Ops, Node(p) \/ Page(p) \/ Click(p), NEW o \in Ops
    PROVE  Lent(o)'
<1>0. Lent(o) /\ TypeOK
  BY DEF LendingInv, PanelInv
<1> USE DEF TypeOK
<1>1. CASE Click(p)
  BY <1>0, <1>1 DEF Click, Lent, Before, unlocking, forms
<1>2. CASE NodeLooks(p)
  <2>1. CASE p = o
    <3>1. PICK a \in Answer(lock) :
             /\ got' = [got EXCEPT ![o] = a]
             /\ slip' = IF a = "lost" THEN [slip EXCEPT ![o] = "lost"] ELSE slip
      BY <1>2, <2>1 DEF NodeLooks
    <3>2. (a = lock /\ slip'[o] = slip[o]) \/ slip'[o] = "lost"
      BY <1>0, <3>1, AnswerType
    <3> QED BY <1>0, <1>2, <2>1, <3>1, <3>2 DEF NodeLooks, Lent, Before, Borrowing, unlocking, forms
  <2>2. CASE p # o
    BY <1>0, <1>2, <2>2, LentElsewhere DEF NodeLooks, unlocking, forms
  <2> QED BY <2>1, <2>2
<1>3. CASE NodeRuns(p)
  BY <1>0, <1>3 DEF NodeRuns, Lent, Before, Borrowing, unlocking, forms
<1>4. CASE NodeLocks(p)
  <2>1. by' # o \/ (by' = by /\ lock' = lock)
    BY <1>4, OwnersDiffer DEF NodeLocks
  <2>2. CASE p # o
    BY <1>0, <1>4, <2>1, <2>2, LentElsewhere DEF NodeLocks, forms
  <2>3. CASE p = o
    BY <1>0, <1>4, <2>1, <2>3, OwnersDiffer DEF NodeLocks, Lent, Before, Borrowing, forms
  <2> QED BY <2>2, <2>3
<1>5. CASE PageLooked(p)
  <2>1. CASE info' = "locked"
    <3>1. Raise(p) /\ at[p] = "looked" /\ UNCHANGED <<lock, by, said>>
      BY <1>5, <2>1 DEF PageLooked
    <3>2. CASE p = o
      <4>1. at'[o] = "prompt" /\ ~said'[o] /\ by' # o
        BY <1>0, <3>1, <3>2, SettledType DEF Raise, Lent, Before
      <4> QED BY <4>1 DEF Lent, Before
    <3>3. CASE p # o
      <4>1. got'[o] = got[o] /\ said'[o] = said[o]
        BY <1>0, <1>5, <3>1, <3>3 DEF PageLooked, Reread
      <4>2. at'[o] = Settled(at, said)[o] /\ slip'[o] = Dismissed[o] /\ form'[o] = TakenOff(form)[o]
        BY <1>0, <3>1, <3>3, SettledType, TakenOffType, OwnersDiffer DEF Raise
      <4> QED BY <3>1, <4>1, <4>2, LentWhenClosed
    <3> QED BY <3>2, <3>3
  <2>2. CASE info' # "locked"
    BY <1>0, <1>5, <2>2 DEF PageLooked, Reread, Lent, Before, Borrowing
  <2> QED BY <2>1, <2>2
<1>6. CASE PageRelooked(p)
  <2>1. CASE p # o
    BY <1>0, <1>6, <2>1, LentElsewhere DEF PageRelooked, Reread, forms
  <2>2. CASE p = o
    <3>1. at[o] = "relooked" /\ info' = (IF got[o] = "lost" THEN info ELSE got[o])
          /\ UNCHANGED <<lock, by, said, slip, form>>
      BY <1>6, <2>2 DEF PageRelooked, Reread, forms
    <3>2. at'[o] = IF info' = "locked" THEN "cancelled" ELSE "run"
      BY <1>0, <1>6, <2>2 DEF PageRelooked
    <3>3. by = o /\ slip[o] = "none" => got[o] = "unlocked" /\ said[o]
      BY <1>0, <3>1 DEF Lent, Before
    <3> QED BY <1>0, <3>1, <3>2, <3>3 DEF Lent, Before, Borrowing
  <2> QED BY <2>1, <2>2
<1>7. CASE PageRan(p)
  <2>1. CASE p # o
    BY <1>0, <1>7, <2>1, LentElsewhere DEF PageRan, unlocking, forms
  <2>2. CASE p = o
    <3>1. got[o] \in {"ok", "failed"}
      BY <1>7, <2>2 DEF PageRan, LendingInv, PanelInv, GotFits
    <3> QED BY <1>0, <1>7, <2>2, <3>1 DEF PageRan, Lent, Before, Borrowing, unlocking, forms
  <2> QED BY <2>1, <2>2
<1>8. CASE PageRelocked(p)
  <2>1. CASE p # o
    BY <1>0, <1>8, <2>1, LentElsewhere DEF PageRelocked, forms
  <2>2. CASE p = o
    <3>1. got[o] \in {"ok", "failed"}
      BY <1>8, <2>2 DEF PageRelocked, LendingInv, PanelInv, GotFits
    <3> QED BY <1>0, <1>8, <2>2, <3>1 DEF PageRelocked, Lent, Before, Borrowing, forms
  <2> QED BY <2>1, <2>2
<1> QED BY <1>1, <1>2, <1>3, <1>4, <1>5, <1>6, <1>7, <1>8 DEF Node, Page

LEMMA LentForm ==
    ASSUME LendingInv, NEW w \in Owners, Request(w) \/ Submit(w), NEW o \in Ops
    PROVE  Lent(o)'
<1>0. Lent(o) /\ TypeOK /\ (at[o] = "prompt" <=> panel = o) /\ o \in Owners
  BY OwnersDiffer DEF LendingInv, PanelInv, PromptsInPanel
<1> USE DEF TypeOK
<1>1. CASE Submit(w)
  BY <1>0, <1>1 DEF Submit, Lent, Before, unlocking, clicks
<1>2. CASE NodeForm(w)
  <2>1. CASE w = o
    <3>1. form[o] = "sent" /\ UNCHANGED <<at, got, said>> /\ Asks(o) = "unlock"
      BY <1>2, <2>1, OwnersDiffer DEF NodeForm, Asks
    <3>2. at[o] \notin Before
      BY <1>0, <3>1 DEF Lent
    <3>3. CASE UNCHANGED <<lock, by, slip>> /\ form' = [form EXCEPT ![o] = "refused"]
      BY <1>0, <3>1, <3>2, <3>3 DEF Lent
    <3>4. CASE Effect(o) /\ \E a \in Answer("ok") :
                 /\ form' = [form EXCEPT ![o] = IF a = "ok" THEN "ok" ELSE "refused"]
                 /\ slip' = IF a = "lost" THEN [slip EXCEPT ![o] = "lost"] ELSE slip
      <4>1. by' = o => lock' = "unlocked"
        BY <1>0, <3>1, <3>4 DEF Effect, Lent
      <4>2. (form'[o] = "ok" /\ slip'[o] = slip[o]) \/ slip'[o] = "lost"
        BY <1>0, <3>4 DEF Answer
      <4> QED BY <1>0, <3>1, <3>2, <4>1, <4>2 DEF Lent
    <3> QED BY <1>2, <2>1, <3>3, <3>4 DEF NodeForm
  <2>2. CASE w # o
    <3>1. by' # o \/ (by' = by /\ lock' = lock)
      BY <1>0, <1>2, <2>2 DEF NodeForm, Effect, Lent
    <3>2. UNCHANGED <<at, got, said>> /\ form'[o] = form[o] /\ slip'[o] = slip[o]
      BY <1>0, <1>2, <2>2 DEF NodeForm
    <3> QED BY <1>0, <3>1, <3>2, LentElsewhere
  <2> QED BY <2>1, <2>2
<1>3. CASE PageRefused(w)
  BY <1>0, <1>3 DEF PageRefused, Lent, Before, unlocking, clicks
<1>4. CASE PageDone(w)
  <2>1. CASE Asks(w) = "unlock"
    BY <1>0, <1>4, <2>1 DEF PageDone, Lent, Before, unlocking
  <2>2. CASE Asks(w) # "unlock"
    <3>1. w # o
      BY <2>2, OwnersDiffer DEF Asks
    <3>2. form'[o] = TakenOff(form)[o]
      BY <1>0, <1>4, <2>2, <3>1, TakenOffType DEF PageDone
    <3> QED BY <1>4, <2>2, <3>2, LentWhenClosed DEF PageDone, unlocking
  <2> QED BY <2>1, <2>2
<1>5. CASE PageRead(w)
  <2>1. said' \in [Ops -> BOOLEAN] /\ at' = Settled(at, said') /\ UNCHANGED <<lock, by, got>>
    BY <1>0, <1>5 DEF PageRead
  <2>2. CASE w = o
    <3>1. form[o] = "read" /\ form'[o] = "none" /\ said'[o]
      BY <1>0, <1>5, <2>2, TakenOffType DEF PageRead
    <3>2. CASE panel = o
      <4>1. at'[o] = "relook" /\ slip'[o] = slip[o]
        BY <1>0, <1>5, <2>1, <2>2, <3>1, <3>2, SettledType DEF PageRead
      <4> QED BY <1>0, <2>1, <3>1, <4>1 DEF Lent, Before, Borrowing
    <3>3. CASE panel # o
      <4>1. at'[o] = at[o]
        BY <1>0, <2>1, <3>3, SettledType
      <4>2. at[o] \notin Before \cup {"prompt"} /\ slip[o] # "none"
        BY <1>0, <3>1, <3>3 DEF Lent
      <4>3. slip'[o] # "none"
        BY <1>0, <1>5, <3>3, <4>2, DismissedType DEF PageRead
      <4> QED BY <1>0, <2>1, <4>1, <4>2, <4>3 DEF Lent
    <3> QED BY <3>2, <3>3
  <2>3. CASE w # o
    <3>1. form'[o] = TakenOff(form)[o] /\ said'[o] = said[o]
      BY <1>0, <1>5, <2>3, TakenOffType DEF PageRead
    <3>2. at'[o] = Settled(at, said)[o]
      BY <1>0, <2>1, <3>1, SettledType
    <3>3. slip'[o] = Dismissed[o]
      BY <1>0, <1>5, <2>3, DismissedType DEF PageRead
    <3> QED BY <2>1, <3>1, <3>2, <3>3, LentWhenClosed
  <2> QED BY <2>2, <2>3
<1> QED BY <1>1, <1>2, <1>3, <1>4, <1>5 DEF Request

LEMMA LendingStep ==
    ASSUME LendingInv, [Next]_vars PROVE LendingInv'
<1>1. PanelInv'
  BY PanelStep DEF LendingInv
<1>2. ASSUME NEW o \in Ops PROVE Lent(o)'
  <2>1. CASE OpenByHand
    <3>1. form'[o] = TakenOff(form)[o]
      BY <2>1, TakenOffType, OwnersDiffer DEF OpenByHand, LendingInv, PanelInv
    <3> QED BY <2>1, <3>1, LentWhenClosed DEF OpenByHand, unlocking
  <2>2. CASE Cancel
    BY <2>2, LentWhenClosed DEF Cancel, unlocking
  <2>3. CASE Relock \/ LockNow
    <3>1. by' # o /\ UNCHANGED <<at, got, said, slip, form>>
      BY <2>3, OwnersDiffer DEF Relock, LockNow, clicks, forms
    <3> QED BY <3>1, LentElsewhere DEF LendingInv
  <2>4. CASE RefreshWalletInfo \/ UNCHANGED vars
    BY <2>4, LentElsewhere DEF RefreshWalletInfo, vars, unlocking, clicks, forms, LendingInv
  <2> QED BY <2>1, <2>2, <2>3, <2>4, LentClick, LentForm DEF Next
<1> QED BY <1>1, <1>2 DEF LendingInv

(* A wallet unlocked for a click is locked again when the click is over,   *)
(* or its prompt was closed with the passphrase on its way, or a request   *)
(* was lost (withUnlocked of wallet-crypt.js).                             *)
THEOREM NoUnlockKept == Spec => []UnlockHandedBack
<1>1. Init => LendingInv
  BY PanelInit, LendingInit DEF LendingInv
<1>2. LendingInv /\ [Next]_vars => LendingInv'
  BY LendingStep
<1>3. LendingInv => UnlockHandedBack
  BY DEF LendingInv, Lent, UnlockHandedBack, Ended, Before, Borrowing
<1> QED BY <1>1, <1>2, <1>3, PTL DEF Spec
=============================================================================
