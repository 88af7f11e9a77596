------------------------------ MODULE PageProofs -----------------------------
(***************************************************************************)
(* Proofs about two views of the page the browser tab shows: the wallet    *)
(* page with the session's polls, and the explorer.  For every number of   *)
(* polls under way, wallets and pages; for every chain, every set of       *)
(* transactions and every number of visits.                                *)
(***************************************************************************)
EXTENDS WalletPage, Explorer, FiniteSetTheorems, SequenceTheorems, WellFoundedInduction, TLAPS

PollAt == {"idle", "stats", "told", "blocks", "views"}
Poll == [at : PollAt, live : BOOLEAN, auth : Nat, tip : Nat]

(* The session's variables have their types.                               *)
SessionOK ==
    /\ creds \in Nat /\ tip \in Nat
    /\ loggedIn \in BOOLEAN /\ hidden \in BOOLEAN /\ timer \in BOOLEAN
    /\ tick \in [Ticks -> Poll]

PollInv == SessionOK /\ PollsWhenItShould

-----------------------------------------------------------------------------
(* The operations on the chain of polls.                                   *)

LEMMA StoppedPolls ==
    ASSUME SessionOK
    PROVE  Stopped \in [Ticks -> Poll] /\ \A t \in Ticks : ~Stopped[t].live
BY DEF SessionOK, Stopped, Poll, PollAt

LEMMA FreshPoll ==
    ASSUME NEW auth \in Nat PROVE Fresh(auth) \in Poll /\ Fresh(auth).live
BY DEF Fresh, Poll, PollAt

LEMMA IdlePoll == Idle \in Poll /\ ~Idle.live
BY DEF Idle, Poll, PollAt

(* stopPolling leaves no chain; startPolling begins one.                   *)
LEMMA StartPollingKeeps ==
    ASSUME PollInv, NEW t \in Ticks, NEW auth \in Nat, StartPolling(t, auth),
           creds' \in Nat, tip' \in Nat, loggedIn' = TRUE, hidden' \in BOOLEAN
    PROVE  PollInv'
<1>1. SessionOK'
  BY StoppedPolls, FreshPoll DEF PollInv, SessionOK, StartPolling
<1>2. CASE hidden'
  BY <1>1, <1>2, StoppedPolls DEF PollInv, PollsWhenItShould, StartPolling
<1>3. CASE ~hidden'
  <2>1. \A s \in Ticks : tick'[s].live <=> s = t
    BY <1>3, StoppedPolls, FreshPoll DEF PollInv, StartPolling
  <2> QED BY <1>1, <1>3, <2>1 DEF PollInv, PollsWhenItShould, StartPolling
<1> QED BY <1>2, <1>3

LEMMA ShowLoginKeeps ==
    ASSUME PollInv, NEW polls \in [Ticks -> Poll], ShowLogin(polls), UNCHANGED <<tip, hidden>>
    PROVE  PollInv'
<1>1. tick' \in [Ticks -> Poll] /\ \A t \in Ticks : ~tick'[t].live
  BY DEF ShowLogin, Poll, PollAt
<1> QED BY <1>1 DEF PollInv, SessionOK, PollsWhenItShould, ShowLogin

(* A step that leaves each poll in its chain.                              *)
LEMMA SamePollsKeep ==
    ASSUME PollInv, tick' \in [Ticks -> Poll], \A t \in Ticks : tick'[t].live = tick[t].live,
           UNCHANGED <<timer, loggedIn, hidden>>, creds' \in Nat, tip' \in Nat
    PROVE  PollInv'
BY DEF PollInv, SessionOK, PollsWhenItShould

LEMMA AskSame ==
    ASSUME PollInv, NEW t \in Ticks, NEW at \in PollAt
    PROVE  /\ Ask(t, at) \in [Ticks -> Poll]
           /\ \A s \in Ticks : Ask(t, at)[s].live = tick[s].live
BY DEF PollInv, SessionOK, Ask, Poll, PollAt

(* The end of a poll: of the chain that is current, which the timer goes   *)
(* on with, or of a ghost, which changes nothing.                          *)
LEMMA EndPollKeeps ==
    ASSUME PollInv, NEW t \in Ticks, NEW failed, EndPoll(t, failed),
           UNCHANGED <<creds, tip, loggedIn, hidden>>
    PROVE  PollInv'
<1>1. SessionOK'
  BY IdlePoll DEF PollInv, SessionOK, EndPoll, TimerAfter
<1>2. \A s \in Ticks : tick'[s].live <=> tick[s].live /\ s # t
  BY IdlePoll DEF PollInv, SessionOK, EndPoll
<1>3. CASE tick[t].live
  <2>1. ~timer /\ loggedIn /\ ~hidden /\ \A s \in Ticks : tick[s].live => s = t
    BY <1>3 DEF PollInv, PollsWhenItShould
  <2> QED BY <1>1, <1>2, <1>3, <2>1 DEF PollInv, PollsWhenItShould, EndPoll, TimerAfter
<1>4. CASE ~tick[t].live
  <2>1. timer' = timer /\ \A s \in Ticks : tick'[s].live <=> tick[s].live
    BY <1>2, <1>4 DEF PollInv, SessionOK, EndPoll, TimerAfter
  <2> QED BY <1>1, <2>1 DEF PollInv, PollsWhenItShould
<1> QED BY <1>3, <1>4

LEMMA NextPollKeeps ==
    ASSUME PollInv, NEW t \in Ticks, NextPoll(t) PROVE PollInv'
<1>1. loggedIn /\ ~hidden /\ \A s \in Ticks : ~tick[s].live
  BY DEF PollInv, PollsWhenItShould, NextPoll
<1>2. SessionOK'
  BY FreshPoll DEF PollInv, SessionOK, NextPoll, node
<1>3. \A s \in Ticks : tick'[s].live <=> s = t
  BY <1>1, FreshPoll DEF PollInv, SessionOK, NextPoll
<1> QED BY <1>1, <1>2, <1>3 DEF PollInv, PollsWhenItShould, NextPoll

-----------------------------------------------------------------------------
(* The steps.                                                              *)

LEMMA SessionStepKeeps ==
    ASSUME PollInv, SessionStep PROVE PollInv'
<1> USE DEF node, board
<1>1. CASE HideTab
  BY <1>1, StoppedPolls DEF PollInv, SessionOK, PollsWhenItShould, HideTab
<1>2. CASE LoginRefused \/ Grow \/ Restart \/ Settle \/ \E c \in Credentials : SubmitLogin(c)
  BY <1>2, SamePollsKeep
  DEF PollInv, SessionOK, LoginRefused, Grow, Restart, Settle, SubmitLogin, Credentials
<1>3. ASSUME NEW t \in Ticks, ShowTab(t) PROVE PollInv'
  <2>1. CASE loggedIn
    BY <1>3, <2>1, StartPollingKeeps DEF ShowTab, PollInv, SessionOK
  <2>2. CASE ~loggedIn
    BY <1>3, <2>2 DEF ShowTab, PollInv, SessionOK, PollsWhenItShould
  <2> QED BY <2>1, <2>2
<1>4. ASSUME NEW t \in Ticks, NextPoll(t) PROVE PollInv'
  BY <1>4, NextPollKeeps
<1>5. ASSUME NEW t \in Ticks, NodeTick(t) PROVE PollInv'
  <2>1. tick' \in [Ticks -> Poll] /\ \A s \in Ticks : tick'[s].live = tick[s].live
    BY <1>5 DEF NodeTick, PollInv, SessionOK, Poll, PollAt
  <2> QED BY <1>5, <2>1, SamePollsKeep DEF NodeTick, PollInv, SessionOK
<1>6. ASSUME NEW t \in Ticks, TickDown(t) PROVE PollInv'
  BY <1>6, EndPollKeeps DEF TickDown
<1>7. ASSUME NEW t \in Ticks, StatsAgain(t) PROVE PollInv'
  <2>1. tick' = Ask(t, "blocks") /\ UNCHANGED <<timer, creds, tip, loggedIn, hidden>>
    BY <1>7 DEF StatsAgain, StatsNew
  <2>2. tick' \in [Ticks -> Poll] /\ \A s \in Ticks : tick'[s].live = tick[s].live
    BY <2>1, AskSame DEF PollAt
  <2> QED BY <2>1, <2>2, SamePollsKeep DEF PollInv, SessionOK
<1> QED BY <1>1, <1>2, <1>3, <1>4, <1>5, <1>6, <1>7 DEF SessionStep

LEMMA SessionEndsKeeps ==
    ASSUME PollInv, SessionEnds PROVE PollInv'
<1>1. CASE Logout
  BY <1>1, ShowLoginKeeps DEF Logout, PollInv, SessionOK, node
<1>2. ASSUME NEW t \in Ticks, TickRejected(t) PROVE PollInv'
  <2>1. [tick EXCEPT ![t] = Idle] \in [Ticks -> Poll]
    BY IdlePoll DEF PollInv, SessionOK
  <2> QED BY <1>2, <2>1, ShowLoginKeeps DEF TickRejected, node
<1> QED BY <1>1, <1>2 DEF SessionEnds

LEMMA OverKeeps ==
    ASSUME PollInv, NEW c \in Callers, NEW failed, Over(c, failed), Elsewhere PROVE PollInv'
<1>1. UNCHANGED <<creds, tip, loggedIn, hidden>>
  BY DEF Elsewhere, node
<1>2. CASE c \in Ticks
  BY <1>1, <1>2, EndPollKeeps DEF Over
<1>3. CASE c \notin Ticks
  BY <1>1, <1>3, SamePollsKeep DEF Over, PollInv, SessionOK
<1> QED BY <1>2, <1>3

LEMMA HandlerKeeps ==
    ASSUME PollInv, NEW c \in Callers, Handler(c) PROVE PollInv'
<1>1. CASE NodeLists(c)
  BY <1>1, SamePollsKeep DEF NodeLists, session, node, PollInv, SessionOK
<1>2. CASE RefreshFails(c)
  BY <1>2, OverKeeps DEF RefreshFails
<1>3. CASE RefreshRejected(c)
  <2>1. CASE c \in Ticks
    <3>1. [tick EXCEPT ![c] = Idle] \in [Ticks -> Poll]
      BY <2>1, IdlePoll DEF PollInv, SessionOK
    <3> QED BY <1>3, <2>1, <3>1, ShowLoginKeeps DEF RefreshRejected, node
  <2>2. CASE c \notin Ticks
    BY <1>3, <2>2, OverKeeps DEF RefreshRejected
  <2> QED BY <2>1, <2>2
<1>4. CASE GotList(c)
  BY <1>4, SamePollsKeep DEF GotList, Goes, Elsewhere, node, PollInv, SessionOK
<1>5. CASE GotDirectory(c)
  <2>1. CASE selected # None /\ Due
    BY <1>5, <2>1, SamePollsKeep DEF GotDirectory, Elsewhere, node, PollInv, SessionOK
  <2>2. CASE ~(selected # None /\ Due)
    BY <1>5, <2>2, OverKeeps DEF GotDirectory
  <2> QED BY <2>1, <2>2
<1>6. CASE GotTab(c)
  BY <1>6, OverKeeps DEF GotTab
<1> QED BY <1>1, <1>2, <1>3, <1>4, <1>5, <1>6 DEF Handler

LEMMA PollRefreshesKeeps ==
    ASSUME PollInv, NEW t \in Ticks, PollRefreshes(t) PROVE PollInv'
<1>1. UNCHANGED <<creds, tip, loggedIn, hidden>>
  BY DEF PollRefreshes, node
<1>2. CASE OnScreen /\ ~refreshing
  <2>1. tick' = Ask(t, "views") /\ timer' = timer
    BY <1>2 DEF PollRefreshes
  <2>2. tick' \in [Ticks -> Poll] /\ \A s \in Ticks : tick'[s].live = tick[s].live
    BY <2>1, AskSame DEF PollAt
  <2> QED BY <1>1, <2>1, <2>2, SamePollsKeep DEF PollInv, SessionOK
<1>3. CASE ~(OnScreen /\ ~refreshing)
  BY <1>1, <1>3, EndPollKeeps DEF PollRefreshes
<1> QED BY <1>2, <1>3

LEMMA SignedInKeeps ==
    ASSUME PollInv, NEW t \in Ticks, SignedIn(t) PROVE PollInv'
<1>1. StartPolling(t, creds) /\ loggedIn' = TRUE /\ UNCHANGED <<creds, tip, hidden>>
  BY DEF SignedIn, LoginDone, node
<1> QED BY <1>1, StartPollingKeeps DEF PollInv, SessionOK

LEMMA PollInvInit == ASSUME InitPage PROVE PollInv
<1>1. SessionOK
  <2>1. loggedIn \in BOOLEAN
    BY DEF InitPage, Init
  <2>2. creds \in Nat
    BY DEF InitPage, Init
  <2>3. tick \in [Ticks -> Poll]
    BY <2>2, FreshPoll, IdlePoll DEF InitPage, Init
  <2> QED BY <2>1, <2>2, <2>3 DEF InitPage, Init, SessionOK
<1>2. \A t \in Ticks : tick[t].live <=> loggedIn /\ t = 1
  BY FreshPoll, IdlePoll DEF InitPage, Init
<1>3. 1 \in Ticks
  BY SessionAssumption DEF Ticks
<1> QED BY <1>1, <1>2, <1>3 DEF PollInv, PollsWhenItShould, InitPage, Init

LEMMA PollInvStep ==
    ASSUME PollInv, [Next]_vars PROVE PollInv'
<1>1. CASE SessionStep
  BY <1>1, SessionStepKeeps
<1>2. CASE SessionEnds
  BY <1>2, SessionEndsKeeps
<1>3. ASSUME NEW t \in Ticks, PollRefreshes(t) \/ SignedIn(t) PROVE PollInv'
  BY <1>3, PollRefreshesKeeps, SignedInKeeps
<1>4. ASSUME NEW c \in Callers, Handler(c) PROVE PollInv'
  BY <1>4, HandlerKeeps
<1>5. CASE UNCHANGED session
  BY <1>5, SamePollsKeep DEF session, node, PollInv, SessionOK
<1>6. CASE \/ \E name \in {"overview", "history", "addresses"} : ShowTabOf(name)
           \/ Leave \/ WalletLoaded \/ WalletUnloaded \/ UnloadCurrent
           \/ EditLabel \/ SaveLabel \/ AsideAnswered
           \/ \E w \in Wallets : SelectWallet(w) \/ LoadWallet(w)
           \/ \E p \in 0..MaxPage : TurnPage(p)
  BY <1>5, <1>6 DEF ShowTabOf, Leave, WalletLoaded, WalletUnloaded, UnloadCurrent, EditLabel,
                    SaveLabel, AsideAnswered, SelectWallet, LoadWallet, TurnPage
<1> QED BY <1>1, <1>2, <1>3, <1>4, <1>5, <1>6 DEF Next, vars

(* While the user is signed in and looking there is exactly one chain of   *)
(* polls and otherwise none (startPolling, stopPolling, poll of app.js),   *)
(* however many polls of earlier chains are still under way.               *)
THEOREM OneChainOfPolls == Spec => []PollsWhenItShould
<1>1. PollInv /\ [Next]_vars => PollInv'
  BY PollInvStep
<1> QED BY PollInvInit, <1>1, PTL DEF Spec, PollInv

-----------------------------------------------------------------------------
(* Label edits.                                                            *)

Chosen == Wallets \cup {None}
Tabs == {"overview", "history", "addresses"}
RunAt == {"idle", "list", "listed", "dir", "tab"}
Run == [at : RunAt, list : SUBSET Wallets, of : Chosen, page : Nat, what : Tabs \cup {"none"}]

(* Only a refresh that has its tab's data under way says what they are.    *)
RunsOK(runs) ==
    /\ runs \in [Callers -> Run]
    /\ \A c \in Callers : runs[c].at # "tab" => runs[c].what = "none"

PageOK ==
    /\ loaded \in SUBSET Wallets /\ wallets \in SUBSET Wallets
    /\ tab \in Tabs /\ histPage \in Nat /\ editing \in BOOLEAN
    /\ stored \in Chosen /\ selected \in Chosen
    /\ change \in [of : Chosen, to : {"none", "load", "unload"}] /\ (change.to = "load" => change.of \in Wallets)

(* A label that is edited is one of the book the page holds.               *)
EditInv == PageOK /\ RunsOK(run) /\ (editing => book # None)

LEMMA NoRunOK == NoRun \in Run /\ NoRun.what = "none" /\ NoRun.at # "tab"
BY DEF NoRun, Run, RunAt, Tabs, Chosen

LEMMA BegunOK ==
    ASSUME RunsOK(run), NEW c \in Callers
    PROVE  /\ RunsOK(Begun(c)) /\ RunsOK([run EXCEPT ![c] = NoRun])
           /\ \A d \in Callers : Begun(c)[d] = run[d] \/ Begun(c)[d].at # "tab"
           /\ \A d \in Callers : [run EXCEPT ![c] = NoRun][d] = run[d]
                                    \/ [run EXCEPT ![c] = NoRun][d].at # "tab"
<1>1. [NoRun EXCEPT !.at = "list"] \in Run /\ [NoRun EXCEPT !.at = "list"].what = "none"
      /\ [NoRun EXCEPT !.at = "list"].at # "tab"
  BY DEF NoRun, Run, RunAt, Tabs, Chosen
<1> QED BY <1>1, NoRunOK DEF RunsOK, Begun

(* What a step does to the refreshes: it leaves one alone, or does not     *)
(* bring it to its tab's data.                                             *)
Quiet == RunsOK(run') /\ \A c \in Callers : run'[c] = run[c] \/ run'[c].at # "tab"

LEMMA SameRuns == ASSUME RunsOK(run), run' = run PROVE Quiet
BY DEF Quiet

LEMMA RefreshQuiet == ASSUME RunsOK(run), Refresh PROVE Quiet
<1>1. User \in Callers
  BY DEF Callers
<1> QED BY <1>1, BegunOK DEF Refresh, Quiet

LEMMA OverQuiet == ASSUME RunsOK(run), NEW c \in Callers, NEW failed, Over(c, failed) PROVE Quiet
BY BegunOK DEF Over, Quiet

LEMMA GoesQuiet ==
    ASSUME RunsOK(run), NEW c \in Callers, NEW at \in RunAt, Goes(c, at), run[c].at # "tab", at # "tab"
    PROVE  Quiet
BY DEF Goes, Quiet, RunsOK, Run, RunAt, Tabs

(* What resetWallet does to the selection.                                 *)
PageReset == tab' = "overview" /\ selected' = None /\ wallets' = {}

LEMMA HandlerPage ==
    ASSUME EditInv, NEW c \in Callers, Handler(c), ~GotDirectory(c) PROVE EditInv' /\ Quiet
<1> USE DEF EditInv
<1>1. CASE NodeLists(c)
  <2>1. Quiet
    BY <1>1 DEF NodeLists, Quiet, RunsOK, Run, RunAt, Tabs, PageOK
  <2> QED BY <1>1, <2>1 DEF NodeLists, PageOK, Tabs, place, choice, shownData, Quiet
<1>2. CASE RefreshFails(c)
  BY <1>2, OverQuiet DEF RefreshFails, PageOK, Tabs, place, choice, shownData, Quiet
<1>3. CASE RefreshRejected(c)
  <2>1. CASE c \in Ticks
    <3>1. Quiet
      BY <1>3, <2>1, BegunOK DEF RefreshRejected, ResetWallet, Quiet
    <3>2. Cleared /\ PageReset /\ UNCHANGED <<loaded, stored, change>>
      BY <1>3, <2>1 DEF RefreshRejected, ResetWallet, PageReset
    <3> QED BY <3>1, <3>2 DEF PageReset, Cleared, PageOK, Tabs, Chosen, Quiet
  <2>2. CASE c \notin Ticks
    BY <1>3, <2>2, OverQuiet DEF RefreshRejected, PageOK, Tabs, place, choice, shownData, Quiet
  <2> QED BY <2>1, <2>2
<1>4. CASE GotList(c)
  <2>1. Quiet
    <3>1. run[c].at # "tab" /\ Goes(c, "dir")
      BY <1>4 DEF GotList
    <3> QED BY <3>1, GoesQuiet DEF RunAt
  <2>2. wallets' \in SUBSET Wallets /\ selected' \in Chosen
    BY <1>4 DEF GotList, PageOK, RunsOK, Run, RunAt, Tabs, Chosen
  <2> QED BY <1>4, <2>1, <2>2 DEF GotList, PageOK, Tabs, place, Quiet
<1>5. CASE GotTab(c)
  <2>1. Quiet
    BY <1>5, OverQuiet DEF GotTab
  <2>2. editing' \in BOOLEAN /\ histPage' \in Nat /\ (editing' => book' # None)
    <3>1. CASE GotOverview(run[c].of) \/ GotHistory(run[c].of, run[c].page) \/ UNCHANGED shownData
      BY <3>1 DEF GotOverview, GotHistory, PageOK, shownData
    <3>2. CASE GotBook(run[c].of)
      BY <3>2 DEF GotBook, PageOK
    <3> QED BY <1>5, <3>1, <3>2 DEF GotTab
  <2> QED BY <1>5, <2>1, <2>2 DEF GotTab, PageOK, Tabs, place, choice, Quiet
<1> QED BY <1>1, <1>2, <1>3, <1>4, <1>5 DEF Handler

LEMMA GotDirectoryPage ==
    ASSUME EditInv, NEW c \in Callers, GotDirectory(c) PROVE EditInv'
<1>1. UNCHANGED <<loaded, wallets, tab, histPage, editing, book, stored, selected, change>>
  BY DEF GotDirectory, place, choice, shownData
<1>2. RunsOK(run')
  <2>1. CASE selected # None /\ Due
    BY <2>1 DEF GotDirectory, EditInv, RunsOK, Run, RunAt, Tabs, PageOK
  <2>2. CASE ~(selected # None /\ Due)
    BY <2>2, OverQuiet DEF GotDirectory, EditInv, Quiet
  <2> QED BY <2>1, <2>2
<1> QED BY <1>1, <1>2 DEF EditInv, PageOK, Tabs

(* What the user does, and the polls.                                      *)
LEMMA OthersPage ==
    ASSUME EditInv, [Next]_vars, ~\E c \in Callers : Handler(c) PROVE EditInv' /\ Quiet
<1> USE DEF EditInv
<1>1. CASE SessionStep /\ UNCHANGED wallet
  BY <1>1, SameRuns DEF wallet, place, choice, shownData, PageOK, Tabs, Quiet
<1>2. CASE SessionEnds /\ ResetWallet(run) /\ UNCHANGED <<loaded, aside, change>>
  BY <1>2, SameRuns DEF ResetWallet, Cleared, PageOK, Tabs, Chosen, Quiet
<1>3. ASSUME NEW t \in Ticks, PollRefreshes(t) PROVE EditInv' /\ Quiet
  <2>1. t \in Callers
    BY DEF Callers
  <2>2. Quiet
    BY <1>3, <2>1, BegunOK, SameRuns DEF PollRefreshes, Quiet
  <2> QED BY <1>3, <2>2 DEF PollRefreshes, PageOK, Tabs, place, choice, shownData, Quiet
<1>4. ASSUME NEW t \in Ticks, SignedIn(t) PROVE EditInv' /\ Quiet
  <2>1. Quiet
    BY <1>4, RefreshQuiet, SameRuns DEF SignedIn
  <2> QED BY <1>4, <2>1 DEF SignedIn, PageOK, Tabs, choice, shownData, Quiet
<1>5. ASSUME NEW name \in {"overview", "history", "addresses"}, ShowTabOf(name)
      PROVE EditInv' /\ Quiet
  BY <1>5, RefreshQuiet DEF ShowTabOf, PageOK, Tabs, choice, shownData, Quiet
<1>6. CASE Leave
  BY <1>6, SameRuns DEF Leave, PageOK, Tabs, choice, shownData, Quiet
<1>7. ASSUME NEW w \in Wallets, Select(w), UNCHANGED <<loaded, tab>>,
             change' \in [of : Chosen, to : {"none", "load", "unload"}], change'.to = "load" => change'.of \in Wallets
      PROVE EditInv' /\ Quiet
  <2>1. Quiet
    BY <1>7, RefreshQuiet, SameRuns DEF Select
  <2>2. PageOK'
    BY <1>7 DEF Select, Cleared, PageOK, Chosen
  <2> QED BY <1>7, <2>1, <2>2 DEF Select, Cleared, Quiet
<1>8. CASE WalletLoaded
  <2>1. change.of \in Wallets /\ change' \in [of : Chosen, to : {"none", "load", "unload"}] /\ change'.to # "load"
    BY <1>8 DEF WalletLoaded, PageOK, Tabs, NoChange, Chosen
  <2> QED BY <1>7, <1>8, <2>1 DEF WalletLoaded, place
<1>9. CASE WalletUnloaded
  <2>1. Quiet
    BY <1>9, RefreshQuiet, SameRuns DEF WalletUnloaded
  <2> QED BY <1>9, <2>1 DEF WalletUnloaded, PageOK, Tabs, NoChange, Chosen, place, shownData, Quiet
<1>10. CASE UnloadCurrent \/ \E w \in Wallets : LoadWallet(w)
  BY <1>10, SameRuns DEF UnloadCurrent, LoadWallet, PageOK, Tabs, Chosen, place, choice, shownData, Quiet
<1>11. CASE EditLabel \/ SaveLabel \/ \E p \in 0..MaxPage : TurnPage(p)
  <2>1. Quiet /\ UNCHANGED <<loaded, wallets, tab, stored, selected, change, book>>
    BY <1>11, SameRuns DEF EditLabel, SaveLabel, TurnPage, place, choice, shownData
  <2>2. histPage' \in Nat
    BY <1>11, WalletPageAssumption DEF EditLabel, SaveLabel, TurnPage, shownData, PageOK
  <2>3. editing' \in BOOLEAN /\ (editing' => book # None)
    <3>1. CASE EditLabel
      <4>1. book # None /\ editing' = ~editing
        BY <3>1 DEF EditLabel
      <4>2. editing' \in BOOLEAN
        BY <4>1, ZenonT(60)
      <4> QED BY <4>1, <4>2
    <3>2. CASE UNCHANGED editing
      BY <3>2 DEF PageOK
    <3> QED BY <1>11, <3>1, <3>2 DEF SaveLabel, TurnPage, shownData
  <2> QED BY <2>1, <2>2, <2>3 DEF PageOK, Quiet
<1>12. CASE AsideAnswered
  <2>1. editing' \in BOOLEAN /\ histPage' \in Nat /\ (editing' => book' # None)
    <3>1. CASE GotHistory(aside.of, aside.page) \/ UNCHANGED shownData
      BY <3>1 DEF GotHistory, PageOK, shownData
    <3>2. CASE GotBook(aside.of)
      BY <3>2 DEF GotBook, PageOK
    <3> QED BY <1>12, <3>1, <3>2 DEF AsideAnswered
  <2> QED BY <1>12, <2>1, SameRuns DEF AsideAnswered, PageOK, Tabs, place, choice, Quiet
<1>13. ASSUME NEW w \in Wallets, SelectWallet(w) PROVE EditInv' /\ Quiet
  BY <1>7, <1>13 DEF SelectWallet, place, PageOK, Tabs
<1>14. CASE UNCHANGED vars
  BY <1>14, SameRuns DEF vars, wallet, place, choice, shownData, PageOK, Tabs, Quiet
<1> QED BY <1>1, <1>2, <1>3, <1>4, <1>5, <1>6, <1>8, <1>9, <1>10, <1>11, <1>12, <1>13, <1>14 DEF Next

LEMMA EditInvInit == ASSUME InitPage PROVE EditInv
BY NoRunOK DEF InitPage, EditInv, PageOK, Tabs, RunsOK, Chosen, NoChange

LEMMA EditInvStep == ASSUME EditInv, [Next]_vars PROVE EditInv'
BY HandlerPage, GotDirectoryPage, OthersPage

LEMMA NoFetch ==
    ASSUME EditInv, [Next]_vars, NEW t \in Ticks, editing, run[t].at = "dir"
    PROVE  run'[t].what # "addresses"
<1>0. t \in Callers
  BY DEF Callers
<1>1. CASE Quiet
  <2>1. run'[t].at # "tab"
    BY <1>0, <1>1 DEF Quiet
  <2> QED BY <1>0, <1>1, <2>1 DEF Quiet, RunsOK
<1>2. ASSUME NEW c \in Callers, GotDirectory(c) PROVE run'[t].what # "addresses"
  <2>1. CASE selected # None /\ Due
    <3>1. tab # "addresses"
      BY <2>1 DEF Due, EditInv
    <3>2. run'[t].what = tab \/ run'[t] = run[t]
      BY <1>0, <1>2, <2>1 DEF GotDirectory, EditInv, RunsOK, Run, RunAt, Tabs
    <3> QED BY <1>0, <3>1, <3>2 DEF EditInv, RunsOK
  <2>2. CASE ~(selected # None /\ Due)
    BY <1>0, <1>1, <1>2, <2>2, OverQuiet DEF GotDirectory, EditInv
  <2> QED BY <2>1, <2>2
<1> QED BY <1>1, <1>2, HandlerPage, OthersPage

(* No poll asks for the address book while a label is being edited         *)
(* (refresh of wallet.js), whichever wallets are selected meanwhile.       *)
THEOREM EditsAreLeftAlone == Spec => NoFetchUnderEdit
<1>1. EditInv /\ [Next]_vars => EditInv'
  BY EditInvStep
<1>2. EditInv /\ [Next]_vars =>
        [\A t \in Ticks : editing /\ run[t].at = "dir" => run'[t].what # "addresses"]_vars
  BY NoFetch
<1> QED BY EditInvInit, <1>1, <1>2, PTL DEF Spec, NoFetchUnderEdit

-----------------------------------------------------------------------------
(* The explorer.                                                           *)

LEMMA StaleInit == ASSUME InitExplorer PROVE NeverStale
BY DEF InitExplorer, NeverStale, NoPage

(* A new visit takes the page.                                             *)
LEMMA ShowTakesPage ==
    ASSUME NEW target, Show(target) PROVE NeverStale'
BY DEF Show, NeverStale

(* A handler writes the page only while its visit is the one in use.       *)
LEMMA VisitStepKeeps ==
    ASSUME NeverStale, NEW my, VisitStep(my) PROVE NeverStale'
<1>1. CASE Refuse(my)
  BY <1>1 DEF Refuse, NeverStale
<1>2. CASE GotHash(my) \/ GotPrevouts(my)
  BY <1>2 DEF GotHash, GotPrevouts, NeverStale
<1>3. CASE GotBlock(my)
  BY <1>3 DEF GotBlock, NeverStale
<1>4. CASE GotTx(my)
  BY <1>4 DEF GotTx, NeverStale
<1> QED BY <1>1, <1>2, <1>3, <1>4 DEF VisitStep

LEMMA StaleStep == ASSUME NeverStale, [ExplorerStep]_explorer PROVE NeverStale'
<1>1. CASE UNCHANGED <<epoch, page>>
  BY <1>1 DEF NeverStale
<1>2. ASSUME NEW target, Navigate(target) PROVE NeverStale'
  <2>1. Show(target)
    BY <1>2 DEF Navigate
  <2> QED BY <2>1, ShowTakesPage
<1>3. CASE SearchFinds
  <2>1. PICK target \in Targets : Show(target)
    BY <1>3 DEF SearchFinds
  <2> QED BY <2>1, ShowTakesPage
<1>4. CASE \/ \E p \in {listed - 1, listed + 1} : Goto(p)
           \/ ShowMore \/ SearchFails \/ (\E q \in Queries : Search(q)) \/ UNCHANGED explorer
  BY <1>1, <1>4 DEF Goto, ShowMore, SearchFails, Search, explorer
<1>5. CASE \E target \in Targets : Navigate(target)
  BY <1>2, <1>5
<1>6. CASE \E my \in 1..epoch : VisitStep(my)
  BY <1>6, VisitStepKeeps
<1> QED BY <1>3, <1>4, <1>5, <1>6 DEF ExplorerStep

(* What the page shows is of the last navigation, the search box's         *)
(* included, whatever answers come late (showBlock, showTx of              *)
(* explorer.js).                                                           *)
THEOREM NoLateAnswer == ExplorerSpec => []NeverStale
<1>1. NeverStale /\ [ExplorerStep]_explorer => NeverStale'
  BY StaleStep
<1> QED BY StaleInit, <1>1, PTL DEF ExplorerSpec

-----------------------------------------------------------------------------
(* What the explorer's page shows.                                         *)

Stages == {"height", "block", "tx", "prevouts", "done"}
Answers == {"undefined", "value", "unavailable"}
Known == Answers \cup {"given up"}
Rows == Known \cup {"-", "resolving"}

Visit == [at : Stages, what : Blocks \cup Heights \cup Txs, page : Int, next : Nat]

(* A visit asks for what there is, and begins its look-ups at the first.   *)
Sensible(v) ==
    /\ v.at = "height" => v.what \in Heights
    /\ v.at = "block" => v.what \in Blocks
    /\ v.at \in {"tx", "prevouts"} => v.what \in Txs
    /\ v.at = "tx" => v.next = 1
VisitsOK ==
    /\ epoch \in Nat
    /\ visit \in Seq(Visit)
    /\ Len(visit) = epoch
    /\ \A my \in 1..epoch : Sensible(visit[my])

BlockPageOK ==
    page.kind = "block" => page.what \in Blocks /\ listed \in 1..Pages(page.what)

TxPageOK ==
    page.kind = "tx" =>
        /\ page.what \in Txs
        /\ found \in [DOMAIN Ins[page.what] -> Known]
        /\ texts \in Seq(Rows) /\ Len(texts) <= Len(Ins[page.what])
        /\ \A i \in 1..Len(texts) : texts[i] = RowText(page.what, i, found)
        /\ fee = "shown" => ~(Fee(page.what) < 0) /\ \A i \in DOMAIN found : found[i] = "value"

(* Every input whose funding transaction came in an earlier batch is       *)
(* resolved.                                                               *)
Looked(t, upto) ==
    \A i \in DOMAIN Ins[t], f \in FirstUses[t] :
        Ins[t][f].from = Ins[t][i].from /\ Place[t][f] < upto => found[i] # "undefined"

(* The visit in use that is between two batches.                           *)
LookUpsOK ==
    \A my \in 1..epoch :
        my = epoch /\ visit[my].at = "prevouts" =>
            /\ page.kind = "tx" /\ page.what = visit[my].what /\ ~IsCoinbase(page.what)
            /\ fee = "resolving" /\ found \in [DOMAIN Ins[page.what] -> Answers]
            /\ Looked(page.what, visit[my].next)

ShownInv == VisitsOK /\ BlockPageOK /\ TxPageOK /\ LookUpsOK

-----------------------------------------------------------------------------
(* Pages of a block.                                                       *)

LEMMA MinMax ==
    ASSUME NEW a \in Int, NEW b \in Int
    PROVE  /\ Min({a, b}) = IF a <= b THEN a ELSE b
           /\ Max({a, b}) = IF a <= b THEN b ELSE a
<1>1. Min({a, b}) \in {a, b} /\ \A c \in {a, b} : Min({a, b}) <= c
  <2>1. \E x \in {a, b} : \A y \in {a, b} : x <= y
    OBVIOUS
  <2> QED BY <2>1 DEF Min
<1>2. Max({a, b}) \in {a, b} /\ \A c \in {a, b} : Max({a, b}) >= c
  <2>1. \E x \in {a, b} : \A y \in {a, b} : x >= y
    OBVIOUS
  <2> QED BY <2>1 DEF Max
<1>3. Min({a, b}) = IF a <= b THEN a ELSE b
  BY <1>1
<1> QED BY <1>2, <1>3

(* A page begins below the end, and only the last one reaches it.          *)
LEMMA PageEnds ==
    ASSUME NEW n \in Nat \ {0}, NEW size \in Nat \ {0}
    PROVE  LET p == (n + size - 1) \div size IN p \in Nat \ {0} /\ (p - 1) * size < n /\ n <= p * size
<1> DEFINE p == (n + size - 1) \div size
           m == n + size - 1
<1>1. p \in Int /\ p * size <= m /\ m < p * size + size
  BY SMTT(30)
<1>2. (p - 1) * size = p * size - size /\ p * size \in Int
  BY <1>1, SMTT(30)
<1>3. p > 0
  <2> SUFFICES ASSUME p <= 0 PROVE FALSE
    BY <1>1
  <2>1. p * size <= 0
    BY <1>1, SMTT(30)
  <2> QED BY <1>1, <2>1
<1> QED BY <1>1, <1>2, <1>3

LEMMA PagesIs ==
    ASSUME NEW b \in Blocks
    PROVE  /\ BlockTxs[b] \in Nat \ {0} /\ Pages(b) \in Nat \ {0}
           /\ (Pages(b) - 1) * TXS_PER_PAGE < BlockTxs[b]
           /\ BlockTxs[b] <= Pages(b) * TXS_PER_PAGE
<1> DEFINE p == (BlockTxs[b] + TXS_PER_PAGE - 1) \div TXS_PER_PAGE
<1>1. BlockTxs[b] \in Nat \ {0} /\ TXS_PER_PAGE \in Nat \ {0}
  BY ExplorerAssumption
<1>2. p \in Nat \ {0} /\ (p - 1) * TXS_PER_PAGE < BlockTxs[b] /\ BlockTxs[b] <= p * TXS_PER_PAGE
  BY <1>1, PageEnds
<1>3. Pages(b) = Max({1, p})
  BY DEF Pages
<1> HIDE DEF p
<1>4. 1 \in Int /\ p \in Int /\ 1 <= p
  BY <1>2
<1>5. Max({1, p}) = p
  BY <1>4, MinMax, ZenonT(60)
<1> QED BY <1>1, <1>2, <1>3, <1>5

LEMMA ClampedIs ==
    ASSUME NEW b \in Blocks, NEW p \in Int PROVE Clamped(b, p) \in 1..Pages(b)
<1> DEFINE m == Max({1, p})
           q == Pages(b)
<1>1. 1 \in Int /\ q \in Int /\ q >= 1
  BY PagesIs
<1>2. m = IF 1 <= p THEN p ELSE 1
  BY <1>1, MinMax, ZenonT(60)
<1>3. m \in Int /\ m >= 1
  BY <1>2
<1>4. Clamped(b, p) = Min({m, q})
  BY DEF Clamped
<1> HIDE DEF m, q
<1>5. Min({m, q}) = IF m <= q THEN m ELSE q
  BY <1>1, <1>3, MinMax, ZenonT(60)
<1> QED BY <1>1, <1>3, <1>4, <1>5 DEF q

LEMMA PagerFollows == ASSUME BlockPageOK PROVE PagerHolds
<1> SUFFICES ASSUME page.kind = "block"
             PROVE  LET n == BlockTxs[page.what]
                        first == (listed - 1) * TXS_PER_PAGE + 1
                    IN  /\ first \in 1..n
                        /\ listed = Pages(page.what) <=> first + TXS_PER_PAGE > n
  BY DEF PagerHolds
<1> DEFINE n == BlockTxs[page.what]
           last == Pages(page.what)
           size == TXS_PER_PAGE
<1>1. /\ n \in Nat \ {0} /\ last \in Nat \ {0} /\ size \in Nat \ {0}
      /\ (last - 1) * size < n /\ n <= last * size
  BY PagesIs, ExplorerAssumption DEF BlockPageOK
<1>2. listed \in 1..last
  BY DEF BlockPageOK
<1> HIDE DEF n, last, size
<1>3. ASSUME NEW a \in Nat, NEW b \in Nat, a <= b PROVE a * size <= b * size /\ a * size \in Nat
  BY <1>1, <1>3, SMTT(30)
<1>4. listed \in Nat /\ listed >= 1 /\ listed <= last /\ listed - 1 \in Nat /\ last - 1 \in Nat
  BY <1>1, <1>2
<1>5. (listed - 1) * size \in Nat /\ (last - 1) * size \in Nat /\ listed * size \in Nat
  BY <1>1, <1>4, SMTT(30)
<1>6. (listed - 1) * size <= (last - 1) * size
  <2>1. listed - 1 <= last - 1
    BY <1>1, <1>4
  <2> QED BY <1>3, <1>4, <2>1, ZenonT(60)
<1>7. (listed - 1) * size + size = listed * size
  BY <1>1, <1>4, SMTT(30)
<1>8. (listed - 1) * size + 1 \in 1..n
  BY <1>1, <1>5, <1>6
<1>9. listed = last <=> (listed - 1) * size + 1 + size > n
  <2>1. CASE listed = last
    BY <1>1, <1>5, <1>7, <2>1
  <2>2. CASE listed # last
    <3>1. listed <= last - 1
      BY <1>1, <1>4, <2>2
    <3>2. listed * size <= (last - 1) * size
      BY <1>3, <1>4, <3>1, ZenonT(60)
    <3> QED BY <1>1, <1>5, <1>7, <2>2, <3>2
  <2> QED BY <2>1, <2>2
<1> QED BY <1>8, <1>9 DEF n, last, size

-----------------------------------------------------------------------------
(* The look-ups of a transaction's inputs.                                 *)

LEMMA InputsAre ==
    ASSUME NEW t \in Txs
    PROVE  /\ Len(Ins[t]) \in Nat \ {0} /\ DOMAIN Ins[t] = 1..Len(Ins[t])
           /\ Spends(t) \subseteq DOMAIN Ins[t]
           /\ ~IsCoinbase(t) => Spends(t) = DOMAIN Ins[t]
<1>1. Ins[t] \in Seq([from : DOMAIN Paid, vout : Nat] \cup {Coinbase}) /\ Ins[t] # <<>>
  BY ExplorerAssumption
<1>2. Len(Ins[t]) \in Nat \ {0} /\ DOMAIN Ins[t] = 1..Len(Ins[t])
  BY <1>1
<1>3. Spends(t) \subseteq DOMAIN Ins[t]
  BY DEF Spends
<1>4. ASSUME ~IsCoinbase(t) PROVE Spends(t) = DOMAIN Ins[t]
  <2>1. CASE Len(Ins[t]) > 1
    BY <2>1, ExplorerAssumption DEF Spends
  <2>2. CASE Len(Ins[t]) = 1
    <3>1. DOMAIN Ins[t] = {1}
      BY <1>2, <2>2
    <3> QED BY <1>3, <1>4, <3>1 DEF IsCoinbase
  <2>3. Len(Ins[t]) > 1 \/ Len(Ins[t]) = 1
    <3> DEFINE n == Len(Ins[t])
    <3>1. n \in Nat \ {0}
      BY <1>2
    <3> HIDE DEF n
    <3>2. n > 1 \/ n = 1
      BY <3>1
    <3> QED BY <3>2 DEF n
  <2> QED BY <2>1, <2>2, <2>3
<1> QED BY <1>2, <1>3, <1>4

(* Every input's funding transaction has a first use.                      *)
LEMMA FirstUse ==
    ASSUME NEW t \in Txs, NEW i \in Spends(t)
    PROVE  \E f \in FirstUses[t] : Ins[t][f].from = Ins[t][i].from
<1> DEFINE T == {j \in Spends(t) : Ins[t][j].from = Ins[t][i].from}
           R == OpToRel(<, Nat)
<1>1. T \subseteq Nat /\ T # {}
  BY InputsAre
<1>2. IsWellFoundedOn(R, Nat)
  BY NatLessThanWellFounded, ZenonT(60)
<1>3. ASSUME NEW m \in Nat, NEW n \in Nat, m < n PROVE <<m, n>> \in R
  BY <1>3 DEF OpToRel
<1> HIDE DEF T, R
<1>4. PICK f \in T : \A m \in T : ~(<<m, f>> \in R)
  BY <1>1, <1>2, WFMin
<1>5. \A m \in T : ~(m < f)
  BY <1>1, <1>3, <1>4
<1> USE DEF T
<1>6. f \in Spends(t) /\ Ins[t][f].from = Ins[t][i].from
  OBVIOUS
<1>7. \A j \in Spends(t) : j < f => Ins[t][j].from # Ins[t][f].from
  BY <1>5, <1>6
<1> QED BY <1>6, <1>7 DEF FirstUses

LEMMA PlaceIs ==
    ASSUME NEW t \in Txs
    PROVE  /\ Funders[t] \in Nat
           /\ \A f \in FirstUses[t] : f \in DOMAIN Ins[t] /\ Place[t][f] \in 1..Funders[t]
<1>1. FirstUses[t] \subseteq DOMAIN Ins[t] /\ Funders[t] = Cardinality(FirstUses[t])
  BY InputsAre DEF FirstUses, Funders
<1>2. IsFiniteSet(FirstUses[t])
  <2>1. IsFiniteSet(1..Len(Ins[t]))
    BY FS_Interval, InputsAre
  <2> QED BY <1>1, <2>1, FS_Subset, InputsAre
<1>3. Funders[t] \in Nat
  BY <1>1, <1>2, FS_CardinalityType
<1>4. ASSUME NEW f \in FirstUses[t] PROVE Place[t][f] \in 1..Funders[t]
  <2> DEFINE S == {j \in FirstUses[t] : j <= f}
  <2>1. Place[t][f] = Cardinality(S)
    BY DEF Place
  <2>2. S \subseteq FirstUses[t] /\ f \in S
    BY <1>1, InputsAre
  <2> HIDE DEF S
  <2>3. IsFiniteSet(S) /\ Cardinality(S) <= Cardinality(FirstUses[t])
    BY <1>2, <2>2, FS_Subset
  <2>4. Cardinality(S) \in Nat /\ Cardinality(S) # 0
    BY <2>2, <2>3, FS_CardinalityType, FS_EmptySet
  <2> QED BY <1>1, <1>3, <2>1, <2>3, <2>4
<1> QED BY <1>1, <1>3, <1>4

LEMMA CappedIs ==
    ASSUME NEW t \in Txs
    PROVE  /\ Capped(t) \in Nat
           /\ Funders[t] <= MAX_PREVOUT_TXS => Capped(t) = Funders[t]
<1>1. MAX_PREVOUT_TXS \in Int /\ MAX_PREVOUT_TXS \in Nat /\ Funders[t] \in Int /\ Funders[t] \in Nat
  BY ExplorerAssumption, PlaceIs
<1>2. Min({MAX_PREVOUT_TXS, Funders[t]}) = IF MAX_PREVOUT_TXS <= Funders[t] THEN MAX_PREVOUT_TXS ELSE Funders[t]
  BY <1>1, MinMax, ZenonT(60)
<1> QED BY <1>1, <1>2 DEF Capped

(* A batch has the funding transactions whose places it covers.            *)
LEMMA InChunk ==
    ASSUME NEW my, NEW t \in Txs, visit[my].what = t, visit[my].next \in Nat, NEW f \in FirstUses[t],
           visit[my].next <= Place[t][f], Place[t][f] < visit[my].next + PREVOUT_BATCH,
           Place[t][f] <= Capped(t)
    PROVE  Ins[t][f].from \in Chunk(my)
<1> DEFINE last == visit[my].next + PREVOUT_BATCH - 1
           cap == Capped(t)
           upto == Min({last, cap})
<1>1. last \in Int /\ Capped(t) \in Int /\ Place[t][f] \in Nat /\ Place[t][f] <= last
  <2>1. PREVOUT_BATCH \in Nat
    BY ExplorerAssumption
  <2>2. Capped(t) \in Int
    BY CappedIs
  <2>3. Place[t][f] \in Nat
    BY PlaceIs
  <2> QED BY <2>1, <2>2, <2>3
<1>2. cap \in Int /\ Place[t][f] <= cap
  BY <1>1
<1> HIDE DEF last, cap
<1>3. last \in Int /\ cap \in Int
  BY <1>1, <1>2
<1>4. Min({last, cap}) = IF last <= cap THEN last ELSE cap
  BY <1>3, MinMax, ZenonT(60)
<1>5. Place[t][f] \in visit[my].next..upto
  BY <1>1, <1>2, <1>3, <1>4
<1> HIDE DEF upto
<1>6. Chunk(my) = {Ins[t][i].from : i \in {i \in FirstUses[t] : Place[t][i] \in visit[my].next..upto}}
  BY DEF Chunk, upto, last, cap
<1> QED BY <1>5, <1>6

(* What one batch leaves.                                                  *)
After(my, t, answered) ==
    [i \in DOMAIN Ins[t] |->
        IF Ins[t][i].from \in Chunk(my) THEN Resolved(Ins[t][i], answered) ELSE found[i]]

LEMMA BatchResolves ==
    ASSUME NEW my, NEW t \in Txs, visit[my].what = t, visit[my].next \in Nat, ~IsCoinbase(t),
           found \in [DOMAIN Ins[t] -> Answers], Looked(t, visit[my].next),
           NEW answered
    PROVE  /\ After(my, t, answered) \in [DOMAIN Ins[t] -> Answers]
           /\ \A i \in DOMAIN Ins[t], f \in FirstUses[t] :
                 /\ Ins[t][f].from = Ins[t][i].from
                 /\ Place[t][f] < visit[my].next + PREVOUT_BATCH /\ Place[t][f] <= Capped(t)
                 => After(my, t, answered)[i] # "undefined"
<1>1. \A i \in DOMAIN Ins[t] : Resolved(Ins[t][i], answered) \in {"value", "unavailable"}
  BY DEF Resolved
<1>2. After(my, t, answered) \in [DOMAIN Ins[t] -> Answers]
  BY <1>1 DEF Answers, After
<1>3. ASSUME NEW i \in DOMAIN Ins[t], NEW f \in FirstUses[t], Ins[t][f].from = Ins[t][i].from,
             Place[t][f] < visit[my].next + PREVOUT_BATCH, Place[t][f] <= Capped(t)
      PROVE  After(my, t, answered)[i] # "undefined"
  <2>1. CASE Ins[t][i].from \in Chunk(my)
    BY <1>1, <2>1 DEF After
  <2>2. CASE Ins[t][i].from \notin Chunk(my)
    <3>1. ~(visit[my].next <= Place[t][f])
      BY <1>3, <2>2, InChunk
    <3>2. Place[t][f] < visit[my].next
      BY <3>1, PlaceIs
    <3> QED BY <1>3, <2>2, <3>2 DEF Looked, After
  <2> QED BY <2>1, <2>2
<1> QED BY <1>2, <1>3

(* After the last batch of all that are looked up, nothing is unresolved.  *)
LEMMA LastBatch ==
    ASSUME NEW my, NEW t \in Txs, visit[my].what = t, visit[my].next \in Nat, ~IsCoinbase(t),
           found \in [DOMAIN Ins[t] -> Answers], Looked(t, visit[my].next),
           NEW answered,
           ~(visit[my].next + PREVOUT_BATCH <= Capped(t)), ~(Funders[t] > MAX_PREVOUT_TXS)
    PROVE  \A i \in DOMAIN Ins[t] : After(my, t, answered)[i] \in {"value", "unavailable"}
<1> TAKE i \in DOMAIN Ins[t]
<1>1. PICK f \in FirstUses[t] : Ins[t][f].from = Ins[t][i].from
  BY FirstUse, InputsAre
<1>2. PREVOUT_BATCH \in Nat /\ MAX_PREVOUT_TXS \in Nat /\ Funders[t] \in Nat /\ Place[t][f] \in 1..Funders[t]
  BY ExplorerAssumption, PlaceIs
<1>3. Capped(t) = Funders[t]
  BY <1>2, CappedIs
<1>4. Place[t][f] < visit[my].next + PREVOUT_BATCH /\ Place[t][f] <= Capped(t)
  BY <1>2, <1>3
<1>5. /\ After(my, t, answered) \in [DOMAIN Ins[t] -> Answers]
      /\ \A j \in DOMAIN Ins[t], g \in FirstUses[t] :
            /\ Ins[t][g].from = Ins[t][j].from
            /\ Place[t][g] < visit[my].next + PREVOUT_BATCH /\ Place[t][g] <= Capped(t)
            => After(my, t, answered)[j] # "undefined"
  BY BatchResolves, ZenonT(60)
<1>6. After(my, t, answered)[i] \in Answers /\ After(my, t, answered)[i] # "undefined"
  BY <1>1, <1>4, <1>5
<1> QED BY <1>6 DEF Answers

-----------------------------------------------------------------------------
(* Rows.                                                                   *)

LEMMA RowType ==
    ASSUME NEW t, NEW i, NEW resolved, resolved[i] \in Known
    PROVE  RowText(t, i, resolved) \in Rows
BY DEF RowText, Rows, Known, Answers

LEMMA MoreRowsAre ==
    ASSUME NEW t \in Txs, NEW resolved, resolved \in [DOMAIN Ins[t] -> Known],
           NEW drawn \in Seq(Rows), Len(drawn) <= Len(Ins[t]),
           \A i \in 1..Len(drawn) : drawn[i] = RowText(t, i, resolved)
    PROVE  LET more == MoreRows(t, drawn, resolved)
           IN  /\ more \in Seq(Rows) /\ Len(more) <= Len(Ins[t])
               /\ \A i \in 1..Len(more) : more[i] = RowText(t, i, resolved)
<1> DEFINE all == Len(Ins[t])
           d == Len(drawn)
           n == Min({IO_CHUNK, all - d})
           new == [i \in 1..n |-> RowText(t, d + i, resolved)]
<1>1. all \in Nat /\ DOMAIN Ins[t] = 1..all /\ d \in Nat /\ d <= all /\ MoreRows(t, drawn, resolved) = drawn \o new
  BY InputsAre DEF MoreRows
<1>2. /\ drawn \in [1..d -> Rows] /\ \A i \in 1..d : drawn[i] = RowText(t, i, resolved)
  OBVIOUS
<1> HIDE DEF all
<1>3. d = Len(drawn) /\ IO_CHUNK \in Int /\ IO_CHUNK \in Nat
  BY ExplorerAssumption
<1> HIDE DEF d
<1>4. n \in Nat /\ d + n <= all
  <2> DEFINE left == all - d
  <2>1. left \in Int /\ left >= 0
    BY <1>1
  <2> HIDE DEF left
  <2>2. Min({IO_CHUNK, left}) = IF IO_CHUNK <= left THEN IO_CHUNK ELSE left
    BY <1>3, <2>1, MinMax, ZenonT(60)
  <2>3. n \in Nat /\ n <= left
    BY <1>3, <2>1, <2>2 DEF left
  <2> HIDE DEF n
  <2> QED BY <1>1, <2>1, <2>3 DEF left
<1> HIDE DEF n
<1>5. \A i \in 1..n : RowText(t, d + i, resolved) \in Rows
  <2> TAKE i \in 1..n
  <2>1. d + i \in 1..all
    BY <1>1, <1>4
  <2> QED BY <1>1, <2>1, RowType
<1>6. new \in Seq(Rows) /\ Len(new) = n /\ \A i \in 1..n : new[i] = RowText(t, d + i, resolved)
  BY <1>4, <1>5
<1> HIDE DEF new
<1> DEFINE more == drawn \o new
<1>7. /\ more \in Seq(Rows) /\ Len(more) = d + n
      /\ \A i \in 1..(d + n) : more[i] = IF i <= d THEN drawn[i] ELSE new[i - d]
  <2>1. drawn \in Seq(Rows) /\ new \in Seq(Rows)
    BY <1>6
  <2>2. /\ more \in Seq(Rows) /\ Len(more) = Len(drawn) + Len(new)
        /\ \A i \in 1..Len(drawn) + Len(new) :
              more[i] = IF i <= Len(drawn) THEN drawn[i] ELSE new[i - Len(drawn)]
    BY <2>1, ConcatProperties, ZenonT(60)
  <2> QED BY <1>3, <1>6, <2>2, ZenonT(60)
<1> HIDE DEF more
<1>8. ASSUME NEW i \in 1..(d + n) PROVE more[i] = RowText(t, i, resolved)
  <2>1. CASE i <= d
    <3>1. i \in 1..d
      BY <1>1, <2>1
    <3> QED BY <1>2, <1>7, <2>1, <3>1
  <2>2. CASE ~(i <= d)
    <3>1. i - d \in 1..n /\ d + (i - d) = i
      BY <1>1, <1>4, <2>2
    <3>2. RowText(t, d + (i - d), resolved) = RowText(t, i, resolved)
      BY <3>1
    <3> QED BY <1>6, <1>7, <2>2, <3>1, <3>2
  <2> QED BY <2>1, <2>2
<1> QED BY <1>1, <1>4, <1>7, <1>8 DEF more, all

-----------------------------------------------------------------------------
(* Visits.                                                                 *)

LEMMA VisitIs ==
    ASSUME VisitsOK, NEW my \in 1..epoch
    PROVE  visit[my] \in Visit /\ my \in DOMAIN visit /\ Sensible(visit[my])
BY DEF VisitsOK

LEMMA VisitMoves ==
    ASSUME VisitsOK, NEW my \in 1..epoch, NEW v \in Visit, Sensible(v),
           visit' = [visit EXCEPT ![my] = v], epoch' = epoch
    PROVE  VisitsOK' /\ \A m \in 1..epoch : visit'[m] = IF m = my THEN v ELSE visit[m]
<1>1. visit' \in Seq(Visit) /\ Len(visit') = Len(visit)
  BY DEF VisitsOK
<1>2. \A m \in 1..epoch : visit'[m] = IF m = my THEN v ELSE visit[m]
  BY DEF VisitsOK
<1> QED BY <1>1, <1>2 DEF VisitsOK

LEMMA EndIs ==
    ASSUME VisitsOK, NEW my \in 1..epoch, End(my), epoch' = epoch
    PROVE  /\ VisitsOK' /\ visit'[my].at = "done"
           /\ \A m \in 1..epoch : m # my => visit'[m] = visit[m]
<1> DEFINE v == [visit[my] EXCEPT !.at = "done"]
<1>1. visit[my] \in Visit /\ my \in DOMAIN visit
  BY VisitIs
<1>2. v \in Visit /\ v.at = "done" /\ Sensible(v)
  BY <1>1 DEF Visit, Stages, Sensible
<1>3. visit' = [visit EXCEPT ![my] = v]
  BY DEF End
<1> HIDE DEF v
<1>4. VisitsOK' /\ \A m \in 1..epoch : visit'[m] = IF m = my THEN v ELSE visit[m]
  BY <1>2, <1>3, VisitMoves
<1> QED BY <1>2, <1>4

(* A step that ends a visit and leaves transaction pages alone.            *)
LEMMA EndKeeps ==
    ASSUME ShownInv, NEW my \in 1..epoch, End(my), UNCHANGED <<epoch, tx>>,
           page' = page \/ (my = epoch /\ page'.kind # "tx" /\ visit[my].at # "prevouts")
    PROVE  VisitsOK' /\ LookUpsOK' /\ TxPageOK'
<1>1. /\ VisitsOK' /\ visit'[my].at = "done"
      /\ \A m \in 1..epoch : m # my => visit'[m] = visit[m]
  BY EndIs DEF ShownInv
<1>2. LookUpsOK'
  <2> SUFFICES ASSUME NEW m \in 1..epoch, m = epoch, visit'[m].at = "prevouts"
               PROVE  /\ page'.kind = "tx" /\ page'.what = visit'[m].what /\ ~IsCoinbase(page'.what)
                      /\ fee' = "resolving" /\ found' \in [DOMAIN Ins[page'.what] -> Answers]
                      /\ \A i \in DOMAIN Ins[page'.what], f \in FirstUses[page'.what] :
                            /\ Ins[page'.what][f].from = Ins[page'.what][i].from
                            /\ Place[page'.what][f] < visit'[m].next
                            => found'[i] # "undefined"
    BY DEF LookUpsOK, Looked, tx
  <2>1. m # my /\ visit'[m] = visit[m] /\ page' = page
    BY <1>1
  <2> QED BY <2>1 DEF ShownInv, LookUpsOK, Looked, tx
<1>3. TxPageOK'
  BY DEF ShownInv, TxPageOK, tx
<1> QED BY <1>1, <1>2, <1>3

-----------------------------------------------------------------------------
(* The steps.                                                              *)

LEMMA ShownStart == ASSUME InitExplorer PROVE ShownInv
<1>1. VisitsOK
  BY DEF InitExplorer, VisitsOK
<1>2. BlockPageOK /\ TxPageOK
  BY DEF InitExplorer, BlockPageOK, TxPageOK, NoPage
<1>3. LookUpsOK
  BY DEF InitExplorer, LookUpsOK
<1> QED BY <1>1, <1>2, <1>3 DEF ShownInv

LEMMA TargetIs ==
    ASSUME NEW target \in Targets
    PROVE  LET v == [at |-> target.kind, what |-> target.what, page |-> target.page, next |-> 1]
           IN  v \in Visit /\ Sensible(v) /\ v.at # "prevouts"
BY DEF Targets, Visit, Stages, Sensible

LEMMA ShowKeepsPage ==
    ASSUME ShownInv, NEW target \in Targets, Show(target) PROVE ShownInv'
<1> DEFINE v == [at |-> target.kind, what |-> target.what, page |-> target.page, next |-> 1]
<1>1. v \in Visit /\ Sensible(v) /\ v.at # "prevouts"
  BY TargetIs
<1>2. visit' = Append(visit, v) /\ epoch' = epoch + 1 /\ page'.kind = "loading"
  BY DEF Show
<1> HIDE DEF v
<1>3. /\ visit' \in Seq(Visit) /\ Len(visit') = epoch' /\ epoch' \in Nat
      /\ \A my \in 1..epoch' : visit'[my] = IF my = epoch' THEN v ELSE visit[my]
  BY <1>1, <1>2 DEF ShownInv, VisitsOK
<1>4. \A my \in 1..epoch' : Sensible(visit'[my])
  <2> TAKE my \in 1..epoch'
  <2>1. CASE my = epoch'
    BY <1>1, <1>3, <2>1
  <2>2. CASE my # epoch'
    <3>1. my \in 1..epoch
      BY <1>2, <2>2 DEF ShownInv, VisitsOK
    <3> QED BY <1>3, <2>2, <3>1 DEF ShownInv, VisitsOK
  <2> QED BY <2>1, <2>2
<1>5. VisitsOK'
  BY <1>3, <1>4 DEF VisitsOK
<1>6. BlockPageOK' /\ TxPageOK'
  BY <1>2 DEF BlockPageOK, TxPageOK
<1>7. LookUpsOK'
  BY <1>1, <1>3 DEF LookUpsOK
<1> QED BY <1>5, <1>6, <1>7 DEF ShownInv

LEMMA RefuseKeepsPage ==
    ASSUME ShownInv, NEW my \in 1..epoch, Refuse(my) PROVE ShownInv'
<1>1. End(my) /\ UNCHANGED <<epoch, listed, tx>> /\ visit[my].at # "prevouts"
  BY DEF Refuse
<1>2. page' = page \/ (my = epoch /\ page'.kind = "error")
  BY DEF Refuse
<1>3. VisitsOK' /\ LookUpsOK' /\ TxPageOK'
  BY <1>1, <1>2, EndKeeps
<1>4. BlockPageOK'
  BY <1>1, <1>2 DEF ShownInv, BlockPageOK, Pages
<1> QED BY <1>3, <1>4 DEF ShownInv

LEMMA GotHashKeepsPage ==
    ASSUME ShownInv, NEW my \in 1..epoch, GotHash(my) PROVE ShownInv'
<1>1. UNCHANGED <<epoch, page, listed, tx>> /\ visit[my].at = "height" /\ At[visit[my].what] # Nothing
  BY DEF GotHash
<1>2. BlockPageOK'
  BY <1>1 DEF ShownInv, BlockPageOK
<1>3. CASE my # epoch
  <2>1. End(my)
    BY <1>3 DEF GotHash
  <2>2. VisitsOK' /\ LookUpsOK' /\ TxPageOK'
    BY <1>1, <2>1, EndKeeps
  <2> QED BY <1>2, <2>2 DEF ShownInv
<1>4. CASE my = epoch
  <2> DEFINE v == [visit[my] EXCEPT !.at = "block", !.what = At[visit[my].what]]
  <2>1. visit[my] \in Visit /\ my \in DOMAIN visit /\ Sensible(visit[my])
    BY VisitIs DEF ShownInv
  <2>2. At[visit[my].what] \in Blocks
    BY <1>1, <2>1, ExplorerAssumption DEF Sensible
  <2>3. v \in Visit /\ Sensible(v) /\ v.at = "block"
    BY <2>1, <2>2 DEF Visit, Stages, Sensible
  <2>4. visit' = [visit EXCEPT ![my] = v]
    BY <1>4, <2>1 DEF GotHash
  <2> HIDE DEF v
  <2>5. VisitsOK' /\ \A m \in 1..epoch : visit'[m] = IF m = my THEN v ELSE visit[m]
    BY <1>1, <2>3, <2>4, VisitMoves DEF ShownInv
  <2>6. LookUpsOK'
    BY <1>1, <1>4, <2>3, <2>5 DEF LookUpsOK
  <2>7. TxPageOK'
    BY <1>1 DEF ShownInv, TxPageOK, tx
  <2> QED BY <1>2, <2>5, <2>6, <2>7 DEF ShownInv
<1> QED BY <1>3, <1>4

LEMMA GotBlockKeepsPage ==
    ASSUME ShownInv, NEW my \in 1..epoch, GotBlock(my) PROVE ShownInv'
<1>1. End(my) /\ UNCHANGED <<epoch, tx>> /\ visit[my].at = "block"
  BY DEF GotBlock
<1>2. page' = page \/ (my = epoch /\ page'.kind = "block")
  BY DEF GotBlock
<1>3. VisitsOK' /\ LookUpsOK' /\ TxPageOK'
  BY <1>1, <1>2, EndKeeps
<1>4. BlockPageOK'
  <2>1. CASE my = epoch
    <3>1. visit[my].what \in Blocks /\ visit[my].page \in Int
      BY <1>1, VisitIs DEF ShownInv, Sensible, Visit
    <3>2. Clamped(visit[my].what, visit[my].page) \in 1..Pages(visit[my].what)
      BY <3>1, ClampedIs
    <3> QED BY <2>1, <3>1, <3>2 DEF GotBlock, BlockPageOK
  <2>2. CASE my # epoch
    BY <2>2 DEF GotBlock, ShownInv, BlockPageOK
  <2> QED BY <2>1, <2>2
<1> QED BY <1>3, <1>4 DEF ShownInv

LEMMA GotTxKeepsPage ==
    ASSUME ShownInv, NEW my \in 1..epoch, GotTx(my) PROVE ShownInv'
<1> DEFINE t == visit[my].what
           unresolved == [i \in DOMAIN Ins[t] |-> "undefined"]
<1>1. /\ epoch' = epoch /\ listed' = listed /\ visit[my].at = "tx" /\ visit[my].next = 1 /\ t \in Txs
      /\ visit[my] \in Visit
  BY VisitIs DEF GotTx, ShownInv, Sensible
<1>2. CASE my # epoch
  <2>1. End(my) /\ UNCHANGED <<epoch, page, tx>>
    BY <1>2 DEF GotTx
  <2>2. VisitsOK' /\ LookUpsOK' /\ TxPageOK'
    BY <2>1, EndKeeps
  <2>3. BlockPageOK'
    BY <1>1, <2>1 DEF ShownInv, BlockPageOK
  <2> QED BY <2>2, <2>3 DEF ShownInv
<1>3. CASE my = epoch
  <2>1. /\ page'.kind = "tx" /\ page'.what = t /\ found' = unresolved
        /\ texts' = MoreRows(t, <<>>, unresolved)
        /\ fee' = IF IsCoinbase(t) THEN "coinbase" ELSE "resolving"
        /\ visit' = [visit EXCEPT ![my].at = IF IsCoinbase(t) THEN "done" ELSE "prevouts"]
    BY <1>3 DEF GotTx
  <2>2. unresolved \in [DOMAIN Ins[t] -> Answers] /\ unresolved \in [DOMAIN Ins[t] -> Known]
    BY DEF Answers, Known
  <2> DEFINE v == [visit[my] EXCEPT !.at = IF IsCoinbase(t) THEN "done" ELSE "prevouts"]
  <2>3. /\ v \in Visit /\ Sensible(v) /\ v.next = 1 /\ v.what = t
        /\ v.at = "prevouts" => ~IsCoinbase(t)
    BY <1>1 DEF Visit, Stages, Sensible
  <2>4. visit' = [visit EXCEPT ![my] = v]
    BY <2>1, VisitIs DEF ShownInv
  <2> HIDE DEF v
  <2>5. VisitsOK' /\ \A m \in 1..epoch : visit'[m] = IF m = my THEN v ELSE visit[m]
    BY <1>1, <2>3, <2>4, VisitMoves DEF ShownInv
  <2>6. BlockPageOK'
    BY <2>1 DEF BlockPageOK
  <2>7. TxPageOK'
    <3>1. <<>> \in Seq(Rows) /\ Len(<<>>) = 0 /\ Len(<<>>) <= Len(Ins[t])
      BY <1>1, InputsAre
    <3>2. \A i \in 1..Len(<<>>) : <<>>[i] = RowText(t, i, unresolved)
      BY <3>1
    <3> DEFINE more == MoreRows(t, <<>>, unresolved)
    <3>3. t \in Txs /\ texts' = more
      BY <1>1, <2>1
    <3> HIDE DEF unresolved, t
    <3>4. /\ more \in Seq(Rows) /\ Len(more) <= Len(Ins[t])
          /\ \A i \in 1..Len(more) : more[i] = RowText(t, i, unresolved)
      BY <2>2, <3>1, <3>2, <3>3, MoreRowsAre, ZenonT(60)
    <3> HIDE DEF more
    <3>5. fee' # "shown"
      BY <2>1
    <3> QED BY <2>1, <2>2, <3>3, <3>4, <3>5 DEF TxPageOK
  <2>8. LookUpsOK'
    <3> SUFFICES ASSUME visit'[my].at = "prevouts"
                 PROVE  /\ page'.kind = "tx" /\ page'.what = visit'[my].what /\ ~IsCoinbase(page'.what)
                        /\ fee' = "resolving" /\ found' \in [DOMAIN Ins[page'.what] -> Answers]
                        /\ \A i \in DOMAIN Ins[page'.what], f \in FirstUses[page'.what] :
                              /\ Ins[page'.what][f].from = Ins[page'.what][i].from
                              /\ Place[page'.what][f] < visit'[my].next
                              => found'[i] # "undefined"
      BY <1>1, <1>3 DEF LookUpsOK, Looked
    <3>1. visit'[my] = v /\ ~IsCoinbase(t)
      BY <1>1, <2>3, <2>5
    <3>2. \A f \in FirstUses[t] : ~(Place[t][f] < 1)
      BY <1>1, PlaceIs
    <3> HIDE DEF t
    <3> QED BY <2>1, <2>2, <2>3, <3>1, <3>2
  <2> QED BY <2>5, <2>6, <2>7, <2>8 DEF ShownInv
<1> QED BY <1>2, <1>3

LEMMA ShowMoreKeepsPage == ASSUME ShownInv, ShowMore PROVE ShownInv'
<1>1. /\ UNCHANGED <<epoch, visit, page, listed, found, fee>> /\ page.kind = "tx"
      /\ texts' = MoreRows(page.what, texts, found)
  BY DEF ShowMore
<1>2. VisitsOK' /\ BlockPageOK' /\ LookUpsOK'
  BY <1>1 DEF ShownInv, VisitsOK, BlockPageOK, LookUpsOK, Looked
<1>3. /\ page.what \in Txs /\ found \in [DOMAIN Ins[page.what] -> Known]
      /\ texts \in Seq(Rows) /\ Len(texts) <= Len(Ins[page.what])
      /\ \A i \in 1..Len(texts) : texts[i] = RowText(page.what, i, found)
  BY <1>1 DEF ShownInv, TxPageOK
<1> DEFINE more == MoreRows(page.what, texts, found)
<1>4. /\ more \in Seq(Rows) /\ Len(more) <= Len(Ins[page.what])
      /\ \A i \in 1..Len(more) : more[i] = RowText(page.what, i, found)
  BY <1>3, MoreRowsAre, ZenonT(60)
<1>5. texts' = more
  BY <1>1
<1> HIDE DEF more
<1>6. TxPageOK'
  BY <1>1, <1>4, <1>5 DEF ShownInv, TxPageOK
<1> QED BY <1>2, <1>6 DEF ShownInv

LEMMA GotoKeepsPage ==
    ASSUME ShownInv, NEW p \in {listed - 1, listed + 1}, Goto(p) PROVE ShownInv'
<1>1. UNCHANGED <<epoch, visit, page, tx>> /\ page.kind = "block" /\ listed' = Clamped(page.what, p)
  BY DEF Goto
<1>2. page.what \in Blocks /\ p \in Int
  BY <1>1, PagesIs DEF ShownInv, BlockPageOK
<1>3. listed' \in 1..Pages(page.what)
  BY <1>1, <1>2, ClampedIs
<1>4. VisitsOK' /\ TxPageOK' /\ LookUpsOK'
  BY <1>1 DEF ShownInv, VisitsOK, TxPageOK, LookUpsOK, tx
<1> QED BY <1>1, <1>2, <1>3, <1>4 DEF ShownInv, BlockPageOK

(* A batch of answers, or what is given up after the last: each row drawn  *)
(* is drawn again with what is known now.                                  *)
LEMMA PatchedRows ==
    ASSUME NEW t \in Txs, NEW resolved, resolved \in [DOMAIN Ins[t] -> Known],
           texts \in Seq(Rows), Len(texts) <= Len(Ins[t])
    PROVE  /\ Patched(t, resolved) \in Seq(Rows) /\ Len(Patched(t, resolved)) = Len(texts)
           /\ \A i \in 1..Len(texts) : Patched(t, resolved)[i] = RowText(t, i, resolved)
<1> DEFINE n == Len(texts)
<1>1. n \in Nat /\ DOMAIN texts = 1..n /\ n <= Len(Ins[t])
  OBVIOUS
<1> HIDE DEF n
<1>2. \A i \in 1..n : RowText(t, i, resolved) \in Rows
  <2> TAKE i \in 1..n
  <2>1. i \in DOMAIN Ins[t]
    BY <1>1, InputsAre
  <2> QED BY <2>1, RowType
<1>3. Patched(t, resolved) = [i \in 1..n |-> RowText(t, i, resolved)]
  BY <1>1 DEF Patched
<1>4. /\ Patched(t, resolved) \in Seq(Rows) /\ Len(Patched(t, resolved)) = n
      /\ \A i \in 1..n : Patched(t, resolved)[i] = RowText(t, i, resolved)
  BY <1>1, <1>2, <1>3
<1> QED BY <1>4 DEF n

LEMMA GotPrevoutsKeepsPage ==
    ASSUME ShownInv, NEW my \in 1..epoch, GotPrevouts(my) PROVE ShownInv'
<1> DEFINE t == visit[my].what
           next == visit[my].next + PREVOUT_BATCH
<1>1. /\ UNCHANGED <<epoch, page, listed>> /\ visit[my].at = "prevouts" /\ t \in Txs
      /\ visit[my] \in Visit /\ visit[my].next \in Nat /\ my \in DOMAIN visit
  BY VisitIs DEF GotPrevouts, ShownInv, Sensible, Visit
<1>2. BlockPageOK'
  BY <1>1 DEF ShownInv, BlockPageOK
<1>3. CASE my # epoch
  <2>1. End(my) /\ UNCHANGED <<epoch, page, tx>>
    BY <1>1, <1>3 DEF GotPrevouts
  <2> QED BY <1>2, <2>1, EndKeeps DEF ShownInv
<1>4. CASE my = epoch
  <2>1. PICK answered \in SUBSET Chunk(my) :
           /\ IF next <= Capped(t)
              THEN /\ visit' = [visit EXCEPT ![my].next = next]
                   /\ found' = After(my, t, answered) /\ UNCHANGED fee
              ELSE /\ End(my)
                   /\ found' = IF Funders[t] > MAX_PREVOUT_TXS THEN GivenUp(t, After(my, t, answered))
                                                               ELSE After(my, t, answered)
                   /\ fee' = IF Funders[t] > MAX_PREVOUT_TXS THEN "too many"
                                                             ELSE FeeLine(t, After(my, t, answered))
           /\ texts' = Patched(t, found')
    BY <1>4 DEF GotPrevouts, After
  <2> DEFINE resolved == After(my, t, answered)
  <2>2. /\ page.kind = "tx" /\ page.what = t /\ ~IsCoinbase(t) /\ fee = "resolving"
        /\ found \in [DOMAIN Ins[t] -> Answers] /\ Looked(t, visit[my].next)
        /\ texts \in Seq(Rows) /\ Len(texts) <= Len(Ins[t])
    BY <1>1, <1>4 DEF ShownInv, LookUpsOK, TxPageOK
  <2>3. /\ resolved \in [DOMAIN Ins[t] -> Answers]
        /\ \A i \in DOMAIN Ins[t], f \in FirstUses[t] :
              /\ Ins[t][f].from = Ins[t][i].from
              /\ Place[t][f] < next /\ Place[t][f] <= Capped(t)
              => resolved[i] # "undefined"
    BY <1>1, <2>2, BatchResolves, ZenonT(60)
  <2> HIDE DEF resolved
  <2>4. resolved \in [DOMAIN Ins[t] -> Known] /\ GivenUp(t, resolved) \in [DOMAIN Ins[t] -> Known]
    BY <2>3 DEF GivenUp, Known
  <2>5. found' \in [DOMAIN Ins[t] -> Known]
    BY <2>1, <2>4 DEF resolved
  <2>6. /\ texts' \in Seq(Rows) /\ Len(texts') <= Len(Ins[t])
        /\ \A i \in 1..Len(texts') : texts'[i] = RowText(t, i, found')
    <3>1. /\ Patched(t, found') \in Seq(Rows) /\ Len(Patched(t, found')) = Len(texts)
          /\ \A i \in 1..Len(texts) : Patched(t, found')[i] = RowText(t, i, found')
      BY <1>1, <2>2, <2>5, PatchedRows, ZenonT(60)
    <3> QED BY <2>1, <2>2, <3>1
  <2>7. CASE next <= Capped(t)
    <3>1. visit' = [visit EXCEPT ![my].next = next] /\ found' = resolved /\ fee' = fee
      BY <2>1, <2>7 DEF resolved
    <3> DEFINE v == [visit[my] EXCEPT !.next = next]
    <3>2. v \in Visit /\ Sensible(v) /\ v.what = t /\ v.next = next
      <4>1. next \in Nat
        BY <1>1, ExplorerAssumption
      <4> HIDE DEF next
      <4>2. v \in Visit /\ v.at = "prevouts" /\ v.what = t /\ v.next = next
        BY <1>1, <4>1 DEF Visit
      <4> HIDE DEF v
      <4> QED BY <1>1, <4>2 DEF Sensible
    <3>3. visit' = [visit EXCEPT ![my] = v]
      BY <1>1, <3>1
    <3> HIDE DEF v
    <3>4. VisitsOK' /\ \A m \in 1..epoch : visit'[m] = IF m = my THEN v ELSE visit[m]
      BY <1>1, <3>2, <3>3, VisitMoves DEF ShownInv
    <3>5. \A f \in FirstUses[t] : Place[t][f] < next => Place[t][f] <= Capped(t)
      BY <1>1, <2>7, PlaceIs, CappedIs, ExplorerAssumption
    <3> HIDE DEF next
    <3>6. /\ visit'[my] = v /\ page' = page
          /\ \A i \in DOMAIN Ins[t], f \in FirstUses[t] :
                Ins[t][f].from = Ins[t][i].from /\ Place[t][f] < next => found'[i] # "undefined"
      BY <1>1, <2>3, <3>1, <3>4, <3>5
    <3> HIDE DEF t
    <3>7. LookUpsOK'
      <4> SUFFICES /\ page'.kind = "tx" /\ page'.what = visit'[my].what /\ ~IsCoinbase(page'.what)
                   /\ fee' = "resolving" /\ found' \in [DOMAIN Ins[page'.what] -> Answers]
                   /\ \A i \in DOMAIN Ins[page'.what], f \in FirstUses[page'.what] :
                         /\ Ins[page'.what][f].from = Ins[page'.what][i].from
                         /\ Place[page'.what][f] < visit'[my].next
                         => found'[i] # "undefined"
        BY <1>1, <1>4 DEF LookUpsOK, Looked
      <4> QED BY <2>2, <2>3, <3>1, <3>2, <3>6
    <3>8. TxPageOK'
      BY <1>1, <2>2, <2>5, <2>6, <3>1 DEF TxPageOK
    <3> QED BY <1>2, <3>4, <3>7, <3>8 DEF ShownInv
  <2>8. CASE ~(next <= Capped(t))
    <3>1. VisitsOK' /\ visit'[my].at = "done"
      BY <1>1, <2>1, <2>8, EndIs DEF ShownInv
    <3>2. LookUpsOK'
      BY <1>1, <1>4, <3>1 DEF LookUpsOK
    <3>3. ASSUME fee' = "shown" PROVE ~(Fee(t) < 0) /\ \A i \in DOMAIN found' : found'[i] = "value"
      <4>1. ~(Funders[t] > MAX_PREVOUT_TXS) /\ found' = resolved /\ FeeLine(t, resolved) = "shown"
        BY <2>1, <2>8, <3>3 DEF resolved
      <4>2. \A i \in DOMAIN Ins[t] : resolved[i] \in {"value", "unavailable"}
        BY <1>1, <2>2, <2>8, <4>1, LastBatch DEF resolved
      <4>3. /\ \A i \in DOMAIN Ins[t] : resolved[i] # "unavailable"
            /\ (\A i \in DOMAIN Ins[t] : resolved[i] = "value") => ~(Fee(t) < 0)
        BY <4>1 DEF FeeLine
      <4> QED BY <2>3, <4>1, <4>2, <4>3
    <3> HIDE DEF t
    <3>4. TxPageOK'
      BY <1>1, <2>2, <2>5, <2>6, <3>3 DEF TxPageOK
    <3> QED BY <1>2, <3>1, <3>2, <3>4 DEF ShownInv
  <2> QED BY <2>7, <2>8
<1> QED BY <1>3, <1>4

LEMMA ShownStep == ASSUME ShownInv, [ExplorerStep]_explorer PROVE ShownInv'
<1>1. ASSUME UNCHANGED <<epoch, visit, page, listed, tx>> PROVE ShownInv'
  BY <1>1 DEF ShownInv, VisitsOK, BlockPageOK, TxPageOK, LookUpsOK, Looked, tx
<1>2. CASE UNCHANGED explorer \/ SearchFails \/ \E q \in Queries : Search(q)
  BY <1>1, <1>2 DEF explorer, SearchFails, Search
<1>3. CASE SearchFinds \/ \E target \in Targets : Navigate(target)
  <2>1. PICK target \in Targets : Show(target)
    BY <1>3 DEF SearchFinds, Navigate
  <2> QED BY <2>1, ShowKeepsPage
<1>4. CASE \E my \in 1..epoch : VisitStep(my)
  BY <1>4, RefuseKeepsPage, GotHashKeepsPage, GotBlockKeepsPage, GotTxKeepsPage,
     GotPrevoutsKeepsPage DEF VisitStep
<1>5. CASE ShowMore \/ \E p \in {listed - 1, listed + 1} : Goto(p)
  BY <1>5, ShowMoreKeepsPage, GotoKeepsPage
<1> QED BY <1>2, <1>3, <1>4, <1>5 DEF ExplorerStep

LEMMA RowsFollow == ASSUME TxPageOK PROVE RowsShowWhatIsKnown
<1> SUFFICES ASSUME page.kind = "tx"
             PROVE  /\ \A i \in DOMAIN texts :
                          texts[i] = IF IsCoinbase(page.what) THEN "-"
                                     ELSE IF found[i] = "undefined" THEN "resolving" ELSE found[i]
                    /\ fee = "shown" => ~(Fee(page.what) < 0) /\ \A i \in DOMAIN found : found[i] = "value"
  BY DEF RowsShowWhatIsKnown
<1>1. DOMAIN texts = 1..Len(texts)
  BY DEF TxPageOK
<1> QED BY <1>1 DEF TxPageOK, RowText

(* A row says what is known of its input whether it was drawn before the   *)
(* answers came or after, a fee is shown only when every input was found,  *)
(* whatever batches fail and however the inputs share their funding        *)
(* transactions, and the pager of a block leaves no transaction out        *)
(* (resolvePrevouts, appendChunked, renderBlockTxPage).                    *)
THEOREM PageStaysRight == ExplorerSpec => []PageIsRight
<1>1. ShownInv /\ [ExplorerStep]_explorer => ShownInv'
  BY ShownStep
<1>2. ShownInv => PageIsRight
  BY RowsFollow, PagerFollows DEF ShownInv, PageIsRight
<1> QED BY ShownStart, <1>1, <1>2, PTL DEF ExplorerSpec
=============================================================================
