------------------------------ MODULE WalletPage -----------------------------
(***************************************************************************)
(* The wallet page of the web UI (wallet.js) under the session's poll: the *)
(* selected wallet, the refresh of the tab on screen, history pages and    *)
(* the address book.                                                       *)
(*                                                                         *)
(* refresh is called at the end of every poll and by what the user does;   *)
(* one at a time runs and the others are dropped.  A request goes to the   *)
(* wallet selected when it is sent, and its answer is written to the page  *)
(* as it is when it comes.                                                 *)
(***************************************************************************)
EXTENDS Session

CONSTANTS
    Wallets,   \* the wallet directory
    Labelled,  \* wallets with labelled addresses
    MaxPage,   \* bound on the history pages
    None

ASSUME WalletPageAssumption ==
    /\ Labelled \subseteq Wallets /\ None \notin Wallets 
    /\ MaxPage \in Nat

VARIABLES
    loaded,    \* the wallets the node has loaded
    view,      \* the view the permalink names
    built,     \* has show built the page since signing in
    tab,
    stored,    \* sessionStorage's wallet
    selected, wallets, balances, histPage,
    history,   \* whose history the page holds, and which page of it
    book,      \* whose address book the page holds
    editing,   \* is a label of the book it holds being edited
    refreshing,
    run,       \* per caller: its refresh
    aside,     \* a request beside the refresh: a history page, a saved label
    change     \* a wallet being loaded or unloaded

shownData == <<balances, histPage, history, book, editing>>
choice == <<stored, selected, wallets>>
place == <<view, built, tab>>
wallet == <<loaded, place, choice, shownData, refreshing, run, aside, change>>
vars == <<session, wallet>>

User == 0           \* the caller of a refresh that is no poll
Callers == Ticks \cup {User}
NoRun == [at |-> "idle", list |-> {}, of |-> None, page |-> 0, what |-> "none"]
NoHistory == [of |-> None, page |-> 0]
NoAside == [what |-> "none", of |-> None, page |-> 0]
NoChange == [of |-> None, to |-> "none"]

InitPage ==
    /\ Init
    /\ loaded \in SUBSET Wallets /\ ("login" \in usage => loaded = Labelled)
    /\ view = "dashboard" /\ built = FALSE /\ tab = "overview"
    /\ stored = None /\ selected = None /\ wallets = {}
    /\ balances = None /\ histPage = 0 /\ history = NoHistory /\ book = None /\ editing = FALSE
    /\ refreshing = FALSE /\ run = [c \in Callers |-> NoRun]
    /\ aside = NoAside /\ change = NoChange

OnScreen == loggedIn /\ view = "wallet" /\ built

Cleared ==
    /\ balances' = None /\ histPage' = 0 /\ history' = NoHistory /\ book' = None
    /\ editing' = FALSE

(* resetWallet; requests under way run on.                                 *)
ResetWallet(runs) ==
    /\ built' = FALSE /\ tab' = "overview" /\ selected' = None /\ wallets' = {}
    /\ Cleared /\ refreshing' = FALSE
    /\ run' = runs
    /\ UNCHANGED <<view, stored>>

-----------------------------------------------------------------------------
(* refresh                                                                 *)

Begun(c) == [run EXCEPT ![c] = [NoRun EXCEPT !.at = "list"]]

(* The user's calls; a refresh under way swallows them.                    *)
Refresh ==
    IF refreshing THEN UNCHANGED <<refreshing, run>>
    ELSE run[User] = NoRun /\ run' = Begun(User) /\ refreshing' = TRUE

(* A poll calls it at its end, or ends when the page is off the screen or  *)
(* a refresh is under way.                                                 *)
PollRefreshes(t) ==
    /\ StatsSame(t) \/ GotBlocks(t)
    /\ IF OnScreen /\ ~refreshing
       THEN /\ tick' = Ask(t, "views") /\ run' = Begun(t) /\ refreshing' = TRUE
            /\ UNCHANGED timer
       ELSE EndPoll(t, FALSE) /\ UNCHANGED <<refreshing, run>>
    /\ UNCHANGED <<usage, node, creds, probe, loggedIn, hidden>>
    /\ UNCHANGED <<loaded, place, choice, shownData, aside, change>>

(* Mutant: a refresh that failed is never over.                            *)
OverForgets(c, failed) ==
    /\ run' = [run EXCEPT ![c] = NoRun] /\ refreshing' = failed
    /\ IF c \in Ticks THEN EndPoll(c, failed) ELSE UNCHANGED <<tick, timer>>

(* The end of a refresh, and of the poll that waited for it.               *)
Over(c, failed) ==
    /\ run' = [run EXCEPT ![c] = NoRun] /\ refreshing' = FALSE
    /\ IF c \in Ticks THEN EndPoll(c, failed) ELSE UNCHANGED <<tick, timer>>

Goes(c, at) ==
    /\ run' = [run EXCEPT ![c].at = at]
    /\ UNCHANGED <<refreshing, tick, timer>>

Elsewhere == UNCHANGED <<usage, node, creds, probe, loggedIn, hidden, board>>

NodeLists(c) ==
    /\ run[c].at = "list"
    /\ run' = [run EXCEPT ![c].at = "listed", ![c].list = loaded]
    /\ UNCHANGED <<session, loaded, place, choice, shownData, refreshing, aside, change>>

(* listwallets, or the batch of the overview or of the book, fails; a poll *)
(* that gets a 401 ends the session.                                       *)
Failing(c) == run[c].at \in {"list", "listed"} \/ run[c].what \in {"overview", "addresses"}
RefreshFails(c) ==
    /\ flaky /\ Failing(c) /\ Over(c, TRUE)
    /\ Elsewhere /\ UNCHANGED <<loaded, place, choice, shownData, aside, change>>
RefreshRejected(c) ==
    /\ creds # cookie /\ Failing(c)
    /\ IF c \in Ticks
       THEN /\ ShowLogin([tick EXCEPT ![c] = Idle])
            /\ UNCHANGED <<usage, node, probe, hidden>>
            /\ ResetWallet([run EXCEPT ![c] = NoRun])
       ELSE Over(c, TRUE) /\ Elsewhere /\ UNCHANGED <<place, choice, shownData>>
    /\ UNCHANGED <<loaded, aside, change>>

(* refreshWalletList: the selection is kept if the list has it.            *)
GotList(c) ==
    /\ run[c].at = "listed"
    /\ wallets' = run[c].list
    /\ LET wanted == IF selected # None THEN selected ELSE stored
       IN  \/ wanted \in wallets' /\ selected' = wanted
           \/ wanted \notin wallets' /\ selected' \in wallets'
           \/ wallets' = {} /\ selected' = None
    /\ balances' = IF selected' # selected THEN None ELSE balances
    /\ Goes(c, "dir")
    /\ Elsewhere
    /\ UNCHANGED <<loaded, place, stored, histPage, history, book, editing, aside, change>>

(* Mutant: the book is fetched on every poll.                              *)
DueAlways == tab \in {"overview", "history", "addresses"}

(* The tabs that fetch on a refresh; the book only while it is empty.      *)
Due == tab \in {"overview", "history"} \/ (tab = "addresses" /\ book = None)

(* listwalletdir is answered; the tab on screen now is asked for.          *)
GotDirectory(c) ==
    /\ run[c].at = "dir"
    /\ IF selected # None /\ Due
       THEN /\ run' = [run EXCEPT ![c].at = "tab", ![c].of = selected,
                                ![c].page = IF tab = "history" THEN histPage ELSE 0,
                                ![c].what = tab, ![c].list = {}]
            /\ UNCHANGED <<refreshing, tick, timer>>
       ELSE Over(c, FALSE)
    /\ Elsewhere /\ UNCHANGED <<loaded, place, choice, shownData, aside, change>>

BookOf(w) == IF w \in Labelled THEN w ELSE None

(* What refreshOverview, refreshHistory and refreshBook do with answers.   *)
GotOverview(of) ==
    balances' = of /\ UNCHANGED <<histPage, history, book, editing>>
GotHistory(of, page) ==
    history' = [of |-> of, page |-> page] /\ UNCHANGED <<balances, histPage, book, editing>>
GotBook(of) ==
    book' = BookOf(of) /\ editing' = FALSE /\ UNCHANGED <<balances, histPage, history>>

(* The last two swallow errors.                                            *)
GotTab(c) ==
    /\ run[c].at = "tab"
    /\ \/ run[c].what = "overview" /\ GotOverview(run[c].of)
       \/ run[c].what = "history" /\ GotHistory(run[c].of, run[c].page)
       \/ run[c].what = "addresses" /\ GotBook(run[c].of)
       \/ flaky /\ run[c].what # "overview" /\ UNCHANGED shownData
    /\ Over(c, FALSE)
    /\ Elsewhere /\ UNCHANGED <<loaded, place, choice, aside, change>>

-----------------------------------------------------------------------------
(* What the user does.                                                     *)

(* A tab's link: show.  The poll's own views are all "dashboard" here.     *)
ShowTabOf(name) ==
    /\ name \in usage /\ loggedIn
    /\ view' = "wallet" /\ built' = TRUE /\ tab' = name
    /\ Refresh
    /\ UNCHANGED <<session, loaded, choice, shownData, aside, change>>
Leave ==
    /\ OnScreen /\ view' = "dashboard"
    /\ UNCHANGED <<session, loaded, built, tab, choice, shownData, refreshing, run, aside, change>>

(* selectWallet                                                            *)
Select(w) ==
    /\ stored' = w /\ selected' = w /\ Cleared /\ UNCHANGED wallets
    /\ IF OnScreen THEN Refresh ELSE UNCHANGED <<refreshing, run>>

SelectWallet(w) ==
    /\ OnScreen /\ w \in wallets \ {selected}
    /\ Select(w)
    /\ UNCHANGED <<session, loaded, place, aside, change>>

(* Loading and unloading: the node's step, and the page's when it knows.   *)
LoadWallet(w) ==
    /\ "change" \in usage /\ OnScreen /\ change = NoChange /\ w \notin wallets
    /\ loaded' = loaded \cup {w} /\ change' = [of |-> w, to |-> "load"]
    /\ UNCHANGED <<session, place, choice, shownData, refreshing, run, aside>>
UnloadCurrent ==
    /\ "change" \in usage /\ OnScreen /\ change = NoChange /\ selected # None
    /\ loaded' = loaded \ {selected} /\ change' = [of |-> selected, to |-> "unload"]
    /\ UNCHANGED <<session, place, choice, shownData, refreshing, run, aside>>
WalletLoaded ==
    /\ change.to = "load" /\ Select(change.of) /\ change' = NoChange
    /\ UNCHANGED <<session, loaded, place, aside>>
WalletUnloaded ==
    /\ change.to = "unload" /\ change' = NoChange
    /\ stored' = None /\ selected' = None /\ UNCHANGED wallets
    /\ IF OnScreen THEN Refresh ELSE UNCHANGED <<refreshing, run>>
    /\ UNCHANGED <<session, loaded, place, shownData, aside>>

(* gotoHistoryPage, and saving an edited label (setlabel and refreshBook). *)
TurnPage(p) ==
    /\ OnScreen /\ tab = "history" /\ history.of # None /\ aside = NoAside
    /\ p \in {histPage - 1, histPage + 1} \cap 0..MaxPage
    /\ histPage' = p /\ aside' = [what |-> "history", of |-> selected, page |-> p]
    /\ UNCHANGED <<session, loaded, place, choice, balances, history, book, editing,
                   refreshing, run, change>>
EditLabel ==
    /\ OnScreen /\ tab = "addresses" /\ book # None /\ editing' = ~editing
    /\ UNCHANGED <<session, loaded, place, choice, balances, histPage, history, book,
                   refreshing, run, aside, change>>
SaveLabel ==
    /\ editing /\ aside = NoAside
    /\ aside' = [what |-> "book", of |-> selected, page |-> 0]
    /\ UNCHANGED <<session, loaded, place, choice, shownData, refreshing, run, change>>
AsideAnswered ==
    /\ aside # NoAside /\ aside' = NoAside
    /\ \/ aside.what = "history" /\ GotHistory(aside.of, aside.page)
       \/ aside.what = "book" /\ GotBook(aside.of)
       \/ flaky /\ UNCHANGED shownData
    /\ UNCHANGED <<session, loaded, place, choice, refreshing, run, change>>

(* Signing in renders the view the permalink names.                        *)
SignedIn(t) ==
    /\ LoginDone(t)
    /\ built' = (view = "wallet")
    /\ IF view = "wallet" THEN Refresh ELSE UNCHANGED <<refreshing, run>>
    /\ UNCHANGED <<loaded, view, tab, choice, shownData, aside, change>>

-----------------------------------------------------------------------------
Handler(c) ==
    \/ NodeLists(c) \/ RefreshFails(c) \/ RefreshRejected(c)
    \/ GotList(c) \/ GotDirectory(c) \/ GotTab(c)

Next ==
    \/ SessionStep /\ UNCHANGED wallet
    \/ SessionEnds /\ ResetWallet(run) /\ UNCHANGED <<loaded, aside, change>>
    \/ \E t \in Ticks : PollRefreshes(t) \/ SignedIn(t)
    \/ \E c \in Callers : Handler(c)
    \/ \E name \in {"overview", "history", "addresses"} : ShowTabOf(name)
    \/ Leave \/ WalletLoaded \/ WalletUnloaded \/ UnloadCurrent
    \/ EditLabel \/ SaveLabel \/ AsideAnswered
    \/ \E w \in Wallets : SelectWallet(w) \/ LoadWallet(w)
    \/ \E p \in 0..MaxPage : TurnPage(p)

Spec == InitPage /\ [][Next]_vars

PollGoesOn(t) ==
    \/ (NodeTick(t) \/ TickDown(t) \/ StatsAgain(t)) /\ UNCHANGED wallet
    \/ TickRejected(t) /\ ResetWallet(run) /\ UNCHANGED <<loaded, aside, change>>
    \/ PollRefreshes(t)
(* Requests are answered or fail, the timer fires, handlers run.           *)
FairSpec ==
    /\ Spec
    /\ WF_vars(\E t \in Ticks : NextPoll(t) /\ UNCHANGED wallet)
    /\ \A t \in Ticks : WF_vars(PollGoesOn(t))
    /\ \A c \in Callers : WF_vars(Handler(c))
    /\ WF_vars(AsideAnswered)

-----------------------------------------------------------------------------
(* The tab on screen settles on the wallet that is selected, and on the    *)
(* page of its history the pager names, once the user rests: whatever was  *)
(* under way when he selected it, dropped or answered late.                *)
SettlesOnSelected == \A w \in Wallets :
    LET rests == OnScreen /\ ~hidden /\ ~flaky /\ selected = w IN
    /\ <>[](rests /\ tab = "overview") => <>[](balances = w)
    /\ \A p \in 0..MaxPage :
          <>[](rests /\ tab = "history" /\ histPage = p) => <>[](history = [of |-> w, page |-> p])

(* No poll asks for the address book while a label is being edited: "a 3s  *)
(* rebuild would clobber an inline label edit in progress".                *)
NoFetchUnderEdit ==
    [][\A t \in Ticks : editing /\ run[t].at = "dir" => run'[t].what # "addresses"]_vars
=============================================================================
