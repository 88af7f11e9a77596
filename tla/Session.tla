------------------------------- MODULE Session -------------------------------
(***************************************************************************)
(* The web UI's session and its poll (app.js, rpc.js) and the dashboard    *)
(* the poll feeds (dashboard.js).  Signing in starts a chain of polls,     *)
(* each rescheduled when it ends; hiding the browser tab or leaving the    *)
(* session stops the chain, and polls under way run on as ghosts of the    *)
(* chain they belonged to.                                                 *)
(*                                                                         *)
(* Polls and the login probe are requests, with everything else between    *)
(* asking and handling the answer; what an answer says is split from when  *)
(* it is handled where the two can differ, for the tip.  WalletPage        *)
(* composes this module with the view the poll refreshes at its end.       *)
(***************************************************************************)
EXTENDS Naturals

CONSTANTS
    MaxPolls,  \* bound on the polls under way at a time
    Usages,    \* what a behaviour exercises: sets of "session", "login", and
               \* what WalletPage adds
    MaxTip     \* bound on the chain's growth

ASSUME SessionAssumption == MaxTip \in Nat /\ MaxPolls \in Nat \ {0}

VARIABLES
    usage,
    cookie,    \* the node's credential; a restart makes a new one
    flaky,     \* may requests still fail
    tip,       \* the node's chain tip
    creds,     \* the credential the browser tab stores, 0 for none
    probe,     \* the credential the login form has sent, 0 for none
    loggedIn, hidden,
    timer,     \* is a poll scheduled
    tick,      \* the polls under way
    tipHash,   \* the dashboard's state.tipHash
    recent     \* state.recentBlocks, the table on screen: the tip it was
               \* asked for, and whether it has all its rows

node == <<cookie, flaky, tip>>
board == <<tipHash, recent>>
session == <<usage, node, creds, probe, loggedIn, hidden, timer, tick, board>>

Ticks == 1..MaxPolls
Credentials == {1, 2}
Idle == [at |-> "idle", live |-> FALSE, auth |-> 0, tip |-> 0]

Table(n) == [tip |-> n, whole |-> TRUE]
NoTable == Table(0)

(* A poll, of the chain that is current from now on.                       *)
Fresh(auth) == [at |-> "stats", live |-> TRUE, auth |-> auth, tip |-> 0]

Init ==
    /\ usage \in Usages
    /\ cookie = 1 /\ flaky = TRUE /\ tip = 1
    /\ creds \in {0, 1} /\ probe = 0
    /\ loggedIn = (creds # 0) /\ hidden = FALSE /\ timer = FALSE
    /\ tick = [t \in Ticks |-> IF t = 1 /\ loggedIn THEN Fresh(creds) ELSE Idle]
    /\ tipHash = 0 /\ recent = NoTable

-----------------------------------------------------------------------------
(* Starting and stopping.                                                  *)

(* A new poll takes the first free place.                                  *)
Free(t) == tick[t] = Idle /\ \A s \in 1..(t - 1) : tick[s] # Idle

(* stopPolling moves pollEpoch on: no poll under way is current any more.  *)
Stopped == [t \in Ticks |-> [tick[t] EXCEPT !.live = FALSE]]

(* Mutant: the chain that is there is not stopped first.                   *)
StartPollingTwice(t, auth) ==
    /\ Free(t)
    /\ tick' = [tick EXCEPT ![t] = Fresh(auth)] /\ timer' = timer

(* startPolling; poll does nothing while the browser tab is hidden.        *)
StartPolling(t, auth) ==
    /\ Free(t)
    /\ tick' = IF hidden' THEN Stopped ELSE [Stopped EXCEPT ![t] = Fresh(auth)]
    /\ timer' = FALSE

(* showLogin, called by whichever poll ends with polls as given.           *)
ShowLogin(polls) ==
    /\ loggedIn' = FALSE /\ creds' = 0 /\ timer' = FALSE
    /\ tick' = [t \in Ticks |-> [polls[t] EXCEPT !.live = FALSE]]
    /\ tipHash' = 0 /\ recent' = NoTable

Logout ==
    /\ {"session", "login"} \cap usage # {}
    /\ loggedIn /\ ShowLogin(tick)
    /\ UNCHANGED <<usage, node, probe, hidden>>

HideTab ==
    /\ "session" \in usage /\ ~hidden
    /\ hidden' = TRUE /\ tick' = Stopped /\ timer' = FALSE
    /\ UNCHANGED <<usage, node, creds, probe, loggedIn, board>>

ShowTab(t) ==
    /\ hidden /\ hidden' = FALSE
    /\ IF loggedIn THEN StartPolling(t, creds) ELSE UNCHANGED <<tick, timer>>
    /\ UNCHANGED <<usage, node, creds, probe, loggedIn, board>>

(* The login form: the credential is stored and probed.                    *)
SubmitLogin(c) ==
    /\ ~loggedIn /\ probe = 0
    /\ c = 1 \/ "session" \in usage
    /\ creds' = c /\ probe' = c
    /\ UNCHANGED <<usage, node, loggedIn, hidden, timer, tick, board>>
LoginRefused ==
    /\ probe # 0 /\ (probe # cookie \/ flaky)
    /\ probe' = 0 /\ creds' = 0
    /\ UNCHANGED <<usage, node, loggedIn, hidden, timer, tick, board>>
(* showApp                                                                 *)
LoginDone(t) ==
    /\ probe = cookie /\ probe' = 0
    /\ loggedIn' = TRUE /\ UNCHANGED hidden /\ StartPolling(t, creds)
    /\ UNCHANGED <<usage, node, creds, board>>

-----------------------------------------------------------------------------
(* One poll.                                                               *)

Ask(t, at) == [tick EXCEPT ![t].at = at, ![t].auth = creds]
Asking(t) == tick[t].at \in {"stats", "blocks"}

(* Mutant: a poll that failed schedules nothing.                           *)
TimerAfterSuccess(t, failed) ==
    timer \/ (tick[t].live /\ ~hidden /\ loggedIn /\ ~failed)

(* Only the current chain goes on.                                         *)
TimerAfter(t, failed) == timer \/ (tick[t].live /\ ~hidden /\ loggedIn)

EndPoll(t, failed) ==
    /\ tick' = [tick EXCEPT ![t] = Idle] /\ timer' = TimerAfter(t, failed)

NextPoll(t) ==
    /\ timer /\ timer' = FALSE
    /\ Free(t) /\ tick' = [tick EXCEPT ![t] = Fresh(creds)]
    /\ UNCHANGED <<usage, node, creds, probe, loggedIn, hidden, board>>

(* The node says what its tip is.                                          *)
NodeTick(t) ==
    /\ tick[t].at = "stats" /\ tick[t].auth = cookie
    /\ tick' = [tick EXCEPT ![t].at = "told", ![t].auth = 0, ![t].tip = tip]
    /\ UNCHANGED <<usage, node, creds, probe, loggedIn, hidden, timer, board>>

(* A request of the poll failed.                                           *)
TickDown(t) ==
    /\ Asking(t) /\ flaky /\ EndPoll(t, TRUE)
    /\ UNCHANGED <<usage, node, creds, probe, loggedIn, hidden, board>>

(* A 401 ends the session, whoever's poll this is.                         *)
TickRejected(t) ==
    /\ Asking(t) /\ tick[t].auth # cookie /\ ShowLogin([tick EXCEPT ![t] = Idle])
    /\ UNCHANGED <<usage, node, probe, hidden>>

(* Mutant: the tip is noted before its blocks are there.                   *)
StatsNoted(t) ==
    /\ tick[t].at = "told"
    /\ tick[t].tip # tipHash
    /\ tick' = Ask(t, "blocks") /\ tipHash' = tick[t].tip
    /\ UNCHANGED <<recent, timer>>

(* tick: a new tip has its blocks fetched.                                 *)
StatsNew(t) ==
    /\ tick[t].at = "told"
    /\ tick[t].tip # tipHash
    /\ tick' = Ask(t, "blocks")
    /\ UNCHANGED <<board, timer>>

(* What the poll has drawn before it goes on to the other views: nothing   *)
(* new, also when only getblockchaininfo failed in its batch.              *)
StatsSame(t) ==
    /\ tick[t].at = "told"
    /\ tick[t].tip = tipHash \/ flaky
    /\ UNCHANGED board
(* refreshRecentBlocks: two batches, the hashes and their blocks.  Entries *)
(* that failed are left out of the table; the tip is noted all the same.   *)
GotBlocks(t) ==
    /\ tick[t].at = "blocks" /\ tick[t].auth = cookie
    /\ \/ recent' = Table(tick[t].tip)
       \/ flaky /\ recent' = [Table(tick[t].tip) EXCEPT !.whole = FALSE]
    /\ tipHash' = tick[t].tip

StatsAgain(t) ==
    /\ StatsNew(t)
    /\ UNCHANGED <<usage, node, creds, probe, loggedIn, hidden>>

-----------------------------------------------------------------------------
(* The node.                                                               *)

Grow ==
    /\ "session" \in usage /\ tip < MaxTip /\ tip' = tip + 1
    /\ UNCHANGED <<usage, cookie, flaky, creds, probe, loggedIn, hidden, timer, tick, board>>
Restart ==
    /\ "session" \in usage /\ cookie = 1 /\ cookie' = 2
    /\ UNCHANGED <<usage, flaky, tip, creds, probe, loggedIn, hidden, timer, tick, board>>
Settle ==
    /\ flaky /\ flaky' = FALSE
    /\ UNCHANGED <<usage, cookie, tip, creds, probe, loggedIn, hidden, timer, tick, board>>

(* The steps that call showLogin, and so reset every view; and the steps   *)
(* that leave the other views alone.                                       *)
SessionEnds == Logout \/ \E t \in Ticks : TickRejected(t)
SessionStep ==
    \/ HideTab \/ LoginRefused \/ Grow \/ Restart \/ Settle
    \/ \E c \in Credentials : SubmitLogin(c)
    \/ \E t \in Ticks : ShowTab(t) \/ NextPoll(t) \/ NodeTick(t) \/ TickDown(t) \/ StatsAgain(t)

-----------------------------------------------------------------------------
(* While the user is signed in and looking there is exactly one chain of   *)
(* polls, a poll under way or a timer, and otherwise there is none.        *)
PollsWhenItShould ==
    LET current == {t \in Ticks : tick[t].live} IN
    IF loggedIn /\ ~hidden
    THEN /\ timer => current = {}
         /\ ~timer => \E t \in Ticks : current = {t}
    ELSE ~timer /\ current = {}

(* While the user looks and the node answers, the table of recent blocks   *)
(* comes to be that of the tip; and it has all its rows if the tip came    *)
(* when the node answered already.  (One that came before may be short of  *)
(* the entries that failed, and stays so until the next tip.)              *)
TableFollowsTip ==
    LET looks == loggedIn /\ ~hidden /\ ~flaky IN
    /\ <>[]looks => <>[](recent.tip = tip)
    /\ \A n \in 2..MaxTip :
          <>(~flaky /\ tip < n) /\ <>[](looks /\ tip = n) => <>[](recent = Table(n))
=============================================================================
