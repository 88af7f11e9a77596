------------------------------ MODULE TxRequest ------------------------------
(***************************************************************************)
(* Which peer is asked for a transaction, and when: the tracker of         *)
(* networking/txrequest.lisp under the calls of networking/txdownloadman.  *)
(* lisp that drive it.                                                     *)
(*                                                                         *)
(* A peer announces a hash once; at most one peer at a time is asked for   *)
(* it, the best of those whose delay has run out; an answer, a notfound,   *)
(* a disconnection or the interval passing ends a request and the next     *)
(* peer's turn comes.  One loop drains the peers one after another and     *)
(* asks each for what it is due at the end of its turn; connections come   *)
(* up on threads of their own and are closed by any thread at any moment.  *)
(*                                                                         *)
(* A peer is one connection, never used again after it is gone.  The code  *)
(* compares times with the clock only, so a time is what is left of it     *)
(* (0: it has come); a mock clock set backwards is left out.  What makes a *)
(* hash one the node has (mempool, orphanage, filters) is the set "have".  *)
(* The orphanage, whose missing parents are announced to the tracker too,  *)
(* is left out.                                                            *)
(***************************************************************************)
EXTENDS Integers, FiniteSets

CONSTANTS
    Peers, Hashes, Txs,
    Txid, Wtxid,       \* [Txs -> Hashes]; equal for one without a witness
    Priority,          \* [Hashes -> [Peers -> Nat]], %tx-request-priority
    Preferred,         \* peers with preferred download
    Permitted,         \* peers with the relay permission
    WtxidRelay,        \* peers that negotiated wtxidrelay
    None,
    Nonpref, TxidRelay, Overloaded,  \* the three delays (2 s each)
    Interval,          \* +getdata-tx-interval-seconds+ (60)
    MaxInFlight,       \* +max-peer-tx-request-in-flight+ (100)
    MaxAnnouncements   \* +max-peer-tx-announcements+ (5000)

VARIABLES
    track,        \* announcers and in-flight, by hash
    byPeer,       \* by-peer: the hashes a peer announced
    inFlight,     \* peer-in-flight: how many requests a peer has
    quiet,        \* next-expiry: what is left of the time without expiries
    have,         \* hashes txdownload-already-have-tx-p answers yes for
    state,        \* peer-state
    open,         \* peers whose connection is there
    greeting,     \* how far the handshake thread of a peer is
    closing,      \* peers inside disconnect-peer, before the manager is told
    registered,   \* peer-info
    numWtxid,     \* num-wtxid-peers
    turn,         \* the peer whose messages are being handled
    validating,   \* the transaction that turn's handler is validating
    asked         \* who was asked for a hash since it was announced

tracker == <<track, byPeer, inFlight, quiet, asked>>
peers == <<state, open, greeting, closing, registered, numWtxid>>
loop == <<turn, validating>>
vars == <<tracker, have, peers, loop>>

Forever == Interval + 1    \* most-positive-fixnum

ASSUME PeersAssumption == IsFiniteSet(Peers) /\ IsFiniteSet(Hashes)
ASSUME TxAssumption == Txid \in [Txs -> Hashes] /\ Wtxid \in [Txs -> Hashes]
ASSUME NoneAssumption == None \notin Peers /\ None \notin Txs
ASSUME DelayAssumption ==
    /\ Nonpref \in Nat /\ TxidRelay \in Nat /\ Overloaded \in Nat
    /\ Interval \in Nat \ {0}
ASSUME BoundAssumption == MaxInFlight \in Nat /\ MaxAnnouncements \in Nat

(* No two announcements of a hash rank the same: a SipHash of both.        *)
ASSUME PriorityAssumption ==
    /\ Priority \in [Hashes -> [Peers -> Nat]]
    /\ \A h \in Hashes : \A p, q \in Peers :
           Priority[h][p] = Priority[h][q] => p = q

Ids(x) == {Txid[x], Wtxid[x]}
MaxDelay == Nonpref + TxidRelay + Overloaded

-----------------------------------------------------------------------------
(***************************************************************************)
(* One hash: live announcements with the delay left, completed ones, and   *)
(* the request, "to" a peer with "left" of its interval.                   *)
(***************************************************************************)
Announcers(e) == e.live \cup e.failed

Nothing == [live |-> {}, failed |-> {}, to |-> None, left |-> 0,
            wait |-> [p \in Peers |-> 0]]

(* %tx-request-clear-in-flight, when the request is to p.                  *)
Released(e, p) ==
    IF e.to = p THEN [e EXCEPT !.to = None, !.left = 0] ELSE e

(* %tx-request-make-completed.                                             *)
LastLive(e, p) == e.live = {p}
CompletedKept(e, p) ==    \* mutant: a hash nobody is left for stays
    IF p \in e.live
    THEN [Released(e, p) EXCEPT !.live = @ \ {p}, !.failed = @ \cup {p},
                                !.wait[p] = 0]
    ELSE e
CompletedDropped(e, p) ==    \* mutant: the announcement goes with its failure
    IF LastLive(e, p) THEN Nothing
    ELSE [Released(e, p) EXCEPT !.live = @ \ {p}, !.wait[p] = 0]
Completed(e, p) ==
    IF LastLive(e, p) THEN Nothing
    ELSE IF p \in e.live
         THEN [Released(e, p) EXCEPT !.live = @ \ {p}, !.failed = @ \cup {p},
                                     !.wait[p] = 0]
         ELSE e

Without(e, p) == [Completed(e, p) EXCEPT !.failed = @ \ {p}]

Announced(e, p, delay) ==
    [e EXCEPT !.live = @ \cup {p}, !.wait[p] = delay]

Requested(e, p) == [e EXCEPT !.to = p, !.left = Interval]

Selectable(e, p) == p \in e.live /\ e.wait[p] = 0 /\ state[p] = "ready"
BestOfAll(h, e, p) ==    \* mutant: ranked among those that failed, too
    /\ Selectable(e, p)
    /\ \A q \in Announcers(e) : Priority[h][q] <= Priority[h][p]
Best(h, e, p) ==
    /\ Selectable(e, p)
    /\ \A q \in Peers : Selectable(e, q) => Priority[h][q] <= Priority[h][p]

(* The tables beside: %tx-request-unindex for hashes whose announcements   *)
(* all go, and the counts of requests cleared.                             *)
Unindexed(gone) ==
    [p \in Peers |-> byPeer[p] \ {h \in gone : p \in Announcers(track[h])}]
Uncounted(cleared) ==
    [p \in Peers |->
        inFlight[p] - Cardinality({h \in cleared : track[h].to = p})]
Unasked(h, gone) == IF h \in gone THEN {} ELSE asked[h]

(* txrequest-forget-tx-hash, for some hashes at once.                      *)
Forget(hs) ==
    /\ track' = [h \in Hashes |-> IF h \in hs THEN Nothing ELSE track[h]]
    /\ byPeer' = Unindexed(hs)
    /\ inFlight' = Uncounted(hs)
    /\ asked' = [h \in Hashes |-> Unasked(h, hs)]
    /\ UNCHANGED quiet

-----------------------------------------------------------------------------
Init ==
    /\ track = [h \in Hashes |-> Nothing]
    /\ byPeer = [p \in Peers |-> {}]
    /\ inFlight = [p \in Peers |-> 0]
    /\ quiet = 0
    /\ asked = [h \in Hashes |-> {}]
    /\ have = {}
    /\ state = [p \in Peers |-> "handshaking"]
    /\ open = Peers
    /\ greeting = [p \in Peers |-> "verack"]
    /\ closing = {} /\ registered = {} /\ numWtxid = 0
    /\ turn = None /\ validating = None

(***************************************************************************)
(* Time passes.                                                            *)
(***************************************************************************)
Less(n) == IF n = 0 THEN 0 ELSE n - 1
Tick ==
    /\ track' = [h \in Hashes |->
           [track[h] EXCEPT !.left = Less(@),
                            !.wait = [p \in Peers |-> Less(track[h].wait[p])]]]
    /\ quiet' = IF quiet = Forever THEN quiet ELSE Less(quiet)
    /\ UNCHANGED <<byPeer, inFlight, asked, have, peers, loop>>

(***************************************************************************)
(* Connections.  The handshake thread registers the peer, then makes it    *)
(* :ready whatever has happened to it meanwhile.  disconnect-peer drops    *)
(* the connection and the state first, and then tells the manager.         *)
(***************************************************************************)
Register(p) ==
    /\ greeting[p] = "verack"
    /\ greeting' = [greeting EXCEPT ![p] = "registered"]
    /\ registered' = registered \cup {p}
    /\ numWtxid' = IF p \in WtxidRelay \ registered THEN numWtxid + 1
                                                    ELSE numWtxid
    /\ UNCHANGED <<tracker, have, state, open, closing, loop>>

MakeReady(p) ==
    /\ greeting[p] = "registered"
    /\ greeting' = [greeting EXCEPT ![p] = "done"]
    /\ state' = [state EXCEPT ![p] = "ready"]
    /\ UNCHANGED <<tracker, have, open, closing, registered, numWtxid, loop>>

Close(p) ==
    /\ state[p] # "disconnected"    \* a second call would find nothing to do
    /\ open' = open \ {p}
    /\ state' = [state EXCEPT ![p] = "disconnected"]
    /\ closing' = closing \cup {p}
    /\ UNCHANGED <<tracker, have, greeting, registered, numWtxid, loop>>

NumWtxidAnyway(p) ==    \* mutant: a peer that is not registered counts too
    IF p \in WtxidRelay THEN numWtxid - 1 ELSE numWtxid
NumWtxidWithout(p) ==
    IF p \in WtxidRelay \cap registered THEN numWtxid - 1 ELSE numWtxid
DisconnectedPeer(p) ==
    /\ p \in closing
    /\ closing' = closing \ {p}
    /\ LET gone == {h \in byPeer[p] : LastLive(track[h], p)}
       IN /\ track' = [h \in Hashes |-> IF h \in byPeer[p]
                                        THEN Without(track[h], p)
                                        ELSE track[h]]
          /\ byPeer' = [Unindexed(gone) EXCEPT ![p] = {}]
          /\ asked' = [h \in Hashes |-> Unasked(h, gone) \ {p}]
    /\ inFlight' = [inFlight EXCEPT ![p] = 0]
    /\ registered' = registered \ {p}
    /\ numWtxid' = NumWtxidWithout(p)
    /\ UNCHANGED <<quiet, have, state, open, greeting, loop>>

-----------------------------------------------------------------------------
(***************************************************************************)
(* The loop's turn with a peer: its messages, then what it is asked for.   *)
(***************************************************************************)
BeginTurn(p) ==
    /\ turn = None
    /\ state[p] = "ready" /\ p \in open
    /\ turn' = p
    /\ UNCHANGED <<tracker, have, peers, validating>>

Handling(p) == turn = p /\ validating = None

(* txdownload-add-tx-announcement, for a hash that is no orphan's.         *)
TxidBased(h) == \E x \in Txs : Txid[x] = h /\ Wtxid[x] # h
RequestDelay(p, h) ==
    (IF p \in Preferred THEN 0 ELSE Nonpref)
    + (IF TxidBased(h) /\ numWtxid > 0 THEN TxidRelay ELSE 0)
    + (IF p \notin Permitted /\ inFlight[p] >= MaxInFlight THEN Overloaded ELSE 0)

AddTxAnnouncement(p, h) ==
    /\ Handling(p)
    /\ h \notin have
    /\ p \in registered
    /\ p \in Permitted \/ Cardinality(byPeer[p]) < MaxAnnouncements
    /\ p \notin Announcers(track[h])
    /\ track' = [track EXCEPT ![h] = Announced(@, p, RequestDelay(p, h))]
    /\ byPeer' = [byPeer EXCEPT ![p] = @ \cup {h}]
    /\ UNCHANGED <<inFlight, quiet, asked, have, peers, loop>>

(* txrequest-received-response for the hashes of one message.              *)
ResponseForgets(p, hs) == Forget(hs)    \* mutant: as if the hash were resolved
Response(p, hs) ==
    LET gone == {h \in hs : LastLive(track[h], p)}
    IN /\ track' = [h \in Hashes |-> IF h \in hs THEN Completed(track[h], p)
                                                 ELSE track[h]]
       /\ byPeer' = Unindexed(gone)
       /\ inFlight' = Uncounted({h \in hs : track[h].to = p})
       /\ asked' = [h \in Hashes |-> Unasked(h, gone)]
       /\ UNCHANGED quiet

ReceivedNotFound(p, hs) ==
    /\ Handling(p)
    /\ Response(p, hs)
    /\ UNCHANGED <<have, peers, loop>>

ReceivedTx(p, x) ==
    /\ Handling(p)
    /\ Response(p, Ids(x))
    /\ validating' = IF Wtxid[x] \in have THEN None ELSE x
    /\ UNCHANGED <<have, peers, turn>>

(* What becomes of the transaction: which of its hashes are had from now   *)
(* on, and which are forgotten.                                            *)
Verdicts(x) ==
    {[had |-> Ids(x),     forgot |-> Ids(x)],      \* accepted, or its inputs
                                                   \* or parents are no good
     [had |-> {Wtxid[x]}, forgot |-> Ids(x)],      \* an orphan
     [had |-> {},         forgot |-> Ids(x)],      \* one not kept
     [had |-> {Wtxid[x]}, forgot |-> {Wtxid[x]}]}  \* rejected, perhaps to be
                                                   \* reconsidered later
    \cup (IF Txid[x] = Wtxid[x]
          THEN {[had |-> {}, forgot |-> {}]}       \* its witness was stripped
          ELSE {})

Verdict ==
    /\ validating # None
    /\ \E v \in Verdicts(validating) :
           /\ have' = have \cup v.had
           /\ Forget(v.forgot)
    /\ validating' = None
    /\ UNCHANGED <<peers, turn>>

(***************************************************************************)
(* send-tx-requests at the end of the turn.  Time moves first, and every   *)
(* request whose interval is over is completed; then the peer is asked for *)
(* what it is the best candidate for, or the hash is forgotten when the    *)
(* node has it by now.                                                     *)
(***************************************************************************)
Due(h) == quiet = 0 /\ track[h].to # None /\ track[h].left = 0
Expired(h) == IF Due(h) THEN Completed(track[h], track[h].to) ELSE track[h]
Pending == {h \in Hashes : Expired(h).to # None}

NextExpiryNone(q) ==    \* mutant: the requests not over yet are left out
    q = IF quiet > 0 THEN quiet ELSE Forever
NextExpiry(q) ==
    IF quiet > 0 THEN q = quiet
    ELSE \/ Pending = {} /\ q = Forever
         \/ \E h \in Pending : /\ q = track[h].left
                               /\ \A g \in Pending : q <= track[g].left

Requestable(p) ==
    {h \in byPeer[p] : Expired(h).to = None /\ Best(h, Expired(h), p)}

GetRequestsToSend(p) ==
    LET asks == Requestable(p)
        known == asks \cap have
        granted == asks \ have
        due == {h \in Hashes : Due(h)}
        gone == known \cup {h \in due : LastLive(track[h], track[h].to)}
    IN /\ track' = [h \in Hashes |->
               IF h \in known THEN Nothing
               ELSE IF h \in granted THEN Requested(Expired(h), p)
               ELSE Expired(h)]
       /\ byPeer' = Unindexed(gone)
       /\ inFlight' = [Uncounted(due) EXCEPT ![p] = @ + Cardinality(granted)]
       /\ asked' = [h \in Hashes |->
               Unasked(h, gone) \cup (IF h \in granted THEN {p} ELSE {})]
       /\ \E q \in 0..Forever :
              /\ NextExpiry(q)
              /\ quiet' = IF granted # {} /\ Interval < q THEN Interval ELSE q

EndTurn(p) ==
    /\ Handling(p)
    /\ IF state[p] = "ready" THEN GetRequestsToSend(p) ELSE UNCHANGED tracker
    /\ turn' = None
    /\ UNCHANGED <<have, peers, validating>>

(***************************************************************************)
(* What the node has changes under the tracker: a block confirms it, an    *)
(* RPC client submits it, a filter is reset or an entry leaves the pool.   *)
(***************************************************************************)
BlockConnected(x) ==
    /\ validating = None
    /\ have' = have \cup Ids(x)
    /\ Forget(Ids(x))
    /\ UNCHANGED <<peers, loop>>

Submitted(x) ==
    /\ validating = None
    /\ have' = have \cup Ids(x)
    /\ UNCHANGED <<tracker, peers, loop>>

Lapse(h) ==
    /\ h \in have
    /\ have' = have \ {h}
    /\ UNCHANGED <<tracker, peers, loop>>

-----------------------------------------------------------------------------
Next ==
    \/ Tick
    \/ \E p \in Peers : Register(p) \/ MakeReady(p) \/ Close(p)
                        \/ DisconnectedPeer(p) \/ BeginTurn(p) \/ EndTurn(p)
    \/ \E p \in Peers, h \in Hashes : AddTxAnnouncement(p, h)
    \/ \E p \in Peers, hs \in SUBSET Hashes : ReceivedNotFound(p, hs)
    \/ \E p \in Peers, x \in Txs : ReceivedTx(p, x)
    \/ Verdict
    \/ \E x \in Txs : BlockConnected(x) \/ Submitted(x)
    \/ \E h \in Hashes : Lapse(h)

Spec == Init /\ [][Next]_vars

(* The clock runs, the loop goes round all peers (dolist in                *)
(* pump-peer-messages), a handler comes to an end and so does a turn (it   *)
(* has a budget of bytes), disconnect-peer returns.                        *)
Fairness ==
    /\ WF_vars(Tick)
    /\ WF_vars(Verdict)
    /\ SF_vars(\E p \in Peers : EndTurn(p))
    /\ \A p \in Peers : SF_vars(BeginTurn(p)) /\ WF_vars(DisconnectedPeer(p))
FairSpec == Spec /\ Fairness

-----------------------------------------------------------------------------
Entry == [live : SUBSET Peers, failed : SUBSET Peers, to : Peers \cup {None},
          left : 0..Interval, wait : [Peers -> 0..MaxDelay]]

(* Every variable has its type.                                            *)
TypeOK ==
    /\ track \in [Hashes -> Entry]
    /\ byPeer \in [Peers -> SUBSET Hashes]
    /\ inFlight \in [Peers -> Nat]
    /\ quiet \in 0..Forever
    /\ asked \in [Hashes -> SUBSET Peers]
    /\ have \subseteq Hashes
    /\ state \in [Peers -> {"handshaking", "ready", "disconnected"}]
    /\ open \subseteq Peers
    /\ greeting \in [Peers -> {"verack", "registered", "done"}]
    /\ closing \subseteq Peers /\ registered \subseteq Peers
    /\ numWtxid \in Nat
    /\ turn \in Peers \cup {None} /\ validating \in Txs \cup {None}

(* txrequest-sanity-check: no hash is left with completed announcements    *)
(* only, nobody announced one twice, a request is to a live announcer, and *)
(* the tables by peer agree with the announcements.                        *)
SanityCheck ==
    /\ \A h \in Hashes :
           /\ track[h].live = {} => track[h].failed = {}
           /\ track[h].live \cap track[h].failed = {}
           /\ track[h].to # None => track[h].to \in track[h].live
    /\ \A p \in Peers :
           /\ byPeer[p] = {h \in Hashes : p \in Announcers(track[h])}
           /\ inFlight[p] = Cardinality({h \in Hashes : track[h].to = p})

(* No request runs out before next-expiry, so a call that returns early at *)
(* txrequest.lisp:250 misses none.                                         *)
DueIsSeen == \A h \in Hashes : track[h].to # None => quiet <= track[h].left

(* A peer the manager does not know has nothing in the tracker, and the    *)
(* count of wtxid peers is exact, whichever way the threads met:           *)
(* txdownload-assert-empty when a peer registers, and once none is left.   *)
GoneHoldsNothing ==
    /\ \A p \in Peers \ registered : byPeer[p] = {}
    /\ numWtxid = Cardinality(registered \cap WtxidRelay)

(* No peer is asked twice for a hash unless its announcement was forgotten *)
(* in between (docstring of tx-announcement).                              *)
AskedOnce ==
    [][\A h \in Hashes : \A p \in Peers :
           track'[h].to = p /\ track[h].to # p => p \notin asked[h]]_vars

(* What one peer sends or fails to have releases no other announcer, and   *)
(* ends nobody else's request (docstring of txrequest-received-response):  *)
(* a step that does either is no message of that peer.                     *)
AnotherLoses(p) ==
    \E h \in Hashes : \E q \in Peers \ {p} :
        \/ q \in track[h].live /\ q \notin track'[h].live
        \/ track[h].to = q /\ track'[h].to # q
OthersKept ==
    [][\A p \in Peers : AnotherLoses(p) =>
           /\ \A x \in Txs : ~ReceivedTx(p, x)
           /\ \A hs \in SUBSET Hashes : ~ReceivedNotFound(p, hs)]_vars

(* Every live announcement is asked for in the end, or is gone: whoever    *)
(* the request goes to first, the turn of the next comes.                  *)
Waiting(p, h) == p \in track[h].live /\ track[h].to # p
EveryoneHasATurn ==
    \A p \in Peers : \A h \in Hashes : Waiting(p, h) ~> ~Waiting(p, h)
=============================================================================
