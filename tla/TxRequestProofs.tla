--------------------------- MODULE TxRequestProofs ---------------------------
(***************************************************************************)
(* Proofs about TxRequest, for any finite sets of peers and hashes, any    *)
(* delays and limits and any ranking.                                      *)
(*                                                                         *)
(* The inductive invariant is the four invariants of TxRequest and, for    *)
(* the properties of steps, what "asked" says of an announcement: whoever  *)
(* was asked is an announcer still, and a live one only while the request  *)
(* is to it.                                                               *)
(***************************************************************************)
EXTENDS TxRequest, FiniteSetTheorems, TLAPS

AskedAnnounced ==
    \A h \in Hashes :
        /\ asked[h] \subseteq Announcers(track[h])
        /\ \A p \in asked[h] \cap track[h].live : track[h].to = p

Inv == TypeOK /\ SanityCheck /\ DueIsSeen /\ GoneHoldsNothing /\ AskedAnnounced

(* The same, by the variables it is about.                                 *)
TrackerTyped ==
    /\ track \in [Hashes -> Entry]
    /\ byPeer \in [Peers -> SUBSET Hashes]
    /\ inFlight \in [Peers -> Nat]
    /\ quiet \in 0..Forever
    /\ asked \in [Hashes -> SUBSET Peers]

PeersTyped ==
    /\ state \in [Peers -> {"handshaking", "ready", "disconnected"}]
    /\ open \subseteq Peers
    /\ greeting \in [Peers -> {"verack", "registered", "done"}]
    /\ closing \subseteq Peers /\ registered \subseteq Peers
    /\ numWtxid \in Nat

LoopTyped ==
    /\ have \subseteq Hashes
    /\ turn \in Peers \cup {None} /\ validating \in Txs \cup {None}

Shape(e) ==
    /\ e.live = {} => e.failed = {}
    /\ e.live \cap e.failed = {}
    /\ e.to # None => e.to \in e.live

TablesAgree ==
    \A p \in Peers :
        /\ byPeer[p] = {h \in Hashes : p \in Announcers(track[h])}
        /\ inFlight[p] = Cardinality({h \in Hashes : track[h].to = p})

TrackerInv ==
    /\ TrackerTyped /\ TablesAgree /\ DueIsSeen /\ AskedAnnounced
    /\ \A h \in Hashes : Shape(track[h])

LEMMA InvParts == Inv <=> TrackerInv /\ PeersTyped /\ LoopTyped /\ GoneHoldsNothing
  BY DEF Inv, TrackerInv, PeersTyped, LoopTyped, TrackerTyped, TypeOK,
         SanityCheck, TablesAgree, Shape

LEMMA InvPartsNext ==
  Inv' <=> TrackerInv' /\ PeersTyped' /\ LoopTyped' /\ GoneHoldsNothing'
  BY DEF Inv, TrackerInv, PeersTyped, LoopTyped, TrackerTyped, TypeOK,
         SanityCheck, TablesAgree, Shape

-----------------------------------------------------------------------------
(* One hash.                                                               *)

LEMMA NothingFacts ==
  /\ Nothing \in Entry /\ Shape(Nothing) /\ Announcers(Nothing) = {}
  /\ Nothing.live = {} /\ Nothing.failed = {} /\ Nothing.to = None
  BY DelayAssumption DEF Nothing, Entry, Shape, Announcers, MaxDelay

(* What a completed announcement leaves of the others of its hash.         *)
LEMMA CompletedFacts ==
  ASSUME NEW e \in Entry, Shape(e), NEW p \in Peers
  PROVE  LET c == Completed(e, p)
         IN  /\ c \in Entry /\ Shape(c)
             /\ c.live = e.live \ {p}
             /\ Announcers(c) = IF LastLive(e, p) THEN {} ELSE Announcers(e)
             /\ c.to = IF e.to = p THEN None ELSE e.to
             /\ c.to # None => c.left = e.left
<1>1. CASE LastLive(e, p)
  BY <1>1, NothingFacts DEF Completed, LastLive, Shape
<1>2. CASE ~LastLive(e, p) /\ p \in e.live
  <2> DEFINE r == Released(e, p)
             c == Completed(e, p)
  <2>1. /\ r \in Entry /\ r.live = e.live /\ r.failed = e.failed
        /\ r.wait = e.wait /\ r.to = (IF e.to = p THEN None ELSE e.to)
        /\ r.to # None => r.left = e.left
    <3>1. CASE e.to = p
      <4>1. r = [e EXCEPT !.to = None, !.left = 0]
        BY <3>1 DEF Released
      <4>2. 0 \in 0..Interval
        BY DelayAssumption
      <4>3. /\ r \in Entry /\ r.live = e.live /\ r.failed = e.failed
            /\ r.wait = e.wait /\ r.to = None
        BY <4>1, <4>2 DEF Entry
      <4>4. QED
        BY <3>1, <4>3
    <3>2. CASE e.to # p
      BY <3>2 DEF Released
    <3>3. QED
      BY <3>1, <3>2
  <2>2. c = [r EXCEPT !.live = r.live \ {p}, !.failed = r.failed \cup {p},
                      !.wait = [r.wait EXCEPT ![p] = 0]]
    BY <1>2 DEF Completed
  <2>3. [r.wait EXCEPT ![p] = 0] \in [Peers -> 0..MaxDelay]
    BY <2>1, DelayAssumption DEF Entry, MaxDelay
  <2>4. /\ c \in Entry /\ c.live = e.live \ {p} /\ c.failed = e.failed \cup {p}
        /\ c.to = r.to /\ c.left = r.left
    BY <2>1, <2>2, <2>3 DEF Entry
  <2>5. QED
    BY <1>2, <2>1, <2>4 DEF Shape, Announcers, LastLive, Entry
<1>3. CASE p \notin e.live
  BY <1>3, NoneAssumption DEF Completed, LastLive, Shape
<1>4. QED
  BY <1>1, <1>2, <1>3

LEMMA WithoutFacts ==
  ASSUME NEW e \in Entry, Shape(e), NEW p \in Peers
  PROVE  LET c == Without(e, p)
         IN  /\ c \in Entry /\ Shape(c)
             /\ c.live = e.live \ {p}
             /\ Announcers(c) = IF LastLive(e, p) THEN {} ELSE Announcers(e) \ {p}
             /\ c.to = IF e.to = p THEN None ELSE e.to
             /\ c.to # None => c.left = e.left
<1> DEFINE d == Completed(e, p)
           c == Without(e, p)
<1>1. /\ d \in Entry /\ Shape(d) /\ d.live = e.live \ {p}
      /\ Announcers(d) = IF LastLive(e, p) THEN {} ELSE Announcers(e)
      /\ d.to = IF e.to = p THEN None ELSE e.to
      /\ d.to # None => d.left = e.left
  BY CompletedFacts
<1> HIDE DEF d
<1>2. c = [d EXCEPT !.failed = d.failed \ {p}]
  BY DEF Without, d
<1>3. /\ c \in Entry /\ c.live = d.live /\ c.failed = d.failed \ {p}
      /\ c.to = d.to /\ c.left = d.left
  BY <1>1, <1>2 DEF Entry
<1>4. QED
  BY <1>1, <1>3 DEF Shape, Announcers

-----------------------------------------------------------------------------
(* The tables beside.                                                      *)

LEMMA UnindexedExact ==
  ASSUME TrackerTyped, TablesAgree, NEW gone, NEW p \in Peers
  PROVE  /\ Unindexed(gone)[p] =
              {h \in Hashes : h \notin gone /\ p \in Announcers(track[h])}
         /\ DOMAIN Unindexed(gone) = Peers
  BY DEF Unindexed, TablesAgree, TrackerTyped

LEMMA UncountedExact ==
  ASSUME TrackerTyped, TablesAgree, NEW cleared \in SUBSET Hashes, NEW p \in Peers
  PROVE  /\ Uncounted(cleared)[p] =
              Cardinality({h \in Hashes : h \notin cleared /\ track[h].to = p})
         /\ Uncounted(cleared)[p] \in Nat
<1> DEFINE S == {h \in Hashes : track[h].to = p}
<1>1. IsFiniteSet(S)
  BY FS_Subset, PeersAssumption
<1>2. /\ S \ cleared = {h \in Hashes : h \notin cleared /\ track[h].to = p}
      /\ S \cap cleared = {h \in cleared : track[h].to = p}
  OBVIOUS
<1>3. Cardinality(S \ cleared) = Cardinality(S) - Cardinality(S \cap cleared)
  BY <1>1, FS_Difference
<1>4. Cardinality(S \ cleared) \in Nat
  BY <1>1, FS_Difference, FS_CardinalityType
<1>5. Uncounted(cleared)[p] = Cardinality(S) - Cardinality(S \cap cleared)
  BY <1>2 DEF Uncounted, TablesAgree
<1>6. QED
  BY <1>2, <1>3, <1>4, <1>5

(* Hashes whose announcements all go, requests that end, and nothing new.  *)
LEMMA ShrinkKeepsTables ==
  ASSUME TrackerTyped, TablesAgree,
         NEW gone \in SUBSET Hashes, NEW cleared \in SUBSET Hashes,
         \A h \in Hashes :
             /\ track'[h] \in Entry
             /\ Announcers(track'[h]) = IF h \in gone THEN {}
                                        ELSE Announcers(track[h])
             /\ track'[h].to = IF h \in cleared THEN None ELSE track[h].to,
         byPeer' = Unindexed(gone), inFlight' = Uncounted(cleared)
  PROVE  /\ TablesAgree'
         /\ byPeer' \in [Peers -> SUBSET Hashes]
         /\ inFlight' \in [Peers -> Nat]
<1>1. \A p \in Peers : byPeer'[p] = {h \in Hashes : p \in Announcers(track'[h])}
  BY UnindexedExact
<1>2. ASSUME NEW p \in Peers
      PROVE  /\ inFlight'[p] = Cardinality({h \in Hashes : track'[h].to = p})
             /\ inFlight'[p] \in Nat
  <2>1. {h \in Hashes : h \notin cleared /\ track[h].to = p}
          = {h \in Hashes : track'[h].to = p}
    BY NoneAssumption
  <2>2. QED
    BY <2>1, UncountedExact
<1>3. byPeer' \in [Peers -> SUBSET Hashes]
  BY <1>1 DEF Unindexed
<1>4. inFlight' \in [Peers -> Nat]
  BY <1>2 DEF Uncounted
<1>5. QED
  BY <1>1, <1>2, <1>3, <1>4 DEF TablesAgree

-----------------------------------------------------------------------------
(* The steps of the tracker keep its invariant, and give a peer no new     *)
(* announcement unless it makes one.                                       *)
NoneNew == \A p \in Peers : byPeer'[p] \subseteq byPeer[p]

LEMMA ForgetKeeps ==
  ASSUME TrackerInv, NEW hs \in SUBSET Hashes, Forget(hs)
  PROVE  TrackerInv' /\ NoneNew
<1>. USE DEF TrackerInv
<1>1. \A h \in Hashes : track'[h] = IF h \in hs THEN Nothing ELSE track[h]
  BY DEF Forget
<1>2. \A h \in Hashes : asked'[h] = IF h \in hs THEN {} ELSE asked[h]
  BY DEF Forget, Unasked
<1>3. \A h \in Hashes :
          /\ track'[h] \in Entry /\ Shape(track'[h])
          /\ Announcers(track'[h]) = IF h \in hs THEN {}
                                     ELSE Announcers(track[h])
          /\ track'[h].to = IF h \in hs THEN None ELSE track[h].to
  BY <1>1, NothingFacts DEF TrackerTyped
<1>4. byPeer' = Unindexed(hs) /\ inFlight' = Uncounted(hs) /\ quiet' = quiet
  BY DEF Forget
<1>5. /\ TablesAgree' /\ byPeer' \in [Peers -> SUBSET Hashes]
      /\ inFlight' \in [Peers -> Nat]
  BY <1>3, <1>4, ShrinkKeepsTables
<1>6. TrackerTyped'
  <2>1. track' \in [Hashes -> Entry]
    BY <1>3 DEF Forget
  <2>2. asked' \in [Hashes -> SUBSET Peers]
    BY <1>2 DEF Forget, TrackerTyped
  <2>3. QED
    BY <1>4, <1>5, <2>1, <2>2 DEF TrackerTyped
<1>7. DueIsSeen'
  BY <1>1, <1>4, NothingFacts DEF DueIsSeen
<1>8. AskedAnnounced'
  BY <1>1, <1>2 DEF AskedAnnounced
<1>9. NoneNew
  BY <1>4 DEF NoneNew, Unindexed
<1>10. QED
  BY <1>3, <1>5, <1>6, <1>7, <1>8, <1>9

(* What Response does to each hash.                                        *)
LEMMA ResponseFacts ==
  ASSUME TrackerInv, NEW p \in Peers, NEW hs \in SUBSET Hashes, Response(p, hs),
         NEW h \in Hashes
  PROVE  LET gone == {g \in hs : LastLive(track[g], p)}
             cleared == {g \in hs : track[g].to = p}
         IN  /\ track'[h] \in Entry /\ Shape(track'[h])
             /\ track'[h].live = track[h].live \ (IF h \in hs THEN {p} ELSE {})
             /\ Announcers(track'[h]) = IF h \in gone THEN {}
                                        ELSE Announcers(track[h])
             /\ track'[h].to = IF h \in cleared THEN None ELSE track[h].to
             /\ track'[h].to # None => track'[h].left = track[h].left
             /\ asked'[h] = IF h \in gone THEN {} ELSE asked[h]
<1>1. track[h] \in Entry /\ Shape(track[h])
  BY DEF TrackerInv, TrackerTyped
<1>2. track'[h] = IF h \in hs THEN Completed(track[h], p) ELSE track[h]
  BY DEF Response
<1>3. asked'[h] = IF h \in hs /\ LastLive(track[h], p) THEN {} ELSE asked[h]
  BY DEF Response, Unasked
<1>4. CASE h \in hs
  <2>1. /\ track'[h] \in Entry /\ Shape(track'[h])
        /\ track'[h].live = track[h].live \ {p}
        /\ Announcers(track'[h]) = IF LastLive(track[h], p) THEN {}
                                   ELSE Announcers(track[h])
        /\ track'[h].to = IF track[h].to = p THEN None ELSE track[h].to
        /\ track'[h].to # None => track'[h].left = track[h].left
    <3>1. LET c == Completed(track[h], p)
          IN  /\ c \in Entry /\ Shape(c)
              /\ c.live = track[h].live \ {p}
              /\ Announcers(c) = IF LastLive(track[h], p) THEN {}
                                 ELSE Announcers(track[h])
              /\ c.to = IF track[h].to = p THEN None ELSE track[h].to
              /\ c.to # None => c.left = track[h].left
      BY <1>1, CompletedFacts
    <3>2. QED
      BY <1>2, <1>4, <3>1
  <2>2. QED
    BY <1>3, <1>4, <2>1
<1>5. CASE h \notin hs
  BY <1>1, <1>2, <1>3, <1>5
<1>6. QED
  BY <1>4, <1>5

LEMMA ResponseKeeps ==
  ASSUME TrackerInv, NEW p \in Peers, NEW hs \in SUBSET Hashes, Response(p, hs)
  PROVE  TrackerInv' /\ NoneNew
<1> DEFINE gone == {h \in hs : LastLive(track[h], p)}
           cleared == {h \in hs : track[h].to = p}
<1>1. \A h \in Hashes :
          /\ track'[h] \in Entry /\ Shape(track'[h])
          /\ track'[h].live = track[h].live \ (IF h \in hs THEN {p} ELSE {})
          /\ Announcers(track'[h]) = IF h \in gone THEN {}
                                     ELSE Announcers(track[h])
          /\ track'[h].to = IF h \in cleared THEN None ELSE track[h].to
          /\ track'[h].to # None => track'[h].left = track[h].left
          /\ asked'[h] = IF h \in gone THEN {} ELSE asked[h]
  BY ResponseFacts
<1>2. byPeer' = Unindexed(gone) /\ inFlight' = Uncounted(cleared) /\ quiet' = quiet
  BY DEF Response
<1>3. gone \in SUBSET Hashes /\ cleared \in SUBSET Hashes
  OBVIOUS
<1>4. \A h \in cleared : p \in track[h].live /\ h \in hs
  BY NoneAssumption DEF TrackerInv, Shape
<1>. HIDE DEF gone, cleared
<1>. USE DEF TrackerInv
<1>5. /\ TablesAgree' /\ byPeer' \in [Peers -> SUBSET Hashes]
      /\ inFlight' \in [Peers -> Nat]
  BY <1>1, <1>2, <1>3, ShrinkKeepsTables
<1>6. TrackerTyped'
  <2>1. track' \in [Hashes -> Entry]
    BY <1>1 DEF Response
  <2>2. asked' \in [Hashes -> SUBSET Peers]
    BY <1>1 DEF Response, TrackerTyped
  <2>3. QED
    BY <1>2, <1>5, <2>1, <2>2 DEF TrackerTyped
<1>7. DueIsSeen'
  BY <1>1, <1>2 DEF DueIsSeen
<1>8. AskedAnnounced'
  <2>1. ASSUME NEW h \in Hashes
        PROVE  asked'[h] \subseteq Announcers(track'[h])
    BY <1>1 DEF AskedAnnounced
  <2>2. ASSUME NEW h \in Hashes, NEW q \in asked'[h] \cap track'[h].live
        PROVE  track'[h].to = q
    <3>1. q \in asked[h] \cap track[h].live
      BY <1>1
    <3>2. track[h].to = q
      BY <3>1 DEF AskedAnnounced
    <3>3. CASE h \in cleared
      <4>1. q = p /\ h \in hs
        BY <1>4, <3>2, <3>3 DEF cleared
      <4>2. QED
        BY <1>1, <4>1
    <3>4. QED
      BY <1>1, <3>2, <3>3
  <2>3. QED
    BY <2>1, <2>2 DEF AskedAnnounced
<1>9. NoneNew
  BY <1>2 DEF NoneNew, Unindexed
<1>10. QED
  BY <1>1, <1>5, <1>6, <1>7, <1>8, <1>9

LEMMA DisconnectedKeeps ==
  ASSUME TrackerInv, NEW p \in Peers, DisconnectedPeer(p)
  PROVE  TrackerInv' /\ NoneNew /\ byPeer'[p] = {}
<1> DEFINE gone == {h \in byPeer[p] : LastLive(track[h], p)}
<1>1. /\ track' = [h \in Hashes |-> IF h \in byPeer[p] THEN Without(track[h], p)
                                    ELSE track[h]]
      /\ byPeer' = [Unindexed(gone) EXCEPT ![p] = {}]
      /\ asked' = [h \in Hashes |-> Unasked(h, gone) \ {p}]
      /\ inFlight' = [inFlight EXCEPT ![p] = 0]
      /\ quiet' = quiet
  BY DEF DisconnectedPeer
<1>2. \A h \in Hashes : /\ track[h] \in Entry /\ Shape(track[h])
                        /\ h \in byPeer[p] <=> p \in Announcers(track[h])
  BY DEF TrackerInv, TrackerTyped, TablesAgree
<1>3. \A h \in Hashes : asked'[h] = (IF h \in gone THEN {} ELSE asked[h]) \ {p}
  BY <1>1 DEF Unasked
<1>4. ASSUME NEW h \in Hashes
      PROVE  /\ track'[h] \in Entry /\ Shape(track'[h])
             /\ track'[h].live = track[h].live \ {p}
             /\ Announcers(track'[h]) = IF h \in gone THEN {}
                                        ELSE Announcers(track[h]) \ {p}
             /\ track'[h].to = IF track[h].to = p THEN None ELSE track[h].to
             /\ track'[h].to # None => track'[h].left = track[h].left
  <2>1. CASE h \in byPeer[p]
    <3>1. track'[h] = Without(track[h], p)
      BY <1>1, <2>1
    <3>2. h \in gone <=> LastLive(track[h], p)
      BY <2>1
    <3>3. /\ track'[h] \in Entry /\ Shape(track'[h])
          /\ track'[h].live = track[h].live \ {p}
          /\ Announcers(track'[h]) = IF LastLive(track[h], p) THEN {}
                                     ELSE Announcers(track[h]) \ {p}
          /\ track'[h].to = IF track[h].to = p THEN None ELSE track[h].to
          /\ track'[h].to # None => track'[h].left = track[h].left
      <4>. HIDE DEF gone
      <4>1. track[h] \in Entry /\ Shape(track[h])
        BY <1>2
      <4>2. LET c == Without(track[h], p)
            IN  /\ c \in Entry /\ Shape(c)
                /\ c.live = track[h].live \ {p}
                /\ Announcers(c) = IF LastLive(track[h], p) THEN {}
                                   ELSE Announcers(track[h]) \ {p}
                /\ c.to = IF track[h].to = p THEN None ELSE track[h].to
                /\ c.to # None => c.left = track[h].left
        BY <4>1, WithoutFacts
      <4>3. QED
        BY <3>1, <4>2
    <3>. HIDE DEF gone
    <3>4. QED
      BY <3>2, <3>3
  <2>2. CASE h \notin byPeer[p]
    <3>1. track'[h] = track[h] /\ h \notin gone
      BY <1>1, <2>2
    <3>2. p \notin track[h].live /\ p \notin track[h].failed /\ track[h].to # p
      BY <1>2, <2>2, NoneAssumption DEF Announcers, Shape
    <3>. HIDE DEF gone
    <3>3. QED
      BY <1>2, <3>1, <3>2 DEF Announcers
  <2>3. QED
    BY <2>1, <2>2
<1>. HIDE DEF gone
<1>. USE DEF TrackerInv
<1>5. ASSUME NEW q \in Peers
      PROVE  /\ byPeer'[q] = {h \in Hashes : q \in Announcers(track'[h])}
             /\ inFlight'[q] = Cardinality({h \in Hashes : track'[h].to = q})
             /\ inFlight'[q] \in Nat
  <2>1. CASE q = p
    <3>1. byPeer'[p] = {} /\ inFlight'[p] = 0
      BY <1>1 DEF Unindexed, TrackerTyped
    <3>2. {h \in Hashes : p \in Announcers(track'[h])} = {}
      BY <1>4
    <3>3. {h \in Hashes : track'[h].to = p} = {}
      BY <1>4, NoneAssumption
    <3>4. QED
      BY <2>1, <3>1, <3>2, <3>3, FS_EmptySet
  <2>2. CASE q # p
    <3>1. /\ byPeer'[q] = {h \in Hashes : h \notin gone /\ q \in Announcers(track[h])}
          /\ inFlight'[q] = inFlight[q]
      BY <1>1, <2>2, UnindexedExact DEF TrackerTyped
    <3>2. byPeer'[q] = {h \in Hashes : q \in Announcers(track'[h])}
      BY <1>4, <2>2, <3>1
    <3>3. {h \in Hashes : track'[h].to = q} = {h \in Hashes : track[h].to = q}
      BY <1>4, <2>2, NoneAssumption
    <3>4. QED
      BY <3>1, <3>2, <3>3 DEF TablesAgree, TrackerTyped
  <2>3. QED
    BY <2>1, <2>2
<1>6. TrackerTyped'
  <2>1. track' \in [Hashes -> Entry]
    BY <1>1, <1>4
  <2>2. byPeer' \in [Peers -> SUBSET Hashes] /\ inFlight' \in [Peers -> Nat]
    BY <1>1, <1>5 DEF Unindexed, TrackerTyped
  <2>3. asked' \in [Hashes -> SUBSET Peers]
    BY <1>1, <1>3 DEF TrackerTyped
  <2>4. QED
    BY <1>1, <2>1, <2>2, <2>3 DEF TrackerTyped
<1>7. TablesAgree'
  BY <1>5 DEF TablesAgree
<1>8. DueIsSeen'
  BY <1>1, <1>4 DEF DueIsSeen
<1>9. AskedAnnounced'
  <2>1. ASSUME NEW h \in Hashes
        PROVE  asked'[h] \subseteq Announcers(track'[h])
    BY <1>3, <1>4 DEF AskedAnnounced
  <2>2. ASSUME NEW h \in Hashes, NEW q \in asked'[h] \cap track'[h].live
        PROVE  track'[h].to = q
    <3>1. q \in asked[h] \cap track[h].live /\ q # p
      BY <1>3, <1>4
    <3>2. QED
      BY <1>4, <3>1 DEF AskedAnnounced
  <2>3. QED
    BY <2>1, <2>2 DEF AskedAnnounced
<1>10. byPeer'[p] = {}
  BY <1>1 DEF Unindexed
<1>11. NoneNew
  BY <1>1, <1>10 DEF NoneNew, Unindexed
<1>12. QED
  BY <1>4, <1>6, <1>7, <1>8, <1>9, <1>10, <1>11

LEMMA RequestDelayBounded ==
  ASSUME NEW p, NEW h
  PROVE  RequestDelay(p, h) \in 0..MaxDelay
  BY DelayAssumption DEF RequestDelay, MaxDelay

LEMMA AnnouncementKeeps ==
  ASSUME TrackerInv, NEW p \in Peers, NEW h \in Hashes, AddTxAnnouncement(p, h)
  PROVE  /\ TrackerInv' /\ p \in registered
         /\ \A q \in Peers \ {p} : byPeer'[q] = byPeer[q]
<1> DEFINE d == RequestDelay(p, h)
<1>1. /\ p \notin track[h].live /\ p \notin track[h].failed
      /\ track' = [track EXCEPT ![h] = Announced(track[h], p, d)]
      /\ byPeer' = [byPeer EXCEPT ![p] = byPeer[p] \cup {h}]
      /\ inFlight' = inFlight /\ quiet' = quiet /\ asked' = asked
      /\ p \in registered
  BY DEF AddTxAnnouncement, Announcers
<1>2. d \in 0..MaxDelay
  BY RequestDelayBounded
<1>. HIDE DEF d
<1>. USE DEF TrackerInv
<1>3. track[h] \in Entry /\ Shape(track[h])
  BY DEF TrackerTyped
<1>4. LET a == Announced(track[h], p, d)
      IN  /\ a \in Entry /\ a.live = track[h].live \cup {p}
          /\ a.failed = track[h].failed /\ a.to = track[h].to
          /\ a.left = track[h].left
  <2>1. [track[h].wait EXCEPT ![p] = d] \in [Peers -> 0..MaxDelay]
    BY <1>2, <1>3 DEF Entry
  <2>2. QED
    BY <1>3, <2>1 DEF Announced, Entry
<1>5. /\ track'[h] \in Entry /\ track'[h].live = track[h].live \cup {p}
      /\ track'[h].failed = track[h].failed /\ track'[h].to = track[h].to
      /\ track'[h].left = track[h].left
      /\ \A g \in Hashes \ {h} : track'[g] = track[g]
  BY <1>1, <1>4 DEF TrackerTyped
<1>6. \A g \in Hashes : Shape(track'[g])
  BY <1>1, <1>5 DEF Shape
<1>7. TrackerTyped'
  BY <1>1, <1>4 DEF TrackerTyped
<1>8. TablesAgree'
  <2>1. ASSUME NEW q \in Peers
        PROVE  byPeer'[q] = {g \in Hashes : q \in Announcers(track'[g])}
    <3>1. byPeer'[q] = byPeer[q] \cup (IF q = p THEN {h} ELSE {})
      BY <1>1 DEF TrackerTyped
    <3>2. byPeer[q] = {g \in Hashes : q \in Announcers(track[g])}
      BY DEF TablesAgree
    <3>3. \A g \in Hashes : Announcers(track'[g]) =
              Announcers(track[g]) \cup (IF g = h THEN {p} ELSE {})
      BY <1>5 DEF Announcers
    <3>4. QED
      BY <3>1, <3>2, <3>3
  <2>2. ASSUME NEW q \in Peers
        PROVE  inFlight'[q] = Cardinality({g \in Hashes : track'[g].to = q})
    <3>1. {g \in Hashes : track'[g].to = q} = {g \in Hashes : track[g].to = q}
      BY <1>5
    <3>2. QED
      BY <1>1, <3>1 DEF TablesAgree
  <2>3. QED
    BY <2>1, <2>2 DEF TablesAgree
<1>9. DueIsSeen'
  BY <1>1, <1>5 DEF DueIsSeen
<1>10. AskedAnnounced'
  BY <1>1, <1>5 DEF AskedAnnounced, Announcers
<1>11. \A q \in Peers \ {p} : byPeer'[q] = byPeer[q]
  BY <1>1 DEF TrackerTyped
<1>12. QED
  BY <1>1, <1>6, <1>7, <1>8, <1>9, <1>10, <1>11

LEMMA LessType ==
  ASSUME NEW b \in Nat, NEW n \in 0..b
  PROVE  Less(n) \in 0..b
  BY DEF Less

LEMMA TickKeeps ==
  ASSUME TrackerInv, Tick
  PROVE  TrackerInv' /\ NoneNew
<1>. USE DEF TrackerInv
<1>1. \A h \in Hashes :
          track'[h] = [track[h] EXCEPT
              !.left = Less(track[h].left),
              !.wait = [p \in Peers |-> Less(track[h].wait[p])]]
  BY DEF Tick
<1>2. /\ byPeer' = byPeer /\ inFlight' = inFlight /\ asked' = asked
      /\ quiet' = IF quiet = Forever THEN quiet ELSE Less(quiet)
  BY DEF Tick
<1>3. ASSUME NEW h \in Hashes
      PROVE  /\ track'[h] \in Entry
             /\ track'[h].live = track[h].live
             /\ track'[h].failed = track[h].failed
             /\ track'[h].to = track[h].to
             /\ track'[h].left = Less(track[h].left)
  <2>1. track[h] \in Entry
    BY DEF TrackerTyped
  <2>2. Less(track[h].left) \in 0..Interval
    BY <2>1, LessType, DelayAssumption DEF Entry
  <2>3. MaxDelay \in Nat
    BY DelayAssumption DEF MaxDelay
  <2>4. [p \in Peers |-> Less(track[h].wait[p])] \in [Peers -> 0..MaxDelay]
    BY <2>1, <2>3, LessType DEF Entry
  <2>5. QED
    BY <1>1, <2>1, <2>2, <2>4 DEF Entry
<1>4. TrackerTyped'
  <2>1. track' \in [Hashes -> Entry]
    BY <1>3 DEF Tick
  <2>2. quiet' \in 0..Forever
    BY <1>2, LessType, DelayAssumption DEF TrackerTyped, Forever
  <2>3. QED
    BY <1>2, <2>1, <2>2 DEF TrackerTyped
<1>5. TablesAgree'
  <2>1. \A p \in Peers : {h \in Hashes : track'[h].to = p}
                           = {h \in Hashes : track[h].to = p}
    BY <1>3
  <2>2. \A p \in Peers : {h \in Hashes : p \in Announcers(track'[h])}
                           = {h \in Hashes : p \in Announcers(track[h])}
    BY <1>3 DEF Announcers
  <2>3. QED
    BY <1>2, <2>1, <2>2 DEF TablesAgree
<1>6. DueIsSeen'
  <2> SUFFICES ASSUME NEW h \in Hashes, track'[h].to # None
               PROVE  quiet' <= track'[h].left
    BY DEF DueIsSeen
  <2>1. quiet <= track[h].left
    BY <1>3 DEF DueIsSeen
  <2>2. track[h].left \in 0..Interval /\ quiet \in 0..Forever
    BY DEF TrackerTyped, Entry
  <2>3. QED
    BY <1>2, <1>3, <2>1, <2>2, DelayAssumption DEF Less, Forever
<1>7. AskedAnnounced'
  BY <1>2, <1>3 DEF AskedAnnounced, Announcers
<1>8. NoneNew
  BY <1>2 DEF NoneNew
<1>9. QED
  BY <1>3, <1>4, <1>5, <1>6, <1>7, <1>8 DEF Shape

(* What time does to a hash before anything is asked for.                  *)
LEMMA ExpiredFacts ==
  ASSUME TrackerInv, NEW h \in Hashes
  PROVE  LET c == Expired(h)
         IN  /\ c \in Entry /\ Shape(c)
             /\ c.live = track[h].live \ (IF Due(h) THEN {track[h].to} ELSE {})
             /\ Announcers(c) = IF Due(h) /\ LastLive(track[h], track[h].to)
                                THEN {} ELSE Announcers(track[h])
             /\ c.to = IF Due(h) THEN None ELSE track[h].to
             /\ c.to # None => c.left = track[h].left
<1>1. track[h] \in Entry /\ Shape(track[h])
  BY DEF TrackerInv, TrackerTyped
<1>2. CASE Due(h)
  <2>1. track[h].to \in Peers
    BY <1>1, <1>2 DEF Due, Entry
  <2>2. Expired(h) = Completed(track[h], track[h].to)
    BY <1>2 DEF Expired
  <2>3. LET c == Completed(track[h], track[h].to)
        IN  /\ c \in Entry /\ Shape(c)
            /\ c.live = track[h].live \ {track[h].to}
            /\ Announcers(c) = IF LastLive(track[h], track[h].to) THEN {}
                               ELSE Announcers(track[h])
            /\ c.to = IF track[h].to = track[h].to THEN None ELSE track[h].to
            /\ c.to # None => c.left = track[h].left
    BY <1>1, <2>1, CompletedFacts
  <2>4. QED
    BY <1>2, <2>2, <2>3
<1>3. CASE ~Due(h)
  BY <1>1, <1>3 DEF Expired
<1>4. QED
  BY <1>2, <1>3

LEMMA RequestedFacts ==
  ASSUME NEW e \in Entry, NEW p \in e.live, p \in Peers, Shape(e)
  PROVE  LET r == Requested(e, p)
         IN  /\ r \in Entry /\ Shape(r) /\ r.live = e.live
             /\ Announcers(r) = Announcers(e) /\ r.to = p /\ r.left = Interval
<1>1. Interval \in 0..Interval
  BY DelayAssumption
<1>2. QED
  BY <1>1, NoneAssumption DEF Requested, Entry, Shape, Announcers

(* The hashes a peer can be asked for: no request is under way, and this   *)
(* peer was not asked before.                                              *)
LEMMA RequestableFacts ==
  ASSUME TrackerInv, NEW p \in Peers, NEW h \in Requestable(p)
  PROVE  /\ h \in Hashes
         /\ p \in Expired(h).live /\ Expired(h).to = None
         /\ \A q \in asked[h] : q \notin Expired(h).live
<1>1. h \in Hashes /\ p \in Expired(h).live /\ Expired(h).to = None
  BY DEF Requestable, Best, Selectable, TrackerInv, TrackerTyped
<1>2. \A q \in asked[h] : q \notin Expired(h).live
  <2>1. ASSUME NEW q \in asked[h], q \in Expired(h).live
        PROVE  FALSE
    <3>1. q \in track[h].live
      BY <1>1, <2>1, ExpiredFacts
    <3>2. track[h].to = q
      BY <1>1, <2>1, <3>1 DEF TrackerInv, AskedAnnounced
    <3>3. q # None
      BY <1>1, <2>1, NoneAssumption DEF TrackerInv, TrackerTyped
    <3>4. Due(h)
      BY <1>1, <3>2, <3>3, ExpiredFacts
    <3>5. QED
      BY <1>1, <2>1, <3>2, <3>4, ExpiredFacts
  <2>2. QED
    BY <2>1
<1>3. QED
  BY <1>1, <1>2

LEMMA DisjointUnion ==
  ASSUME NEW S, NEW T, IsFiniteSet(S), IsFiniteSet(T), S \cap T = {}
  PROVE  Cardinality(S \cup T) = Cardinality(S) + Cardinality(T)
<1>1. Cardinality(S \cup T) = Cardinality(S) + Cardinality(T) - Cardinality(S \cap T)
  BY FS_Union
<1>2. Cardinality(S) \in Nat /\ Cardinality(T) \in Nat /\ Cardinality(S \cap T) = 0
  BY FS_CardinalityType, FS_EmptySet
<1>3. QED
  BY <1>1, <1>2

LEMMA RequestsKeep ==
  ASSUME TrackerInv, NEW p \in Peers, GetRequestsToSend(p)
  PROVE  TrackerInv' /\ NoneNew
<1> DEFINE asks == Requestable(p)
           known == asks \cap have
           granted == asks \ have
           due == {h \in Hashes : Due(h)}
           lost == {h \in due : LastLive(track[h], track[h].to)}
           gone == known \cup lost
<1>1. /\ track' = [h \in Hashes |-> IF h \in known THEN Nothing
                                   ELSE IF h \in granted
                                        THEN Requested(Expired(h), p)
                                        ELSE Expired(h)]
      /\ byPeer' = Unindexed(gone)
      /\ inFlight' = [Uncounted(due) EXCEPT
                         ![p] = Uncounted(due)[p] + Cardinality(granted)]
      /\ asked' = [h \in Hashes |-> Unasked(h, gone)
                                    \cup (IF h \in granted THEN {p} ELSE {})]
  BY DEF GetRequestsToSend, Uncounted
<1>2. PICK q \in 0..Forever :
          NextExpiry(q) /\ quiet' = IF granted # {} /\ Interval < q
                                    THEN Interval ELSE q
  BY DEF GetRequestsToSend
<1>3. \A h \in asks : /\ h \in Hashes
                      /\ p \in Expired(h).live /\ Expired(h).to = None
                      /\ \A r \in asked[h] : r \notin Expired(h).live
  BY RequestableFacts
<1>4. /\ asks = known \cup granted /\ known \cap granted = {}
      /\ known \subseteq Hashes /\ granted \subseteq Hashes
  BY <1>3
<1>5. \A h \in Hashes : /\ h \in due <=> Due(h)
                        /\ h \in lost <=> Due(h) /\ LastLive(track[h], track[h].to)
                        /\ h \in gone <=> h \in known \/ h \in lost
  OBVIOUS
<1>6. \A h \in granted : h \notin gone
  <2>1. ASSUME NEW h \in granted, h \in lost
        PROVE  FALSE
    <3>1. Announcers(Expired(h)) = {}
      BY <1>4, <1>5, <2>1, ExpiredFacts
    <3>2. QED
      BY <1>3, <1>4, <2>1, <3>1 DEF Announcers
  <2>2. QED
    BY <1>4, <2>1
<1>. HIDE DEF asks, known, granted, due, lost, gone
<1>7. ASSUME NEW h \in Hashes
      PROVE  /\ track'[h] \in Entry /\ Shape(track'[h])
             /\ track'[h].live = IF h \in known THEN {} ELSE Expired(h).live
             /\ Announcers(track'[h]) = IF h \in gone THEN {}
                                        ELSE Announcers(track[h])
             /\ track'[h].to = IF h \in granted THEN p ELSE Expired(h).to
             /\ h \in granted => track'[h].left = Interval
             /\ h \notin granted /\ track'[h].to # None =>
                    track'[h].left = track[h].left /\ Expired(h).to # None
  <2>1. /\ Expired(h) \in Entry /\ Shape(Expired(h))
        /\ Announcers(Expired(h)) = IF h \in lost THEN {}
                                    ELSE Announcers(track[h])
        /\ Expired(h).to # None => Expired(h).left = track[h].left
    BY <1>5, ExpiredFacts
  <2>2. CASE h \in known
    <3>1. track'[h] = Nothing /\ h \notin granted /\ Expired(h).to = None
      BY <1>1, <1>3, <1>4, <2>2
    <3>2. QED
      BY <1>5, <2>2, <3>1, NothingFacts
  <2>3. CASE h \in granted
    <3>1. /\ track'[h] = Requested(Expired(h), p) /\ h \notin known
          /\ p \in Expired(h).live /\ h \notin gone
      BY <1>1, <1>3, <1>4, <1>6, <2>3
    <3>2. LET r == Requested(Expired(h), p)
          IN  /\ r \in Entry /\ Shape(r) /\ r.live = Expired(h).live
              /\ Announcers(r) = Announcers(Expired(h)) /\ r.to = p
              /\ r.left = Interval
      BY <2>1, <3>1, RequestedFacts
    <3>3. QED
      BY <1>5, <2>1, <2>3, <3>1, <3>2
  <2>4. CASE h \notin known /\ h \notin granted
    BY <1>1, <1>5, <2>1, <2>4
  <2>5. QED
    BY <2>2, <2>3, <2>4
<1>8. \A h \in Hashes : Expired(h).to = IF h \in due THEN None ELSE track[h].to
  BY <1>5, ExpiredFacts
<1>9. ASSUME NEW r \in Peers
      PROVE  /\ byPeer'[r] = {h \in Hashes : r \in Announcers(track'[h])}
             /\ inFlight'[r] = Cardinality({h \in Hashes : track'[h].to = r})
             /\ inFlight'[r] \in Nat
  <2> DEFINE kept == {h \in Hashes : h \notin due /\ track[h].to = r}
             new == {h \in Hashes : track'[h].to = r}
  <2>1. byPeer'[r] = {h \in Hashes : r \in Announcers(track'[h])}
    BY <1>1, <1>7, UnindexedExact DEF TrackerInv
  <2>2. Uncounted(due)[r] = Cardinality(kept) /\ Cardinality(kept) \in Nat
    BY UncountedExact DEF TrackerInv, due
  <2>3. new = kept \cup (IF r = p THEN granted ELSE {})
    <3>1. \A h \in Hashes : track'[h].to = r <=>
              h \in kept \/ (r = p /\ h \in granted)
      BY <1>3, <1>4, <1>7, <1>8, NoneAssumption
    <3>2. QED
      BY <1>4, <3>1
  <2>4. kept \cap granted = {}
    BY <1>3, <1>4, <1>8, NoneAssumption
  <2>5. IsFiniteSet(kept) /\ IsFiniteSet(granted)
    BY <1>4, FS_Subset, PeersAssumption
  <2>6. Cardinality(kept \cup granted) = Cardinality(kept) + Cardinality(granted)
    BY <2>4, <2>5, DisjointUnion
  <2>7. Cardinality(granted) \in Nat
    BY <2>5, FS_CardinalityType
  <2>8. inFlight'[r] = IF r = p THEN Uncounted(due)[r] + Cardinality(granted)
                                ELSE Uncounted(due)[r]
    BY <1>1 DEF Uncounted
  <2>. HIDE DEF kept, new
  <2>9. inFlight'[r] = Cardinality(new) /\ inFlight'[r] \in Nat
    BY <2>2, <2>3, <2>6, <2>7, <2>8
  <2>10. QED
    BY <2>1, <2>9 DEF new
<1>10. TablesAgree'
  BY <1>9 DEF TablesAgree
<1>11. TrackerTyped'
  <2>1. track' \in [Hashes -> Entry]
    BY <1>1, <1>7
  <2>2. byPeer' \in [Peers -> SUBSET Hashes] /\ inFlight' \in [Peers -> Nat]
    BY <1>1, <1>9 DEF Unindexed, Uncounted
  <2>3. asked' \in [Hashes -> SUBSET Peers]
    BY <1>1 DEF TrackerInv, TrackerTyped, Unasked
  <2>4. quiet' \in 0..Forever
    BY <1>2, DelayAssumption DEF Forever
  <2>5. QED
    BY <2>1, <2>2, <2>3, <2>4 DEF TrackerTyped
<1>12. DueIsSeen'
  <2> SUFFICES ASSUME NEW h \in Hashes, track'[h].to # None
               PROVE  quiet' <= track'[h].left
    BY DEF DueIsSeen
  <2>1. track[h].left \in 0..Interval /\ quiet \in 0..Forever
    BY DEF TrackerInv, TrackerTyped, Entry
  <2>2. CASE h \in granted
    BY <1>2, <1>7, <2>2, DelayAssumption DEF Forever
  <2>3. CASE h \notin granted
    <3>1. h \in Pending /\ track'[h].left = track[h].left /\ track[h].to # None
      BY <1>7, <1>8, <2>3 DEF Pending
    <3>2. q <= track[h].left
      <4>1. CASE quiet > 0
        BY <1>2, <3>1, <4>1 DEF NextExpiry, TrackerInv, DueIsSeen
      <4>2. CASE ~(quiet > 0)
        BY <1>2, <3>1, <4>2 DEF NextExpiry
      <4>3. QED
        BY <4>1, <4>2
    <3>3. QED
      BY <1>2, <2>1, <3>1, <3>2, DelayAssumption
  <2>4. QED
    BY <2>2, <2>3
<1>13. AskedAnnounced'
  <2> SUFFICES ASSUME NEW h \in Hashes
               PROVE  /\ asked'[h] \subseteq Announcers(track'[h])
                      /\ \A r \in asked'[h] \cap track'[h].live : track'[h].to = r
    BY DEF AskedAnnounced
  <2>1. asked'[h] = (IF h \in gone THEN {} ELSE asked[h])
                    \cup (IF h \in granted THEN {p} ELSE {})
    BY <1>1 DEF Unasked
  <2>2. asked[h] \subseteq Announcers(track[h])
    BY DEF TrackerInv, AskedAnnounced
  <2>3. CASE h \in granted
    <3>1. p \in track'[h].live /\ track'[h].to = p /\ h \notin gone
      BY <1>3, <1>4, <1>6, <1>7, <2>3
    <3>2. \A r \in asked[h] : r \notin track'[h].live
      BY <1>3, <1>4, <1>7, <2>3
    <3>3. QED
      BY <1>7, <2>1, <2>2, <3>1, <3>2 DEF Announcers
  <2>4. CASE h \notin granted
    <3>1. ASSUME NEW r \in asked'[h] \cap track'[h].live
          PROVE  track'[h].to = r
      <4>1. r \in asked[h] /\ r \in Expired(h).live
        BY <1>7, <2>1, <2>4
      <4>2. r \in track[h].live /\ track[h].to = r
        BY <4>1, ExpiredFacts DEF TrackerInv, AskedAnnounced
      <4>3. ~Due(h)
        BY <4>1, <4>2, ExpiredFacts
      <4>4. QED
        BY <1>7, <2>4, <4>2, <4>3, ExpiredFacts
    <3>2. QED
      BY <1>7, <2>1, <2>2, <2>4, <3>1
  <2>5. QED
    BY <2>3, <2>4
<1>14. NoneNew
  BY <1>1 DEF NoneNew, Unindexed
<1>15. QED
  BY <1>7, <1>10, <1>11, <1>12, <1>13, <1>14 DEF TrackerInv

-----------------------------------------------------------------------------
(* The peers: who is registered has announcements, and who negotiated      *)
(* wtxidrelay is counted.                                                  *)
LEMMA PeersUntouched ==
  ASSUME PeersTyped, GoneHoldsNothing, NoneNew, UNCHANGED peers, TrackerInv
  PROVE  PeersTyped' /\ GoneHoldsNothing'
<1>1. PeersTyped'
  BY DEF PeersTyped, peers
<1>2. registered' = registered /\ numWtxid' = numWtxid
  BY DEF peers
<1>3. QED
  BY <1>1, <1>2 DEF GoneHoldsNothing, NoneNew

LEMMA TrackerUntouched ==
  ASSUME TrackerInv, UNCHANGED tracker
  PROVE  TrackerInv' /\ NoneNew
  BY DEF TrackerInv, TrackerTyped, TablesAgree, DueIsSeen, AskedAnnounced,
         NoneNew, tracker

LEMMA CountOfRegistered ==
  ASSUME PeersTyped, GoneHoldsNothing, NEW p \in Peers
  PROVE  /\ Cardinality((registered \cup {p}) \cap WtxidRelay) =
              IF p \in WtxidRelay \ registered THEN numWtxid + 1 ELSE numWtxid
         /\ Cardinality((registered \ {p}) \cap WtxidRelay) =
              IF p \in WtxidRelay \cap registered THEN numWtxid - 1 ELSE numWtxid
<1> DEFINE R == registered \cap WtxidRelay
<1>1. IsFiniteSet(R)
  BY FS_Subset, PeersAssumption DEF PeersTyped
<1>2. Cardinality(R) = numWtxid
  BY DEF GoneHoldsNothing
<1>3. (registered \cup {p}) \cap WtxidRelay =
        IF p \in WtxidRelay THEN R \cup {p} ELSE R
  OBVIOUS
<1>4. (registered \ {p}) \cap WtxidRelay =
        IF p \in WtxidRelay THEN R \ {p} ELSE R
  OBVIOUS
<1>5. /\ Cardinality(R \cup {p}) = IF p \in R THEN numWtxid ELSE numWtxid + 1
      /\ Cardinality(R \ {p}) = IF p \in R THEN numWtxid - 1 ELSE numWtxid
  BY <1>1, <1>2, FS_AddElement, FS_RemoveElement
<1>6. p \in R <=> p \in registered /\ p \in WtxidRelay
  OBVIOUS
<1>. HIDE DEF R
<1>7. QED
  BY <1>2, <1>3, <1>4, <1>5, <1>6

LEMMA CountNat ==
  ASSUME NEW R \in SUBSET Peers
  PROVE  Cardinality(R \cap WtxidRelay) \in Nat
<1>1. IsFiniteSet(R \cap WtxidRelay)
  BY FS_Subset, PeersAssumption
<1>2. QED
  BY <1>1, FS_CardinalityType

LEMMA RegisterKeeps ==
  ASSUME Inv, NEW p \in Peers, Register(p)
  PROVE  PeersTyped' /\ GoneHoldsNothing'
<1>1. PeersTyped /\ GoneHoldsNothing
  BY InvParts
<1>2. /\ registered' = registered \cup {p} /\ byPeer' = byPeer
      /\ numWtxid' = IF p \in WtxidRelay \ registered THEN numWtxid + 1 ELSE numWtxid
  BY DEF Register, tracker
<1>3. numWtxid' = Cardinality(registered' \cap WtxidRelay)
  BY <1>1, <1>2, CountOfRegistered
<1>4. registered' \in SUBSET Peers
  BY <1>1, <1>2 DEF PeersTyped
<1>5. numWtxid' \in Nat
  BY <1>3, <1>4, CountNat
<1>6. PeersTyped'
  BY <1>1, <1>4, <1>5 DEF PeersTyped, Register
<1>7. QED
  BY <1>1, <1>2, <1>3, <1>6 DEF GoneHoldsNothing

LEMMA DisconnectedForgotten ==
  ASSUME Inv, NEW p \in Peers, DisconnectedPeer(p)
  PROVE  PeersTyped' /\ GoneHoldsNothing'
<1>1. PeersTyped /\ GoneHoldsNothing /\ TrackerInv
  BY InvParts
<1>2. /\ registered' = registered \ {p}
      /\ numWtxid' = IF p \in WtxidRelay \cap registered THEN numWtxid - 1 ELSE numWtxid
  BY DEF DisconnectedPeer, NumWtxidWithout
<1>3. numWtxid' = Cardinality(registered' \cap WtxidRelay)
  BY <1>1, <1>2, CountOfRegistered
<1>4. registered' \in SUBSET Peers
  BY <1>1, <1>2 DEF PeersTyped
<1>5. numWtxid' \in Nat
  BY <1>3, <1>4, CountNat
<1>6. PeersTyped'
  BY <1>1, <1>4, <1>5 DEF PeersTyped, DisconnectedPeer
<1>7. \A q \in Peers \ registered' : byPeer'[q] = {}
  BY <1>1, <1>2, DisconnectedKeeps DEF GoneHoldsNothing, NoneNew
<1>8. QED
  BY <1>3, <1>6, <1>7 DEF GoneHoldsNothing

-----------------------------------------------------------------------------
LEMMA InitInv == Init => Inv
<1>. SUFFICES ASSUME Init PROVE Inv
  OBVIOUS
<1>1. track = [h \in Hashes |-> Nothing] /\ asked = [h \in Hashes |-> {}]
  BY DEF Init
<1>2. TrackerTyped
  BY <1>1, NothingFacts, DelayAssumption DEF Init, TrackerTyped, Forever
<1>3. TablesAgree
  <2>1. \A p \in Peers : {h \in Hashes : p \in Announcers(track[h])} = {}
    BY <1>1, NothingFacts
  <2>2. \A p \in Peers : {h \in Hashes : track[h].to = p} = {}
    BY <1>1, NothingFacts, NoneAssumption
  <2>3. QED
    BY <2>1, <2>2, FS_EmptySet DEF Init, TablesAgree
<1>4. TrackerInv
  BY <1>1, <1>2, <1>3, NothingFacts
     DEF TrackerInv, DueIsSeen, AskedAnnounced
<1>5. GoneHoldsNothing
  <2>1. registered \cap WtxidRelay = {}
    BY DEF Init
  <2>2. QED
    BY <2>1, FS_EmptySet DEF Init, GoneHoldsNothing
<1>6. PeersTyped /\ LoopTyped
  BY DEF Init, PeersTyped, LoopTyped
<1>7. QED
  BY <1>4, <1>5, <1>6, InvParts

LEMMA IdsAreHashes == ASSUME NEW t \in Txs PROVE Ids(t) \in SUBSET Hashes
  BY TxAssumption DEF Ids

LEMMA VerdictsAreHashes ==
  ASSUME NEW t \in Txs, NEW v \in Verdicts(t)
  PROVE  v.had \in SUBSET Hashes /\ v.forgot \in SUBSET Hashes
<1>1. Wtxid[t] \in Hashes /\ Ids(t) \in SUBSET Hashes
  BY TxAssumption, IdsAreHashes
<1>2. \/ v = [had |-> Ids(t), forgot |-> Ids(t)]
      \/ v = [had |-> {Wtxid[t]}, forgot |-> Ids(t)]
      \/ v = [had |-> {}, forgot |-> Ids(t)]
      \/ v = [had |-> {Wtxid[t]}, forgot |-> {Wtxid[t]}]
      \/ v = [had |-> {}, forgot |-> {}]
  BY DEF Verdicts
<1>3. QED
  BY <1>1, <1>2

LEMMA NextInv == Inv /\ [Next]_vars => Inv'
<1>. SUFFICES ASSUME Inv, [Next]_vars PROVE Inv'
  OBVIOUS
<1>1. TrackerInv /\ PeersTyped /\ LoopTyped /\ GoneHoldsNothing
  BY InvParts
<1>2. ASSUME TrackerInv' /\ NoneNew, UNCHANGED peers, LoopTyped'
      PROVE  Inv'
  BY <1>1, <1>2, PeersUntouched, InvPartsNext
<1>3. ASSUME UNCHANGED tracker, PeersTyped' /\ GoneHoldsNothing', LoopTyped'
      PROVE  Inv'
  BY <1>1, <1>3, TrackerUntouched, InvPartsNext
<1>4. ASSUME UNCHANGED <<tracker, peers>>, LoopTyped'
      PROVE  Inv'
  BY <1>1, <1>2, <1>4, TrackerUntouched
<1>5. CASE Tick
  BY <1>1, <1>2, <1>5, TickKeeps DEF Tick, LoopTyped, loop
<1>6. ASSUME NEW p \in Peers, Register(p) PROVE Inv'
  BY <1>1, <1>3, <1>6, RegisterKeeps DEF Register, LoopTyped, loop
<1>7. ASSUME NEW p \in Peers, MakeReady(p) PROVE Inv'
  <2>1. UNCHANGED tracker /\ LoopTyped'
    BY <1>1, <1>7 DEF MakeReady, LoopTyped, loop
  <2>2. PeersTyped' /\ GoneHoldsNothing'
    BY <1>1, <1>7 DEF MakeReady, PeersTyped, GoneHoldsNothing, tracker
  <2>3. QED
    BY <1>3, <2>1, <2>2
<1>8. ASSUME NEW p \in Peers, Close(p) PROVE Inv'
  <2>1. UNCHANGED tracker /\ LoopTyped'
    BY <1>1, <1>8 DEF Close, LoopTyped, loop
  <2>2. PeersTyped' /\ GoneHoldsNothing'
    BY <1>1, <1>8 DEF Close, PeersTyped, GoneHoldsNothing, tracker
  <2>3. QED
    BY <1>3, <2>1, <2>2
<1>9. ASSUME NEW p \in Peers, DisconnectedPeer(p) PROVE Inv'
  <2>1. TrackerInv' /\ PeersTyped' /\ GoneHoldsNothing'
    BY <1>1, <1>9, DisconnectedKeeps, DisconnectedForgotten
  <2>2. LoopTyped'
    BY <1>1, <1>9 DEF DisconnectedPeer, LoopTyped, loop
  <2>3. QED
    BY <2>1, <2>2, InvPartsNext
<1>10. ASSUME NEW p \in Peers, BeginTurn(p) PROVE Inv'
  BY <1>1, <1>4, <1>10 DEF BeginTurn, LoopTyped
<1>11. ASSUME NEW p \in Peers, EndTurn(p) PROVE Inv'
  <2>1. LoopTyped' /\ UNCHANGED peers
    BY <1>1, <1>11 DEF EndTurn, LoopTyped
  <2>2. CASE state[p] = "ready"
    BY <1>1, <1>2, <1>11, <2>1, <2>2, RequestsKeep DEF EndTurn
  <2>3. CASE state[p] # "ready"
    BY <1>4, <1>11, <2>1, <2>3 DEF EndTurn
  <2>4. QED
    BY <2>2, <2>3
<1>12. ASSUME NEW p \in Peers, NEW h \in Hashes, AddTxAnnouncement(p, h)
       PROVE  Inv'
  <2>1. TrackerInv' /\ p \in registered /\ \A q \in Peers \ {p} : byPeer'[q] = byPeer[q]
    BY <1>1, <1>12, AnnouncementKeeps
  <2>2. LoopTyped' /\ UNCHANGED peers
    BY <1>1, <1>12 DEF AddTxAnnouncement, LoopTyped, loop
  <2>3. PeersTyped' /\ GoneHoldsNothing'
    BY <1>1, <2>1, <2>2 DEF PeersTyped, GoneHoldsNothing, peers
  <2>4. QED
    BY <2>1, <2>2, <2>3, InvPartsNext
<1>13. ASSUME NEW p \in Peers, NEW hs \in SUBSET Hashes, ReceivedNotFound(p, hs)
       PROVE  Inv'
  <2>1. LoopTyped' /\ UNCHANGED peers
    BY <1>1, <1>13 DEF ReceivedNotFound, LoopTyped, loop
  <2>2. QED
    BY <1>1, <1>2, <1>13, <2>1, ResponseKeeps DEF ReceivedNotFound
<1>14. ASSUME NEW p \in Peers, NEW t \in Txs, ReceivedTx(p, t)
       PROVE  Inv'
  <2>1. LoopTyped' /\ UNCHANGED peers
    BY <1>1, <1>14 DEF ReceivedTx, LoopTyped
  <2>2. QED
    BY <1>1, <1>2, <1>14, <2>1, ResponseKeeps, IdsAreHashes DEF ReceivedTx
<1>15. CASE Verdict
  <2>1. validating \in Txs
    BY <1>1, <1>15 DEF Verdict, LoopTyped
  <2>2. PICK v \in Verdicts(validating) : have' = have \cup v.had /\ Forget(v.forgot)
    BY <1>15 DEF Verdict
  <2>3. v.had \in SUBSET Hashes /\ v.forgot \in SUBSET Hashes
    BY <2>1, VerdictsAreHashes
  <2>4. LoopTyped' /\ UNCHANGED peers
    BY <1>1, <1>15, <2>2, <2>3 DEF Verdict, LoopTyped
  <2>5. QED
    BY <1>1, <1>2, <2>2, <2>3, <2>4, ForgetKeeps
<1>16. ASSUME NEW t \in Txs, BlockConnected(t) PROVE Inv'
  <2>1. LoopTyped' /\ UNCHANGED peers
    BY <1>1, <1>16, IdsAreHashes DEF BlockConnected, LoopTyped, loop
  <2>2. QED
    BY <1>1, <1>2, <1>16, <2>1, ForgetKeeps, IdsAreHashes DEF BlockConnected
<1>17. ASSUME NEW t \in Txs, Submitted(t) PROVE Inv'
  BY <1>1, <1>4, <1>17, IdsAreHashes DEF Submitted, LoopTyped, loop
<1>18. ASSUME NEW h \in Hashes, Lapse(h) PROVE Inv'
  BY <1>1, <1>4, <1>18 DEF Lapse, LoopTyped, loop
<1>19. CASE UNCHANGED vars
  BY <1>1, <1>4, <1>19 DEF vars, LoopTyped, loop
<1>20. QED
  BY <1>5, <1>6, <1>7, <1>8, <1>9, <1>10, <1>11, <1>12, <1>13, <1>14, <1>15,
     <1>16, <1>17, <1>18, <1>19 DEF Next

(* The four invariants and what they rest on hold in every behaviour.      *)
THEOREM Invariance == Spec => []Inv
  BY InitInv, NextInv, PTL DEF Spec

(* Every variable keeps its type; so inFlight and numWtxid, which the code *)
(* decrements without a check, are never negative.                         *)
THEOREM TypeCorrect == Spec => []TypeOK
  BY Invariance, PTL DEF Inv

(* The tracker's tables agree with each other (txrequest-sanity-check).    *)
THEOREM TablesStayTogether == Spec => []SanityCheck
  BY Invariance, PTL DEF Inv

(* The early return at txrequest.lisp:250 misses no request that is over.  *)
THEOREM NoExpiryMissed == Spec => []DueIsSeen
  BY Invariance, PTL DEF Inv

(* A peer that is not registered holds nothing, and num-wtxid-peers is     *)
(* exact, in whatever order the threads register and disconnect.           *)
THEOREM PeersAccounted == Spec => []GoneHoldsNothing
  BY Invariance, PTL DEF Inv

-----------------------------------------------------------------------------
(* Steps.                                                                  *)
LEMMA StepAsksAfresh ==
  ASSUME Inv, [Next]_vars, NEW h \in Hashes, NEW p \in Peers,
         track'[h].to = p, track[h].to # p
  PROVE  p \notin asked[h]
<1>1. TrackerInv
  BY InvParts
<1>2. p # None
  BY NoneAssumption
<1>3. ASSUME NEW q \in Peers, GetRequestsToSend(q)
      PROVE  p \notin asked[h]
  <2>1. track'[h] = IF h \in Requestable(q) \cap have THEN Nothing
                    ELSE IF h \in Requestable(q) \ have
                         THEN Requested(Expired(h), q) ELSE Expired(h)
    BY <1>3 DEF GetRequestsToSend
  <2>2. CASE h \in Requestable(q) \cap have
    BY <1>2, <2>1, <2>2, NothingFacts
  <2>3. CASE h \in Requestable(q) \ have
    <3>1. /\ q \in Expired(h).live
          /\ \A r \in asked[h] : r \notin Expired(h).live
      BY <1>1, <2>3, RequestableFacts
    <3>2. Expired(h) \in Entry /\ Shape(Expired(h))
      BY <1>1, ExpiredFacts
    <3>3. Requested(Expired(h), q).to = q
      BY <3>1, <3>2, RequestedFacts
    <3>4. p = q
      BY <2>1, <2>3, <3>3
    <3>5. QED
      BY <3>1, <3>4
  <2>4. CASE h \notin Requestable(q)
    BY <1>1, <1>2, <2>1, <2>4, ExpiredFacts
  <2>5. QED
    BY <2>2, <2>3, <2>4
<1>4. ASSUME NEW hs \in SUBSET Hashes, Forget(hs)
      PROVE  FALSE
  BY <1>2, <1>4, NothingFacts DEF Forget
<1>5. ASSUME NEW q \in Peers, NEW hs \in SUBSET Hashes, Response(q, hs)
      PROVE  FALSE
  BY <1>1, <1>2, <1>5, ResponseFacts
<1>6. ASSUME UNCHANGED track
      PROVE  FALSE
  BY <1>6
<1>7. CASE Tick
  <2>1. track[h] \in Entry
    BY <1>1 DEF TrackerInv, TrackerTyped
  <2>2. track'[h] = [track[h] EXCEPT
            !.left = Less(track[h].left),
            !.wait = [q \in Peers |-> Less(track[h].wait[q])]]
    BY <1>7 DEF Tick
  <2>3. track'[h].to = track[h].to
    BY <2>1, <2>2 DEF Entry
  <2>4. QED
    BY <2>3
<1>8. ASSUME NEW q \in Peers,
             Register(q) \/ MakeReady(q) \/ Close(q) \/ BeginTurn(q)
      PROVE  FALSE
  BY <1>6, <1>8 DEF Register, MakeReady, Close, BeginTurn, tracker
<1>9. ASSUME NEW q \in Peers, DisconnectedPeer(q)
      PROVE  FALSE
  <2>1. track[h] \in Entry /\ Shape(track[h])
    BY <1>1 DEF TrackerInv, TrackerTyped
  <2>2. track'[h] = IF h \in byPeer[q] THEN Without(track[h], q) ELSE track[h]
    BY <1>9 DEF DisconnectedPeer
  <2>3. Without(track[h], q).to = IF track[h].to = q THEN None ELSE track[h].to
    BY <2>1, WithoutFacts
  <2>4. QED
    BY <1>2, <2>2, <2>3
<1>10. ASSUME NEW q \in Peers, EndTurn(q)
       PROVE  p \notin asked[h]
  BY <1>3, <1>6, <1>10 DEF EndTurn, tracker
<1>11. ASSUME NEW q \in Peers, NEW g \in Hashes, AddTxAnnouncement(q, g)
       PROVE  FALSE
  <2>1. track[g] \in Entry /\ track \in [Hashes -> Entry]
    BY <1>1 DEF TrackerInv, TrackerTyped
  <2>2. track' = [track EXCEPT ![g] = Announced(track[g], q, RequestDelay(q, g))]
    BY <1>11 DEF AddTxAnnouncement
  <2>3. Announced(track[g], q, RequestDelay(q, g)).to = track[g].to
    BY <2>1 DEF Announced, Entry
  <2>4. QED
    BY <2>1, <2>2, <2>3
<1>12. ASSUME NEW q \in Peers, NEW hs \in SUBSET Hashes, ReceivedNotFound(q, hs)
       PROVE  FALSE
  BY <1>5, <1>12 DEF ReceivedNotFound
<1>13. ASSUME NEW q \in Peers, NEW t \in Txs, ReceivedTx(q, t)
       PROVE  FALSE
  BY <1>5, <1>13, IdsAreHashes DEF ReceivedTx
<1>14. CASE Verdict
  <2>1. validating \in Txs
    BY <1>14, InvParts DEF Verdict, LoopTyped
  <2>2. PICK v \in Verdicts(validating) : Forget(v.forgot)
    BY <1>14 DEF Verdict
  <2>3. QED
    BY <1>4, <2>1, <2>2, VerdictsAreHashes
<1>15. ASSUME NEW t \in Txs, BlockConnected(t) \/ Submitted(t)
       PROVE  FALSE
  BY <1>4, <1>6, <1>15, IdsAreHashes DEF BlockConnected, Submitted, tracker
<1>16. ASSUME NEW g \in Hashes, Lapse(g)
       PROVE  FALSE
  BY <1>6, <1>16 DEF Lapse, tracker
<1>17. CASE UNCHANGED vars
  BY <1>6, <1>17 DEF vars, tracker
<1>18. QED
  BY <1>7, <1>8, <1>9, <1>10, <1>11, <1>12, <1>13, <1>14, <1>15, <1>16, <1>17
     DEF Next

(* No peer is asked twice for an announcement it made once.                *)
THEOREM NobodyAskedTwice == Spec => AskedOnce
<1>1. Inv /\ [Next]_vars =>
          [\A h \in Hashes : \A p \in Peers :
              track'[h].to = p /\ track[h].to # p => p \notin asked[h]]_vars
  BY StepAsksAfresh
<1>2. QED
  BY <1>1, Invariance, PTL DEF Spec, AskedOnce

(* What a peer sends touches no other peer's announcement or request.      *)
LEMMA ResponseTouchesOnePeer ==
  ASSUME Inv, NEW p \in Peers, NEW hs \in SUBSET Hashes, Response(p, hs)
  PROVE  ~AnotherLoses(p)
<1>1. TrackerInv
  BY InvParts
<1>2. ASSUME NEW h \in Hashes, NEW q \in Peers \ {p}
      PROVE  /\ q \in track[h].live => q \in track'[h].live
             /\ track[h].to = q => track'[h].to = q
  BY <1>1, ResponseFacts
<1>3. QED
  BY <1>2 DEF AnotherLoses

(* What a peer sends or fails to send ends only its own announcements and  *)
(* its own request: another peer's stay, unless the hash is resolved.      *)
THEOREM OthersUntouched == Spec => OthersKept
<1>1. Inv /\ [Next]_vars =>
          [\A p \in Peers : AnotherLoses(p) =>
              /\ \A x \in Txs : ~ReceivedTx(p, x)
              /\ \A hs \in SUBSET Hashes : ~ReceivedNotFound(p, hs)]_vars
  BY ResponseTouchesOnePeer, IdsAreHashes DEF ReceivedTx, ReceivedNotFound
<1>2. QED
  BY <1>1, Invariance, PTL DEF Spec, OthersKept
=============================================================================
