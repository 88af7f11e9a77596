-------------------------- MODULE ActivationProofs ---------------------------
(***************************************************************************)
(* Proofs about the moves of the tip, for every tree of blocks.            *)
(***************************************************************************)
EXTENDS Activation, SequenceTheorems, FiniteSetTheorems, WellFoundedInduction, TLAPS

-----------------------------------------------------------------------------
(* The tree.  What holds of every block because it holds of genesis and is *)
(* handed on by parents is shown at a lowest block without it.             *)

LEMMA Lowest ==
    ASSUME NEW S \in SUBSET Blocks, S # {}
    PROVE  \E b \in S : \A c \in S : Height[b] <= Height[c]
<1> DEFINE T == {Height[b] : b \in S}
           R == OpToRel(<, Nat)
<1>1. T \subseteq Nat /\ T # {}
  BY TreeAssumption
<1>2. IsWellFoundedOn(R, Nat)
  BY NatLessThanWellFounded, Zenon
<1>3. ASSUME NEW m \in Nat, NEW n \in Nat, m < n PROVE <<m, n>> \in R
  BY <1>3 DEF OpToRel
<1> HIDE DEF T, R
<1>4. PICK n \in T : \A m \in T : ~(<<m, n>> \in R)
  BY <1>1, <1>2, WFMin
<1>5. \A m \in T : n <= m
  <2> TAKE m \in T
  <2>1. m \in Nat /\ n \in Nat
    BY <1>1
  <2>2. ~(m < n)
    BY <1>3, <1>4, <2>1
  <2> QED BY <2>1, <2>2
<1> QED BY <1>5 DEF T

LEMMA Branch ==
    ASSUME NEW b \in Blocks \ {Genesis}
    PROVE  /\ Parent[b] \in Blocks /\ Chain[b] = Chain[Parent[b]] \cup {b}
           /\ b \notin Chain[Parent[b]] /\ Height[b] = Height[Parent[b]] + 1
           /\ Height[b] \in Nat /\ Height[Parent[b]] \in Nat
BY TreeAssumption

(* A property that genesis has and every child of a block that has it.     *)
LEMMA Inherited ==
    ASSUME NEW S \in SUBSET Blocks, Genesis \in S,
           \A b \in Blocks \ {Genesis} : Parent[b] \in S => b \in S
    PROVE  S = Blocks
<1> SUFFICES ASSUME S # Blocks PROVE FALSE
  OBVIOUS
<1>1. PICK b \in Blocks \ S : \A c \in Blocks \ S : Height[b] <= Height[c]
  BY Lowest
<1>2. b # Genesis /\ Parent[b] \in Blocks \ S
  BY <1>1, Branch
<1> QED BY <1>1, <1>2, Branch

LEMMA OnOwnChain == \A b \in Blocks : b \in Chain[b] /\ Genesis \in Chain[b] /\ Chain[b] \subseteq Blocks
<1> DEFINE S == {b \in Blocks : Genesis \in Chain[b]}
<1>1. S = Blocks
  <2>1. Genesis \in S
    BY TreeAssumption
  <2>2. \A b \in Blocks \ {Genesis} : Parent[b] \in S => b \in S
    BY Branch
  <2> HIDE DEF S
  <2>3. S \in SUBSET Blocks
    BY DEF S
  <2> QED BY <2>1, <2>2, <2>3, Inherited
<1> QED BY <1>1, TreeAssumption

LEMMA ChainsNest == \A b \in Blocks : \A a \in Chain[b] : Chain[a] \subseteq Chain[b]
<1> DEFINE S == {b \in Blocks : \A a \in Chain[b] : Chain[a] \subseteq Chain[b]}
<1>1. Genesis \in S
  BY TreeAssumption
<1>2. \A b \in Blocks \ {Genesis} : Parent[b] \in S => b \in S
  BY Branch
<1>3. S \in SUBSET Blocks
  OBVIOUS
<1> HIDE DEF S
<1>4. S = Blocks
  BY <1>1, <1>2, <1>3, Inherited
<1> QED BY <1>4 DEF S

(* From any block of a branch to its end there is a next one.              *)
LEMMA NextExists ==
    ASSUME NEW b \in Blocks, NEW a \in Chain[b], a # b
    PROVE  \E c \in Chain[b] : c # Genesis /\ Parent[c] = a
<1> DEFINE S == {x \in Blocks : \A y \in Chain[x] : y # x => \E c \in Chain[x] : c # Genesis /\ Parent[c] = y}
<1>1. Genesis \in S
  BY TreeAssumption
<1>2. ASSUME NEW x \in Blocks \ {Genesis}, Parent[x] \in S PROVE x \in S
  <2> SUFFICES ASSUME NEW y \in Chain[x], y # x PROVE \E c \in Chain[x] : c # Genesis /\ Parent[c] = y
    OBVIOUS
  <2>1. CASE y = Parent[x]
    BY <2>1, OnOwnChain
  <2>2. CASE y # Parent[x]
    BY <1>2, <2>2, Branch
  <2> QED BY <2>1, <2>2
<1>3. S \in SUBSET Blocks
  OBVIOUS
<1> HIDE DEF S
<1>4. S = Blocks
  BY <1>1, <1>2, <1>3, Inherited
<1> QED BY <1>4 DEF S

LEMMA NextToIsNext ==
    ASSUME NEW b \in Blocks, NEW a \in Chain[b], a # b
    PROVE  /\ NextTo(a, b) \in Chain[b] /\ NextTo(a, b) \in Blocks \ {Genesis}
           /\ Parent[NextTo(a, b)] = a
BY NextExists, OnOwnChain DEF NextTo

LEMMA GenesisIsLowest == \A b \in Blocks : Height[Genesis] <= Height[b]
<1> DEFINE S == {b \in Blocks : Height[Genesis] <= Height[b]}
<1>1. Genesis \in S /\ S \in SUBSET Blocks
  BY TreeAssumption
<1>2. \A b \in Blocks \ {Genesis} : Parent[b] \in S => b \in S
  BY Branch, TreeAssumption
<1> HIDE DEF S
<1>3. S = Blocks
  BY <1>1, <1>2, Inherited
<1> QED BY <1>3 DEF S

LEMMA EveryHeight ==
    ASSUME NEW b \in Blocks, NEW h \in Nat, Height[Genesis] <= h, h <= Height[b]
    PROVE  \E a \in Chain[b] : Height[a] = h
<1> DEFINE S == {x \in Blocks : h <= Height[x] => \E a \in Chain[x] : Height[a] = h}
<1>1. Genesis \in S /\ S \in SUBSET Blocks
  BY TreeAssumption
<1>2. ASSUME NEW x \in Blocks \ {Genesis}, Parent[x] \in S PROVE x \in S
  <2>1. CASE h = Height[x]
    BY <2>1, OnOwnChain
  <2>2. CASE h # Height[x]
    BY <1>2, <2>2, Branch
  <2> QED BY <2>1, <2>2
<1> HIDE DEF S
<1>3. S = Blocks
  BY <1>1, <1>2, Inherited
<1> QED BY <1>3 DEF S

(* A chain is a line.                                                      *)
LEMMA Below == \A b \in Blocks : \A a \in Chain[b] : Height[a] <= Height[b] /\ (a # b => Height[a] < Height[b])
<1> DEFINE S == {b \in Blocks : \A a \in Chain[b] : Height[a] <= Height[b] /\ (a # b => Height[a] < Height[b])}
<1>1. Genesis \in S /\ S \in SUBSET Blocks
  BY TreeAssumption
<1>2. ASSUME NEW b \in Blocks \ {Genesis}, Parent[b] \in S PROVE b \in S
  <2>1. ASSUME NEW a \in Chain[Parent[b]] PROVE Height[a] < Height[b]
    <3>1. Height[a] <= Height[Parent[b]] /\ a \in Blocks
      BY <1>2, OnOwnChain
    <3>2. Height[a] \in Nat
      BY <3>1, TreeAssumption
    <3> QED BY <3>1, <3>2, Branch
  <2>2. Chain[b] = Chain[Parent[b]] \cup {b} /\ Height[b] \in Nat
    BY Branch
  <2>3. ASSUME NEW a \in Chain[b] PROVE Height[a] <= Height[b] /\ (a # b => Height[a] < Height[b])
    <3>1. CASE a = b
      BY <2>2, <3>1
    <3>2. CASE a # b
      <4>1. a \in Chain[Parent[b]] /\ a \in Blocks
        BY <2>2, <3>2, OnOwnChain
      <4>2. Height[a] \in Nat
        BY <4>1, TreeAssumption
      <4> QED BY <2>1, <2>2, <4>1, <4>2
    <3> QED BY <3>1, <3>2
  <2> QED BY <2>3
<1> HIDE DEF S
<1>3. S = Blocks
  BY <1>1, <1>2, Inherited
<1> QED BY <1>3 DEF S

LEMMA ChainOrder ==
    ASSUME NEW y \in Blocks, NEW a \in Chain[y], NEW b \in Chain[y], Height[a] <= Height[b]
    PROVE  a \in Chain[b]
<1> DEFINE S == {x \in Blocks : \A c, d \in Chain[x] : Height[c] <= Height[d] => c \in Chain[d]}
<1>1. Genesis \in S /\ S \in SUBSET Blocks
  BY TreeAssumption
<1>2. ASSUME NEW x \in Blocks \ {Genesis}, Parent[x] \in S PROVE x \in S
  <2>1. Chain[x] = Chain[Parent[x]] \cup {x}
    BY Branch
  <2>2. ASSUME NEW c \in Chain[x], NEW d \in Chain[x], Height[c] <= Height[d] PROVE c \in Chain[d]
    <3>1. CASE d = x
      BY <3>1
    <3>2. CASE d # x /\ c = x
      <4>1. Height[d] < Height[x] /\ Height[d] \in Nat /\ Height[x] \in Nat
        BY <3>2, Below, OnOwnChain, TreeAssumption
      <4> QED BY <2>2, <3>2, <4>1
    <3>3. CASE d # x /\ c # x
      BY <1>2, <2>1, <2>2, <3>3
    <3> QED BY <3>1, <3>2, <3>3
  <2> QED BY <2>2
<1> HIDE DEF S
<1>3. S = Blocks
  BY <1>1, <1>2, Inherited
<1> QED BY <1>3 DEF S

LEMMA OneChild ==
    ASSUME NEW y \in Blocks, NEW a \in Chain[y] \ {Genesis}, NEW b \in Chain[y] \ {Genesis},
           Parent[a] = Parent[b]
    PROVE  a = b
<1>1. a \in Blocks /\ b \in Blocks /\ Height[a] = Height[b] /\ Height[a] \in Nat /\ Height[b] \in Nat
  BY OnOwnChain, Branch
<1>2. a \in Chain[b]
  BY <1>1, ChainOrder
<1> QED BY <1>1, <1>2, Below

(* The child of p on the way to y is on the chain of what comes after p.   *)
LEMMA ChildOnWay ==
    ASSUME NEW y \in Blocks, NEW c \in Chain[y] \ {Genesis}, NEW q \in Chain[y],
           Height[Parent[c]] < Height[q]
    PROVE  c \in Chain[q]
<1>1. /\ c \in Blocks /\ q \in Blocks /\ Height[q] \in Nat /\ Height[c] \in Nat /\ Height[Parent[c]] \in Nat
      /\ Height[c] = Height[Parent[c]] + 1
  BY OnOwnChain, Branch, TreeAssumption
<1> QED BY <1>1, ChainOrder

(* Two blocks of one height part where some block has a child on the way   *)
(* to each.                                                                *)
LEMMA TheyPart ==
    ASSUME NEW x \in Blocks, NEW y \in Blocks, x # y, Height[x] = Height[y]
    PROVE  \E c \in Chain[x] \ Chain[y], d \in Chain[y] \ Chain[x] :
              c # Genesis /\ d # Genesis /\ Parent[c] = Parent[d]
<1>1. x \notin Chain[y] /\ Height[x] \in Nat /\ Height[y] \in Nat
  BY Below, TreeAssumption
<1>2. Chain[x] \ Chain[y] \in SUBSET Blocks /\ Chain[x] \ Chain[y] # {}
  BY <1>1, OnOwnChain
<1>3. PICK c \in Chain[x] \ Chain[y] : \A e \in Chain[x] \ Chain[y] : Height[c] <= Height[e]
  BY <1>2, Lowest
<1>4. c \in Blocks \ {Genesis} /\ Height[c] <= Height[x]
  BY <1>3, OnOwnChain, Below
<1>5. Parent[c] \in Chain[x] /\ Parent[c] \in Blocks /\ Height[c] = Height[Parent[c]] + 1
      /\ Height[c] \in Nat /\ Height[Parent[c]] \in Nat
  <2>1. Parent[c] \in Chain[c]
    BY <1>4, Branch, OnOwnChain
  <2>2. Chain[c] \subseteq Chain[x]
    BY <1>3, ChainsNest
  <2> QED BY <1>4, <2>1, <2>2, Branch
<1>6. Parent[c] \in Chain[y] /\ Parent[c] # y
  BY <1>1, <1>3, <1>4, <1>5
<1>7. PICK d \in Chain[y] : d # Genesis /\ Parent[d] = Parent[c]
  BY <1>6, NextExists
<1>8. d \notin Chain[x]
  <2> SUFFICES ASSUME d \in Chain[x] PROVE FALSE
    OBVIOUS
  <2> QED BY <1>3, <1>4, <1>7, OneChild
<1> QED BY <1>3, <1>4, <1>7, <1>8

-----------------------------------------------------------------------------
(* The inductive invariant.                                                *)

Phases == {"idle", "check", "down", "up", "back", "tell", "done", "look"}
Orders == [do : {"nothing", "extend", "activate", "mark"}, block : known]

(* The variables have their types; the index is closed under parents.      *)
TypeOK ==
    /\ known \subseteq Blocks /\ Genesis \in known
    /\ \A b \in known \ {Genesis} : Parent[b] \in known
    /\ bodies \subseteq known /\ failed \subseteq known
    /\ tip \in known /\ at \in known /\ heard \in known
    /\ before \in known /\ from \in known /\ to \in known
    /\ gone \in Seq(known) /\ came \in Seq(known)
    /\ phase \in Phases /\ result \in {"ok", "missing", "invalid", "interrupted"}
    /\ then \in Orders

(* The blocks still to be told, or to be undone, lead from the block the   *)
(* subscribers are at to the one the coins are at.                         *)
Fork == IF gone = <<>> THEN heard ELSE Parent[gone[Len(gone)]]
GoesDown ==
    /\ gone # <<>> => gone[1] = heard
    /\ \A i \in 1..Len(gone) : gone[i] # Genesis
    /\ \A i \in 1..Len(gone) : i # 1 => gone[i] = Parent[gone[i - 1]]
ComesUp ==
    /\ came # <<>> => Parent[came[1]] = Fork
    /\ \A i \in 1..Len(came) : came[i] # Genesis
    /\ \A i \in 1..Len(came) : i # 1 => Parent[came[i]] = came[i - 1]
    /\ at = IF came = <<>> THEN Fork ELSE came[Len(came)]
Walk == GoesDown /\ ComesUp

(* How far perform-reorg is.                                               *)
Placed ==
    /\ phase \in {"idle", "check", "done", "look"} => gone = <<>> /\ came = <<>>
    /\ phase \in {"idle", "check", "done", "look", "up", "tell"} => tip = at
    /\ phase \in {"check", "down", "up", "back"} => from = heard
    /\ phase \in {"check", "down", "up"} => result = "ok"
    /\ phase = "down" => came = <<>>
    /\ phase = "up" => at \in Chain[to]
    /\ phase \in {"down", "up"} => Chain[to] \cap failed = {}

(* What the caller will do.                                                *)
CallerOK ==
    /\ then.do \in {"extend", "mark"} => then.block # Genesis /\ to = Parent[then.block]
    /\ then.do \in {"extend", "mark"} /\ phase \in {"tell", "done"} /\ result = "ok" => tip = to
    /\ then.do = "extend" /\ phase \in {"check", "down", "up", "tell", "done"} /\ result # "invalid"
         => then.block \notin failed

(* No block that a step may put the tip or the coins on has a marked or a  *)
(* bad ancestor.                                                           *)
Sound(b) == Chain[b] \cap (failed \cup Bad) = {}
AllSound ==
    /\ Sound(tip) /\ Sound(at) /\ Sound(heard)
    /\ \A i \in 1..Len(gone) : Sound(gone[i])
    /\ \A i \in 1..Len(came) : Sound(came[i])

Inv == TypeOK /\ FailureIsInherited /\ Walk /\ Placed /\ CallerOK /\ AllSound

-----------------------------------------------------------------------------
(* The index and its marks.                                                *)

LEMMA KnownChain == ASSUME TypeOK, NEW b \in known PROVE Chain[b] \subseteq known
<1> DEFINE S == {x \in Blocks : x \in known => Chain[x] \subseteq known}
<1>1. Genesis \in S /\ S \in SUBSET Blocks
  BY TreeAssumption DEF TypeOK
<1>2. \A x \in Blocks \ {Genesis} : Parent[x] \in S => x \in S
  BY Branch DEF TypeOK
<1> HIDE DEF S
<1>3. S = Blocks
  BY <1>1, <1>2, Inherited
<1> QED BY <1>3 DEF S, TypeOK

LEMMA ParentKnown == ASSUME TypeOK, NEW b \in known \ {Genesis} PROVE Parent[b] \in known
BY DEF TypeOK

LEMMA ParentSound ==
    ASSUME NEW b \in Blocks \ {Genesis}, Sound(b) PROVE Sound(Parent[b])
BY Branch DEF Sound

(* Marking a block and its descendants.                                    *)
LEMMA MarkKeeps ==
    ASSUME TypeOK, FailureIsInherited, NEW b \in known, Mark(b), known' = known
    PROVE  /\ failed' \subseteq known /\ FailureIsInherited'
           /\ \A x \in known : Sound(x) /\ b \notin Chain[x] => Sound(x)'
           /\ \A x \in known : Sound(x) /\ b \in Bad => Sound(x)'
<1>1. failed' = failed \cup Descendants(b) /\ Descendants(b) = {d \in known : b \in Chain[d]}
  BY DEF Mark, Descendants
<1>2. \A d \in known \ {Genesis} : b \in Chain[Parent[d]] => b \in Chain[d]
  BY Branch DEF TypeOK
<1>3. FailureIsInherited'
  BY <1>1, <1>2, ParentKnown DEF FailureIsInherited
<1>4. \A x \in known : Sound(x) /\ b \notin Chain[x] => Sound(x)'
  BY <1>1, ChainsNest DEF Sound, TypeOK
<1>5. \A x \in known : Sound(x) /\ b \in Bad => b \notin Chain[x]
  BY DEF Sound
<1> QED BY <1>1, <1>3, <1>4, <1>5 DEF TypeOK

(* reconsiderblock unmarks ancestors and descendants together.             *)
LEMMA ReconsiderKeeps ==
    ASSUME TypeOK, FailureIsInherited, NEW b \in Blocks, Reconsider(b)
    PROVE  /\ failed' \subseteq failed /\ FailureIsInherited'
<1>1. failed' = {f \in failed : f \notin Chain[b] /\ b \notin Chain[f]} /\ known' = known
  BY DEF Reconsider
<1>2. ASSUME NEW c \in known \ {Genesis}, Parent[c] \in failed' PROVE c \in failed'
  <2>1. c \in failed /\ Parent[c] \in Blocks
    BY <1>1, <1>2, Branch DEF FailureIsInherited, TypeOK
  <2>2. c \notin Chain[b]
    BY <1>1, <1>2, <2>1, ChainsNest, OnOwnChain, Branch DEF TypeOK
  <2>3. b \notin Chain[c]
    BY <1>1, <1>2, <2>1, <2>2, OnOwnChain, Branch DEF TypeOK
  <2> QED BY <1>1, <2>1, <2>2, <2>3
<1> QED BY <1>1, <1>2 DEF FailureIsInherited

LEMMA HeaderKeeps ==
    ASSUME TypeOK, FailureIsInherited, NEW b \in Blocks, Header(b)
    PROVE  /\ known \subseteq known' /\ FailureIsInherited' /\ failed' \subseteq known'
           /\ \A x \in known' \ {Genesis} : Parent[x] \in known'
           /\ \A x \in known : Sound(x) => Sound(x)'
<1>1. /\ b \notin known /\ Parent[b] \in known /\ known' = known \cup {b}
      /\ failed' = IF Parent[b] \in failed THEN failed \cup {b} ELSE failed
  BY DEF Header
<1>2. \A x \in known : b \notin Chain[x]
  BY <1>1, KnownChain
<1>3. FailureIsInherited'
  BY <1>1, ParentKnown, Branch, OnOwnChain DEF FailureIsInherited, TypeOK
<1> QED BY <1>1, <1>2, <1>3 DEF Sound, TypeOK

(* Where activate-best-chain goes next is in the index.                    *)
LEMMA TargetKnown ==
    ASSUME TypeOK, NEW t \in known PROVE StepTarget(t) \in known
<1> DEFINE h == Height[tip] + StepBlocks
<1>1. h \in Nat /\ Height[Genesis] <= h /\ tip \in Blocks /\ t \in Blocks
      /\ Height[t] \in Nat
  <2>1. tip \in Blocks /\ t \in Blocks
    BY DEF TypeOK
  <2>2. Height[tip] \in Nat /\ Height[t] \in Nat /\ Height[Genesis] \in Nat /\ StepBlocks \in Nat
    BY <2>1, TreeAssumption, BoundAssumption
  <2>3. Height[Genesis] <= Height[tip]
    BY <2>1, GenesisIsLowest
  <2> QED BY <2>1, <2>2, <2>3
<1>2. CASE Height[t] <= h
  BY <1>2 DEF StepTarget
<1>3. CASE ~(Height[t] <= h)
  <2>1. \E a \in Chain[t] : Height[a] = h
    BY <1>1, <1>3, EveryHeight
  <2>2. StepTarget(t) = CHOOSE a \in Chain[t] : Height[a] = h
    BY <1>3 DEF StepTarget
  <2> QED BY <2>1, <2>2, KnownChain
<1> QED BY <1>2, <1>3

-----------------------------------------------------------------------------
(* What actions have in common.                                            *)

AtRest == phase \in {"idle", "done", "look"}

LEMMA RestIsTogether ==
    ASSUME Inv, AtRest
    PROVE  gone = <<>> /\ came = <<>> /\ tip = at /\ heard = at
BY DEF Inv, AtRest, Placed, Walk, ComesUp, Fork

(* A step after which nothing is being moved.                              *)
LEMMA Rests ==
    ASSUME Inv, AtRest, phase' \in {"idle", "look"}, TypeOK', FailureIsInherited', Sound(tip)',
           UNCHANGED <<tip, at, heard, gone, came>>,
           UNCHANGED <<then, to>> \/ then' = Nothing
    PROVE  Inv'
<1>1. Walk'
  BY RestIsTogether DEF Walk, GoesDown, ComesUp, Fork
<1>2. Placed'
  BY RestIsTogether DEF Placed
<1>3. CallerOK'
  BY DEF Inv, CallerOK, Nothing
<1>4. AllSound'
  <2>1. tip' = at' /\ heard' = at' /\ gone' = <<>> /\ came' = <<>>
    BY RestIsTogether
  <2> QED BY <2>1 DEF AllSound, Sound
<1> QED BY <1>1, <1>2, <1>3, <1>4 DEF Inv

(* perform-reorg is called.                                                *)
LEMMA ReorgBegins ==
    ASSUME Inv, AtRest, NEW target \in known, NEW what \in Orders, Reorg(target, what),
           known' = known, bodies' \subseteq known, failed' \subseteq known, before' \in known,
           FailureIsInherited', Sound(tip)',
           what.do \in {"extend", "mark"} => what.block # Genesis /\ target = Parent[what.block],
           what.do = "extend" => what.block \notin failed'
    PROVE  Inv'
<1>1. /\ phase' = "check" /\ from' = tip /\ to' = target /\ gone' = <<>> /\ came' = <<>>
      /\ then' = what /\ result' = "ok" /\ UNCHANGED <<tip, at, heard>>
  BY DEF Reorg, place
<1>2. TypeOK'
  BY <1>1 DEF Inv, TypeOK, Phases, Orders
<1>3. Walk' /\ Placed'
  BY <1>1, RestIsTogether DEF Walk, GoesDown, ComesUp, Fork, Placed
<1>4. CallerOK'
  BY <1>1 DEF CallerOK
<1>5. AllSound'
  <2>1. tip' = at' /\ heard' = at'
    BY <1>1, RestIsTogether
  <2> QED BY <1>1, <2>1 DEF AllSound, Sound
<1> QED BY <1>2, <1>3, <1>4, <1>5 DEF Inv

(* A block on the tip is connected.                                        *)
LEMMA TipConnected ==
    ASSUME Inv, AtRest, NEW b \in known \ {Genesis}, Parent[b] = tip, b \notin failed \cup Bad,
           ConnectTip(b), before' \in known, UNCHANGED <<known, failed>>, bodies' \subseteq known
    PROVE  Inv'
<1>1. /\ tip' = b /\ at' = b /\ came' = <<b>> /\ gone' = <<>> /\ phase' = "tell"
      /\ result' = "ok" /\ then' = Nothing /\ UNCHANGED <<from, to, heard>>
  BY DEF ConnectTip
<1>2. TypeOK'
  BY <1>1 DEF Inv, TypeOK, Phases, Orders, Nothing
<1>3. Walk'
  BY <1>1, RestIsTogether DEF Walk, GoesDown, ComesUp, Fork
<1>4. Sound(b) /\ Sound(heard)
  BY Branch DEF Inv, AllSound, Sound, TypeOK
<1>5. AllSound'
  BY <1>1, <1>4 DEF AllSound, Sound
<1> QED BY <1>1, <1>2, <1>3, <1>5 DEF Inv, FailureIsInherited, Placed, CallerOK, Nothing

(* A step of perform-reorg: the index and the order stay.                  *)
Stays == UNCHANGED <<known, failed, bodies>>
LEMMA StaysInherited == ASSUME Inv, Stays PROVE FailureIsInherited'
BY DEF Inv, Stays, FailureIsInherited

-----------------------------------------------------------------------------
(* Arrivals and the operator's calls.                                      *)

LEMMA ArrivalsKeep == ASSUME Inv, NEW b \in Blocks, Header(b) \/ Extend(b) \/ PreReorg(b) \/ StoreOnly(b) \/ Prune(b) PROVE Inv'
<1>1. CASE Header(b)
  <2>1. AtRest /\ phase' = "idle"
        /\ UNCHANGED <<bodies, tip, at, from, to, gone, came, phase, before, result, then, heard>>
    BY <1>1 DEF Header, Quiet, place, reorg, call, Idle, AtRest
  <2>2. TypeOK' /\ FailureIsInherited' /\ Sound(tip)'
    <3>1. gone' = <<>> /\ came' = <<>>
      BY <2>1, RestIsTogether
    <3>2. /\ known \subseteq known' /\ FailureIsInherited' /\ failed' \subseteq known'
          /\ \A x \in known' \ {Genesis} : Parent[x] \in known'
          /\ Sound(tip)' /\ known' \subseteq Blocks
      <4>1. known' \subseteq Blocks
        BY <1>1 DEF Header, Inv, TypeOK
      <4>2. \A x \in known : Sound(x) => Sound(x)'
        BY <1>1, HeaderKeeps DEF Inv
      <4>3. Sound(tip)'
        BY <2>1, <4>2 DEF Inv, TypeOK, AllSound, Sound
      <4> QED BY <1>1, <4>1, <4>3, HeaderKeeps DEF Inv
    <3>3. gone' \in Seq(known') /\ came' \in Seq(known')
      BY <3>1
    <3> QED BY <2>1, <3>2, <3>3 DEF Inv, TypeOK, Orders
  <2> QED BY <2>1, <2>2, Rests
<1>2. CASE Prune(b) \/ StoreOnly(b)
  <2>1. AtRest /\ phase' = "idle" /\ bodies' \subseteq known
        /\ UNCHANGED <<known, failed, tip, at, from, to, gone, came, phase, before, result, then, heard>>
    BY <1>2 DEF Prune, StoreOnly, Store, Awaited, Quiet, index, place, reorg, call, Idle, AtRest, Inv, TypeOK
  <2>2. TypeOK' /\ FailureIsInherited' /\ Sound(tip)'
    BY <2>1 DEF Inv, TypeOK, Orders, FailureIsInherited, AllSound, Sound
  <2> QED BY <2>1, <2>2, Rests
<1>3. CASE Extend(b)
  <2>1. /\ AtRest /\ phase = "idle" /\ b \in known \ failed /\ b \notin Chain[tip] /\ Parent[b] = tip
        /\ bodies' \subseteq known /\ known' = known
    BY <1>3 DEF Extend, Awaited, Store, Idle, AtRest, Inv, TypeOK
  <2>2. b # Genesis
    BY <2>1, OnOwnChain DEF Inv, TypeOK
  <2>3. CASE b \notin Bad
    <3>1. ConnectTip(b) /\ before' = tip /\ failed' = failed
      BY <1>3, <2>3 DEF Extend
    <3> QED BY <2>1, <2>2, <2>3, <3>1, TipConnected DEF Inv, TypeOK
  <2>4. CASE b \in Bad
    <3>1. /\ Mark(b) /\ phase' = "idle"
          /\ UNCHANGED <<tip, at, from, to, gone, came, phase, before, result, then, heard>>
      BY <1>3, <2>1, <2>4 DEF Extend, Quiet, place, reorg, call
    <3>2. TypeOK' /\ FailureIsInherited' /\ Sound(tip)'
      BY <2>1, <2>4, <3>1, MarkKeeps DEF Inv, TypeOK, Orders, AllSound
    <3> QED BY <2>1, <3>1, <3>2, Rests
  <2> QED BY <2>3, <2>4
<1>4. CASE PreReorg(b)
  <2> DEFINE what == [do |-> "extend", block |-> b]
  <2>1. /\ AtRest /\ b \in known \ failed /\ b \notin Chain[tip] /\ before' = tip
        /\ bodies' \subseteq known /\ known' = known /\ failed' = failed /\ UNCHANGED tip
        /\ Reorg(Parent[b], what)
    BY <1>4 DEF PreReorg, Awaited, Store, Idle, AtRest, Inv, TypeOK, Reorg, place
  <2>2. b # Genesis /\ Parent[b] \in known
    BY <2>1, OnOwnChain DEF Inv, TypeOK
  <2>3. what \in Orders /\ what.do = "extend" /\ what.block = b
    BY <2>1 DEF Orders
  <2>4. FailureIsInherited' /\ Sound(tip)' /\ failed' \subseteq known
    BY <2>1 DEF Inv, FailureIsInherited, AllSound, Sound, TypeOK
  <2> HIDE DEF what
  <2> QED BY <2>1, <2>2, <2>3, <2>4, ReorgBegins DEF Inv, TypeOK
<1> QED BY <1>1, <1>2, <1>3, <1>4

LEMMA NothingOrdered == ASSUME TypeOK PROVE Nothing \in Orders /\ Nothing.do = "nothing"
BY DEF Nothing, Orders, TypeOK

LEMMA InvalidateKeeps == ASSUME Inv, NEW b \in Blocks, Invalidate(b) PROVE Inv'
<1>1. /\ AtRest /\ phase = "idle" /\ b \in known \ {Genesis} /\ before' = tip
      /\ UNCHANGED <<known, bodies>>
  BY DEF Invalidate, Idle, AtRest
<1>2. CASE b \in Chain[tip]
  <2> DEFINE what == [do |-> "mark", block |-> b]
  <2>1. Reorg(Parent[b], what) /\ failed' = failed /\ UNCHANGED tip
    BY <1>2 DEF Invalidate, Reorg, place
  <2>2. what \in Orders /\ what.do = "mark" /\ what.block = b /\ Parent[b] \in known
    BY <1>1 DEF Orders, Inv, TypeOK
  <2>3. FailureIsInherited' /\ Sound(tip)' /\ failed' \subseteq known
    BY <1>1, <2>1 DEF Inv, FailureIsInherited, AllSound, Sound, TypeOK
  <2> HIDE DEF what
  <2> QED BY <1>1, <2>1, <2>2, <2>3, ReorgBegins DEF Inv, TypeOK
<1>3. CASE b \notin Chain[tip]
  <2>1. Mark(b) /\ phase' = "look" /\ UNCHANGED <<result, then, tip, at, from, to, gone, came, heard>>
    BY <1>3 DEF Invalidate, place, reorg
  <2>2. TypeOK' /\ FailureIsInherited' /\ Sound(tip)'
    BY <1>1, <1>3, <2>1, MarkKeeps DEF Inv, TypeOK, Orders, AllSound, Phases
  <2> QED BY <1>1, <2>1, <2>2, Rests
<1> QED BY <1>2, <1>3

LEMMA OperatorKeeps ==
    ASSUME Inv, Restart \/ \E b \in Blocks : Reconsider(b) \/ Precious(b) PROVE Inv'
<1>1. CASE Restart
  <2>1. AtRest /\ phase' = "idle"
        /\ UNCHANGED <<known, failed, bodies, tip, at, from, to, gone, came, phase, before, result, then, heard>>
    BY <1>1 DEF Restart, Idle, AtRest, index, place, reorg, call
  <2>2. TypeOK' /\ FailureIsInherited' /\ Sound(tip)'
    BY <2>1 DEF Inv, TypeOK, Orders, FailureIsInherited, AllSound, Sound
  <2> QED BY <2>1, <2>2, Rests
<1>2. ASSUME NEW b \in Blocks, Reconsider(b) PROVE Inv'
  <2>1. /\ AtRest /\ phase' = "look" /\ before' = tip
        /\ UNCHANGED <<known, bodies, tip, at, from, to, gone, came, result, then, heard>>
    BY <1>2 DEF Reconsider, Idle, AtRest, place, reorg
  <2>2. failed' \subseteq failed /\ FailureIsInherited'
    BY <1>2, ReconsiderKeeps DEF Inv
  <2>3. TypeOK' /\ Sound(tip)'
    BY <2>1, <2>2 DEF Inv, TypeOK, Orders, AllSound, Sound, Phases
  <2> QED BY <2>1, <2>2, <2>3, Rests
<1>3. ASSUME NEW b \in Blocks, Precious(b) PROVE Inv'
  <2>1. AtRest /\ phase = "idle" /\ b \in known /\ UNCHANGED <<known, failed, bodies, tip>>
    BY <1>3 DEF Precious, Idle, AtRest, index, Quiet, Reorg, place
  <2>2. FailureIsInherited' /\ Sound(tip)' /\ failed' \subseteq known /\ bodies' \subseteq known
    BY <2>1 DEF Inv, FailureIsInherited, AllSound, Sound, TypeOK
  <2>3. CASE Quiet
    <3>1. phase' = "idle"
          /\ UNCHANGED <<tip, at, from, to, gone, came, phase, before, result, then, heard>>
      BY <2>1, <2>3 DEF Quiet, place, reorg, call
    <3>2. TypeOK'
      BY <2>1, <3>1 DEF Inv, TypeOK, Orders
    <3> QED BY <2>1, <2>2, <3>1, <3>2, Rests
  <2>4. CASE Reorg(b, Nothing) /\ before' = tip
    <3>1. before' \in known /\ Nothing \in Orders /\ Nothing.do = "nothing"
      BY <2>4, NothingOrdered DEF Inv, TypeOK
    <3> QED BY <2>1, <2>2, <2>4, <3>1, ReorgBegins
  <2> QED BY <1>3, <2>3, <2>4 DEF Precious
<1> QED BY <1>1, <1>2, <1>3

-----------------------------------------------------------------------------
(* perform-reorg.                                                          *)

LEMMA Sequences ==
    ASSUME NEW S, NEW s \in Seq(S), s # <<>>
    PROVE  /\ Len(s) \in Nat \ {0} /\ s[1] \in S /\ s[Len(s)] \in S
           /\ Head(s) = s[1]
           /\ Tail(s) \in Seq(S) /\ Len(Tail(s)) = Len(s) - 1
           /\ \A i \in 1..Len(Tail(s)) : Tail(s)[i] = s[i + 1]
           /\ SubSeq(s, 1, Len(s) - 1) \in Seq(S) /\ Len(SubSeq(s, 1, Len(s) - 1)) = Len(s) - 1
           /\ \A i \in 1..Len(s) - 1 : SubSeq(s, 1, Len(s) - 1)[i] = s[i]
<1>1. Len(s) \in Nat \ {0} /\ \A i \in 1..Len(s) : s[i] \in S
  BY ElementOfSeq, EmptySeq
<1>2. Head(s) = s[1]
  OBVIOUS
<1>3. /\ SubSeq(s, 1, Len(s) - 1) \in Seq(S)
      /\ Len(SubSeq(s, 1, Len(s) - 1)) = IF 1 <= Len(s) - 1 THEN Len(s) - 1 - 1 + 1 ELSE 0
      /\ \A i \in 1..Len(s) - 1 - 1 + 1 : SubSeq(s, 1, Len(s) - 1)[i] = s[1 + i - 1]
  BY <1>1, SubSeqProperties
<1>4. Len(s) - 1 \in Nat /\ (1 <= Len(s) - 1 \/ Len(s) - 1 = 0) /\ Len(s) - 1 - 1 + 1 = Len(s) - 1
  <2>1. ASSUME NEW n \in Nat \ {0} PROVE n - 1 \in Nat /\ (1 <= n - 1 \/ n - 1 = 0) /\ n - 1 - 1 + 1 = n - 1
    OBVIOUS
  <2> QED BY <1>1, <2>1, Zenon
<1>5. Len(SubSeq(s, 1, Len(s) - 1)) = Len(s) - 1
  BY <1>3, <1>4
<1>6. ASSUME NEW i \in 1..Len(s) - 1 PROVE SubSeq(s, 1, Len(s) - 1)[i] = s[i]
  <2>1. 1 + i - 1 = i
    BY <1>1
  <2> QED BY <1>3, <1>4, <2>1
<1> QED BY <1>1, <1>2, <1>3, <1>5, <1>6, HeadTailProperties

LEMMA CheckKeeps == ASSUME Inv, Check PROVE Inv'
<1>1. /\ phase = "check" /\ UNCHANGED <<known, failed, bodies, tip, at, heard, from, to, gone, came, before, then>>
      /\ \/ phase' = "down" /\ Refused = "no" /\ result' = result
         \/ phase' = "done" /\ result' \in {"missing", "invalid"}
  BY DEF Check, Refused, index, place, reorg
<1>2. TypeOK' /\ FailureIsInherited' /\ Walk' /\ AllSound'
  BY <1>1 DEF Inv, TypeOK, Orders, Phases, FailureIsInherited, Walk, GoesDown, ComesUp, Fork, AllSound, Sound
<1>3. phase' = "down" => Chain[to] \cap failed = {}
  <2>1. Refused = "no" => (Chain[to] \ Chain[from]) \cap failed = {}
    BY DEF Refused
  <2>2. Chain[from] \cap failed = {}
    BY <1>1 DEF Inv, Placed, AllSound, Sound
  <2> QED BY <1>1, <2>1, <2>2
<1>4. Placed' /\ CallerOK'
  BY <1>1, <1>3 DEF Inv, Placed, CallerOK
<1> QED BY <1>2, <1>4 DEF Inv

LEMMA DisconnectKeeps == ASSUME Inv, Disconnect PROVE Inv'
<1>1. /\ phase = "down" /\ at \notin Chain[to] /\ at' = Parent[at] /\ gone' = Append(gone, at)
      /\ UNCHANGED <<known, failed, bodies, tip, heard, from, to, came, before, then, phase, result>>
  BY DEF Disconnect, index, call
<1>2. at \in known \ {Genesis} /\ at' \in known /\ came = <<>>
  BY <1>1, OnOwnChain DEF Inv, TypeOK, Placed
<1>3. /\ gone' \in Seq(known) /\ Len(gone') = Len(gone) + 1 /\ gone' # <<>>
      /\ gone'[Len(gone')] = at /\ \A i \in 1..Len(gone) : gone'[i] = gone[i]
      /\ Len(gone) \in Nat
  BY <1>1, <1>2 DEF Inv, TypeOK
<1>4. TypeOK' /\ FailureIsInherited'
  BY <1>1, <1>2, <1>3 DEF Inv, TypeOK, Orders, FailureIsInherited
<1>5. at = Fork
  BY <1>2 DEF Inv, Walk, ComesUp
<1>6. GoesDown'
  <2>1. gone'[1] = heard'
    BY <1>1, <1>3, <1>5 DEF Inv, Walk, GoesDown, Fork, TypeOK
  <2>2. ASSUME NEW i \in 1..Len(gone') PROVE gone'[i] # Genesis /\ (i # 1 => gone'[i] = Parent[gone'[i - 1]])
    <3>1. CASE i = Len(gone')
      BY <1>2, <1>3, <1>5, <3>1 DEF Fork, Inv, TypeOK
    <3>2. CASE i # Len(gone')
      BY <1>3, <3>2 DEF Inv, Walk, GoesDown
    <3> QED BY <3>1, <3>2
  <2> QED BY <2>1, <2>2 DEF GoesDown
<1>7. ComesUp'
  BY <1>1, <1>2, <1>3 DEF ComesUp, Fork, Inv, Walk
<1>8. AllSound'
  <2>1. Sound(at)'
    BY <1>1, <1>2, ParentSound DEF Inv, AllSound, TypeOK, Sound
  <2>2. ASSUME NEW i \in 1..Len(gone') PROVE Sound(gone'[i])
    BY <1>3 DEF Inv, AllSound
  <2> QED BY <1>1, <2>1, <2>2 DEF Inv, AllSound, Sound
<1> QED BY <1>1, <1>4, <1>6, <1>7, <1>8 DEF Inv, Walk, Placed, CallerOK

LEMMA LandKeeps == ASSUME Inv, Land PROVE Inv'
<1>1. /\ phase = "down" /\ tip' = at
      /\ UNCHANGED <<known, failed, bodies, at, heard, from, to, gone, came, before, then>>
      /\ \/ phase' = "up" /\ at \in Chain[to] /\ result' = result
         \/ phase' = "tell" /\ result' = "interrupted"
  BY DEF Land, index, reorg
<1>2. TypeOK' /\ FailureIsInherited' /\ Walk' /\ AllSound'
  BY <1>1 DEF Inv, TypeOK, Orders, Phases, FailureIsInherited, Walk, GoesDown, ComesUp, Fork, AllSound, Sound
<1> QED BY <1>1, <1>2 DEF Inv, Placed, CallerOK

LEMMA EndConnectKeeps == ASSUME Inv, EndConnect PROVE Inv'
<1>1. /\ phase = "up" /\ phase' = "tell" /\ ((result' = "ok" /\ tip = to) \/ result' = "interrupted")
      /\ UNCHANGED <<known, failed, bodies, tip, at, heard, from, to, gone, came, before, then>>
  BY DEF EndConnect, index, place, reorg
<1>2. TypeOK' /\ FailureIsInherited' /\ Walk' /\ AllSound'
  BY <1>1 DEF Inv, TypeOK, Orders, Phases, FailureIsInherited, Walk, GoesDown, ComesUp, Fork, AllSound, Sound
<1> QED BY <1>1, <1>2 DEF Inv, Placed, CallerOK

(* The next block of the branch, when there is one to connect.             *)
LEMMA NextOfBranch ==
    ASSUME Inv, phase = "up", tip # to
    PROVE  /\ NextTo(tip, to) \in known \ {Genesis} /\ Parent[NextTo(tip, to)] = tip
           /\ NextTo(tip, to) \in Chain[to] /\ NextTo(tip, to) \notin failed
<1>1. tip \in Chain[to] /\ Chain[to] \cap failed = {}
  BY DEF Inv, Placed
<1>2. to \in Blocks /\ Chain[to] \subseteq known
  BY KnownChain DEF Inv, TypeOK
<1> QED BY <1>1, <1>2, NextToIsNext

LEMMA ConnectKeeps == ASSUME Inv, Connect PROVE Inv'
<1> DEFINE b == NextTo(tip, to)
<1>1. /\ phase = "up" /\ tip # to /\ b \notin Bad /\ at' = b /\ tip' = b /\ came' = Append(came, b)
      /\ UNCHANGED <<known, failed, bodies, heard, from, to, gone, before, then, phase, result>>
  BY DEF Connect, index, call
<1>2. b \in known \ {Genesis} /\ Parent[b] = at /\ b \in Chain[to] /\ b \notin failed /\ tip = at
  BY <1>1, NextOfBranch DEF Inv, Placed
<1> HIDE DEF b
<1>3. /\ came' \in Seq(known) /\ Len(came') = Len(came) + 1 /\ came' # <<>>
      /\ came'[Len(came')] = b /\ \A i \in 1..Len(came) : came'[i] = came[i]
      /\ Len(came) \in Nat
  BY <1>1, <1>2 DEF Inv, TypeOK
<1>4. TypeOK' /\ FailureIsInherited'
  BY <1>1, <1>2, <1>3 DEF Inv, TypeOK, Orders, FailureIsInherited
<1>5. Fork' = Fork /\ GoesDown'
  BY <1>1 DEF Fork, GoesDown, Inv, Walk
<1>6. ComesUp'
  <2>1. Parent[came'[1]] = Fork
    BY <1>2, <1>3 DEF Inv, Walk, ComesUp, TypeOK
  <2>2. ASSUME NEW i \in 1..Len(came') PROVE came'[i] # Genesis /\ (i # 1 => Parent[came'[i]] = came'[i - 1])
    <3>1. CASE i = Len(came')
      BY <1>2, <1>3, <3>1 DEF Inv, Walk, ComesUp, TypeOK
    <3>2. CASE i # Len(came')
      BY <1>3, <3>2 DEF Inv, Walk, ComesUp
    <3> QED BY <3>1, <3>2
  <2> QED BY <1>1, <1>3, <1>5, <2>1, <2>2 DEF ComesUp
<1>7. AllSound'
  <2>1. Sound(b)
    BY <1>1, <1>2, Branch DEF Inv, AllSound, Sound, TypeOK
  <2>2. ASSUME NEW i \in 1..Len(came') PROVE Sound(came'[i])
    BY <1>3, <2>1 DEF Inv, AllSound
  <2> QED BY <1>1, <2>1, <2>2 DEF Inv, AllSound, Sound
<1> QED BY <1>1, <1>2, <1>4, <1>5, <1>6, <1>7 DEF Inv, Walk, Placed, CallerOK

LEMMA FailConnectKeeps == ASSUME Inv, FailConnect PROVE Inv'
<1> DEFINE b == NextTo(tip, to)
<1>1. /\ phase = "up" /\ tip # to /\ b \in Bad /\ Mark(b) /\ phase' = "back"
      /\ UNCHANGED <<known, bodies, tip, at, heard, from, to, gone, came, before, then, result>>
  BY DEF FailConnect, place, reorg
<1>2. b \in known
  BY <1>1, NextOfBranch
<1> HIDE DEF b
<1>3. FailureIsInherited' /\ failed' \subseteq known /\ \A x \in known : Sound(x) => Sound(x)'
  BY <1>1, <1>2, MarkKeeps DEF Inv
<1>4. TypeOK' /\ Walk'
  BY <1>1, <1>3 DEF Inv, TypeOK, Orders, Phases, Walk, GoesDown, ComesUp, Fork
<1>5. AllSound'
  <2>1. \A i \in 1..Len(gone) : gone[i] \in known
    BY DEF Inv, TypeOK
  <2>2. \A i \in 1..Len(came) : came[i] \in known
    BY DEF Inv, TypeOK
  <2>3. Sound(tip)' /\ Sound(at)' /\ Sound(heard)'
    BY <1>1, <1>3 DEF Inv, AllSound, TypeOK, Sound
  <2>4. ASSUME NEW i \in 1..Len(gone) PROVE Sound(gone[i])'
    BY <1>1, <1>3, <2>1 DEF Inv, AllSound, Sound
  <2>5. ASSUME NEW i \in 1..Len(came) PROVE Sound(came[i])'
    BY <1>1, <1>3, <2>2 DEF Inv, AllSound, Sound
  <2> QED BY <1>1, <2>3, <2>4, <2>5 DEF AllSound
<1> QED BY <1>1, <1>3, <1>4, <1>5 DEF Inv, Placed, CallerOK

(* One block less to undo.                                                 *)
LEMMA RollbackDownKeeps == ASSUME Inv, RollbackDown PROVE Inv'
<1> DEFINE n == Len(came)
<1>1. /\ phase = "back" /\ came # <<>> /\ at' = Parent[came[n]] /\ came' = SubSeq(came, 1, n - 1)
      /\ UNCHANGED <<known, failed, bodies, tip, heard, from, to, gone, before, then, phase, result>>
  BY DEF RollbackDown, index, call
<1>2. /\ n \in Nat \ {0} /\ came[n] \in known \ {Genesis} /\ came' \in Seq(known) /\ Len(came') = n - 1
      /\ \A i \in 1..n - 1 : came'[i] = came[i]
  BY <1>1, Sequences DEF Inv, TypeOK, Walk, ComesUp
<1> HIDE DEF n
<1>3. at' \in known
  BY <1>1, <1>2 DEF Inv, TypeOK
<1>4. TypeOK' /\ FailureIsInherited'
  BY <1>1, <1>2, <1>3 DEF Inv, TypeOK, Orders, FailureIsInherited
<1>5. Fork' = Fork /\ GoesDown'
  BY <1>1 DEF Fork, GoesDown, Inv, Walk
<1>6. ComesUp'
  <2>1. CASE n = 1
    <3>1. came' = <<>>
      BY <1>2, <2>1
    <3> QED BY <1>1, <1>5, <2>1, <3>1 DEF ComesUp, Inv, Walk
  <2>2. CASE n # 1
    <3>1. came' # <<>> /\ came'[1] = came[1] /\ came'[n - 1] = came[n - 1] /\ Len(came') = n - 1
      BY <1>2, <2>2
    <3>2. at' = came[n - 1]
      BY <1>1, <1>2, <2>2 DEF ComesUp, Inv, Walk, n
    <3>3. ASSUME NEW i \in 1..Len(came')
          PROVE  came'[i] # Genesis /\ (i # 1 => Parent[came'[i]] = came'[i - 1])
      BY <1>2 DEF ComesUp, Inv, Walk, n
    <3> QED BY <1>1, <1>5, <3>1, <3>2, <3>3 DEF ComesUp, Inv, Walk
  <2> QED BY <2>1, <2>2
<1>7. AllSound'
  <2>1. Sound(at)'
    <3>1. Sound(came[n]) /\ came[n] \in Blocks \ {Genesis}
      BY <1>2 DEF Inv, AllSound, TypeOK, n
    <3>2. Sound(Parent[came[n]])
      BY <3>1, ParentSound
    <3> QED BY <1>1, <3>2 DEF Sound
  <2>2. ASSUME NEW i \in 1..Len(came') PROVE Sound(came'[i])
    BY <1>2 DEF Inv, AllSound, n
  <2> QED BY <1>1, <2>1, <2>2 DEF Inv, AllSound, Sound
<1> QED BY <1>1, <1>4, <1>5, <1>6, <1>7 DEF Inv, Walk, Placed, CallerOK

LEMMA RollbackUpKeeps == ASSUME Inv, RollbackUp PROVE Inv'
<1> DEFINE n == Len(gone)
<1>1. /\ phase = "back" /\ came = <<>> /\ gone # <<>> /\ at' = gone[n] /\ gone' = SubSeq(gone, 1, n - 1)
      /\ UNCHANGED <<known, failed, bodies, tip, heard, from, to, came, before, then, phase, result>>
  BY DEF RollbackUp, index, call
<1>2. /\ n \in Nat \ {0} /\ gone[n] \in known /\ gone' \in Seq(known) /\ Len(gone') = n - 1
      /\ \A i \in 1..n - 1 : gone'[i] = gone[i]
  BY <1>1, Sequences DEF Inv, TypeOK
<1> HIDE DEF n
<1>4. TypeOK' /\ FailureIsInherited'
  BY <1>1, <1>2 DEF Inv, TypeOK, Orders, FailureIsInherited
<1>5. GoesDown'
  BY <1>1, <1>2 DEF GoesDown, Inv, Walk, n
<1>6. Fork' = at'
  <2>1. CASE n = 1
    <3>1. gone' = <<>>
      BY <1>2, <2>1
    <3> QED BY <1>1, <2>1, <3>1 DEF Fork, Inv, Walk, GoesDown
  <2>2. CASE n # 1
    <3>1. gone' # <<>> /\ gone'[n - 1] = gone[n - 1] /\ gone[n] = Parent[gone[n - 1]]
      BY <1>2, <2>2 DEF Inv, Walk, GoesDown, n
    <3> QED BY <1>1, <1>2, <3>1 DEF Fork
  <2> QED BY <2>1, <2>2
<1>7. ComesUp'
  BY <1>1, <1>6 DEF ComesUp
<1>8. AllSound'
  <2>1. ASSUME NEW i \in 1..Len(gone') PROVE Sound(gone'[i])
    BY <1>2 DEF Inv, AllSound, n
  <2>2. Sound(gone[n])
    BY <1>2 DEF Inv, AllSound, n
  <2> QED BY <1>1, <2>1, <2>2 DEF Inv, AllSound, Sound
<1> QED BY <1>1, <1>4, <1>5, <1>7, <1>8 DEF Inv, Walk, Placed, CallerOK

LEMMA EndRollbackKeeps == ASSUME Inv, EndRollback PROVE Inv'
<1>1. /\ phase = "back" /\ came = <<>> /\ gone = <<>> /\ tip' = from /\ phase' = "done" /\ result' = "invalid"
      /\ UNCHANGED <<known, failed, bodies, at, heard, from, to, gone, came, before, then>>
  BY DEF EndRollback, index, reorg
<1>2. from = heard /\ at = heard
  BY <1>1 DEF Inv, Placed, Walk, ComesUp, Fork
<1>3. TypeOK' /\ FailureIsInherited' /\ Walk' /\ AllSound'
  BY <1>1, <1>2 DEF Inv, TypeOK, Orders, Phases, FailureIsInherited, Walk, GoesDown, ComesUp, Fork, AllSound, Sound
<1> QED BY <1>1, <1>2, <1>3 DEF Inv, Placed, CallerOK

(* The subscribers hear of one block.                                      *)
LEMMA TellGoneKeeps ==
    ASSUME Inv, TellGone
    PROVE  Inv' /\ heard # Genesis /\ heard' = Parent[heard]
<1>1. /\ phase = "tell" /\ gone # <<>> /\ heard' = Parent[Head(gone)] /\ gone' = Tail(gone)
      /\ UNCHANGED <<known, failed, bodies, tip, at, from, to, came, before, then, phase, result>>
  BY DEF TellGone, index, place, call
<1>2. /\ Len(gone) \in Nat \ {0} /\ gone[1] = heard /\ heard \in known \ {Genesis} /\ heard' = Parent[heard]
      /\ gone' \in Seq(known) /\ Len(gone') = Len(gone) - 1
      /\ \A i \in 1..Len(gone') : gone'[i] = gone[i + 1]
  BY <1>1, Sequences DEF Inv, TypeOK, Walk, GoesDown
<1>3. heard' \in known
  BY <1>2 DEF Inv, TypeOK
<1>4. TypeOK' /\ FailureIsInherited'
  BY <1>1, <1>2, <1>3 DEF Inv, TypeOK, Orders, FailureIsInherited
<1>5. GoesDown'
  <2>1. gone' # <<>> => gone'[1] = heard'
    BY <1>2 DEF GoesDown, Inv, Walk
  <2>2. ASSUME NEW i \in 1..Len(gone') PROVE gone'[i] # Genesis /\ (i # 1 => gone'[i] = Parent[gone'[i - 1]])
    <3>1. i + 1 \in 1..Len(gone) /\ i + 1 # 1 /\ i + 1 - 1 = i /\ gone'[i] = gone[i + 1]
      BY <1>2
    <3>2. gone[i + 1] # Genesis /\ gone[i + 1] = Parent[gone[i]]
      BY <3>1 DEF GoesDown, Inv, Walk
    <3>3. i # 1 => i - 1 \in 1..Len(gone') /\ i - 1 + 1 = i
      BY <1>2
    <3>4. i # 1 => gone'[i - 1] = gone[i]
      BY <1>2, <3>3
    <3> QED BY <3>1, <3>2, <3>4
  <2> QED BY <2>1, <2>2 DEF GoesDown
<1>6. Fork' = Fork
  <2>1. CASE Len(gone) = 1
    BY <1>1, <1>2, <2>1 DEF Fork
  <2>2. CASE Len(gone) # 1
    <3>1. Len(gone') \in 1..Len(gone') /\ Len(gone') + 1 = Len(gone) /\ gone' # <<>>
      BY <1>2, <2>2
    <3>2. gone'[Len(gone')] = gone[Len(gone)]
      BY <1>2, <3>1
    <3> QED BY <1>1, <3>1, <3>2 DEF Fork
  <2> QED BY <2>1, <2>2
<1>7. ComesUp'
  BY <1>1, <1>6 DEF ComesUp, Inv, Walk
<1>8. AllSound'
  <2>1. ASSUME NEW i \in 1..Len(gone') PROVE Sound(gone'[i])
    BY <1>2 DEF Inv, AllSound
  <2>2. Sound(Parent[heard])
    BY <1>2, ParentSound DEF Inv, AllSound, TypeOK
  <2> QED BY <1>1, <1>2, <2>1, <2>2 DEF Inv, AllSound, Sound
<1> QED BY <1>1, <1>2, <1>4, <1>5, <1>7, <1>8 DEF Inv, Walk, Placed, CallerOK

LEMMA TellCameKeeps ==
    ASSUME Inv, TellCame
    PROVE  Inv' /\ heard' # Genesis /\ heard = Parent[heard']
<1>1. /\ phase = "tell" /\ gone = <<>> /\ came # <<>> /\ heard' = Head(came) /\ came' = Tail(came)
      /\ UNCHANGED <<known, failed, bodies, tip, at, from, to, gone, before, then, phase, result>>
  BY DEF TellCame, index, place, call
<1>2. /\ Len(came) \in Nat \ {0} /\ heard' = came[1] /\ heard' \in known \ {Genesis}
      /\ came' \in Seq(known) /\ Len(came') = Len(came) - 1
      /\ \A i \in 1..Len(came') : came'[i] = came[i + 1]
  BY <1>1, Sequences DEF Inv, TypeOK, Walk, ComesUp
<1>3. Parent[heard'] = heard
  BY <1>1, <1>2 DEF Inv, Walk, ComesUp, Fork
<1>4. TypeOK' /\ FailureIsInherited'
  BY <1>1, <1>2 DEF Inv, TypeOK, Orders, FailureIsInherited
<1>5. GoesDown' /\ Fork' = heard'
  BY <1>1 DEF GoesDown, Fork
<1>6. ComesUp'
  <2>1. came' # <<>> => Parent[came'[1]] = heard'
    BY <1>2 DEF Inv, Walk, ComesUp
  <2>2. ASSUME NEW i \in 1..Len(came') PROVE came'[i] # Genesis /\ (i # 1 => Parent[came'[i]] = came'[i - 1])
    <3>1. i + 1 \in 1..Len(came) /\ i + 1 # 1 /\ i + 1 - 1 = i /\ came'[i] = came[i + 1]
      BY <1>2
    <3>2. came[i + 1] # Genesis /\ Parent[came[i + 1]] = came[i]
      BY <3>1 DEF ComesUp, Inv, Walk
    <3>3. i # 1 => i - 1 \in 1..Len(came') /\ i - 1 + 1 = i
      BY <1>2
    <3>4. i # 1 => came'[i - 1] = came[i]
      BY <1>2, <3>3
    <3> QED BY <3>1, <3>2, <3>4
  <2>3. at = IF came' = <<>> THEN heard' ELSE came'[Len(came')]
    <3>1. at = came[Len(came)]
      BY <1>1 DEF Inv, Walk, ComesUp
    <3>2. CASE Len(came) = 1
      BY <1>2, <3>1, <3>2
    <3>3. CASE Len(came) # 1
      <4>1. Len(came') \in 1..Len(came') /\ Len(came') + 1 = Len(came) /\ came' # <<>>
        BY <1>2, <3>3
      <4>2. came'[Len(came')] = came[Len(came)]
        BY <1>2, <4>1
      <4> QED BY <3>1, <4>1, <4>2
    <3> QED BY <3>2, <3>3
  <2> QED BY <1>1, <1>5, <2>1, <2>2, <2>3 DEF ComesUp
<1>7. AllSound'
  <2>1. ASSUME NEW i \in 1..Len(came') PROVE Sound(came'[i])
    BY <1>2 DEF Inv, AllSound
  <2>2. Sound(came[1])
    BY <1>2 DEF Inv, AllSound
  <2> QED BY <1>1, <1>2, <2>1, <2>2 DEF Inv, AllSound, Sound
<1> QED BY <1>1, <1>2, <1>3, <1>4, <1>5, <1>6, <1>7 DEF Inv, Walk, Placed, CallerOK

LEMMA ToldKeeps == ASSUME Inv, Told PROVE Inv'
<1>1. /\ phase = "tell" /\ gone = <<>> /\ came = <<>> /\ phase' = "done"
      /\ UNCHANGED <<known, failed, bodies, tip, at, heard, from, to, gone, came, before, then, result>>
  BY DEF Told, index, place, reorg
<1>2. TypeOK' /\ FailureIsInherited' /\ Walk' /\ AllSound'
  BY <1>1 DEF Inv, TypeOK, Orders, Phases, FailureIsInherited, Walk, GoesDown, ComesUp, Fork, AllSound, Sound
<1> QED BY <1>1, <1>2 DEF Inv, Placed, CallerOK

-----------------------------------------------------------------------------
(* What the callers do next.                                               *)

LEMMA Returns ==
    ASSUME Inv, AtRest, Return, UNCHANGED <<known, bodies, tip, at>>,
           failed' \subseteq known, FailureIsInherited', Sound(tip)'
    PROVE  Inv'
<1>1. /\ phase' = "idle" /\ result' = "ok" /\ then' = Nothing /\ before' = Genesis /\ from' = Genesis
      /\ to' = Genesis /\ UNCHANGED <<gone, came, heard>>
  BY DEF Return
<1>2. Nothing \in Orders
  BY NothingOrdered DEF Inv
<1>3. TypeOK'
  BY <1>1, <1>2 DEF Inv, TypeOK, Orders, Phases
<1> QED BY <1>1, <1>3, Rests

LEMMA RoundKeeps ==
    ASSUME Inv, AtRest, NEW round, ActivateRound(round), UNCHANGED <<known, failed, bodies>>
    PROVE  Inv'
<1>1. FailureIsInherited' /\ failed' \subseteq known
  BY DEF Inv, TypeOK, FailureIsInherited
<1>2. CASE round > 0 /\ Candidates # {}
  <2> DEFINE what == [do |-> "activate", block |-> Genesis]
  <2>1. PICK best \in BestValidTips : Reorg(StepTarget(best), what)
    BY <1>2 DEF ActivateRound
  <2>2. best \in known
    BY DEF BestValidTips, BestOf, Reachable, Candidates, Inv, TypeOK
  <2>3. StepTarget(best) \in known
    BY <2>2, TargetKnown DEF Inv
  <2>4. before' \in known /\ what \in Orders /\ what.do = "activate"
    BY <1>2 DEF ActivateRound, Inv, TypeOK, Orders
  <2>5. Sound(tip)'
    BY <2>1 DEF Reorg, place, Inv, AllSound, Sound
  <2> HIDE DEF what
  <2> QED BY <1>1, <2>1, <2>3, <2>4, <2>5, ReorgBegins DEF Inv, TypeOK
<1>3. CASE ~(round > 0 /\ Candidates # {})
  <2>1. Return /\ UNCHANGED <<tip, at>>
    BY <1>3 DEF ActivateRound, place
  <2>2. Sound(tip)'
    BY <2>1 DEF Inv, AllSound, Sound
  <2> QED BY <1>1, <2>1, <2>2, Returns
<1> QED BY <1>2, <1>3

LEMMA LookKeeps == ASSUME Inv, Look PROVE Inv'
<1>1. AtRest /\ UNCHANGED <<known, failed, bodies>> /\ ActivateOnce
  BY DEF Look, AtRest, index
<1>2. FailureIsInherited' /\ failed' \subseteq known
  BY <1>1 DEF Inv, TypeOK, FailureIsInherited
<1>3. CASE Reachable # {}
  <2>1. PICK best \in BestOf(Reachable) : Reorg(best, Nothing) /\ UNCHANGED before
    BY <1>1, <1>3 DEF ActivateOnce
  <2>2. best \in known
    BY DEF BestOf, Reachable, Candidates, Inv, TypeOK
  <2>3. Sound(tip)' /\ Nothing \in Orders /\ Nothing.do = "nothing" /\ before' \in known
    BY <1>1, <2>1, NothingOrdered DEF Reorg, place, Inv, AllSound, Sound, TypeOK
  <2> QED BY <1>1, <1>2, <2>1, <2>2, <2>3, ReorgBegins DEF Inv, TypeOK
<1>4. CASE Reachable = {}
  <2>1. Return /\ UNCHANGED <<tip, at>>
    BY <1>1, <1>4 DEF ActivateOnce, place
  <2>2. Sound(tip)'
    BY <1>1, <2>1 DEF Inv, AllSound, Sound
  <2> QED BY <1>1, <1>2, <2>1, <2>2, Returns
<1> QED BY <1>3, <1>4

LEMMA DoneKeeps == ASSUME Inv, Done PROVE Inv'
<1>1. AtRest /\ Return /\ UNCHANGED <<known, failed, bodies, tip, at>>
  BY DEF Done, AtRest, index, place
<1>2. FailureIsInherited' /\ failed' \subseteq known /\ Sound(tip)'
  BY <1>1 DEF Inv, TypeOK, FailureIsInherited, AllSound, Sound
<1> QED BY <1>1, <1>2, Returns

(* activate-block is on the block's parent now.                            *)
LEMMA OnParent ==
    ASSUME Inv, phase = "done", then.do \in {"extend", "mark"}, result = "ok"
    PROVE  /\ AtRest /\ then.block \in known \ {Genesis} /\ Parent[then.block] = tip
           /\ then.block \notin Chain[tip]
           /\ then.do = "extend" => then.block \notin failed
<1>1. then.block \in known \ {Genesis} /\ Parent[then.block] = tip
  BY DEF Inv, CallerOK, TypeOK, Orders
<1> QED BY <1>1, Branch DEF Inv, CallerOK, AtRest, TypeOK

LEMMA AfterKeeps == ASSUME Inv, AfterExtend \/ AfterExtendBad \/ AfterLeave PROVE Inv'
<1> DEFINE b == then.block
<1>1. phase = "done" /\ result = "ok" /\ then.do \in {"extend", "mark"}
  BY DEF AfterExtend, AfterExtendBad, AfterLeave
<1>2. AtRest /\ b \in known \ {Genesis} /\ Parent[b] = tip /\ b \notin Chain[tip]
  BY <1>1, OnParent
<1>3. CASE AfterExtend
  <2>1. b \notin failed \cup Bad
    BY <1>1, <1>3, OnParent DEF AfterExtend
  <2>2. ConnectTip(b) /\ UNCHANGED <<known, failed, bodies, before>>
    BY <1>3 DEF AfterExtend, index
  <2> HIDE DEF b
  <2> QED BY <1>2, <2>1, <2>2, TipConnected DEF Inv, TypeOK
<1>4. CASE AfterExtendBad
  <2>1. b \in Bad /\ Mark(b) /\ Reorg(before, Nothing) /\ UNCHANGED <<known, bodies, before, tip>>
    BY <1>4 DEF AfterExtendBad, Reorg, place
  <2> HIDE DEF b
  <2>2. failed' \subseteq known /\ FailureIsInherited' /\ Sound(tip)'
    BY <1>2, <2>1, MarkKeeps DEF Inv, TypeOK, AllSound, Sound
  <2>3. before \in known /\ Nothing \in Orders /\ Nothing.do = "nothing"
    BY NothingOrdered DEF Inv, TypeOK
  <2> QED BY <1>2, <2>1, <2>2, <2>3, ReorgBegins DEF Inv, TypeOK
<1>5. CASE AfterLeave
  <2>1. /\ Mark(b) /\ phase' = "look" /\ then' = Nothing
        /\ UNCHANGED <<known, bodies, tip, at, heard, from, to, gone, came, before, result>>
    BY <1>5 DEF AfterLeave, place, reorg
  <2> HIDE DEF b
  <2>2. failed' \subseteq known /\ FailureIsInherited' /\ Sound(tip)'
    BY <1>2, <2>1, MarkKeeps DEF Inv, TypeOK, AllSound, Sound
  <2>3. TypeOK'
    BY <2>1, <2>2, NothingOrdered DEF Inv, TypeOK, Orders, Phases
  <2> QED BY <1>2, <2>1, <2>2, <2>3, Rests
<1> QED BY <1>3, <1>4, <1>5

-----------------------------------------------------------------------------
(* The theorems on the active chain.                                       *)

LEMMA InitInv == ASSUME Init PROVE Inv
<1>1. TypeOK
  BY TreeAssumption DEF Init, TypeOK, Orders, Phases, Nothing
<1>2. Sound(Genesis)
  BY TreeAssumption, BadAssumption DEF Init, Sound
<1> QED BY <1>1, <1>2
    DEF Init, Inv, FailureIsInherited, Walk, GoesDown, ComesUp, Fork, Placed, CallerOK, Nothing, AllSound

LEMMA MovesKeep == ASSUME Inv, PerformReorg PROVE Inv'
BY CheckKeeps, DisconnectKeeps, LandKeeps, ConnectKeeps, EndConnectKeeps, FailConnectKeeps,
   RollbackDownKeeps, RollbackUpKeeps, EndRollbackKeeps, TellGoneKeeps, TellCameKeeps, ToldKeeps
DEF PerformReorg

LEMMA CallersKeep == ASSUME Inv, Caller \/ ActivateBest PROVE Inv'
<1>1. CASE AfterMissing \/ AfterStep \/ ActivateBest
  <2>1. AtRest /\ UNCHANGED <<known, failed, bodies>> /\ \E round : ActivateRound(round)
    BY <1>1 DEF AfterMissing, AfterStep, ActivateBest, AtRest, Idle, index
  <2> QED BY <2>1, RoundKeeps
<1> QED BY <1>1, LookKeeps, DoneKeeps, AfterKeeps DEF Caller

LEMMA StandsStill == ASSUME Inv, Stop \/ Resume \/ UNCHANGED vars PROVE Inv'
<1>1. UNCHANGED <<known, failed, bodies, tip, at, heard, from, to, gone, came, before, then, phase, result>>
  BY DEF Stop, Resume, vars, index, place, reorg, call
<1> QED BY <1>1
    DEF Inv, TypeOK, Orders, FailureIsInherited, Walk, GoesDown, ComesUp, Fork, Placed, CallerOK, AllSound, Sound

LEMMA StepInv == ASSUME Inv, [Next]_vars PROVE Inv'
<1>1. CASE Arrival
  BY <1>1, ArrivalsKeep DEF Arrival
<1>2. CASE Operator
  BY <1>2, InvalidateKeeps, OperatorKeeps DEF Operator
<1> QED BY <1>1, <1>2, MovesKeep, CallersKeep, StandsStill DEF Next

(* All of it together.                                                     *)
LEMMA InvHolds == Spec => []Inv
BY InitInv, StepInv, PTL DEF Spec

(* No block that is marked invalid, or that validation would refuse, is    *)
(* below the tip or the coins at any step of any call (perform-reorg,      *)
(* invalidate-block), and marks are handed on to descendants               *)
(* (%mark-block-subtree-invalid).                                          *)
THEOREM ActiveChainIsValid == Spec => []NoFailedBlockActive
<1>1. Inv => NoFailedBlockActive
  BY DEF Inv, AllSound, Sound, NoFailedBlockActive
<1> QED BY <1>1, InvHolds, PTL

(* When no call is under way the tip, the coins and what the subscribers   *)
(* were told agree, after any rollback, revert or stop request.            *)
THEOREM CallsEndInAgreement == Spec => []IdleAgrees
<1>1. Inv => IdleAgrees
  BY RestIsTogether DEF IdleAgrees, Idle, AtRest
<1> QED BY <1>1, InvHolds, PTL

(* The subscribers hear of each block taken off or put on, one at a time   *)
(* and in order (the events perform-reorg queues).                         *)
THEOREM SubscribersFollow == Spec => HeardMovesByOne
<1> DEFINE Step == heard' # heard => \/ heard # Genesis /\ heard' = Parent[heard]
                                     \/ heard' # Genesis /\ heard = Parent[heard']
<1>1. Inv /\ [Next]_vars => [Step]_vars
  <2> SUFFICES ASSUME Inv, [Next]_vars, heard' # heard PROVE Step
    OBVIOUS
  <2>1. TellGone \/ TellCame
    BY DEF Next, Arrival, Operator, PerformReorg, Caller, Stop, Resume, vars,
           Header, Extend, PreReorg, StoreOnly, Prune, Invalidate, Reconsider, Precious, Restart,
           ActivateBest, ActivateRound, ActivateOnce, Reorg, Return, Quiet, ConnectTip,
           Check, Disconnect, Land, Connect, EndConnect, FailConnect, RollbackDown, RollbackUp,
           EndRollback, Told, Done, AfterMissing, AfterExtend, AfterExtendBad, AfterStep,
           AfterLeave, Look
  <2> QED BY <2>1, TellGoneKeeps, TellCameKeeps
<1> QED BY <1>1, InvHolds, PTL DEF Spec, HeardMovesByOne

-----------------------------------------------------------------------------
(* Bodies and sequence ids.  This part of the invariant has nothing to do  *)
(* with marks: every step of perform-reorg leaves what it is about alone.  *)

(* The bodies of what was taken off or put on, or is about to be.          *)
BodiesOK ==
    /\ \A i \in 1..Len(gone) : gone[i] \in bodies
    /\ \A i \in 1..Len(came) : came[i] \in bodies
    /\ phase \in {"down", "up"} => Between(from, to) \subseteq bodies
                                   /\ Chain[from] \cap Chain[to] \subseteq Chain[at]
    /\ phase = "down" => at \in Chain[from]
    /\ then.do = "extend" /\ phase \notin {"idle", "look"} => then.block \in bodies

(* The types of what gives the order of the blocks.                        *)
OrderTypes ==
    /\ IsFiniteSet(known)
    /\ received \subseteq known /\ bodies \subseteq received /\ Genesis \in received
    /\ seq \in [Blocks -> Int] /\ nextSeq \in Int /\ nextSeq > 1
    /\ precious \in Int /\ precious < 0
    /\ waiting \in [Blocks -> Seq(received)]

(* The queue of a block holds children of it, each once.                   *)
QueueOf(p) ==
    \A i \in 1..Len(waiting[p]) :
        /\ waiting[p][i] # Genesis /\ Parent[waiting[p][i]] = p
        /\ \A j \in 1..Len(waiting[p]) : waiting[p][i] = waiting[p][j] => i = j

(* A block with a queue has no id, and waits itself unless it has no body. *)
(* Were it otherwise, the queue would never be drained.                    *)
Queued(p) == waiting[p] # <<>> => seq[p] <= 1 /\ (p \in bodies => Waits(p))

(* Where the tip and the coins are, were or will be, everything has come   *)
(* and nothing waits.                                                      *)
Held(b) == Chain[b] \subseteq received /\ \A p \in Chain[b] : waiting[p] = <<>>
AllHeld ==
    /\ Held(tip) /\ Held(at) /\ Held(heard)
    /\ \A i \in 1..Len(gone) : Held(gone[i])
    /\ \A i \in 1..Len(came) : Held(came[i])

IdOK(b) ==
    seq[b] > 1 => b \in Complete /\ seq[b] < nextSeq /\ \A c \in Blocks \ {b} : seq[c] # seq[b]
IncompleteWait == \A b \in bodies \ Complete : Waits(b)

Order ==
    /\ OrderTypes /\ IncompleteWait
    /\ \A b \in Blocks : QueueOf(b) /\ Queued(b) /\ IdOK(b)

StoreInv == BodiesOK /\ Order /\ AllHeld


-----------------------------------------------------------------------------
(* What an arrival links, and in which order.                              *)

LEMMA Waiter ==
    ASSUME Order, NEW d \in Blocks, Waits(d)
    PROVE  d # Genesis /\ d \in received /\ Parent[d] \in Blocks
<1>1. Parent[d] \in Blocks /\ waiting[Parent[d]] \in Seq(received) /\ QueueOf(Parent[d])
  BY TreeAssumption DEF Order, OrderTypes
<1>2. PICK i \in DOMAIN waiting[Parent[d]] : waiting[Parent[d]][i] = d
  BY DEF Waits, Range
<1>3. i \in 1..Len(waiting[Parent[d]])
  BY <1>1, <1>2
<1> QED BY <1>1, <1>2, <1>3, ElementOfSeq DEF QueueOf

(* A place in a queue.                                                     *)
LEMMA InQueue ==
    ASSUME Order, NEW p \in Blocks, NEW i \in DOMAIN waiting[p]
    PROVE  /\ waiting[p][i] \in received \ {Genesis} /\ Parent[waiting[p][i]] = p /\ Waits(waiting[p][i])
           /\ \A j \in DOMAIN waiting[p] : waiting[p][j] = waiting[p][i] => j = i
<1>1. waiting[p] \in Seq(received) /\ QueueOf(p) /\ DOMAIN waiting[p] = 1..Len(waiting[p])
  BY DEF Order, OrderTypes
<1>2. waiting[p][i] \in received
  BY <1>1, ElementOfSeq
<1> QED BY <1>1, <1>2 DEF QueueOf, Waits, Range

LEMMA LinkedFacts ==
    ASSUME TypeOK, Order, NEW b \in known
    PROVE  /\ Linked(b) \subseteq known /\ IsFiniteSet(Linked(b)) /\ b \in Linked(b)
           /\ \A d \in Linked(b) \ {b} : Waits(d) /\ d # Genesis /\ Parent[d] \in Linked(b)
           /\ \A d \in known : Waits(d) /\ Parent[d] \in Linked(b) => d \in Linked(b)
<1>1. Linked(b) \subseteq known
  BY DEF Linked
<1>2. IsFiniteSet(Linked(b))
  BY <1>1, FS_Subset DEF Order, OrderTypes
<1>3. b \in Linked(b)
  BY OnOwnChain DEF Linked, TypeOK
<1>4. ASSUME NEW d \in Linked(b) \ {b} PROVE Waits(d) /\ d # Genesis /\ Parent[d] \in Linked(b)
  <2>1. d \in known /\ d \in Blocks /\ b \in Blocks /\ b \in Chain[d] /\ d \in Chain[d]
    BY <1>4, OnOwnChain DEF Linked, TypeOK
  <2>2. d \notin Chain[b]
    <3>1. Height[b] < Height[d] /\ Height[b] \in Nat /\ Height[d] \in Nat
      BY <1>4, <2>1, Below, TreeAssumption
    <3>2. d \in Chain[b] => Height[d] <= Height[b]
      BY <2>1, Below
    <3> QED BY <3>1, <3>2
  <2>3. d # Genesis
    BY <2>1, <2>2, OnOwnChain
  <2>4. Waits(d)
    BY <1>4, <2>1, <2>2 DEF Linked
  <2>5. Parent[d] \in known /\ b \in Chain[Parent[d]] /\ Chain[Parent[d]] \subseteq Chain[d]
    BY <1>4, <2>1, <2>3, ParentKnown, Branch
  <2>6. Parent[d] \in Linked(b)
    BY <1>4, <2>5 DEF Linked
  <2> QED BY <2>3, <2>4, <2>6
<1>5. ASSUME NEW d \in known, Waits(d), Parent[d] \in Linked(b) PROVE d \in Linked(b)
  <2>1. d \in Blocks \ {Genesis}
    BY <1>5, Waiter DEF TypeOK
  <2>2. Chain[d] = Chain[Parent[d]] \cup {d}
    BY <2>1, Branch
  <2> QED BY <1>5, <2>2 DEF Linked
<1> QED BY <1>1, <1>2, <1>3, <1>4, <1>5

LEMMA SoonerNever == ASSUME TypeOK, Order, NEW x \in Blocks PROVE ~Sooner(x, x)
<1> SUFFICES ASSUME Sooner(x, x) PROVE FALSE
  OBVIOUS
<1>1. Height[x] \in Nat
  BY TreeAssumption
<1>0. PICK p \in known : \E i, j \in DOMAIN waiting[p] :
         i < j /\ waiting[p][i] \in Chain[x] /\ waiting[p][j] \in Chain[x]
  BY <1>1 DEF Sooner
<1>2. PICK i \in DOMAIN waiting[p], j \in DOMAIN waiting[p] :
         i < j /\ waiting[p][i] \in Chain[x] /\ waiting[p][j] \in Chain[x]
  BY <1>0
<1>3. p \in Blocks
  BY DEF TypeOK
<1>4. waiting[p][i] = waiting[p][j]
  BY <1>2, <1>3, InQueue, OneChild
<1>5. i = j /\ i \in 1..Len(waiting[p])
  BY <1>3, <1>4, InQueue DEF Order, OrderTypes
<1> QED BY <1>2, <1>5

LEMMA SoonerOrLater ==
    ASSUME TypeOK, Order, NEW b \in known, NEW x \in Linked(b), NEW y \in Linked(b), x # y
    PROVE  Sooner(x, y) \/ Sooner(y, x)
<1>1. /\ x \in known /\ y \in known /\ x \in Blocks /\ y \in Blocks /\ Height[x] \in Nat /\ Height[y] \in Nat
      /\ b \in Chain[x] /\ b \in Chain[y]
  BY TreeAssumption DEF Linked, TypeOK
<1>2. CASE Height[x] # Height[y]
  BY <1>1, <1>2 DEF Sooner
<1>3. CASE Height[x] = Height[y]
  <2>1. PICK c \in Chain[x] \ Chain[y], d \in Chain[y] \ Chain[x] :
           c # Genesis /\ d # Genesis /\ Parent[c] = Parent[d]
    BY <1>1, <1>3, TheyPart
  <2>2. Chain[b] \subseteq Chain[x] /\ Chain[b] \subseteq Chain[y]
    BY <1>1, ChainsNest
  <2>3. Waits(c) /\ Waits(d)
    BY <2>1, <2>2 DEF Linked
  <2> DEFINE p == Parent[c]
  <2>4. PICK i \in DOMAIN waiting[p] : waiting[p][i] = c
    BY <2>3 DEF Waits, Range
  <2>5. PICK j \in DOMAIN waiting[p] : waiting[p][j] = d
    BY <2>1, <2>3 DEF Waits, Range
  <2>6. c \in known /\ p \in known /\ p \in Blocks
    BY <1>1, <2>1, KnownChain DEF TypeOK
  <2>7. DOMAIN waiting[p] = 1..Len(waiting[p]) /\ waiting[p] \in Seq(received)
    BY <2>6 DEF Order, OrderTypes
  <2> HIDE DEF p
  <2>8. i < j \/ j < i
    <3>1. i # j /\ i \in Int /\ j \in Int
      BY <2>1, <2>4, <2>5, <2>7
    <3> QED BY <3>1
  <2>9. i < j => Sooner(x, y)
    BY <1>3, <2>1, <2>4, <2>5, <2>6 DEF Sooner
  <2>10. j < i => Sooner(y, x)
    BY <1>3, <2>1, <2>4, <2>5, <2>6 DEF Sooner
  <2> QED BY <2>8, <2>9, <2>10
<1> QED BY <1>2, <1>3

LEMMA SoonerOnce ==
    ASSUME TypeOK, Order, NEW c \in Blocks, NEW d \in Blocks, NEW e \in Blocks, Sooner(c, d), Sooner(d, e)
    PROVE  Sooner(c, e)
<1>1. Height[c] \in Nat /\ Height[d] \in Nat /\ Height[e] \in Nat
  BY TreeAssumption
<1>2. CASE Height[c] < Height[d] \/ Height[d] < Height[e]
  <2>1. Height[c] <= Height[d] /\ Height[d] <= Height[e]
    BY <1>1 DEF Sooner
  <2>2. Height[c] < Height[e]
    BY <1>1, <1>2, <2>1
  <2> QED BY <2>2 DEF Sooner
<1>3. CASE ~(Height[c] < Height[d] \/ Height[d] < Height[e])
  <2>1. PICK p \in known : \E i, j \in DOMAIN waiting[p] :
           i < j /\ waiting[p][i] \in Chain[c] /\ waiting[p][j] \in Chain[d]
    BY <1>3 DEF Sooner
  <2>2. PICK q \in known : \E k, l \in DOMAIN waiting[q] :
           k < l /\ waiting[q][k] \in Chain[d] /\ waiting[q][l] \in Chain[e]
    BY <1>3 DEF Sooner
  <2>13. PICK i \in DOMAIN waiting[p], j \in DOMAIN waiting[p] :
           i < j /\ waiting[p][i] \in Chain[c] /\ waiting[p][j] \in Chain[d]
    BY <2>1
  <2>14. PICK k \in DOMAIN waiting[q], l \in DOMAIN waiting[q] :
           k < l /\ waiting[q][k] \in Chain[d] /\ waiting[q][l] \in Chain[e]
    BY <2>2
  <2>3. Height[c] = Height[e]
    BY <1>3 DEF Sooner
  <2> DEFINE pi == waiting[p][i]
             pj == waiting[p][j]
             qk == waiting[q][k]
             ql == waiting[q][l]
  <2>4. /\ p \in Blocks /\ q \in Blocks
        /\ i \in Int /\ j \in Int /\ k \in Int /\ l \in Int
    <3>1. p \in Blocks /\ q \in Blocks
      BY DEF TypeOK
    <3>2. waiting[p] \in Seq(received) /\ waiting[q] \in Seq(received)
      BY <3>1 DEF Order, OrderTypes
    <3>3. DOMAIN waiting[p] = 1..Len(waiting[p]) /\ DOMAIN waiting[q] = 1..Len(waiting[q])
      BY <3>2
    <3> QED BY <3>1, <3>3
  <2>5. /\ pi # Genesis /\ pj # Genesis /\ qk # Genesis /\ ql # Genesis
        /\ Parent[pi] = p /\ Parent[pj] = p /\ Parent[qk] = q /\ Parent[ql] = q
    BY <2>4, InQueue
  <2>6. pj \in Chain[d] \ {Genesis} /\ qk \in Chain[d] \ {Genesis} /\ ql \in Chain[e] /\ pi \in Chain[c]
    BY <2>13, <2>14, <2>5
  <2>7. p \in Chain[d] /\ q \in Chain[d] /\ q \in Chain[e] /\ Height[p] \in Nat /\ Height[q] \in Nat
    <3>1. ASSUME NEW u \in Blocks, NEW v \in Chain[u] \ {Genesis} PROVE Parent[v] \in Chain[u]
      <4>1. v \in Blocks /\ Chain[v] \subseteq Chain[u]
        BY OnOwnChain, ChainsNest
      <4>2. Parent[v] \in Chain[v]
        BY <4>1, Branch, OnOwnChain
      <4> QED BY <4>1, <4>2
    <3>2. p \in Chain[d] /\ q \in Chain[d] /\ q \in Chain[e]
      BY <2>5, <2>6, <3>1
    <3> QED BY <2>4, <3>2, TreeAssumption
  <2> HIDE DEF pi, pj, qk, ql
  <2>8. CASE p = q
    <3>1. pj = qk
      BY <2>5, <2>6, <2>8, OneChild
    <3>2. j = k
      <4>1. waiting[p][j] = waiting[p][k] /\ j \in DOMAIN waiting[p] /\ k \in DOMAIN waiting[p]
        BY <2>8, <3>1 DEF pj, qk
      <4> QED BY <2>4, <4>1, InQueue
    <3>3. i < l /\ l \in DOMAIN waiting[p]
      BY <2>13, <2>14, <2>4, <2>8, <3>2
    <3>4. waiting[p][i] \in Chain[c] /\ waiting[p][l] \in Chain[e]
      BY <2>6, <2>8 DEF pi, ql
    <3> QED BY <2>3, <3>3, <3>4 DEF Sooner
  <2>9. CASE Height[p] < Height[q]
    <3>1. pj \in Chain[q]
      BY <2>5, <2>6, <2>7, <2>9, ChildOnWay
    <3>2. pj \in Chain[e]
      BY <2>7, <3>1, ChainsNest
    <3>3. waiting[p][i] \in Chain[c] /\ waiting[p][j] \in Chain[e]
      BY <2>6, <3>2 DEF pi, pj
    <3> QED BY <2>13, <2>3, <3>3 DEF Sooner
  <2>10. CASE Height[q] < Height[p]
    <3>1. qk \in Chain[p]
      BY <2>5, <2>6, <2>7, <2>10, ChildOnWay
    <3>2. p \in Chain[c]
      <4>1. pi \in Blocks \ {Genesis} /\ Chain[pi] \subseteq Chain[c]
        BY <2>5, <2>6, OnOwnChain, ChainsNest
      <4>2. p \in Chain[pi]
        BY <2>5, <4>1, Branch, OnOwnChain
      <4> QED BY <4>1, <4>2
    <3>3. qk \in Chain[c]
      BY <3>1, <3>2, ChainsNest
    <3>4. waiting[q][k] \in Chain[c] /\ waiting[q][l] \in Chain[e]
      BY <2>6, <3>3 DEF qk, ql
    <3> QED BY <2>14, <2>3, <3>4 DEF Sooner
  <2>11. CASE p # q /\ Height[p] = Height[q]
    <3>1. Height[pj] = Height[qk] /\ pj \in Blocks /\ qk \in Blocks
      <4>1. pj \in Blocks /\ qk \in Blocks
        BY <2>6, OnOwnChain
      <4> QED BY <2>5, <2>11, <4>1, Branch
    <3>2. pj \in Chain[qk]
      <4>1. Height[pj] \in Nat
        BY <3>1, TreeAssumption
      <4> QED BY <2>6, <3>1, <4>1, ChainOrder
    <3>3. pj = qk
      <4>1. Height[pj] \in Nat
        BY <3>1, TreeAssumption
      <4> QED BY <3>1, <3>2, <4>1, Below
    <3> QED BY <2>5, <2>11, <3>3
  <2>12. p = q \/ Height[p] < Height[q] \/ Height[q] < Height[p] \/ (p # q /\ Height[p] = Height[q])
    BY <2>7
  <2> QED BY <2>8, <2>9, <2>10, <2>11, <2>12
<1> QED BY <1>2, <1>3

(* How many of those linked come before x.                                 *)
Rank(b, x) == Cardinality({d \in Linked(b) : Sooner(d, x)})

LEMMA Ranks ==
    ASSUME TypeOK, Order, NEW b \in known, NEW x \in Linked(b)
    PROVE  /\ Rank(b, x) \in Nat /\ Rank(b, x) < Cardinality(Linked(b)) /\ Cardinality(Linked(b)) \in Nat
           /\ \A y \in Linked(b) \ {x} : Rank(b, x) # Rank(b, y)
<1> DEFINE L == Linked(b)
           B(y) == {d \in L : Sooner(d, y)}
<1>1. L \subseteq Blocks /\ IsFiniteSet(L)
  BY LinkedFacts DEF TypeOK
<1>2. \A y \in L : y \notin B(y)
  BY <1>1, SoonerNever
<1>3. ASSUME NEW y \in L PROVE IsFiniteSet(B(y)) /\ Cardinality(B(y)) \in Nat
  BY <1>1, FS_Subset, FS_CardinalityType
<1>4. Cardinality(L) \in Nat
  BY <1>1, FS_CardinalityType
<1>5. ASSUME NEW y \in L PROVE Cardinality(B(y)) < Cardinality(L)
  <2>1. B(y) \in SUBSET L /\ B(y) # L
    BY <1>2
  <2>2. Cardinality(B(y)) <= Cardinality(L) /\ Cardinality(B(y)) # Cardinality(L)
    BY <1>1, <2>1, FS_Subset
  <2> QED BY <1>3, <1>4, <2>2
<1>6. ASSUME NEW y \in L, NEW z \in L, Sooner(y, z) PROVE Cardinality(B(y)) < Cardinality(B(z))
  <2>1. B(y) \in SUBSET B(z)
    BY <1>1, <1>6, SoonerOnce
  <2>2. y \in B(z) /\ y \notin B(y)
    BY <1>2, <1>6
  <2>3. Cardinality(B(y)) <= Cardinality(B(z)) /\ Cardinality(B(y)) # Cardinality(B(z))
    BY <1>3, <2>1, <2>2, FS_Subset
  <2>4. Cardinality(B(y)) \in Nat /\ Cardinality(B(z)) \in Nat
    BY <1>3
  <2> HIDE DEF B
  <2> QED BY <2>3, <2>4
<1>7. ASSUME NEW y \in L \ {x} PROVE Cardinality(B(x)) # Cardinality(B(y))
  <2>1. Sooner(x, y) \/ Sooner(y, x)
    BY SoonerOrLater
  <2>2. Cardinality(B(x)) < Cardinality(B(y)) \/ Cardinality(B(y)) < Cardinality(B(x))
    BY <1>6, <2>1
  <2> QED BY <1>3, <2>2
<1> QED BY <1>3, <1>4, <1>5, <1>7 DEF Rank

-----------------------------------------------------------------------------
(* A body arrives.                                                         *)

LEMMA HaveIsComplete ==
    ASSUME TypeOK, Order, Held(tip), NEW p \in known
    PROVE  HaveChainTxs(p) <=> Chain[p] \subseteq received
<1>1. p \in Blocks /\ tip \in Blocks
  BY DEF TypeOK
<1>2. ASSUME Chain[p] \subseteq received PROVE HaveChainTxs(p)
  BY <1>1, <1>2, OnOwnChain DEF HaveChainTxs
<1>3. ASSUME HaveChainTxs(p) PROVE Chain[p] \subseteq received
  <2>1. PICK a \in Chain[p] : (seq[a] > 1 \/ a \in Chain[tip]) /\ Chain[p] \ Chain[a] \subseteq received
    BY <1>3 DEF HaveChainTxs
  <2>2. a \in Blocks
    BY <1>1, <2>1, OnOwnChain
  <2>3. CASE seq[a] > 1
    BY <2>1, <2>2, <2>3 DEF Order, IdOK, Complete
  <2>4. CASE a \in Chain[tip]
    BY <1>1, <2>1, <2>4, ChainsNest DEF Held
  <2> QED BY <2>1, <2>3, <2>4
<1> QED BY <1>2, <1>3

LEMMA HeldParent == ASSUME NEW b \in Blocks \ {Genesis}, Held(b) PROVE Held(Parent[b])
BY Branch DEF Held

LEMMA HeldChild ==
    ASSUME Order, NEW b \in Blocks \ {Genesis}, b \in bodies, Held(Parent[b])
    PROVE  Held(b)
<1>1. Parent[b] \in Blocks /\ Parent[b] \in Chain[Parent[b]] /\ Chain[b] = Chain[Parent[b]] \cup {b}
  BY Branch, OnOwnChain
<1>2. waiting[Parent[b]] = <<>>
  BY <1>1 DEF Held
<1>3. ~Waits(b)
  BY <1>2 DEF Waits, Range
<1>4. waiting[b] = <<>>
  BY <1>3 DEF Order, Queued
<1>5. b \in received
  BY DEF Order, OrderTypes
<1> QED BY <1>1, <1>4, <1>5 DEF Held

(* What every arrival has in common.                                       *)
Comes(b) ==
    /\ bodies' = bodies \cup {b} /\ received' = received \cup {b}
    /\ known' = known /\ precious' = precious

(* It comes a second time, or the chain was complete before.               *)
LEMMA ComesAgain ==
    ASSUME TypeOK, Order, NEW b \in known, Comes(b), seq[b] > 1, UNCHANGED <<seq, nextSeq, waiting>>
    PROVE  Order' /\ \A x \in known : Held(x) => Held(x)'
<1>1. b \in Blocks /\ Chain[b] \subseteq received /\ b \in received
  BY OnOwnChain DEF TypeOK, Order, IdOK, Complete
<1>2. received' = received /\ Complete' = Complete
  BY <1>1 DEF Comes, Complete
<1>3. waiting[b] = <<>>
  BY <1>1 DEF Order, Queued, OrderTypes
<1>4. OrderTypes'
  BY <1>2 DEF Order, OrderTypes, Comes
<1>5. IncompleteWait'
  BY <1>1, <1>2 DEF Order, IncompleteWait, Comes, Waits, Complete
<1>6. ASSUME NEW p \in Blocks PROVE QueueOf(p)' /\ IdOK(p)' /\ Queued(p)'
  <2>1. QueueOf(p)'
    BY DEF Order, QueueOf
  <2>2. IdOK(p)'
    BY <1>2 DEF Order, IdOK
  <2>3. Queued(p)'
    BY <1>3 DEF Order, Queued, Waits, Comes
  <2> QED BY <2>1, <2>2, <2>3
<1>7. \A x \in known : Held(x) => Held(x)'
  BY <1>2 DEF Held
<1> QED BY <1>4, <1>5, <1>6, <1>7 DEF Order

(* It waits for its parent, whose chain is not complete.                   *)
LEMMA ComesToWait ==
    ASSUME TypeOK, Order, Held(tip), NEW b \in known \ {Genesis}, Comes(b), ~(Chain[Parent[b]] \subseteq received),
           Park(b), UNCHANGED <<seq, nextSeq>>
    PROVE  Order' /\ \A x \in known : Held(x) => Held(x)'
<1> DEFINE q == Parent[b]
<1>1. /\ b \in Blocks \ {Genesis} /\ q \in known /\ q \in Blocks /\ q # b
      /\ Chain[b] = Chain[q] \cup {b} /\ q \in Chain[q]
  <2>1. b \in Blocks \ {Genesis}
    BY DEF TypeOK
  <2> QED BY <2>1, Branch, OnOwnChain, ParentKnown
<1>2. /\ waiting' \in [Blocks -> Seq(received')]
      /\ \A p \in Blocks \ {q} : waiting'[p] = waiting[p]
      /\ Range(waiting'[q]) = Range(waiting[q]) \cup {b}
      /\ QueueOf(q)' /\ waiting'[q] # <<>>
  <2>1. waiting \in [Blocks -> Seq(received)] /\ b \in received' /\ received \subseteq received'
    BY DEF Order, OrderTypes, Comes
  <2>2. waiting[q] \in Seq(received') /\ waiting \in [Blocks -> Seq(received')]
    <3>1. \A p \in Blocks : waiting[p] \in Seq(received) /\ waiting[p] \in Seq(received')
      BY <2>1, SeqMonotonic
    <3> QED BY <1>1, <2>1, <3>1
  <2>3. CASE Waits(b)
    <3>1. waiting' = waiting
      BY <2>3 DEF Park
    <3>2. Range(waiting[q]) = Range(waiting[q]) \cup {b} /\ waiting[q] # <<>>
      BY <2>3 DEF Waits, Range
    <3>3. QueueOf(q)'
      BY <1>1, <3>1 DEF QueueOf, Order
    <3> QED BY <2>2, <3>1, <3>2, <3>3
  <2>4. CASE ~Waits(b)
    <3> DEFINE s == waiting[q]
               t == Append(s, b)
    <3>1. waiting' = [waiting EXCEPT ![q] = t]
      BY <2>4 DEF Park
    <3>2. s \in Seq(received') /\ b \in received'
      BY <2>1, <2>2
    <3>3. b \notin Range(s)
      BY <2>4 DEF Waits
    <3>4. QueueOf(q)
      BY <1>1 DEF Order
    <3>5. waiting'[q] = t
      BY <1>1, <2>1, <3>1
    <3> HIDE DEF s
    <3>6. /\ t \in Seq(received') /\ Len(t) = Len(s) + 1 /\ Len(s) \in Nat /\ t[Len(t)] = b
          /\ \A i \in 1..Len(s) : t[i] = s[i]
      BY <3>2
    <3>7. DOMAIN s = 1..Len(s) /\ DOMAIN t = 1..Len(s) + 1
      BY <3>2
    <3> HIDE DEF t
    <3>8. Range(t) = Range(s) \cup {b}
      <4>1. ASSUME NEW x \in Range(t) PROVE x \in Range(s) \cup {b}
        BY <3>6, <3>7, <4>1 DEF Range
      <4>2. ASSUME NEW x \in Range(s) PROVE x \in Range(t)
        BY <3>6, <3>7, <4>2 DEF Range
      <4>3. b \in Range(t)
        <5>1. Len(t) \in DOMAIN t
          BY <3>6, <3>7
        <5> QED BY <3>6, <5>1 DEF Range
      <4> QED BY <4>1, <4>2, <4>3
    <3>9. QueueOf(q)'
      <4>1. ASSUME NEW i \in 1..Len(t)
            PROVE  t[i] # Genesis /\ Parent[t[i]] = q /\ \A j \in 1..Len(t) : t[i] = t[j] => i = j
        <5>1. \A j \in 1..Len(s) : s[j] # b
          BY <3>3, <3>7 DEF Range
        <5>2. CASE i = Len(t)
          BY <1>1, <3>6, <5>1, <5>2
        <5>3. CASE i # Len(t)
          <6>1. i \in 1..Len(s) /\ t[i] = s[i]
            BY <3>6, <5>3
          <6>2. s[i] # Genesis /\ Parent[s[i]] = q /\ \A j \in 1..Len(s) : s[i] = s[j] => i = j
            BY <3>4, <6>1 DEF QueueOf, s
          <6> QED BY <3>6, <5>1, <6>1, <6>2
        <5> QED BY <5>2, <5>3
      <4> QED BY <3>5, <4>1 DEF QueueOf
    <3>10. waiting' \in [Blocks -> Seq(received')] /\ \A p \in Blocks \ {q} : waiting'[p] = waiting[p]
      BY <1>1, <2>2, <3>1, <3>6
    <3>11. t # <<>>
      BY <3>6
    <3> QED BY <3>5, <3>8, <3>9, <3>10, <3>11 DEF s
  <2> QED BY <2>3, <2>4
<1> HIDE DEF q
<1>3. ASSUME NEW x \in Blocks, Waits(x) PROVE Waits(x)'
  <2>1. Parent[x] \in Blocks
    BY TreeAssumption
  <2> QED BY <1>2, <1>3, <2>1 DEF Waits
<1>4. Waits(b)'
  BY <1>2 DEF Waits, q
<1>5. OrderTypes'
  BY <1>2 DEF Order, OrderTypes, Comes, TypeOK
<1>6. Complete \subseteq Complete'
  BY DEF Comes, Complete
<1>7. IncompleteWait'
  BY <1>3, <1>4, <1>6 DEF Order, IncompleteWait, Comes, TypeOK
<1>8. ASSUME NEW p \in Blocks PROVE QueueOf(p)' /\ IdOK(p)'
  <2>1. QueueOf(p)'
    BY <1>2 DEF Order, QueueOf
  <2>2. IdOK(p)'
    BY <1>6 DEF Order, IdOK
  <2> QED BY <2>1, <2>2
<1>9. ASSUME NEW p \in Blocks PROVE Queued(p)'
  <2>1. CASE p = q
    <3>1. ~(Chain[p] \subseteq received)
      BY <2>1 DEF q
    <3>2. ~(seq[p] > 1) /\ seq[p] \in Int
      BY <3>1 DEF Order, OrderTypes, IdOK, Complete
    <3>3. p \in bodies => Waits(p)
      BY <3>1 DEF Order, IncompleteWait, Complete
    <3>4. p \in bodies' => p \in bodies
      BY <1>1, <2>1 DEF Comes
    <3> QED BY <1>3, <3>2, <3>3, <3>4 DEF Queued
  <2>2. CASE p # q
    <3>1. waiting'[p] = waiting[p] /\ Queued(p)
      BY <1>2, <2>2 DEF Order
    <3>2. p \in bodies' /\ p # b => p \in bodies
      BY DEF Comes
    <3> QED BY <1>3, <1>4, <3>1, <3>2 DEF Queued
  <2> QED BY <2>1, <2>2
<1>10. ASSUME NEW x \in known, Held(x) PROVE Held(x)'
  <2>1. x \in Blocks /\ Chain[x] \subseteq Blocks
    BY OnOwnChain DEF TypeOK
  <2>2. q \notin Chain[x]
    BY <1>10, <2>1, ChainsNest DEF Held, q
  <2> QED BY <1>2, <1>10, <2>1, <2>2 DEF Held, Comes
<1> QED BY <1>5, <1>7, <1>8, <1>9, <1>10 DEF Order

(* It completes its branch, with what waited on it.                        *)
LEMMA ComesLast ==
    ASSUME TypeOK, Order, NEW b \in known \ {Genesis}, Comes(b), Chain[Parent[b]] \subseteq received,
           seq' = [x \in Blocks |-> IF x \in Linked(b) THEN nextSeq + Rank(b, x) ELSE seq[x]],
           nextSeq' = nextSeq + Cardinality(Linked(b)),
           waiting' = [p \in Blocks |-> IF p \in Linked(b) THEN <<>> ELSE waiting[p]]
    PROVE  Order' /\ \A x \in known : Held(x) => Held(x)'
<1> DEFINE L == Linked(b)
<1>1. b \in Blocks \ {Genesis} /\ Chain[b] = Chain[Parent[b]] \cup {b} /\ L \subseteq Blocks
  BY Branch, LinkedFacts DEF TypeOK
<1>2. \A x \in L : Chain[x] \subseteq received'
  <2>1. ASSUME NEW x \in L, NEW c \in Chain[x] PROVE c \in received'
    <3>1. CASE c \in Chain[b]
      BY <1>1, <3>1 DEF Comes
    <3>2. CASE c \notin Chain[b]
      <4>1. Waits(c) /\ c \in Blocks
        BY <1>1, <2>1, <3>2, OnOwnChain DEF Linked
      <4> QED BY <4>1, Waiter DEF Comes
    <3> QED BY <3>1, <3>2
  <2> QED BY <2>1
<1>3. Cardinality(L) \in Nat /\ nextSeq \in Int /\ nextSeq > 1 /\ nextSeq' \in Int /\ nextSeq' >= nextSeq
  <2>1. Cardinality(L) \in Nat
    BY LinkedFacts, FS_CardinalityType
  <2>2. nextSeq' = nextSeq + Cardinality(L)
    OBVIOUS
  <2> HIDE DEF L
  <2> QED BY <2>1, <2>2 DEF Order, OrderTypes
<1>4. ASSUME NEW x \in L
      PROVE  /\ seq'[x] \in Int /\ seq'[x] >= nextSeq /\ seq'[x] < nextSeq'
             /\ \A y \in L \ {x} : seq'[y] # seq'[x]
  <2>1. Rank(b, x) \in Nat /\ Rank(b, x) < Cardinality(L)
    BY Ranks
  <2>2. seq'[x] = nextSeq + Rank(b, x) /\ nextSeq' = nextSeq + Cardinality(L)
    BY <1>1
  <2>3. ASSUME NEW y \in L \ {x} PROVE seq'[y] # seq'[x]
    <3>1. Rank(b, y) \in Nat /\ Rank(b, x) # Rank(b, y)
      BY Ranks
    <3>2. seq'[y] = nextSeq + Rank(b, y)
      BY <1>1
    <3> HIDE DEF L
    <3> QED BY <1>3, <2>1, <2>2, <3>1, <3>2
  <2>4. ASSUME NEW r \in Nat, NEW n \in Nat, r < n
        PROVE  nextSeq + r \in Int /\ nextSeq + r >= nextSeq /\ nextSeq + r < nextSeq + n
    BY <1>3, <2>4
  <2>5. /\ nextSeq + Rank(b, x) \in Int /\ nextSeq + Rank(b, x) >= nextSeq
        /\ nextSeq + Rank(b, x) < nextSeq + Cardinality(L)
    BY <1>3, <2>1, <2>4, Zenon
  <2> HIDE DEF L
  <2> QED BY <2>2, <2>3, <2>5, Zenon
<1>5. \A x \in Blocks \ L : seq'[x] = seq[x] /\ waiting'[x] = waiting[x]
  BY <1>1
<1>6. \A x \in L : waiting'[x] = <<>>
  BY <1>1
<1>7. b \in L /\ \A d \in known : Waits(d) /\ Parent[d] \in L => d \in L
  BY LinkedFacts
<1>8. seq' \in [Blocks -> Int]
  <2>1. \A x \in Blocks : seq[x] \in Int
    BY DEF Order, OrderTypes
  <2>2. seq' = [x \in Blocks |-> seq'[x]]
    OBVIOUS
  <2>3. \A x \in Blocks : seq'[x] \in Int
    BY <1>4, <1>5, <2>1
  <2> HIDE DEF L
  <2> QED BY <2>2, <2>3
<1>9. waiting' \in [Blocks -> Seq(received')]
  <2>1. \A p \in Blocks : waiting[p] \in Seq(received')
    <3>1. \A p \in Blocks : waiting[p] \in Seq(received)
      BY DEF Order, OrderTypes
    <3>2. received \subseteq received'
      BY DEF Comes
    <3> QED BY <3>1, <3>2, SeqMonotonic
  <2>2. <<>> \in Seq(received')
    OBVIOUS
  <2> QED BY <2>1, <2>2
<1> HIDE DEF L
<1>10. OrderTypes'
  <2>1. received' \subseteq known' /\ bodies' \subseteq received' /\ Genesis \in received' /\ IsFiniteSet(known')
    BY DEF Comes, Order, OrderTypes
  <2>2. nextSeq' > 1 /\ precious' \in Int /\ precious' < 0
    BY <1>3 DEF Comes, Order, OrderTypes
  <2> QED BY <1>3, <1>8, <1>9, <2>1, <2>2 DEF OrderTypes
<1>11. Complete \subseteq Complete' /\ L \subseteq Complete'
  BY <1>1, <1>2 DEF Complete, Comes
<1>12. ASSUME NEW x \in known, Waits(x), x \notin L PROVE Waits(x)'
  <2>1. Parent[x] \in Blocks \ L
    BY <1>7, <1>12, TreeAssumption DEF TypeOK
  <2> QED BY <1>5, <1>12, <2>1 DEF Waits
<1>13. IncompleteWait'
  <2>1. ASSUME NEW x \in bodies' \ Complete' PROVE Waits(x)'
    <3>1. x \notin L /\ x \in bodies \ Complete /\ x \in known
      BY <1>7, <1>11, <2>1 DEF Comes, TypeOK
    <3> QED BY <1>12, <3>1 DEF Order, IncompleteWait
  <2> QED BY <2>1 DEF IncompleteWait
<1>14. ASSUME NEW p \in Blocks PROVE QueueOf(p)'
  <2>1. CASE p \in L
    BY <1>6, <2>1 DEF QueueOf
  <2>2. CASE p \notin L
    BY <1>5, <2>2 DEF QueueOf, Order
  <2> QED BY <2>1, <2>2
<1>15. ASSUME NEW p \in Blocks PROVE Queued(p)'
  <2>1. CASE p \in L
    BY <1>6, <2>1 DEF Queued
  <2>2. CASE p \notin L
    <3>1. waiting'[p] = waiting[p] /\ seq'[p] = seq[p] /\ Queued(p)
      BY <1>5, <2>2 DEF Order
    <3>2. p \in bodies' => p \in bodies /\ p \in known
      BY <1>7, <2>2 DEF Comes, TypeOK
    <3> QED BY <1>12, <2>2, <3>1, <3>2 DEF Queued
  <2> QED BY <2>1, <2>2
<1>16. ASSUME NEW p \in Blocks PROVE IdOK(p)'
  <2> SUFFICES ASSUME seq'[p] > 1
               PROVE  p \in Complete' /\ seq'[p] < nextSeq' /\ \A c \in Blocks \ {p} : seq'[c] # seq'[p]
    BY DEF IdOK
  <2>1. CASE p \in L
    <3>1. ASSUME NEW c \in Blocks \ {p} PROVE seq'[c] # seq'[p]
      <4>1. CASE c \in L
        BY <1>4, <2>1, <4>1
      <4>2. CASE c \notin L
        <5>1. seq'[c] = seq[c] /\ seq[c] \in Int /\ (seq[c] > 1 => seq[c] < nextSeq)
          BY <1>5, <4>2 DEF Order, OrderTypes, IdOK
        <5>2. seq'[p] \in Int /\ seq'[p] >= nextSeq
          BY <1>4, <2>1
        <5> QED BY <1>3, <5>1, <5>2
      <4> QED BY <4>1, <4>2
    <3> QED BY <1>4, <1>11, <2>1, <3>1
  <2>2. CASE p \notin L
    <3>1. seq'[p] = seq[p] /\ seq[p] \in Int /\ p \in Complete /\ seq[p] < nextSeq
          /\ \A c \in Blocks \ {p} : seq[c] # seq[p]
      BY <1>5, <2>2 DEF Order, OrderTypes, IdOK
    <3>2. ASSUME NEW c \in Blocks \ {p} PROVE seq'[c] # seq'[p]
      <4>1. CASE c \in L
        <5>1. seq'[c] \in Int /\ seq'[c] >= nextSeq
          BY <1>4, <4>1
        <5> QED BY <1>3, <3>1, <5>1
      <4>2. CASE c \notin L
        BY <1>5, <3>1, <4>2
      <4> QED BY <4>1, <4>2
    <3> QED BY <1>3, <1>11, <3>1, <3>2
  <2> QED BY <2>1, <2>2
<1>17. ASSUME NEW x \in known, Held(x) PROVE Held(x)'
  <2>1. Chain[x] \subseteq Blocks
    BY OnOwnChain DEF TypeOK
  <2> QED BY <1>5, <1>6, <1>17, <2>1 DEF Held, Comes
<1> QED BY <1>10, <1>13, <1>14, <1>15, <1>16, <1>17 DEF Order

LEMMA StoreKeeps ==
    ASSUME TypeOK, Order, Held(tip), NEW b \in known, b \notin Chain[tip], Store(b), known' = known
    PROVE  Order' /\ bodies' = bodies \cup {b} /\ \A x \in known : Held(x) => Held(x)'
<1>1. Comes(b) /\ bodies' = bodies \cup {b} /\ NoteReceived(b)
  BY DEF Store, Comes
<1>2. b # Genesis /\ Parent[b] \in known
  BY OnOwnChain DEF TypeOK
<1>3. CASE seq[b] > 1
  <2>1. UNCHANGED <<seq, nextSeq, waiting>>
    BY <1>1, <1>3 DEF NoteReceived
  <2> QED BY <1>1, <1>3, <2>1, ComesAgain
<1>4. CASE ~(seq[b] > 1) /\ HaveChainTxs(Parent[b])
  <2>1. /\ seq' = [x \in Blocks |-> IF x \in Linked(b) THEN nextSeq + Rank(b, x) ELSE seq[x]]
        /\ nextSeq' = nextSeq + Cardinality(Linked(b))
        /\ waiting' = [p \in Blocks |-> IF p \in Linked(b) THEN <<>> ELSE waiting[p]]
    BY <1>1, <1>4 DEF NoteReceived, Rank
  <2>2. Chain[Parent[b]] \subseteq received
    BY <1>2, <1>4, HaveIsComplete
  <2> QED BY <1>1, <1>2, <2>1, <2>2, ComesLast
<1>5. CASE ~(seq[b] > 1) /\ ~HaveChainTxs(Parent[b])
  <2>1. Park(b) /\ UNCHANGED <<seq, nextSeq>>
    BY <1>1, <1>5 DEF NoteReceived
  <2>2. ~(Chain[Parent[b]] \subseteq received)
    BY <1>2, <1>5, HaveIsComplete
  <2> QED BY <1>1, <1>2, <2>1, <2>2, ComesToWait
<1> QED BY <1>3, <1>4, <1>5

-----------------------------------------------------------------------------
(* Prunes, restarts and what operators ask for.                            *)

LEMMA OrderStays ==
    ASSUME Order, UNCHANGED <<known, received, bodies, seq, nextSeq, waiting, precious>>
    PROVE  Order' /\ \A x \in Blocks : Held(x) => Held(x)'
<1>1. OrderTypes' /\ IncompleteWait' /\ \A x \in Blocks : Held(x) => Held(x)'
  BY DEF Order, OrderTypes, IncompleteWait, Complete, Waits, Held
<1>2. ASSUME NEW b \in Blocks PROVE QueueOf(b)' /\ Queued(b)' /\ IdOK(b)'
  BY DEF Order, QueueOf, Queued, IdOK, Complete, Waits
<1> QED BY <1>1, <1>2 DEF Order

LEMMA Removed ==
    ASSUME NEW S, NEW s \in Seq(S), NEW i \in 1..Len(s)
    PROVE  /\ RemoveAt(s, i) \in Seq(S) /\ Len(RemoveAt(s, i)) = Len(s) - 1
           /\ \A j \in 1..Len(s) - 1 : RemoveAt(s, i)[j] = IF j < i THEN s[j] ELSE s[j + 1]
<1> DEFINE l == SubSeq(s, 1, i - 1)
           r == SubSeq(s, i + 1, Len(s))
<1>1. Len(s) \in Nat \ {0} /\ i \in Nat \ {0} /\ i <= Len(s)
  OBVIOUS
<1>2. l \in Seq(S) /\ Len(l) = i - 1 /\ \A j \in 1..i - 1 : l[j] = s[j]
  BY <1>1
<1>3. r \in Seq(S) /\ Len(r) = Len(s) - i /\ \A j \in 1..Len(s) - i : r[j] = s[i + j]
  BY <1>1
<1>4. RemoveAt(s, i) = l \o r
  BY DEF RemoveAt
<1> HIDE DEF l, r
<1>5. l \o r \in Seq(S) /\ Len(l \o r) = Len(s) - 1
  <2>1. l \o r \in Seq(S) /\ Len(l \o r) = Len(l) + Len(r)
    BY <1>2, <1>3, ConcatProperties
  <2> QED BY <1>1, <1>2, <1>3, <2>1
<1>6. ASSUME NEW j \in 1..Len(s) - 1 PROVE (l \o r)[j] = IF j < i THEN s[j] ELSE s[j + 1]
  <2>1. CASE j < i
    BY <1>1, <1>2, <1>3, <2>1
  <2>2. CASE ~(j < i)
    <3>1. j - (i - 1) \in 1..Len(s) - i /\ i + (j - (i - 1)) = j + 1
      BY <1>1, <2>2
    <3>2. (l \o r)[j] = r[j - (i - 1)]
      BY <1>1, <1>2, <1>3, <2>2
    <3> QED BY <1>3, <2>2, <3>1, <3>2
  <2> QED BY <2>1, <2>2
<1> QED BY <1>4, <1>5, <1>6

LEMMA PruneKeeps ==
    ASSUME TypeOK, Order, NEW b \in Blocks, Prune(b)
    PROVE  Order' /\ \A x \in Blocks : Held(x) => Held(x)'
<1> DEFINE q == Parent[b]
<1>1. /\ b \in bodies \ {Genesis} /\ bodies' = bodies \ {b} /\ waiting' = Unparked(b)
      /\ UNCHANGED <<known, received, seq, nextSeq, precious>> /\ q \in Blocks
  BY TreeAssumption DEF Prune, index
<1>2. CASE ~Waits(b)
  <2>1. waiting' = waiting
    BY <1>1, <1>2 DEF Unparked
  <2>2. OrderTypes'
    BY <1>1, <2>1 DEF Order, OrderTypes
  <2>3. IncompleteWait' /\ \A x \in Blocks : Held(x) => Held(x)'
    BY <1>1, <2>1 DEF Order, IncompleteWait, Complete, Waits, Held
  <2>4. ASSUME NEW p \in Blocks PROVE QueueOf(p)' /\ Queued(p)' /\ IdOK(p)'
    BY <1>1, <2>1 DEF Order, QueueOf, Queued, IdOK, Complete, Waits
  <2> QED BY <2>2, <2>3, <2>4 DEF Order
<1>3. CASE Waits(b)
  <2> DEFINE s == waiting[q]
             k == CHOOSE i \in DOMAIN s : s[i] = b
             t == RemoveAt(s, k)
  <2>1. waiting' = [waiting EXCEPT ![q] = t]
    BY <1>1, <1>3 DEF Unparked
  <2>2. s \in Seq(received) /\ QueueOf(q) /\ DOMAIN s = 1..Len(s) /\ waiting \in [Blocks -> Seq(received)]
    BY <1>1 DEF Order, OrderTypes
  <2>3. k \in 1..Len(s) /\ s[k] = b
    BY <1>3, <2>2 DEF Waits, Range
  <2> HIDE DEF s, k
  <2>4. /\ t \in Seq(received) /\ Len(t) = Len(s) - 1 /\ Len(s) \in Nat
        /\ \A j \in 1..Len(s) - 1 : t[j] = IF j < k THEN s[j] ELSE s[j + 1]
    <3>1. s \in Seq(received) /\ k \in 1..Len(s) /\ Len(s) \in Nat
      BY <2>2, <2>3
    <3>2. /\ RemoveAt(s, k) \in Seq(received) /\ Len(RemoveAt(s, k)) = Len(s) - 1
          /\ \A j \in 1..Len(s) - 1 : RemoveAt(s, k)[j] = IF j < k THEN s[j] ELSE s[j + 1]
      BY <3>1, Removed, Zenon
    <3> QED BY <3>1, <3>2, Zenon
  <2>5. waiting' \in [Blocks -> Seq(received')] /\ waiting'[q] = t
        /\ \A p \in Blocks \ {q} : waiting'[p] = waiting[p]
    BY <1>1, <2>1, <2>2, <2>4
  <2>6. \A i, j \in 1..Len(s) : s[i] = s[j] => i = j
    BY <2>2 DEF QueueOf, s
  <2>7. \A i \in 1..Len(s) : s[i] # Genesis /\ Parent[s[i]] = q
    BY <2>2 DEF QueueOf, s
  <2> HIDE DEF t
  <2>8. QueueOf(q)'
    <3> SUFFICES ASSUME NEW i \in 1..Len(t)
                 PROVE  /\ t[i] # Genesis /\ Parent[t[i]] = q
                        /\ \A j \in 1..Len(t) : t[i] = t[j] => i = j
      BY <2>5 DEF QueueOf
    <3> DEFINE o(j) == IF j < k THEN j ELSE j + 1
    <3>2. ASSUME NEW j \in 1..Len(t) PROVE o(j) \in 1..Len(s) /\ t[j] = s[o(j)]
      <4>1. j \in 1..Len(s) - 1 /\ j \in 1..Len(s) /\ j + 1 \in 1..Len(s)
        BY <2>4
      <4>2. t[j] = IF j < k THEN s[j] ELSE s[j + 1]
        BY <2>4, <4>1
      <4> QED BY <4>1, <4>2
    <3>3. \A j \in 1..Len(t) : o(i) = o(j) => i = j
      BY <2>3, <2>4
    <3> HIDE DEF o
    <3> QED BY <2>6, <2>7, <3>2, <3>3
  <2>9. \A x : x \in Range(s) /\ x # b => x \in Range(t)
    <3> SUFFICES ASSUME NEW i \in 1..Len(s), s[i] # b PROVE s[i] \in Range(t)
      BY <2>2 DEF Range
    <3>1. DOMAIN t = 1..Len(t)
      BY <2>4
    <3>2. i # k
      BY <2>3
    <3>3. CASE i < k
      <4>1. i \in 1..Len(t) /\ t[i] = s[i]
        BY <2>3, <2>4, <3>3
      <4> QED BY <3>1, <4>1 DEF Range
    <3>4. CASE i > k
      <4>1. i - 1 \in 1..Len(t) /\ t[i - 1] = s[i]
        BY <2>3, <2>4, <3>4
      <4> QED BY <3>1, <4>1 DEF Range
    <3> QED BY <2>3, <3>2, <3>3, <3>4
  <2>10. ASSUME NEW x \in Blocks \ {b}, Waits(x) PROVE Waits(x)'
    <3>1. Parent[x] \in Blocks
      BY TreeAssumption
    <3> QED BY <2>5, <2>9, <2>10, <3>1 DEF Waits, s
  <2>11. \A p \in Blocks : waiting[p] = <<>> => waiting'[p] = <<>>
    <3>1. s # <<>>
      BY <2>3
    <3> QED BY <2>5, <3>1 DEF s
  <2>12. OrderTypes'
    BY <1>1, <2>5 DEF Order, OrderTypes
  <2>13. IncompleteWait' /\ \A x \in Blocks : Held(x) => Held(x)'
    <3>1. \A x \in Blocks : Chain[x] \subseteq Blocks
      BY OnOwnChain
    <3> QED BY <1>1, <2>10, <2>11, <3>1 DEF Order, IncompleteWait, Complete, Held, TypeOK
  <2>14. ASSUME NEW p \in Blocks PROVE QueueOf(p)' /\ Queued(p)' /\ IdOK(p)'
    <3>1. QueueOf(p)'
      BY <2>5, <2>8 DEF Order, QueueOf
    <3>2. Queued(p)'
      BY <1>1, <2>10, <2>11 DEF Order, Queued
    <3>3. IdOK(p)'
      BY <1>1 DEF Order, IdOK, Complete
    <3> QED BY <3>1, <3>2, <3>3
  <2> QED BY <2>12, <2>13, <2>14 DEF Order
<1> QED BY <1>2, <1>3

LEMMA RestartKeepsOrder ==
    ASSUME TypeOK, Order, Restart
    PROVE  Order' /\ \A x \in Blocks : Held(x) => Held(x)'
<1>1. /\ seq' = [b \in Blocks |-> IF b \in Chain[tip] THEN 0 ELSE 1]
      /\ nextSeq' = 2 /\ precious' = -1
      /\ UNCHANGED <<known, received, bodies>>
  BY DEF Restart, index
<1>2. PICK w \in [Blocks -> UNION {Queues(p) : p \in Blocks}] :
         (\A p \in Blocks : w[p] \in Queues(p)) /\ waiting' = w
  BY DEF Restart
<1>3. ASSUME NEW p \in Blocks
      PROVE  /\ w[p] \in Seq(received) /\ Range(w[p]) = Unlinked(p) /\ QueueOf(p)'
             /\ (Unlinked(p) = {} => w[p] = <<>>) /\ (w[p] # <<>> => Unlinked(p) # {})
  <2> DEFINE s == w[p]
             n == Cardinality(Unlinked(p))
  <2>1. Unlinked(p) \subseteq received /\ IsFiniteSet(Unlinked(p)) /\ n \in Nat
    <3>1. Unlinked(p) \subseteq received /\ Unlinked(p) \in SUBSET known
      BY DEF Unlinked, Order, OrderTypes
    <3> QED BY <3>1, FS_Subset, FS_CardinalityType DEF Order, OrderTypes
  <2>2. /\ s \in [1..n -> Unlinked(p)] /\ \A i, j \in 1..n : s[i] = s[j] => i = j
        /\ \A b \in Unlinked(p) : \E i \in 1..n : s[i] = b
    <3>1. s \in Bijection(1..n, Unlinked(p))
      BY <1>2 DEF Queues
    <3> HIDE DEF s, n
    <3> QED BY <3>1 DEF Bijection, Injection, Surjection, IsInjective
  <2> HIDE DEF s, n
  <2>3. s \in Seq(received) /\ Len(s) = n /\ DOMAIN s = 1..n
    <3>1. s \in [1..n -> received]
      BY <2>1, <2>2
    <3> QED BY <2>1, <3>1
  <2>4. Range(s) = Unlinked(p)
    BY <2>2, <2>3 DEF Range
  <2>5. QueueOf(p)'
    <3>1. waiting'[p] = s
      BY <1>2 DEF s
    <3>2. \A b \in Unlinked(p) : b # Genesis /\ Parent[b] = p
      BY DEF Unlinked
    <3> QED BY <2>2, <2>3, <3>1, <3>2 DEF QueueOf
  <2>6. Unlinked(p) = {} => s = <<>>
    <3> SUFFICES ASSUME Unlinked(p) = {} PROVE s = <<>>
      OBVIOUS
    <3>1. n = 0
      BY FS_EmptySet DEF n
    <3> QED BY <2>3, <3>1
  <2>7. s # <<>> => Unlinked(p) # {}
    BY <2>6
  <2> QED BY <2>3, <2>4, <2>5, <2>6, <2>7 DEF s
<1>4. OrderTypes'
  <2>1. waiting' \in [Blocks -> Seq(received')]
    BY <1>1, <1>2, <1>3
  <2>2. seq' \in [Blocks -> Int]
    BY <1>1
  <2> QED BY <1>1, <2>1, <2>2 DEF Order, OrderTypes
<1>5. ASSUME NEW x \in Blocks, x # Genesis, x \in received, ~(Chain[x] \subseteq received) PROVE Waits(x)'
  <2>1. Parent[x] \in Blocks /\ x \in Unlinked(Parent[x])
    BY <1>5, TreeAssumption DEF Unlinked
  <2> QED BY <1>2, <1>3, <2>1 DEF Waits
<1>6. Genesis \in received /\ Chain[Genesis] \subseteq received
  BY TreeAssumption DEF Order, OrderTypes
<1>7. IncompleteWait'
  <2>1. ASSUME NEW x \in bodies \ Complete PROVE Waits(x)'
    BY <1>5, <1>6, <2>1 DEF Complete, Order, OrderTypes, TypeOK
  <2>2. bodies' = bodies /\ Complete' = Complete
    BY <1>1 DEF Complete
  <2> QED BY <2>1, <2>2 DEF IncompleteWait
<1>8. ASSUME NEW p \in Blocks, waiting'[p] # <<>> PROVE ~(Chain[p] \subseteq received)
  <2>1. PICK c \in Unlinked(p) : TRUE
    BY <1>2, <1>3, <1>8
  <2>2. c \in received \ {Genesis} /\ Parent[c] = p /\ ~(Chain[c] \subseteq received) /\ c \in Blocks
    BY <2>1 DEF Unlinked, Order, OrderTypes, TypeOK
  <2> QED BY <2>2, Branch
<1>9. ASSUME NEW p \in Blocks PROVE Queued(p)' /\ IdOK(p)'
  <2>1. seq'[p] <= 1
    BY <1>1
  <2>2. seq'[p] \in Int /\ ~(seq'[p] > 1)
    BY <1>1
  <2>3. waiting'[p] # <<>> /\ p \in bodies' => Waits(p)'
    BY <1>1, <1>5, <1>6, <1>8 DEF Order, OrderTypes
  <2> QED BY <2>1, <2>2, <2>3 DEF Queued, IdOK
<1>10. ASSUME NEW x \in Blocks, Held(x) PROVE Held(x)'
  <2>1. \A p \in Chain[x] : p \in Blocks /\ Chain[p] \subseteq received
    BY <1>10, OnOwnChain, ChainsNest DEF Held
  <2>2. \A p \in Chain[x] : waiting'[p] = <<>>
    BY <1>8, <2>1
  <2> QED BY <1>1, <1>10, <2>2 DEF Held
<1> QED BY <1>3, <1>4, <1>7, <1>9, <1>10 DEF Order

LEMMA PreciousKeepsOrder ==
    ASSUME TypeOK, Order, NEW b \in Blocks, Precious(b)
    PROVE  /\ Order' /\ \A x \in Blocks : Held(x) => Held(x)'
           /\ seq'[b] < 0 /\ \A x \in Blocks \ {b} : seq'[x] = seq[x]
<1>1. PICK p \in {-1, precious} : seq' = [seq EXCEPT ![b] = p] /\ precious' = p - 1
  BY DEF Precious
<1>2. UNCHANGED <<known, received, bodies, nextSeq, waiting>>
  BY DEF Precious, index
<1>3. p \in Int /\ p < 0 /\ seq \in [Blocks -> Int]
  BY DEF Order, OrderTypes
<1>4. seq'[b] = p /\ \A x \in Blocks \ {b} : seq'[x] = seq[x]
  BY <1>1, <1>3
<1>5. OrderTypes'
  <2>1. seq' \in [Blocks -> Int] /\ precious' \in Int /\ precious' < 0
    BY <1>1, <1>3
  <2> QED BY <1>2, <2>1 DEF Order, OrderTypes
<1>6. IncompleteWait' /\ \A x \in Blocks : Held(x) => Held(x)'
  BY <1>2 DEF Order, IncompleteWait, Complete, Waits, Held
<1>7. ASSUME NEW x \in Blocks PROVE QueueOf(x)' /\ Queued(x)' /\ IdOK(x)'
  <2>1. QueueOf(x)'
    BY <1>2 DEF Order, QueueOf
  <2>2. seq'[x] <= 1 \/ seq'[x] = seq[x]
    BY <1>3, <1>4
  <2>3. Queued(x)'
    BY <1>2, <2>2 DEF Order, Queued, Waits
  <2>4. IdOK(x)'
    <3>1. seq'[b] <= 1
      BY <1>3, <1>4
    <3>2. CASE x = b
      BY <1>3, <1>4, <3>2 DEF IdOK
    <3>3. CASE x # b
      <4>1. seq[x] > 1 => seq'[b] # seq[x]
        BY <1>3, <1>4
      <4> QED BY <1>2, <1>4, <3>3, <4>1 DEF Order, IdOK, Complete
    <3> QED BY <3>2, <3>3
  <2> QED BY <2>1, <2>3, <2>4
<1> QED BY <1>3, <1>4, <1>5, <1>6, <1>7 DEF Order

LEMMA HeaderKeepsOrder ==
    ASSUME TypeOK, Order, NEW b \in Blocks, Header(b)
    PROVE  Order' /\ \A x \in Blocks : Held(x) => Held(x)'
<1>1. known' = known \cup {b} /\ UNCHANGED <<received, bodies, seq, nextSeq, waiting, precious>>
  BY DEF Header, order
<1>2. IsFiniteSet(known')
  BY <1>1, FS_AddElement DEF Order, OrderTypes
<1>3. OrderTypes' /\ IncompleteWait' /\ \A x \in Blocks : Held(x) => Held(x)'
  BY <1>1, <1>2 DEF Order, OrderTypes, IncompleteWait, Complete, Waits, Held
<1>4. ASSUME NEW p \in Blocks PROVE QueueOf(p)' /\ Queued(p)' /\ IdOK(p)'
  BY <1>1 DEF Order, QueueOf, Queued, IdOK, Complete, Waits
<1> QED BY <1>3, <1>4 DEF Order

-----------------------------------------------------------------------------
(* Every step keeps the order, and what is complete stays so.              *)

LEMMA OrderStep ==
    ASSUME Inv, Order, Held(tip), [Next]_vars
    PROVE  Order' /\ \A x \in known : Held(x) => Held(x)'
<1>1. ASSUME NEW b \in Blocks, Extend(b) \/ PreReorg(b) \/ StoreOnly(b)
      PROVE  Order' /\ \A x \in known : Held(x) => Held(x)'
  <2>1. Store(b) /\ known' = known /\ b \in known /\ b \notin Chain[tip]
    BY <1>1 DEF Extend, PreReorg, StoreOnly, Awaited
  <2> QED BY <2>1, StoreKeeps DEF Inv
<1>2. ASSUME NEW b \in Blocks, Header(b) \/ Prune(b) \/ Precious(b)
      PROVE  Order' /\ \A x \in known : Held(x) => Held(x)'
  BY <1>2, HeaderKeepsOrder, PruneKeeps, PreciousKeepsOrder DEF Inv, TypeOK
<1>3. CASE Restart
  BY <1>3, RestartKeepsOrder DEF Inv, TypeOK
<1>4. CASE UNCHANGED <<known, received, bodies, seq, nextSeq, waiting, precious>>
  BY <1>4, OrderStays DEF Inv, TypeOK
<1>5. ASSUME NEW b \in Blocks, Invalidate(b) \/ Reconsider(b)
      PROVE  UNCHANGED <<known, received, bodies, seq, nextSeq, waiting, precious>>
  BY <1>5 DEF Invalidate, Reconsider, order
<1>6. PerformReorg => UNCHANGED <<known, received, bodies, seq, nextSeq, waiting, precious>>
  BY DEF PerformReorg, index, order, Check, Disconnect, Land, Connect, EndConnect, FailConnect, RollbackDown,
         RollbackUp, EndRollback, TellGone, TellCame, Told
<1>7. Caller \/ ActivateBest => UNCHANGED <<known, received, bodies, seq, nextSeq, waiting, precious>>
  BY DEF Caller, ActivateBest, index, order, Done, AfterMissing, AfterExtend, AfterExtendBad, AfterStep, AfterLeave,
         Look
<1>8. Stop \/ Resume \/ UNCHANGED vars => UNCHANGED <<known, received, bodies, seq, nextSeq, waiting, precious>>
  BY DEF Stop, Resume, vars, index, order
<1> QED BY <1>1, <1>2, <1>3, <1>4, <1>5, <1>6, <1>7, <1>8 DEF Next, Arrival, Operator

-----------------------------------------------------------------------------
(* The bodies that a move needs.                                           *)

(* The coins and the subscribers stay where they are.                      *)
LEMMA InPlace ==
    ASSUME Inv, AllHeld, \A x \in known : Held(x) => Held(x)', UNCHANGED <<tip, at, heard>>,
           gone' = gone \/ gone' = <<>>, came' = came \/ came' = <<>>
    PROVE  AllHeld'
<1>1. Held(tip)' /\ Held(at)' /\ Held(heard)'
  <2>1. Held(tip) /\ Held(at) /\ Held(heard) /\ tip \in known /\ at \in known /\ heard \in known
    BY DEF Inv, TypeOK, AllHeld
  <2> QED BY <2>1 DEF Held
<1>2. ASSUME NEW i \in 1..Len(gone') PROVE Held(gone[i])'
  <2>1. i \in 1..Len(gone) /\ gone'[i] = gone[i]
    BY <1>2
  <2>2. gone[i] \in known /\ Held(gone[i])
    <3>1. gone \in Seq(known) /\ \A j \in 1..Len(gone) : Held(gone[j])
      BY DEF Inv, TypeOK, AllHeld
    <3> QED BY <2>1, <3>1, ElementOfSeq
  <2>3. Held(gone[i])' <=> Chain[gone'[i]] \subseteq received' /\ \A p \in Chain[gone'[i]] : waiting'[p] = <<>>
    BY DEF Held
  <2>4. Held(gone[i])' <=> Chain[gone[i]] \subseteq received' /\ \A p \in Chain[gone[i]] : waiting'[p] = <<>>
    BY <2>1, <2>3
  <2> QED BY <2>2, <2>4 DEF Held
<1>3. ASSUME NEW i \in 1..Len(came') PROVE Held(came[i])'
  <2>1. i \in 1..Len(came) /\ came'[i] = came[i]
    BY <1>3
  <2>2. came[i] \in known /\ Held(came[i])
    <3>1. came \in Seq(known) /\ \A j \in 1..Len(came) : Held(came[j])
      BY DEF Inv, TypeOK, AllHeld
    <3> QED BY <2>1, <3>1, ElementOfSeq
  <2>3. Held(came[i])' <=> Chain[came'[i]] \subseteq received' /\ \A p \in Chain[came'[i]] : waiting'[p] = <<>>
    BY DEF Held
  <2>4. Held(came[i])' <=> Chain[came[i]] \subseteq received' /\ \A p \in Chain[came[i]] : waiting'[p] = <<>>
    BY <2>1, <2>3
  <2> QED BY <2>2, <2>4 DEF Held
<1> QED BY <1>1, <1>2, <1>3 DEF AllHeld

(* Nothing is being moved, or not yet.                                     *)
LEMMA BodiesAtRest ==
    ASSUME Inv, AtRest, phase' \in {"idle", "look", "check"}, gone' \in {gone, <<>>}, came' \in {came, <<>>},
           phase' = "check" /\ then'.do = "extend" => then'.block \in bodies'
    PROVE  BodiesOK'
<1>1. gone' = <<>> /\ came' = <<>>
  BY RestIsTogether
<1> QED BY <1>1 DEF BodiesOK

(* The chain of a block is the one below it and the block.                 *)
AtHand == IF at' \in Chain[at] THEN Chain[at] \ Chain[at'] \subseteq bodies'
                               ELSE Chain[at'] \ Chain[at] \subseteq bodies'
LEMMA OneBlock ==
    ASSUME NEW c \in Blocks \ {Genesis}, c \in bodies', (at = Parent[c] /\ at' = c) \/ (at = c /\ at' = Parent[c])
    PROVE  AtHand
<1>1. Chain[c] = Chain[Parent[c]] \cup {c} /\ c \notin Chain[Parent[c]] /\ Parent[c] \in Chain[c]
  BY Branch, OnOwnChain
<1> QED BY <1>1 DEF AtHand

LEMMA TipBodies ==
    ASSUME Inv, StoreInv, AtRest, NEW b \in known \ {Genesis}, Parent[b] = tip, b \in bodies', ConnectTip(b),
           Order', \A x \in known : Held(x) => Held(x)'
    PROVE  BodiesOK' /\ AllHeld' /\ AtHand
<1>1. /\ tip' = b /\ at' = b /\ came' = <<b>> /\ gone' = <<>> /\ phase' = "tell" /\ then' = Nothing
      /\ heard' = heard
  BY DEF ConnectTip
<1>2. tip = at /\ heard = at /\ b \in Blocks \ {Genesis}
  BY RestIsTogether DEF Inv, TypeOK
<1>3. Held(tip)' /\ Held(heard)'
  <2>1. Held(heard)'
    BY <1>1 DEF Inv, TypeOK, StoreInv, AllHeld, Held
  <2>2. Held(Parent[b])'
    BY <1>1, <1>2, <2>1 DEF Held
  <2>3. Chain[b] = Chain[Parent[b]] \cup {b} /\ Parent[b] \in Blocks /\ Parent[b] \in Chain[Parent[b]]
    BY <1>2, Branch, OnOwnChain
  <2>4. waiting'[Parent[b]] = <<>>
    BY <2>2, <2>3 DEF Held
  <2>5. ~Waits(b)'
    BY <2>4 DEF Waits, Range
  <2>6. waiting'[b] = <<>> /\ b \in received'
    BY <1>2, <2>5 DEF Order, Queued, OrderTypes
  <2> QED BY <1>1, <2>1, <2>2, <2>3, <2>6 DEF Held
<1>4. AllHeld'
  BY <1>1, <1>3 DEF AllHeld, Held
<1>5. BodiesOK'
  BY <1>1 DEF BodiesOK, Nothing
<1> QED BY <1>1, <1>2, <1>4, <1>5, OneBlock

LEMMA ArrivalBodies ==
    ASSUME Inv, StoreInv, Order', \A x \in known : Held(x) => Held(x)', NEW b \in Blocks,
           Header(b) \/ Extend(b) \/ PreReorg(b) \/ StoreOnly(b) \/ Prune(b)
    PROVE  BodiesOK' /\ AllHeld' /\ (at' # at => AtHand)
<1>1. CASE Header(b) \/ StoreOnly(b) \/ Prune(b)
  <2>1. AtRest /\ phase' = "idle" /\ UNCHANGED <<tip, at, heard, gone, came>>
    BY <1>1 DEF Header, StoreOnly, Prune, Awaited, Quiet, place, reorg, call, Idle, AtRest
  <2> QED BY <2>1, BodiesAtRest, InPlace DEF StoreInv
<1>2. CASE Extend(b)
  <2>1. /\ AtRest /\ b \in known /\ b \notin Chain[tip] /\ Parent[b] = tip /\ b \in bodies' /\ b # Genesis
    BY <1>2, OnOwnChain DEF Extend, Awaited, Store, Idle, AtRest, Inv, TypeOK
  <2>2. CASE ConnectTip(b)
    BY <2>1, <2>2, TipBodies
  <2>3. CASE Quiet
    <3>1. phase' = phase /\ phase = "idle" /\ UNCHANGED <<tip, at, heard, gone, came>>
      BY <1>2, <2>3 DEF Quiet, place, reorg, call, Extend, Awaited, Idle
    <3> QED BY <2>1, <3>1, BodiesAtRest, InPlace DEF StoreInv
  <2> QED BY <1>2, <2>2, <2>3 DEF Extend
<1>3. CASE PreReorg(b)
  <2>1. /\ AtRest /\ phase' = "check" /\ UNCHANGED <<tip, at, heard>> /\ gone' = <<>> /\ came' = <<>>
        /\ then'.block = b /\ b \in bodies'
    BY <1>3 DEF PreReorg, Awaited, Store, Idle, AtRest, Reorg, place
  <2> QED BY <2>1, BodiesAtRest, InPlace DEF StoreInv
<1> QED BY <1>1, <1>2, <1>3

LEMMA OperatorBodies ==
    ASSUME Inv, StoreInv, Order', \A x \in known : Held(x) => Held(x)', Operator
    PROVE  BodiesOK' /\ AllHeld' /\ UNCHANGED at
<1> DEFINE Begins == /\ AtRest /\ phase' \in {"idle", "look", "check"} /\ UNCHANGED <<tip, at, heard>>
                     /\ gone' \in {gone, <<>>} /\ came' \in {came, <<>>}
                     /\ (phase' = "check" => then'.do # "extend")
<1>1. ASSUME NEW b \in Blocks, Invalidate(b) \/ Reconsider(b) PROVE Begins
  BY <1>1 DEF Invalidate, Reconsider, Idle, AtRest, Reorg, place, reorg
<1>2. ASSUME NEW b \in Blocks, Precious(b) PROVE Begins
  BY <1>2 DEF Precious, Idle, AtRest, Reorg, Quiet, Nothing, place, reorg, call
<1>3. CASE Restart
  <2>1. Begins
    BY <1>3 DEF Restart, Idle, AtRest, place, reorg, call
  <2> QED BY <2>1, BodiesAtRest, InPlace DEF StoreInv
<1>4. CASE Begins
  BY <1>4, BodiesAtRest, InPlace DEF StoreInv
<1> QED BY <1>1, <1>2, <1>3, <1>4 DEF Operator

LEMMA CallerBodies ==
    ASSUME Inv, StoreInv, Order', \A x \in known : Held(x) => Held(x)', Caller \/ ActivateBest
    PROVE  BodiesOK' /\ AllHeld' /\ (at' # at => AtHand)
<1>1. CASE AfterExtend
  <2>1. AtRest /\ then.block \in known \ {Genesis} /\ Parent[then.block] = tip
    BY <1>1, OnParent DEF AfterExtend
  <2>2. ConnectTip(then.block) /\ bodies' = bodies
    BY <1>1 DEF AfterExtend
  <2>3. then.block \in bodies
    BY <1>1 DEF AfterExtend, StoreInv, BodiesOK
  <2> QED BY <2>1, <2>2, <2>3, TipBodies
<1>2. CASE Done \/ AfterMissing \/ AfterExtendBad \/ AfterStep \/ AfterLeave \/ Look \/ ActivateBest
  <2>1. /\ AtRest /\ phase' \in {"idle", "look", "check"} /\ UNCHANGED <<tip, at, heard>>
        /\ gone' \in {gone, <<>>} /\ came' \in {came, <<>>} /\ (phase' = "check" => then'.do # "extend")
    <3>1. CASE Done \/ AfterExtendBad \/ AfterLeave
      BY <3>1 DEF Done, AfterExtendBad, AfterLeave, Return, Reorg, Nothing, place, reorg, AtRest
    <3>2. CASE AfterMissing \/ AfterStep \/ ActivateBest
      BY <3>2 DEF AfterMissing, AfterStep, ActivateBest, ActivateRound, Return, Reorg, place, AtRest, Idle
    <3>3. CASE Look
      BY <3>3 DEF Look, ActivateOnce, Return, Reorg, Nothing, place, AtRest
    <3> QED BY <1>2, <3>1, <3>2, <3>3
  <2> QED BY <2>1, BodiesAtRest, InPlace DEF StoreInv
<1> QED BY <1>1, <1>2 DEF Caller

(* The blocks below the coins on the branches of the move under way.       *)
LEMMA ReorgBodies ==
    ASSUME Inv, StoreInv, Order', \A x \in known : Held(x) => Held(x)', PerformReorg
    PROVE  BodiesOK' /\ AllHeld' /\ (at' # at => AtHand)
<1>1. UNCHANGED <<known, received, bodies, waiting>>
  BY DEF PerformReorg, index, order, Check, Disconnect, Land, Connect, EndConnect, FailConnect, RollbackDown,
         RollbackUp, EndRollback, TellGone, TellCame, Told
<1>2. /\ gone \in Seq(known) /\ came \in Seq(known) /\ at \in Blocks /\ from \in Blocks /\ to \in Blocks
      /\ known \subseteq Blocks /\ tip \in known /\ at \in known /\ heard \in known
  BY DEF Inv, TypeOK
<1>3. /\ \A i \in 1..Len(gone) : gone[i] \in bodies /\ Held(gone[i])
      /\ \A i \in 1..Len(came) : came[i] \in bodies /\ Held(came[i])
      /\ Held(tip) /\ Held(at) /\ Held(heard)
  BY DEF StoreInv, BodiesOK, AllHeld
<1>4. \A x : Held(x)' <=> Held(x)
  BY <1>1 DEF Held
<1>5. CASE Check
  <2>1. /\ phase = "check" /\ UNCHANGED <<tip, at, heard, from, to, gone, came, then>>
        /\ \/ phase' = "down" /\ Refused = "no"
           \/ phase' = "done"
    BY <1>5 DEF Check, place, reorg
  <2>2. Refused = "no" => Between(from, to) \subseteq bodies
    BY DEF Refused
  <2>3. from = at /\ gone = <<>> /\ came = <<>>
    BY <2>1 DEF Inv, Placed, Walk, ComesUp, Fork
  <2>4. BodiesOK'
    BY <1>1, <1>2, <2>1, <2>2, <2>3, OnOwnChain DEF StoreInv, BodiesOK, Between
  <2> QED BY <2>1, <2>4, InPlace DEF StoreInv
<1>6. CASE Disconnect
  <2>1. /\ phase = "down" /\ at \notin Chain[to] /\ at' = Parent[at] /\ gone' = Append(gone, at)
        /\ UNCHANGED <<tip, heard, from, to, came, then, phase>>
    BY <1>6 DEF Disconnect, call
  <2>2. at \in Blocks \ {Genesis} /\ at \in Chain[from] /\ at \in bodies
    BY <1>2, <2>1, OnOwnChain DEF StoreInv, BodiesOK, Between
  <2>3. /\ Len(gone) \in Nat /\ Len(gone') = Len(gone) + 1
        /\ \A i \in 1..Len(gone') : gone'[i] = IF i = Len(gone) + 1 THEN at ELSE gone[i]
    BY <1>2, <2>1
  <2>4. \A i \in 1..Len(gone') : gone'[i] \in bodies /\ Held(gone'[i])
    BY <1>3, <2>2, <2>3
  <2>5. Held(Parent[at])
    BY <1>3, <2>2, HeldParent
  <2>6. Chain[at] = Chain[Parent[at]] \cup {at} /\ Parent[at] \in Chain[at] /\ Chain[at] \subseteq Chain[from]
    BY <1>2, <2>2, Branch, OnOwnChain, ChainsNest
  <2>7. BodiesOK'
    BY <1>1, <1>3, <2>1, <2>2, <2>4, <2>6 DEF StoreInv, BodiesOK, Between
  <2>8. AllHeld'
    BY <1>1, <1>3, <2>1, <2>4, <2>5 DEF AllHeld, Held
  <2>9. AtHand
    BY <1>1, <2>1, <2>2, OneBlock
  <2> QED BY <2>7, <2>8, <2>9
<1>7. CASE Land
  <2>1. /\ phase = "down" /\ tip' = at /\ phase' \in {"up", "tell"}
        /\ UNCHANGED <<at, heard, from, to, gone, came, then>>
    BY <1>7 DEF Land, reorg
  <2>2. BodiesOK'
    BY <1>1, <2>1 DEF StoreInv, BodiesOK, Between
  <2>3. AllHeld'
    BY <1>1, <1>3, <2>1 DEF AllHeld, Held
  <2> QED BY <2>1, <2>2, <2>3
<1>8. CASE Connect
  <2> DEFINE b == NextTo(tip, to)
  <2>1. /\ phase = "up" /\ tip # to /\ at' = b /\ tip' = b /\ came' = Append(came, b)
        /\ UNCHANGED <<heard, from, to, gone, then, phase>>
    BY <1>8 DEF Connect, call
  <2>2. b \in Blocks \ {Genesis} /\ b \in Chain[to] /\ Parent[b] = at
    BY <1>2, <2>1, NextOfBranch DEF Inv, Placed
  <2> HIDE DEF b
  <2>3. b \in bodies /\ Chain[at] \subseteq Chain[b]
    <3>1. Chain[b] = Chain[at] \cup {b} /\ b \notin Chain[at]
      BY <2>2, Branch
    <3> QED BY <2>1, <2>2, <3>1 DEF StoreInv, BodiesOK, Between
  <2>4. Held(b)
    BY <1>3, <2>2, <2>3, HeldChild DEF StoreInv
  <2>5. /\ Len(came) \in Nat /\ Len(came') = Len(came) + 1
        /\ \A i \in 1..Len(came') : came'[i] = IF i = Len(came) + 1 THEN b ELSE came[i]
    <3>1. b \in known
      BY <2>3 DEF Inv, TypeOK
    <3> QED BY <1>2, <2>1, <3>1
  <2>6. \A i \in 1..Len(came') : came'[i] \in bodies /\ Held(came'[i])
    BY <1>3, <2>3, <2>4, <2>5
  <2>7. BodiesOK'
    BY <1>1, <1>3, <2>1, <2>3, <2>6 DEF StoreInv, BodiesOK, Between
  <2>8. AllHeld'
    BY <1>1, <1>3, <2>1, <2>4, <2>6 DEF AllHeld, Held
  <2>9. AtHand
    BY <1>1, <2>1, <2>2, <2>3, OneBlock
  <2> QED BY <2>7, <2>8, <2>9
<1>9. CASE EndConnect \/ FailConnect \/ Told
  <2>1. phase' \in {"tell", "back", "done"} /\ phase \in {"up", "tell"}
        /\ UNCHANGED <<tip, at, heard, from, to, gone, came, then>>
    BY <1>9 DEF EndConnect, FailConnect, Told, place, reorg
  <2>2. BodiesOK'
    BY <1>1, <2>1 DEF StoreInv, BodiesOK
  <2> QED BY <2>1, <2>2, InPlace DEF StoreInv
<1>10. CASE RollbackDown
  <2> DEFINE n == Len(came)
  <2>1. /\ phase = "back" /\ came # <<>> /\ at' = Parent[came[n]] /\ came' = SubSeq(came, 1, n - 1)
        /\ UNCHANGED <<tip, heard, from, to, gone, then, phase>>
    BY <1>10 DEF RollbackDown, call
  <2>2. /\ n \in Nat \ {0} /\ came[n] \in known /\ Len(came') = n - 1
        /\ \A i \in 1..n - 1 : came'[i] = came[i]
    BY <1>2, <2>1, Sequences
  <2>3. at = came[n] /\ came[n] \in Blocks \ {Genesis}
    BY <1>2, <2>1, <2>2 DEF Inv, Walk, ComesUp
  <2>4. n \in 1..n /\ \A i \in 1..n - 1 : i \in 1..n
    BY <2>2
  <2>5. came[n] \in bodies /\ \A i \in 1..Len(came') : came'[i] \in bodies /\ Held(came'[i])
    BY <1>3, <2>2, <2>4
  <2> HIDE DEF n
  <2>6. Held(at)'
    BY <1>1, <1>3, <2>1, <2>3, HeldParent DEF Held
  <2>7. BodiesOK'
    BY <1>1, <1>3, <2>1, <2>5 DEF StoreInv, BodiesOK
  <2>8. AllHeld'
    BY <1>1, <1>3, <2>1, <2>5, <2>6 DEF AllHeld, Held
  <2>9. AtHand
    BY <1>1, <2>1, <2>3, <2>5, OneBlock
  <2> QED BY <2>7, <2>8, <2>9
<1>11. CASE RollbackUp
  <2> DEFINE n == Len(gone)
  <2>1. /\ phase = "back" /\ came = <<>> /\ gone # <<>> /\ at' = gone[n] /\ gone' = SubSeq(gone, 1, n - 1)
        /\ UNCHANGED <<tip, heard, from, to, came, then, phase>>
    BY <1>11 DEF RollbackUp, call
  <2>2. /\ n \in Nat \ {0} /\ gone[n] \in known /\ Len(gone') = n - 1
        /\ \A i \in 1..n - 1 : gone'[i] = gone[i]
    BY <1>2, <2>1, Sequences
  <2>3. n \in 1..n /\ \A i \in 1..n - 1 : i \in 1..n
    BY <2>2
  <2>4. at = Parent[gone[n]] /\ gone[n] \in Blocks \ {Genesis}
    BY <1>2, <2>1, <2>2, <2>3 DEF Inv, Walk, ComesUp, GoesDown, Fork
  <2>5. gone[n] \in bodies /\ Held(gone[n]) /\ \A i \in 1..Len(gone') : gone'[i] \in bodies /\ Held(gone'[i])
    BY <1>3, <2>2, <2>3
  <2> HIDE DEF n
  <2>6. Held(at)'
    BY <1>1, <2>1, <2>5 DEF Held
  <2>7. BodiesOK'
    BY <1>1, <1>3, <2>1, <2>5 DEF StoreInv, BodiesOK
  <2>8. AllHeld'
    BY <1>1, <1>3, <2>1, <2>5, <2>6 DEF AllHeld, Held
  <2>9. AtHand
    BY <1>1, <2>1, <2>4, <2>5, OneBlock
  <2> QED BY <2>7, <2>8, <2>9
<1>12. CASE EndRollback
  <2>1. /\ phase = "back" /\ phase' = "done" /\ tip' = from /\ came = <<>> /\ gone = <<>>
        /\ UNCHANGED <<at, heard, from, to, gone, came, then>>
    BY <1>12 DEF EndRollback, reorg
  <2>2. from = heard
    BY <2>1 DEF Inv, Placed
  <2>3. BodiesOK'
    BY <1>1, <2>1 DEF StoreInv, BodiesOK
  <2>4. AllHeld'
    BY <1>1, <1>3, <2>1, <2>2 DEF AllHeld, Held
  <2> QED BY <2>1, <2>3, <2>4
<1>13. CASE TellGone
  <2>1. /\ phase = "tell" /\ gone # <<>> /\ gone' = Tail(gone)
        /\ UNCHANGED <<tip, at, from, to, came, then, phase>> /\ heard # Genesis /\ heard' = Parent[heard]
    BY <1>13, TellGoneKeeps DEF TellGone, place, call
  <2>2. /\ Len(gone') = Len(gone) - 1 /\ Len(gone) \in Nat
        /\ \A i \in 1..Len(gone') : gone'[i] = gone[i + 1] /\ i + 1 \in 1..Len(gone)
    BY <1>2, <2>1, Sequences
  <2>3. Held(heard)'
    BY <1>1, <1>2, <1>3, <2>1, HeldParent DEF Held
  <2>4. \A i \in 1..Len(gone') : gone'[i] \in bodies /\ Held(gone'[i])
    BY <1>3, <2>2
  <2>5. BodiesOK'
    BY <1>1, <1>3, <2>1, <2>4 DEF StoreInv, BodiesOK
  <2>6. AllHeld'
    BY <1>1, <1>3, <2>1, <2>3, <2>4 DEF AllHeld, Held
  <2> QED BY <2>1, <2>5, <2>6
<1>14. CASE TellCame
  <2>1. /\ phase = "tell" /\ came # <<>> /\ came' = Tail(came) /\ heard' = Head(came)
        /\ UNCHANGED <<tip, at, from, to, gone, then, phase>>
    BY <1>14 DEF TellCame, place, call
  <2>2. /\ Len(came') = Len(came) - 1 /\ Len(came) \in Nat \ {0} /\ heard' = came[1]
        /\ \A i \in 1..Len(came') : came'[i] = came[i + 1] /\ i + 1 \in 1..Len(came)
    BY <1>2, <2>1, Sequences
  <2>3. Held(heard)'
    <3>1. 1 \in 1..Len(came)
      BY <2>2
    <3> QED BY <1>1, <1>3, <2>2, <3>1 DEF Held
  <2>4. \A i \in 1..Len(came') : came'[i] \in bodies /\ Held(came'[i])
    BY <1>3, <2>2
  <2>5. BodiesOK'
    BY <1>1, <1>3, <2>1, <2>4 DEF StoreInv, BodiesOK
  <2>6. AllHeld'
    BY <1>1, <1>3, <2>1, <2>3, <2>4 DEF AllHeld, Held
  <2> QED BY <2>1, <2>5, <2>6
<1> QED BY <1>5, <1>6, <1>7, <1>8, <1>9, <1>10, <1>11, <1>12, <1>13, <1>14 DEF PerformReorg

LEMMA InitStoreInv == ASSUME Init PROVE StoreInv
<1>1. OrderTypes
  <2>1. IsFiniteSet({Genesis})
    BY FS_Singleton
  <2>2. <<>> \in Seq({Genesis})
    OBVIOUS
  <2> QED BY <2>1, <2>2 DEF Init, OrderTypes
<1>2. \A b \in Blocks : Held(b) <=> Chain[b] \subseteq {Genesis}
  BY OnOwnChain DEF Init, Held
<1>3. AllHeld
  BY <1>2, TreeAssumption DEF Init, AllHeld
<1>4. BodiesOK
  BY DEF Init, BodiesOK, Nothing
<1>5. IncompleteWait
  BY TreeAssumption DEF Init, IncompleteWait, Complete
<1>6. ASSUME NEW b \in Blocks PROVE QueueOf(b) /\ Queued(b) /\ IdOK(b)
  BY DEF Init, QueueOf, Queued, IdOK
<1> QED BY <1>1, <1>3, <1>4, <1>5, <1>6 DEF StoreInv, Order

LEMMA StepStoreInv == ASSUME Inv, StoreInv, [Next]_vars PROVE StoreInv' /\ (at' # at => AtHand)
<1>1. Order' /\ \A x \in known : Held(x) => Held(x)'
  BY OrderStep DEF StoreInv, AllHeld
<1>2. CASE Stop \/ Resume \/ UNCHANGED vars
  <2>1. UNCHANGED <<known, received, bodies, waiting, tip, at, heard, from, to, gone, came, then, phase>>
    BY <1>2 DEF Stop, Resume, vars, index, order, place, reorg, call
  <2>2. BodiesOK' /\ AllHeld'
    BY <2>1, InPlace, <1>1 DEF StoreInv, BodiesOK
  <2> QED BY <1>1, <2>1, <2>2 DEF StoreInv
<1>3. CASE Arrival
  BY <1>1, <1>3, ArrivalBodies DEF Arrival, StoreInv
<1>4. CASE Operator
  BY <1>1, <1>4, OperatorBodies DEF StoreInv
<1>5. CASE Caller \/ ActivateBest
  BY <1>1, <1>5, CallerBodies DEF StoreInv
<1>6. CASE PerformReorg
  BY <1>1, <1>6, ReorgBodies DEF StoreInv
<1> QED BY <1>2, <1>3, <1>4, <1>5, <1>6 DEF Next

LEMMA StoreInvHolds == Spec => [](Inv /\ StoreInv)
BY InitInv, StepInv, InitStoreInv, StepStoreInv, PTL DEF Spec

-----------------------------------------------------------------------------
(* What a call may end on.                                                 *)

(* At least as good as the tip the call began with.                        *)
Ends(b) ==
    \/ b = before \/ Better(b, before)
    \/ Work[b] = Work[before] /\ seq[b] < 0 /\ seq[before] < 0

(* The reorganisation under way is back to where the call began, and       *)
(* nothing can be in its way.                                              *)
GoingBack == to = before /\ Between(from, to) \subseteq bodies /\ Sound(to)

Moving == phase \in {"check", "down", "up"}
Moved == phase \in {"tell", "done"}

(* Where the reorganisation under way may end, and where it may leave the  *)
(* tip.                                                                    *)
WayOut ==
    /\ phase = "look" => Ends(tip)
    /\ Moving /\ then.do \in {"nothing", "activate"} => Ends(to) /\ (Ends(from) \/ (GoingBack /\ then.do = "nothing"))
    /\ Moving /\ then.do \in {"extend", "mark"} => from = before
    /\ phase = "back" => Ends(from)
    /\ Moved /\ result \in {"missing", "invalid"} => Ends(tip)
    /\ Moved /\ result = "ok" /\ then.do \in {"nothing", "activate"} => Ends(tip)

(* What activate-block and invalidate-block came for.                      *)
Purpose ==
    phase \notin {"idle", "look"} =>
        /\ then.do = "mark" => then.block \in Chain[before]
        /\ then.do = "extend" =>
              /\ Work[then.block] > Work[before] /\ Sound(before)
              /\ Moved /\ result = "ok" => Between(before, tip) \subseteq bodies

EndInv == before \in failed \/ (WayOut /\ Purpose)

-----------------------------------------------------------------------------
(* What calls end on.                                                      *)

LEMMA EndsUp ==
    ASSUME Inv, StoreInv, NEW a \in Blocks, NEW c \in Blocks, Ends(a), Better(c, a)
    PROVE  Ends(c)
<1>1. /\ Work[a] \in Nat /\ Work[c] \in Nat /\ Work[before] \in Nat
      /\ seq[a] \in Int /\ seq[c] \in Int /\ seq[before] \in Int
  BY TreeAssumption DEF Inv, TypeOK, StoreInv, Order, OrderTypes
<1> QED BY <1>1 DEF Ends, Better

LEMMA TargetBetter ==
    ASSUME Inv, StepsPay, NEW t \in Candidates
    PROVE  StepTarget(t) \in known /\ Better(StepTarget(t), tip)
<1>1. t \in known /\ t \in Blocks /\ tip \in Blocks /\ Better(t, tip)
  BY DEF Candidates, Inv, TypeOK
<1>2. StepTarget(t) \in known
  BY <1>1, TargetKnown DEF Inv
<1>3. CASE Height[t] <= Height[tip] + StepBlocks
  BY <1>1, <1>2, <1>3 DEF StepTarget
<1>4. CASE ~(Height[t] <= Height[tip] + StepBlocks)
  <2> DEFINE h == Height[tip] + StepBlocks
  <2>1. h \in Nat /\ Height[Genesis] <= h /\ h <= Height[t]
    <3>1. Height[tip] \in Nat /\ Height[t] \in Nat /\ Height[Genesis] \in Nat /\ StepBlocks \in Nat
      BY <1>1, TreeAssumption, BoundAssumption
    <3>2. Height[Genesis] <= Height[tip]
      BY <1>1, GenesisIsLowest
    <3> QED BY <1>4, <3>1, <3>2
  <2>2. \E a \in Chain[t] : Height[a] = h
    BY <1>1, <2>1, EveryHeight
  <2>3. StepTarget(t) = CHOOSE a \in Chain[t] : Height[a] = h
    BY <1>4 DEF StepTarget
  <2>4. Height[StepTarget(t)] = Height[tip] + StepBlocks
    BY <2>2, <2>3
  <2> QED BY <1>1, <1>2, <2>4 DEF StepsPay, Better, Inv, TypeOK
<1> QED BY <1>3, <1>4

(* While a call runs no id changes and no mark goes.                       *)
LEMMA RunsOn ==
    ASSUME phase # "idle", [Next]_vars
    PROVE  UNCHANGED <<known, bodies, seq>> /\ failed \subseteq failed'
<1>1. ~Arrival /\ ~Operator /\ ~ActivateBest
  BY DEF Arrival, Header, Extend, PreReorg, StoreOnly, Prune, Awaited, Operator, Invalidate, Reconsider, Precious,
         Restart, ActivateBest, Idle
<1>2. PerformReorg => UNCHANGED <<known, bodies, seq>> /\ failed \subseteq failed'
  BY DEF PerformReorg, index, order, Check, Disconnect, Land, Connect, EndConnect, FailConnect, RollbackDown,
         RollbackUp, EndRollback, TellGone, TellCame, Told, Mark
<1>3. Caller => UNCHANGED <<known, bodies, seq>> /\ failed \subseteq failed'
  BY DEF Caller, index, order, Done, AfterMissing, AfterExtend, AfterExtendBad, AfterStep, AfterLeave, Look, Mark
<1>4. Stop \/ Resume \/ UNCHANGED vars => UNCHANGED <<known, bodies, seq>> /\ failed \subseteq failed'
  BY DEF Stop, Resume, vars, index, order
<1> QED BY <1>1, <1>2, <1>3, <1>4 DEF Next

(* A call stays marked to the end.                                         *)
LEMMA MarkedStays ==
    ASSUME Inv, phase # "idle", before \in failed, [Next]_vars
    PROVE  EndInv'
<1>1. failed \subseteq failed' /\ ~Arrival /\ ~Operator /\ ~ActivateBest
  BY RunsOn DEF Arrival, Header, Extend, PreReorg, StoreOnly, Prune, Awaited, Operator, Invalidate, Reconsider,
     Precious, Restart, ActivateBest, Idle
<1>2. before' = before \/ phase' = "idle"
  <2>1. PerformReorg => before' = before
    BY DEF PerformReorg, Check, Disconnect, Land, Connect, EndConnect, FailConnect, RollbackDown,
           RollbackUp, EndRollback, TellGone, TellCame, Told, call
  <2>2. Caller => before' = before \/ phase' = "idle"
    BY DEF Caller, Done, AfterMissing, AfterExtend, AfterExtendBad, AfterStep, AfterLeave, Look, ActivateRound,
           ActivateOnce, Return, Idle
  <2>3. Stop \/ Resume \/ UNCHANGED vars => before' = before
    BY DEF Stop, Resume, vars, call
  <2> QED BY <1>1, <2>1, <2>2, <2>3 DEF Next
<1>3. phase' = "idle" => WayOut' /\ Purpose'
  BY DEF WayOut, Purpose, Moving, Moved
<1> QED BY <1>1, <1>2, <1>3 DEF EndInv

(* A call begins.                                                          *)
LEMMA BeginsWell ==
    ASSUME Inv, StoreInv, StoreInv', StepsPay, phase = "idle", Arrival \/ Operator \/ ActivateBest
    PROVE  EndInv'
<1>0. phase' = "idle" => EndInv'
  BY DEF EndInv, WayOut, Purpose, Moving, Moved
<1>1. tip \in Blocks /\ tip \in known /\ Sound(tip)
  BY DEF Inv, TypeOK, AllSound
<1>2. ASSUME NEW b \in Blocks, Header(b) \/ StoreOnly(b) \/ Prune(b) PROVE EndInv'
  BY <1>0, <1>2 DEF Header, StoreOnly, Prune, Awaited, Quiet, call
<1>3. ASSUME NEW b \in Blocks, Extend(b) PROVE EndInv'
  <2>1. CASE Quiet
    BY <1>0, <2>1 DEF Quiet, call
  <2>2. CASE ConnectTip(b) /\ before' = tip
    <3>1. /\ tip' = b /\ phase' = "tell" /\ result' = "ok" /\ then' = Nothing /\ before' = tip /\ Parent[b] = tip
          /\ b # Genesis
      BY <1>1, <1>3, <2>2, OnOwnChain DEF ConnectTip, Extend, Awaited
    <3>2. Work[b] > Work[tip]
      BY <3>1, TreeAssumption
    <3>3. Ends(tip)'
      BY <3>1, <3>2 DEF Ends, Better
    <3> QED BY <3>1, <3>3 DEF EndInv, WayOut, Purpose, Moving, Moved, Nothing
  <2> QED BY <1>3, <2>1, <2>2 DEF Extend
<1>4. ASSUME NEW b \in Blocks, PreReorg(b) PROVE EndInv'
  <2>1. /\ phase' = "check" /\ from' = tip /\ before' = tip /\ then' = [do |-> "extend", block |-> b]
        /\ Work[b] > Work[tip] /\ failed' = failed
    BY <1>4 DEF PreReorg, Reorg
  <2>2. Sound(before)'
    BY <1>1, <2>1 DEF Sound
  <2> QED BY <2>1, <2>2 DEF EndInv, WayOut, Purpose, Moving, Moved
<1>5. ASSUME NEW b \in Blocks, Invalidate(b) PROVE EndInv'
  <2>1. CASE b \in Chain[tip]
    <3>1. phase' = "check" /\ from' = tip /\ before' = tip /\ then' = [do |-> "mark", block |-> b]
      BY <1>5, <2>1 DEF Invalidate, Reorg
    <3> QED BY <2>1, <3>1 DEF EndInv, WayOut, Purpose, Moving, Moved
  <2>2. CASE b \notin Chain[tip]
    <3>1. phase' = "look" /\ before' = tip /\ tip' = tip
      BY <1>5, <2>2 DEF Invalidate, place
    <3> QED BY <3>1 DEF EndInv, WayOut, Purpose, Moving, Moved, Ends
  <2> QED BY <2>1, <2>2
<1>6. ASSUME NEW b \in Blocks, Reconsider(b) PROVE EndInv'
  <2>1. phase' = "look" /\ before' = tip /\ tip' = tip
    BY <1>6 DEF Reconsider, place
  <2> QED BY <2>1 DEF EndInv, WayOut, Purpose, Moving, Moved, Ends
<1>7. ASSUME NEW b \in Blocks, Precious(b) PROVE EndInv'
  <2>1. CASE Quiet
    BY <1>0, <2>1 DEF Quiet, call
  <2>2. CASE ~Quiet
    <3>1. /\ phase' = "check" /\ from' = tip /\ to' = b /\ before' = tip /\ then' = Nothing /\ b # tip
          /\ Work[b] >= Work[tip]
      BY <1>7, <2>2 DEF Precious, Reorg
    <3>2. seq'[b] < 0 /\ seq'[b] \in Int /\ seq'[tip] \in Int
      <4>1. seq'[b] < 0
        BY <1>7, PreciousKeepsOrder DEF Inv, StoreInv
      <4>2. seq' \in [Blocks -> Int]
        BY DEF StoreInv, Order, OrderTypes
      <4> QED BY <1>1, <4>1, <4>2
    <3>3. Ends(to)' /\ Ends(from)'
      <4>1. Work[b] \in Nat /\ Work[tip] \in Nat
        BY <1>1, TreeAssumption
      <4> QED BY <3>1, <3>2, <4>1 DEF Ends, Better
    <3> QED BY <3>1, <3>3 DEF EndInv, WayOut, Purpose, Moving, Moved, Nothing
  <2> QED BY <2>1, <2>2
<1>8. CASE Restart
  BY <1>0, <1>8 DEF Restart, call
<1>9. CASE ActivateBest
  <2>1. CASE MaxTries > 0 /\ Candidates # {}
    <3>1. PICK best \in BestValidTips : Reorg(StepTarget(best), [do |-> "activate", block |-> Genesis])
      BY <1>9, <2>1 DEF ActivateBest, ActivateRound
    <3>2. best \in Candidates
      BY DEF BestValidTips, BestOf, Reachable
    <3>3. /\ phase' = "check" /\ from' = tip /\ before' = tip /\ to' = StepTarget(best)
          /\ then' = [do |-> "activate", block |-> Genesis] /\ seq' = seq
      BY <1>9, <2>1, <3>1 DEF ActivateBest, ActivateRound, Reorg, Idle, order
    <3>4. Ends(to)' /\ Ends(from)'
      BY <3>2, <3>3, TargetBetter DEF Ends, Better
    <3> QED BY <3>3, <3>4 DEF EndInv, WayOut, Purpose, Moving, Moved
  <2>2. CASE ~(MaxTries > 0 /\ Candidates # {})
    BY <1>0, <1>9, <2>2 DEF ActivateBest, ActivateRound, Return
  <2> QED BY <2>1, <2>2
<1> QED BY <1>2, <1>3, <1>4, <1>5, <1>6, <1>7, <1>8, <1>9 DEF Arrival, Operator

(* perform-reorg goes on.                                                  *)
LEMMA GoesOn ==
    ASSUME Inv, StoreInv, EndInv, before \notin failed, PerformReorg
    PROVE  EndInv'
<1>1. WayOut /\ Purpose
  BY DEF EndInv
<1>2. /\ UNCHANGED <<known, bodies, seq, before, then, from, to>>
  BY DEF PerformReorg, index, order, reorg, call, Check, Disconnect, Land, Connect, EndConnect, FailConnect,
         RollbackDown, RollbackUp, EndRollback, TellGone, TellCame, Told
<1>3. \A b : Ends(b)' <=> Ends(b)
  BY <1>2 DEF Ends, Better
<1>4. then.do \in {"nothing", "extend", "activate", "mark"}
  BY DEF Inv, TypeOK, Orders
<1>5. CASE Check
  <2>1. phase = "check" /\ tip' = tip /\ failed' = failed /\ (Refused = "no" => phase' = "down")
        /\ (Refused # "no" => phase' = "done" /\ result' = Refused)
    BY <1>5 DEF Check, index, place
  <2>2. tip = from
    BY <2>1 DEF Inv, Placed, Walk, ComesUp, Fork
  <2>3. GoingBack => Refused = "no"
    BY DEF GoingBack, Refused, Sound
  <2>4. GoingBack' <=> GoingBack
    BY <1>2, <2>1 DEF GoingBack, Sound
  <2>5. CASE Refused = "no"
    BY <1>1, <1>2, <1>3, <2>1, <2>4, <2>5 DEF EndInv, WayOut, Purpose, Moving, Moved, Sound
  <2>6. CASE Refused # "no"
    <3>1. Refused \in {"invalid", "missing"}
      BY <2>6 DEF Refused
    <3>2. Ends(tip)
      BY <1>1, <1>4, <2>1, <2>2, <2>3, <2>6 DEF WayOut, Moving, Ends
    <3> QED BY <1>1, <1>2, <1>3, <2>1, <2>6, <3>1, <3>2 DEF EndInv, WayOut, Purpose, Moving, Moved, Sound, Ends, Better
  <2> QED BY <2>5, <2>6
<1>6. CASE Disconnect \/ Connect \/ (Land /\ phase' = "up")
  <2>1. phase \in {"down", "up"} /\ phase' \in {"down", "up"} /\ failed' = failed
    BY <1>6 DEF Disconnect, Connect, Land, call, index
  <2>2. GoingBack' <=> GoingBack
    BY <1>2, <2>1 DEF GoingBack, Sound
  <2> QED BY <1>1, <1>2, <1>3, <2>1, <2>2 DEF EndInv, WayOut, Purpose, Moving, Moved, Sound
<1>7. CASE (Land /\ phase' # "up") \/ EndConnect
  <2>1. /\ phase \in {"down", "up"} /\ phase' = "tell" /\ failed' = failed
        /\ result' = "interrupted" \/ (result' = "ok" /\ tip' = to /\ phase = "up")
    BY <1>7 DEF EndConnect, Land, index, place
  <2>2. CASE result' = "interrupted"
    BY <1>1, <1>2, <2>1, <2>2 DEF EndInv, WayOut, Purpose, Moving, Moved, Sound
  <2>3. CASE result' = "ok" /\ tip' = to /\ phase = "up"
    <3>1. then.do \in {"nothing", "activate"} => Ends(to)
      BY <1>1, <2>1 DEF WayOut, Moving
    <3>2. then.do = "extend" => Between(before, to) \subseteq bodies
      <4>1. then.do = "extend" => from = before
        BY <1>1, <2>1 DEF WayOut, Moving
      <4> QED BY <2>3, <4>1 DEF StoreInv, BodiesOK
    <3>3. Ends(tip)' <=> Ends(to)
      BY <1>2, <2>3 DEF Ends, Better
    <3>4. WayOut'
      BY <1>2, <2>1, <2>3, <3>1, <3>3 DEF WayOut, Moving, Moved
    <3>5. Purpose'
      BY <1>1, <1>2, <2>1, <2>3, <3>2 DEF Purpose, Moved, Sound
    <3> QED BY <3>4, <3>5 DEF EndInv
  <2> QED BY <2>1, <2>2, <2>3
<1>8. CASE FailConnect
  <2> DEFINE b == NextTo(tip, to)
  <2>1. /\ phase = "up" /\ phase' = "back" /\ tip # to /\ b \in Bad /\ Mark(b)
    BY <1>8 DEF FailConnect
  <2>2. b \in known /\ b \in Chain[to]
    BY <2>1, NextOfBranch
  <2> HIDE DEF b
  <2>3. ~GoingBack
    BY <2>1, <2>2 DEF GoingBack, Sound
  <2>4. Ends(from)
    BY <1>1, <1>4, <2>1, <2>3 DEF WayOut, Moving, Ends
  <2>5. Sound(before) => Sound(before)'
    <3>1. \A x \in known : Sound(x) => (Sound(x))'
      BY <1>2, <2>1, <2>2, MarkKeeps DEF Inv
    <3> QED BY <1>2, <3>1 DEF Inv, TypeOK, Sound
  <2>6. WayOut'
    BY <1>2, <1>3, <2>1, <2>4 DEF WayOut, Moving, Moved, Ends, Better
  <2>7. Purpose'
    BY <1>1, <1>2, <2>1, <2>5 DEF Purpose, Moved
  <2> QED BY <2>6, <2>7 DEF EndInv
<1>9. CASE RollbackDown \/ RollbackUp
  <2>1. phase = "back" /\ phase' = "back" /\ failed' = failed
    BY <1>9 DEF RollbackDown, RollbackUp, call, index
  <2> QED BY <1>1, <1>2, <1>3, <2>1 DEF EndInv, WayOut, Purpose, Moving, Moved, Sound, Ends, Better
<1>10. CASE EndRollback
  <2>1. phase = "back" /\ phase' = "done" /\ failed' = failed /\ tip' = from /\ result' = "invalid"
    BY <1>10 DEF EndRollback, index
  <2>2. Ends(tip)'
    BY <1>1, <1>2, <2>1 DEF WayOut, Ends, Better
  <2> QED BY <1>1, <1>2, <2>1, <2>2 DEF EndInv, WayOut, Purpose, Moving, Moved, Sound
<1>11. CASE TellGone \/ TellCame \/ Told
  <2>1. phase = "tell" /\ phase' \in {"tell", "done"} /\ UNCHANGED <<failed, tip, result>>
    BY <1>11 DEF TellGone, TellCame, Told, index, place, call
  <2> QED BY <1>1, <1>2, <1>3, <2>1 DEF EndInv, WayOut, Purpose, Moving, Moved, Sound, Ends, Better
<1> QED BY <1>5, <1>6, <1>7, <1>8, <1>9, <1>10, <1>11 DEF PerformReorg

(* The caller goes on.                                                     *)
LEMMA RoundGoesOn ==
    ASSUME Inv, StoreInv, StepsPay, phase # "idle", Ends(tip), NEW round, ActivateRound(round),
           UNCHANGED <<seq, failed>>
    PROVE  EndInv' /\ (phase' = "idle" => tip' = tip)
<1>1. CASE round > 0 /\ Candidates # {}
  <2>1. PICK best \in BestValidTips : Reorg(StepTarget(best), [do |-> "activate", block |-> Genesis])
    BY <1>1 DEF ActivateRound
  <2>2. best \in Candidates
    BY DEF BestValidTips, BestOf, Reachable
  <2>3. /\ phase' = "check" /\ from' = tip /\ before' = before /\ to' = StepTarget(best)
        /\ then' = [do |-> "activate", block |-> Genesis]
    BY <1>1, <2>1 DEF ActivateRound, Reorg, Idle
  <2>4. Ends(StepTarget(best))
    BY <2>2, TargetBetter, EndsUp DEF Inv, TypeOK
  <2>5. Ends(to)' /\ Ends(from)'
    BY <2>3, <2>4 DEF Ends, Better
  <2> QED BY <2>3, <2>5 DEF EndInv, WayOut, Purpose, Moving, Moved
<1>2. CASE ~(round > 0 /\ Candidates # {})
  <2>1. phase' = "idle" /\ tip' = tip
    BY <1>2 DEF ActivateRound, Return, place
  <2> QED BY <2>1 DEF EndInv, WayOut, Purpose, Moving, Moved
<1> QED BY <1>1, <1>2

LEMMA CallerGoesOn ==
    ASSUME Inv, StoreInv, EndInv, StepsPay, before \notin failed, Caller
    PROVE  EndInv' /\ (phase' = "idle" /\ result # "interrupted" => Ends(tip) /\ tip' = tip)
<1>1. WayOut /\ Purpose
  BY DEF EndInv
<1>2. seq' = seq /\ known' = known /\ bodies' = bodies
  BY DEF Caller, index, order, Done, AfterMissing, AfterExtend, AfterExtendBad, AfterStep, AfterLeave, Look
<1>3. before \in known /\ before \in Blocks
  BY DEF Inv, TypeOK
<1>4. CASE Look
  <2>1. phase = "look" /\ Ends(tip) /\ ActivateOnce /\ failed' = failed
    BY <1>1, <1>4 DEF Look, WayOut, index
  <2>2. CASE Reachable # {}
    <3>1. PICK best \in BestOf(Reachable) : Reorg(best, Nothing)
      BY <2>1, <2>2 DEF ActivateOnce
    <3>2. best \in Blocks /\ Better(best, tip) /\ tip \in Blocks
      BY DEF BestOf, Reachable, Candidates, Inv, TypeOK
    <3>3. phase' = "check" /\ from' = tip /\ before' = before /\ to' = best /\ then' = Nothing
      BY <2>1, <2>2, <3>1 DEF ActivateOnce, Reorg
    <3>4. Ends(best)
      BY <2>1, <3>2, EndsUp
    <3>5. Ends(to)' /\ Ends(from)'
      BY <1>2, <2>1, <3>3, <3>4 DEF Ends, Better
    <3> QED BY <3>3, <3>5 DEF EndInv, WayOut, Purpose, Moving, Moved, Nothing
  <2>3. CASE Reachable = {}
    <3>1. phase' = "idle" /\ tip' = tip
      BY <2>1, <2>3 DEF ActivateOnce, Return, place
    <3> QED BY <2>1, <3>1 DEF EndInv, WayOut, Purpose, Moving, Moved
  <2> QED BY <2>2, <2>3
<1>5. CASE Done
  <2>1. phase = "done" /\ phase' = "idle" /\ tip' = tip
    BY <1>5 DEF Done, Return, place
  <2>2. result \in {"ok", "missing", "invalid", "interrupted"}
    BY DEF Inv, TypeOK
  <2>3. result = "ok" => then.do = "nothing"
    BY <1>5 DEF Done, Nothing
  <2>4. result # "interrupted" => Ends(tip)
    BY <1>1, <2>1, <2>2, <2>3 DEF WayOut, Moved
  <2> QED BY <2>1, <2>4 DEF EndInv, WayOut, Purpose, Moving, Moved
<1>6. CASE AfterMissing
  <2>1. phase = "done" /\ result = "missing" /\ ActivateRound(MaxTries) /\ failed' = failed
    BY <1>6 DEF AfterMissing, index
  <2>2. Ends(tip)
    BY <1>1, <2>1 DEF WayOut, Moved
  <2> QED BY <1>2, <2>1, <2>2, RoundGoesOn
<1>7. CASE AfterStep
  <2>1. phase = "done" /\ result = "ok" /\ then.do = "activate" /\ ActivateRound(tries) /\ failed' = failed
    BY <1>7 DEF AfterStep, index
  <2>2. Ends(tip)
    BY <1>1, <2>1 DEF WayOut, Moved
  <2> QED BY <1>2, <2>1, <2>2, RoundGoesOn
<1>8. CASE AfterExtend
  <2>1. /\ phase = "done" /\ then.do = "extend" /\ tip' = then.block /\ phase' = "tell" /\ result' = "ok"
        /\ then' = Nothing /\ before' = before
    BY <1>8 DEF AfterExtend, ConnectTip
  <2>2. Work[then.block] > Work[before]
    BY <1>1, <2>1 DEF Purpose
  <2>3. Ends(tip)'
    BY <2>1, <2>2 DEF Ends, Better
  <2> QED BY <2>1, <2>3 DEF EndInv, WayOut, Purpose, Moving, Moved, Nothing
<1>9. CASE AfterExtendBad
  <2> DEFINE b == then.block
  <2>1. /\ phase = "done" /\ then.do = "extend" /\ result = "ok" /\ b \in Bad /\ Mark(b)
        /\ phase' = "check" /\ from' = tip /\ to' = before /\ then' = Nothing /\ before' = before
    BY <1>9 DEF AfterExtendBad, Reorg
  <2>2. b \in known
    BY <2>1, OnParent
  <2>3. Sound(before) /\ Between(before, tip) \subseteq bodies
    BY <1>1, <2>1 DEF Purpose, Moved
  <2> HIDE DEF b
  <2>4. Sound(to)'
    <3>1. \A x \in known : Sound(x) => (Sound(x))'
      BY <1>2, <2>1, <2>2, MarkKeeps DEF Inv
    <3> QED BY <1>3, <2>1, <2>3, <3>1 DEF Sound
  <2>5. GoingBack' /\ Ends(to)'
    BY <1>2, <2>1, <2>3, <2>4 DEF GoingBack, Between, Ends
  <2> QED BY <2>1, <2>5 DEF EndInv, WayOut, Purpose, Moving, Moved, Nothing
<1>10. CASE AfterLeave
  <2> DEFINE b == then.block
  <2>1. phase = "done" /\ then.do = "mark" /\ result = "ok" /\ Mark(b) /\ phase' = "look" /\ before' = before
    BY <1>10 DEF AfterLeave
  <2>2. b \in Chain[before]
    BY <1>1, <2>1 DEF Purpose
  <2>3. before \in failed'
    BY <1>3, <2>1, <2>2 DEF Mark, Descendants
  <2> QED BY <2>1, <2>3 DEF EndInv
<1> QED BY <1>4, <1>5, <1>6, <1>7, <1>8, <1>9, <1>10 DEF Caller

LEMMA IdleAtOnce == ASSUME phase # "idle", phase' = "idle", [Next]_vars PROVE Caller
<1>1. ~Arrival /\ ~Operator /\ ~ActivateBest
  BY DEF Arrival, Header, Extend, PreReorg, StoreOnly, Prune, Awaited, Operator, Invalidate, Reconsider, Precious,
         Restart, ActivateBest, Idle
<1>2. ~PerformReorg
  <2>1. Check => phase' # "idle"
    BY DEF Check
  <2>2. Land \/ EndConnect \/ FailConnect \/ EndRollback \/ Told => phase' # "idle"
    BY DEF Land, EndConnect, FailConnect, EndRollback, Told
  <2>3. Disconnect \/ Connect \/ RollbackDown \/ RollbackUp \/ TellGone \/ TellCame => phase' = phase
    BY DEF Disconnect, Connect, RollbackDown, RollbackUp, TellGone, TellCame, call
  <2> QED BY <2>1, <2>2, <2>3 DEF PerformReorg
<1>3. Stop \/ Resume \/ UNCHANGED vars => phase' = phase
  BY DEF Stop, Resume, vars, call
<1> QED BY <1>1, <1>2, <1>3 DEF Next

LEMMA StepEndInv == ASSUME Inv, StoreInv, EndInv, StoreInv', StepsPay, [Next]_vars PROVE EndInv'
<1>1. CASE phase = "idle"
  <2>1. CASE Arrival \/ Operator \/ ActivateBest
    BY <1>1, <2>1, BeginsWell
  <2>2. CASE Stop \/ Resume \/ UNCHANGED vars
    <3>1. phase' = "idle"
      BY <1>1, <2>2 DEF Stop, Resume, vars, call
    <3> QED BY <3>1 DEF EndInv, WayOut, Purpose, Moving, Moved
  <2>3. ~PerformReorg /\ ~Caller
    BY <1>1 DEF PerformReorg, Caller, Check, Disconnect, Land, Connect, EndConnect, FailConnect, RollbackDown,
           RollbackUp, EndRollback, TellGone, TellCame, Told, Done, AfterMissing, AfterExtend, AfterExtendBad,
           AfterStep, AfterLeave, Look
  <2> QED BY <2>1, <2>2, <2>3 DEF Next
<1>2. CASE phase # "idle" /\ before \in failed
  BY <1>2, MarkedStays
<1>3. CASE phase # "idle" /\ before \notin failed
  <2>1. CASE PerformReorg
    BY <1>3, <2>1, GoesOn
  <2>2. CASE Caller
    BY <1>3, <2>2, CallerGoesOn
  <2>3. CASE Stop \/ Resume \/ UNCHANGED vars
    <3>1. UNCHANGED <<bodies, seq, failed, tip, from, to, before, then, phase, result>>
      BY <2>3 DEF Stop, Resume, vars, index, order, place, reorg, call
    <3> QED BY <1>3, <3>1 DEF EndInv, WayOut, Purpose, Moving, Moved, Ends, Better, GoingBack, Sound
  <2>4. ~Arrival /\ ~Operator /\ ~ActivateBest
    BY <1>3 DEF Arrival, Header, Extend, PreReorg, StoreOnly, Prune, Awaited, Operator, Invalidate, Reconsider,
           Precious, Restart, ActivateBest, Idle
  <2> QED BY <2>1, <2>2, <2>3, <2>4 DEF Next
<1> QED BY <1>1, <1>2, <1>3

-----------------------------------------------------------------------------
(* The theorems on bodies and on what calls end on.                        *)

(* Of the stored bodies exactly those wait for an ancestor's that lack one *)
(* (note-block-received, drop-unlinked-block, link-unlinked-bodies), an id *)
(* says that the whole branch came, and no two blocks tie on one.          *)
THEOREM WaitingIsForAncestors == Spec => []IdsFollowBodies
<1>1. ASSUME Inv, StoreInv PROVE IdsFollowBodies
  <2>1. ASSUME NEW b \in known \ {Genesis}, Waits(b), Chain[b] \ Chain[tip] \subseteq bodies PROVE FALSE
    <3> DEFINE S == {c \in Chain[b] : Waits(c)}
    <3>0. Order /\ Held(tip)
      BY <1>1 DEF StoreInv, AllHeld
    <3>1. b \in Blocks /\ tip \in Blocks
      BY <1>1 DEF Inv, TypeOK
    <3>2. S \in SUBSET Blocks /\ S # {}
      BY <2>1, <3>1, OnOwnChain
    <3>3. PICK c \in S : \A d \in S : Height[c] <= Height[d]
      BY <3>2, Lowest
    <3>4. c \in Blocks /\ c \in Chain[b] /\ Waits(c)
      BY <3>2
    <3>5. c \in Blocks \ {Genesis} /\ Parent[c] \in Blocks
      BY <3>0, <3>1, <3>4, Waiter, OnOwnChain
    <3>6. Parent[c] \in Chain[b] /\ Height[c] = Height[Parent[c]] + 1 /\ Height[Parent[c]] \in Nat
      <4>1. Parent[c] \in Chain[c]
        BY <3>5, Branch, OnOwnChain
      <4> QED BY <3>1, <3>4, <3>5, <4>1, ChainsNest, Branch
    <3>7. waiting[Parent[c]] # <<>>
      BY <3>4 DEF Waits, Range
    <3>8. Parent[c] \notin Chain[tip]
      BY <3>0, <3>7 DEF Held
    <3>9. Waits(Parent[c])
      BY <2>1, <3>0, <3>5, <3>6, <3>7, <3>8 DEF Order, Queued
    <3>10. Height[c] <= Height[Parent[c]]
      BY <3>3, <3>6, <3>9
    <3> QED BY <3>6, <3>10
  <2>2. \A b \in bodies \ Complete : Waits(b)
    BY <1>1 DEF StoreInv, Order, IncompleteWait
  <2>3. \A b \in Blocks : IdOK(b)
    BY <1>1 DEF StoreInv, Order
  <2> QED BY <2>1, <2>2, <2>3 DEF IdOK, IdsFollowBodies
<1> QED BY <1>1, StoreInvHolds, PTL

(* A block is only taken off or put on with its body at hand, in a         *)
(* rollback and a revert too (perform-reorg checks once, beforehand).      *)
THEOREM BodiesStay == Spec => BodiesAtHand
<1>1. Inv /\ StoreInv /\ [Next]_vars => [at' # at => AtHand]_vars
  BY StepStoreInv
<1> QED BY <1>1, StoreInvHolds, PTL DEF Spec, BodiesAtHand, AtHand

(* A call that is not stopped and is not invalidateblock ends on the tip   *)
(* it began with or on a better one, and every move on the way had its     *)
(* bodies.                                                                 *)
THEOREM CallsEndNoWorse == ASSUME StepsPay PROVE Spec => MovesAreSound
<1> DEFINE A == ~Idle /\ Idle' /\ before \notin failed /\ ~stopping /\ result # "interrupted"
                  => \/ tip' = before \/ Better(tip', before)
                     \/ Work[tip'] = Work[before] /\ seq[tip'] < 0 /\ seq[before] < 0
<1>1. Inv /\ StoreInv /\ EndInv /\ [Next]_vars => [A]_vars
  <2> SUFFICES ASSUME Inv, StoreInv, EndInv, [Next]_vars, phase # "idle", phase' = "idle", before \notin failed,
                      result # "interrupted"
               PROVE  \/ tip' = before \/ Better(tip', before)
                      \/ Work[tip'] = Work[before] /\ seq[tip'] < 0 /\ seq[before] < 0
    BY DEF Idle
  <2>1. Ends(tip) /\ tip' = tip
    BY IdleAtOnce, CallerGoesOn
  <2> QED BY <2>1 DEF Ends
<1>2. Init => EndInv
  BY DEF Init, EndInv, WayOut, Purpose, Moving, Moved
<1>3. Inv /\ StoreInv /\ EndInv /\ StoreInv' /\ [Next]_vars => EndInv'
  BY StepEndInv
<1> HIDE DEF A
<1>4. Spec => [][A]_vars
  BY <1>1, <1>2, <1>3, StoreInvHolds, PTL DEF Spec
<1> USE DEF A
<1>5. Spec => EveryMoveImproves
  BY <1>4, PTL DEF EveryMoveImproves
<1> QED BY <1>5, BodiesStay, PTL DEF MovesAreSound
=============================================================================
