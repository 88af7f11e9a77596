---------------------------- MODULE IndexesProofs -----------------------------
(***************************************************************************)
(* Proofs about the optional indexes, for every tree of blocks, each kind  *)
(* of index, and any number of crashes and of failing writes and reads.    *)
(***************************************************************************)
EXTENDS Indexes, FiniteSetTheorems, WellFoundedInduction, TLAPS

-----------------------------------------------------------------------------
(* The tree.  What holds of every block because it holds of genesis and is *)
(* handed on by parents is shown at a lowest block without it.             *)

LEMMA Lowest ==
    ASSUME NEW S \in SUBSET Blocks, S # {}
    PROVE  \E b \in S : \A c \in S : Height[b] <= Height[c]
<1> DEFINE T == {Height[b] : b \in S}
           R == OpToRel(<, Nat)
<1>1. T \subseteq Nat /\ T # {}
  BY TreeAssumption
<1>2. IsWellFoundedOn(R, Nat)
  BY NatLessThanWellFounded, Zenon
<1>3. ASSUME NEW m \in Nat, NEW n \in Nat, m < n PROVE <<m, n>> \in R
  BY <1>3 DEF OpToRel
<1> HIDE DEF T, R
<1>4. PICK n \in T : \A m \in T : ~(<<m, n>> \in R)
  BY <1>1, <1>2, WFMin
<1>5. \A m \in T : n <= m
  <2> TAKE m \in T
  <2>1. m \in Nat /\ n \in Nat
    BY <1>1
  <2>2. ~(m < n)
    BY <1>3, <1>4, <2>1
  <2> QED BY <2>1, <2>2
<1> QED BY <1>5 DEF T

LEMMA Branch ==
    ASSUME NEW b \in Blocks \ {Genesis}
    PROVE  /\ Parent[b] \in Blocks /\ Chain[b] = Chain[Parent[b]] \cup {b}
           /\ b \notin Chain[Parent[b]] /\ Height[b] = Height[Parent[b]] + 1
           /\ Height[b] \in Nat /\ Height[Parent[b]] \in Nat
BY TreeAssumption

(* A property that genesis has and every child of a block that has it.     *)
LEMMA Inherited ==
    ASSUME NEW S \in SUBSET Blocks, Genesis \in S,
           \A b \in Blocks \ {Genesis} : Parent[b] \in S => b \in S
    PROVE  S = Blocks
<1> SUFFICES ASSUME S # Blocks PROVE FALSE
  OBVIOUS
<1>1. PICK b \in Blocks \ S : \A c \in Blocks \ S : Height[b] <= Height[c]
  BY Lowest
<1>2. b # Genesis /\ Parent[b] \in Blocks \ S
  BY <1>1, Branch
<1> QED BY <1>1, <1>2, Branch

LEMMA OnOwnChain == \A b \in Blocks : b \in Chain[b] /\ Genesis \in Chain[b] /\ Chain[b] \subseteq Blocks
<1> DEFINE S == {b \in Blocks : Genesis \in Chain[b]}
<1>1. S = Blocks
  <2>1. Genesis \in S
    BY TreeAssumption
  <2>2. \A b \in Blocks \ {Genesis} : Parent[b] \in S => b \in S
    BY Branch
  <2> HIDE DEF S
  <2>3. S \in SUBSET Blocks
    BY DEF S
  <2> QED BY <2>1, <2>2, <2>3, Inherited
<1>2. \A b \in Blocks : b \in Chain[b] /\ Chain[b] \subseteq Blocks
  BY TreeAssumption
<1> QED BY <1>1, <1>2

LEMMA ChainsNest == \A b \in Blocks : \A a \in Chain[b] : Chain[a] \subseteq Chain[b]
<1> DEFINE S == {b \in Blocks : \A a \in Chain[b] : Chain[a] \subseteq Chain[b]}
<1>1. Genesis \in S
  BY TreeAssumption
<1>2. \A b \in Blocks \ {Genesis} : Parent[b] \in S => b \in S
  BY Branch
<1>3. S \in SUBSET Blocks
  OBVIOUS
<1> HIDE DEF S
<1>4. S = Blocks
  BY <1>1, <1>2, <1>3, Inherited
<1> QED BY <1>4 DEF S

LEMMA EveryHeight ==
    ASSUME NEW b \in Blocks, NEW h \in Nat, Height[Genesis] <= h, h <= Height[b]
    PROVE  \E a \in Chain[b] : Height[a] = h
<1> DEFINE S == {x \in Blocks : h <= Height[x] => \E a \in Chain[x] : Height[a] = h}
<1>1. Genesis \in S /\ S \in SUBSET Blocks
  BY TreeAssumption
<1>2. ASSUME NEW x \in Blocks \ {Genesis}, Parent[x] \in S PROVE x \in S
  <2>1. CASE h = Height[x]
    BY <2>1, OnOwnChain
  <2>2. CASE h # Height[x]
    BY <1>2, <2>2, Branch
  <2> QED BY <2>1, <2>2
<1> HIDE DEF S
<1>3. S = Blocks
  BY <1>1, <1>2, Inherited
<1> QED BY <1>3 DEF S

(* A chain is a line.                                                      *)
LEMMA Below == \A b \in Blocks : \A a \in Chain[b] : Height[a] <= Height[b] /\ (a # b => Height[a] < Height[b])
<1> DEFINE S == {b \in Blocks : \A a \in Chain[b] : Height[a] <= Height[b] /\ (a # b => Height[a] < Height[b])}
<1>1. Genesis \in S /\ S \in SUBSET Blocks
  BY TreeAssumption
<1>2. ASSUME NEW b \in Blocks \ {Genesis}, Parent[b] \in S PROVE b \in S
  <2>1. ASSUME NEW a \in Chain[Parent[b]] PROVE Height[a] < Height[b]
    <3>1. Height[a] <= Height[Parent[b]] /\ a \in Blocks
      BY <1>2, OnOwnChain
    <3>2. Height[a] \in Nat
      BY <3>1, TreeAssumption
    <3> QED BY <3>1, <3>2, Branch
  <2>2. Chain[b] = Chain[Parent[b]] \cup {b} /\ Height[b] \in Nat
    BY Branch
  <2>3. ASSUME NEW a \in Chain[b] PROVE Height[a] <= Height[b] /\ (a # b => Height[a] < Height[b])
    <3>1. CASE a = b
      BY <2>2, <3>1
    <3>2. CASE a # b
      <4>1. a \in Chain[Parent[b]] /\ a \in Blocks
        BY <2>2, <3>2, OnOwnChain
      <4>2. Height[a] \in Nat
        BY <4>1, TreeAssumption
      <4> QED BY <2>1, <2>2, <4>1, <4>2
    <3> QED BY <3>1, <3>2
  <2> QED BY <2>3
<1> HIDE DEF S
<1>3. S = Blocks
  BY <1>1, <1>2, Inherited
<1> QED BY <1>3 DEF S

LEMMA ChainOrder ==
    ASSUME NEW y \in Blocks, NEW a \in Chain[y], NEW b \in Chain[y], Height[a] <= Height[b]
    PROVE  a \in Chain[b]
<1> DEFINE S == {x \in Blocks : \A c, d \in Chain[x] : Height[c] <= Height[d] => c \in Chain[d]}
<1>1. Genesis \in S /\ S \in SUBSET Blocks
  BY TreeAssumption
<1>2. ASSUME NEW x \in Blocks \ {Genesis}, Parent[x] \in S PROVE x \in S
  <2>1. Chain[x] = Chain[Parent[x]] \cup {x}
    BY Branch
  <2>2. ASSUME NEW c \in Chain[x], NEW d \in Chain[x], Height[c] <= Height[d] PROVE c \in Chain[d]
    <3>1. CASE d = x
      BY <3>1
    <3>2. CASE d # x /\ c = x
      <4>1. Height[d] < Height[x] /\ Height[d] \in Nat /\ Height[x] \in Nat
        BY <3>2, Below, OnOwnChain, TreeAssumption
      <4> QED BY <2>2, <3>2, <4>1
    <3>3. CASE d # x /\ c # x
      BY <1>2, <2>1, <2>2, <3>3
    <3> QED BY <3>1, <3>2, <3>3
  <2> QED BY <2>2
<1> HIDE DEF S
<1>3. S = Blocks
  BY <1>1, <1>2, Inherited
<1> QED BY <1>3 DEF S

(* On a chain there is one block of a height.                              *)
LEMMA OneAtHeight ==
    ASSUME NEW y \in Blocks, NEW a \in Chain[y], NEW b \in Chain[y], Height[a] = Height[b]
    PROVE  a = b
<1>1. a \in Blocks /\ b \in Blocks /\ Height[a] \in Nat
  BY OnOwnChain, TreeAssumption
<1>2. a \in Chain[b]
  BY <1>1, ChainOrder
<1> QED BY <1>1, <1>2, Below

(* The highest block of a chain that is in a set that genesis is in.       *)
LEMMA HighestOnChain ==
    ASSUME NEW y \in Blocks, NEW S, Genesis \in S
    PROVE  LET h == Highest(Chain[y] \cap S) IN
           /\ h \in Chain[y] \cap S /\ h \in Blocks
           /\ \A c \in Chain[y] \cap S : Height[c] <= Height[h] /\ c \in Chain[h]
<1> DEFINE T == {x \in Blocks : \E h \in Chain[x] \cap S : \A c \in Chain[x] \cap S : Height[c] <= Height[h]}
<1>1. Genesis \in T /\ T \in SUBSET Blocks
  BY TreeAssumption
<1>2. ASSUME NEW x \in Blocks \ {Genesis}, Parent[x] \in T PROVE x \in T
  <2>1. CASE x \in S
    BY <2>1, OnOwnChain, Below
  <2>2. CASE x \notin S
    <3>1. Chain[x] \cap S = Chain[Parent[x]] \cap S
      BY <2>2, Branch
    <3> QED BY <1>2, <3>1
  <2> QED BY <2>1, <2>2
<1>3. T = Blocks
  <2> HIDE DEF T
  <2> QED BY <1>1, <1>2, Inherited
<1>4. \E h \in Chain[y] \cap S : \A c \in Chain[y] \cap S : Height[c] <= Height[h]
  BY <1>3
<1>5. /\ Highest(Chain[y] \cap S) \in Chain[y] \cap S
      /\ \A c \in Chain[y] \cap S : Height[c] <= Height[Highest(Chain[y] \cap S)]
  BY <1>4 DEF Highest
<1> QED BY <1>5, OnOwnChain, ChainOrder

LEMMA ForkIs ==
    ASSUME NEW a \in Blocks, NEW b \in Blocks
    PROVE  /\ Fork(a, b) \in Chain[a] /\ Fork(a, b) \in Chain[b] /\ Fork(a, b) \in Blocks
           /\ Height[Fork(a, b)] \in Nat
           /\ \A c \in Chain[a] \cap Chain[b] : Height[c] <= Height[Fork(a, b)] /\ c \in Chain[Fork(a, b)]
<1>1. Genesis \in Chain[b]
  BY OnOwnChain
<1> QED BY <1>1, HighestOnChain, TreeAssumption DEF Fork

LEMMA ForkOnChain ==
    ASSUME NEW b \in Blocks, NEW a \in Chain[b] PROVE Fork(a, b) = a /\ Fork(b, a) = a
<1>1. a \in Blocks /\ a \in Chain[a] /\ Chain[a] \subseteq Chain[b]
  BY OnOwnChain, ChainsNest
<1>2. Fork(a, b) \in Chain[a] /\ a \in Chain[Fork(a, b)] /\ Fork(b, a) \in Chain[a] /\ a \in Chain[Fork(b, a)]
  BY <1>1, ForkIs
<1>3. \A c \in Blocks : c \in Chain[a] /\ a \in Chain[c] => c = a
  BY <1>1, Below, TreeAssumption
<1> QED BY <1>1, <1>2, <1>3, ForkIs

(* Of the three blocks where three branches part, two are one, and the     *)
(* third is not below it.                                                  *)
LEMMA ForkTriangle ==
    ASSUME NEW a \in Blocks, NEW b \in Blocks, NEW c \in Blocks
    PROVE  \/ Height[Fork(a, b)] <= Height[Fork(a, c)]
           \/ Height[Fork(b, c)] <= Height[Fork(a, c)]
<1> DEFINE x == Fork(a, b)  y == Fork(b, c)
<1>1. /\ x \in Chain[a] /\ x \in Chain[b] /\ x \in Blocks /\ Height[x] \in Nat
      /\ y \in Chain[b] /\ y \in Chain[c] /\ y \in Blocks /\ Height[y] \in Nat
  BY ForkIs
<1> HIDE DEF x, y
<1>2. CASE Height[x] <= Height[y]
  <2>1. x \in Chain[c]
    BY <1>1, <1>2, ChainOrder, ChainsNest
  <2>2. Height[x] <= Height[Fork(a, c)]
    BY <1>1, <2>1, ForkIs
  <2> QED BY <2>2 DEF x
<1>3. CASE Height[y] <= Height[x]
  <2>1. y \in Chain[a]
    BY <1>1, <1>3, ChainOrder, ChainsNest
  <2>2. Height[y] <= Height[Fork(a, c)]
    BY <1>1, <2>1, ForkIs
  <2> QED BY <2>2 DEF y
<1> QED BY <1>1, <1>2, <1>3

LEMMA ForkSymmetric == ASSUME NEW a \in Blocks, NEW b \in Blocks PROVE Fork(a, b) = Fork(b, a)
<1>1. Chain[a] \cap Chain[b] = Chain[b] \cap Chain[a]
  OBVIOUS
<1> QED BY <1>1 DEF Fork

(* The blocks of a branch that leaves a chain are above where it does.     *)
LEMMA AboveFork ==
    ASSUME NEW a \in Blocks, NEW b \in Blocks, NEW p \in Chain[a] \cap Chain[b], NEW c \in Chain[a] \ Chain[b]
    PROVE  Height[c] > Height[p]
<1>1. c \in Blocks /\ p \in Blocks /\ Height[c] \in Nat /\ Height[p] \in Nat
  BY OnOwnChain, TreeAssumption
<1>2. c \notin Chain[p]
  BY <1>1, ChainsNest
<1> QED BY <1>1, <1>2, ChainOrder

(* The block of a height on a chain.                                       *)
LEMMA AtHeightIs ==
    ASSUME tip \in Blocks, NEW h \in Nat, h <= Height[tip]
    PROVE  AtHeight(h) \in Chain[tip] /\ AtHeight(h) \in Blocks /\ Height[AtHeight(h)] = h
<1>1. \E b \in Chain[tip] : Height[b] = h
  BY EveryHeight, TreeAssumption
<1> QED BY <1>1, OnOwnChain DEF AtHeight

-----------------------------------------------------------------------------
(* Records.                                                                *)

Record == [block : Blocks, value : Values]
DbTypes == [at : [Heights -> Record \cup {None}], byHash : [Blocks -> Values \cup {None}],
            rows : SUBSET Blocks, where : [Txs -> Blocks \cup {None}]]

(* The value that is right for a block.                                    *)
Ones(b) == [c \in Blocks |-> IF c \in Chain[b] THEN 1 ELSE 0]

(* Records are right, and a block's come with those of its ancestors.      *)
RecordsFit(d) ==
    /\ d \in DbTypes
    /\ \A h \in Heights : d.at[h] # None => Height[d.at[h].block] = h
    /\ \A b \in Blocks : LookUp(d, b) # None =>
          LookUp(d, b) = Ones(b) /\ \A c \in Chain[b] : LookUp(d, c) # None

LEMMA OnesFold ==
    ASSUME NEW b \in Blocks
    PROVE  /\ Ones(b) \in Values
           /\ b # Genesis => Plus(Ones(Parent[b]), b) = Ones(b)
           /\ b = Genesis => Plus(Nothing, b) = Ones(b)
<1>1. Ones(b) \in Values
  BY DEF Ones, Values
<1>2. ASSUME b # Genesis PROVE Plus(Ones(Parent[b]), b) = Ones(b)
  <2>1. Chain[b] = Chain[Parent[b]] \cup {b} /\ b \notin Chain[Parent[b]]
    BY <1>2, Branch
  <2> DEFINE f == Ones(Parent[b])
  <2>2. f = [c \in Blocks |-> f[c]] /\ f[b] = 0 /\ (\A c \in Blocks : f[c] = IF c \in Chain[Parent[b]] THEN 1 ELSE 0)
    BY <2>1 DEF Ones
  <2> HIDE DEF f
  <2>3. [f EXCEPT ![b] = f[b] + 1] = [c \in Blocks |-> IF c = b THEN f[b] + 1 ELSE f[c]]
    BY <2>2
  <2>4. \A c \in Blocks : (IF c = b THEN f[b] + 1 ELSE f[c]) = IF c \in Chain[b] THEN 1 ELSE 0
    BY <2>1, <2>2
  <2> QED BY <2>3, <2>4 DEF f, Ones, Plus
<1>3. ASSUME b = Genesis PROVE Plus(Nothing, b) = Ones(b)
  BY <1>3, TreeAssumption DEF Ones, Plus, Nothing
<1> QED BY <1>1, <1>2, <1>3

LEMMA OnesUnfold ==
    ASSUME NEW b \in Blocks, NEW a \in Chain[b]
    PROVE  Minus(Ones(b), Chain[b] \ Chain[a]) = Ones(a)
<1>1. Chain[a] \subseteq Chain[b]
  BY ChainsNest
<1> QED BY <1>1 DEF Ones, Minus

LEMMA LookUpType ==
    ASSUME NEW d \in DbTypes, NEW b \in Blocks PROVE LookUp(d, b) \in Values \cup {None}
<1>1. Height[b] \in Heights
  BY DEF Heights
<1>2. d.at[Height[b]] \in Record \cup {None} /\ d.byHash[b] \in Values \cup {None}
  BY <1>1 DEF DbTypes
<1> QED BY <1>2 DEF LookUp, Record

(* A record is written over another block's, which moves to its hash.      *)
LEMMA WriteLooks ==
    ASSUME NEW d \in DbTypes, \A h \in Heights : d.at[h] # None => Height[d.at[h].block] = h,
           NEW b \in Blocks, NEW v \in Values
    PROVE  LET e == WriteRecord(d, b, v) IN
           /\ e \in DbTypes /\ \A h \in Heights : e.at[h] # None => Height[e.at[h].block] = h
           /\ LookUp(e, b) = v /\ \A c \in Blocks \ {b} : LookUp(e, c) = LookUp(d, c)
           /\ e.rows = d.rows
<1> DEFINE e == WriteRecord(d, b, v)
           h == Height[b]
           new == [block |-> b, value |-> v]
           old == d.at[h]
<1>1. h \in Heights /\ new \in Record /\ new # None /\ new.block = b /\ new.value = v
  BY NoneAssumption DEF Heights, Record
<1>2. old \in Record \cup {None} /\ (old # None => old.block \in Blocks /\ old.value \in Values /\ Height[old.block] = h)
  BY <1>1 DEF DbTypes, Record
<1> DEFINE hashes == IF old = None \/ old.block = b THEN d.byHash ELSE [d.byHash EXCEPT ![old.block] = old.value]
<1>3. e = [at |-> e.at, byHash |-> e.byHash, rows |-> d.rows, where |-> d.where]
      /\ e.at = [d.at EXCEPT ![h] = new] /\ e.byHash = hashes
  <2>1. e = [d EXCEPT !.at[h] = new, !.byHash = hashes]
    BY DEF WriteRecord
  <2>2. [d EXCEPT !.at[h] = new, !.byHash = hashes]
          = [at |-> [d.at EXCEPT ![h] = new], byHash |-> hashes, rows |-> d.rows, where |-> d.where]
    <3> DEFINE at2 == [d.at EXCEPT ![h] = new]
    <3> HIDE DEF hashes, at2
    <3>1. [d EXCEPT !.at = at2] = [at |-> at2, byHash |-> d.byHash, rows |-> d.rows, where |-> d.where]
      BY DEF DbTypes
    <3>2. [[at |-> at2, byHash |-> d.byHash, rows |-> d.rows, where |-> d.where] EXCEPT !.byHash = hashes]
            = [at |-> at2, byHash |-> hashes, rows |-> d.rows, where |-> d.where]
      OBVIOUS
    <3>3. [[d EXCEPT !.at = at2] EXCEPT !.byHash = hashes]
            = [at |-> at2, byHash |-> hashes, rows |-> d.rows, where |-> d.where]
      BY <3>1, <3>2, Zenon
    <3> QED BY <3>3 DEF at2
  <2> HIDE DEF e, hashes, new
  <2> QED BY <2>1, <2>2
<1>4. e.at \in [Heights -> Record \cup {None}] /\ e.byHash \in [Blocks -> Values \cup {None}]
      /\ e.at[h] = new /\ \A g \in Heights \ {h} : e.at[g] = d.at[g]
  BY <1>1, <1>2, <1>3 DEF DbTypes
<1> HIDE DEF e, new, old, h
<1>5. e \in DbTypes /\ e.rows = d.rows
  <2>1. d.rows \in SUBSET Blocks /\ d.where \in [Txs -> Blocks \cup {None}]
    BY DEF DbTypes
  <2>2. \A p, q, r, w : p \in [Heights -> Record \cup {None}] /\ q \in [Blocks -> Values \cup {None}]
                          /\ r \in SUBSET Blocks /\ w \in [Txs -> Blocks \cup {None}]
          => [at |-> p, byHash |-> q, rows |-> r, where |-> w] \in DbTypes
    BY DEF DbTypes
  <2>3. [at |-> e.at, byHash |-> e.byHash, rows |-> d.rows, where |-> d.where] \in DbTypes
    BY <1>4, <2>1, <2>2
  <2>4. [at |-> e.at, byHash |-> e.byHash, rows |-> d.rows, where |-> d.where].rows = d.rows
    OBVIOUS
  <2> QED BY <1>3, <2>3, <2>4
<1>6. \A g \in Heights : e.at[g] # None => Height[e.at[g].block] = g
  BY <1>1, <1>4 DEF h
<1>7. LookUp(e, b) = v
  BY <1>1, <1>4 DEF LookUp, h
<1>8. ASSUME NEW c \in Blocks \ {b} PROVE LookUp(e, c) = LookUp(d, c)
  <2>1. CASE Height[c] # h
    <3>1. Height[c] \in Heights /\ e.at[Height[c]] = d.at[Height[c]]
      BY <1>4, <2>1 DEF Heights
    <3>2. e.byHash[c] = d.byHash[c]
      BY <1>2, <1>3, <2>1 DEF DbTypes
    <3> QED BY <3>1, <3>2 DEF LookUp
  <2>2. CASE Height[c] = h
    <3>1. LookUp(e, c) = e.byHash[c]
      BY <1>1, <1>4, <1>8, <2>2 DEF LookUp
    <3>2. LookUp(d, c) = IF old # None /\ old.block = c THEN old.value ELSE d.byHash[c]
      BY <2>2 DEF LookUp, old
    <3>3. CASE old = None \/ old.block = b
      BY <1>3, <1>8, <3>1, <3>2, <3>3
    <3>4. CASE old # None /\ old.block # b
      BY <1>2, <1>3, <3>1, <3>2, <3>4 DEF DbTypes
    <3> QED BY <3>3, <3>4
  <2> QED BY <2>1, <2>2
<1> QED BY <1>5, <1>6, <1>7, <1>8 DEF e

LEMMA WriteFits ==
    ASSUME NEW d, RecordsFit(d), NEW b \in Blocks, b # Genesis => LookUp(d, Parent[b]) # None
    PROVE  LET e == WriteRecord(d, b, Ones(b)) IN
           /\ RecordsFit(e) /\ LookUp(e, b) # None /\ e.rows = d.rows
           /\ \A c \in Blocks : LookUp(d, c) # None => LookUp(e, c) # None
<1> DEFINE e == WriteRecord(d, b, Ones(b))
<1>1. Ones(b) \in Values /\ Ones(b) # None
  BY OnesFold, NoneAssumption
<1>2. /\ e \in DbTypes /\ \A h \in Heights : e.at[h] # None => Height[e.at[h].block] = h
      /\ LookUp(e, b) = Ones(b) /\ \A c \in Blocks \ {b} : LookUp(e, c) = LookUp(d, c)
      /\ e.rows = d.rows
  BY <1>1, WriteLooks DEF RecordsFit
<1> HIDE DEF e
<1>3. \A c \in Blocks : LookUp(d, c) # None => LookUp(e, c) # None
  BY <1>1, <1>2
<1>4. \A c \in Chain[b] : LookUp(e, c) # None
  <2>1. CASE b = Genesis
    BY <1>1, <1>2, <2>1, TreeAssumption
  <2>2. CASE b # Genesis
    <3>1. Parent[b] \in Blocks /\ \A c \in Chain[Parent[b]] : c \in Blocks /\ LookUp(d, c) # None
      BY <2>2, Branch, OnOwnChain DEF RecordsFit
    <3> QED BY <1>1, <1>2, <1>3, <2>2, <3>1, Branch
  <2> QED BY <2>1, <2>2
<1>5. ASSUME NEW a \in Blocks, LookUp(e, a) # None
      PROVE  LookUp(e, a) = Ones(a) /\ \A c \in Chain[a] : LookUp(e, c) # None
  <2>1. CASE a = b
    BY <1>2, <1>4, <2>1
  <2>2. CASE a # b
    BY <1>2, <1>3, <1>5, <2>2, OnOwnChain DEF RecordsFit
  <2> QED BY <2>1, <2>2
<1>6. RecordsFit(e)
  BY <1>2, <1>5 DEF RecordsFit
<1> QED BY <1>1, <1>2, <1>3, <1>6 DEF e

(* What is taken back keeps its records, under its hash.                   *)
LEMMA MovedToHash ==
    ASSUME NEW d, RecordsFit(d), NEW S \in SUBSET Blocks
    PROVE  LET e == [d EXCEPT !.byHash = [c \in Blocks |-> IF c \in S THEN LookUp(d, c) ELSE d.byHash[c]]] IN
           /\ RecordsFit(e) /\ e.rows = d.rows
           /\ \A c \in Blocks : LookUp(e, c) = LookUp(d, c)
<1> DEFINE f == [c \in Blocks |-> IF c \in S THEN LookUp(d, c) ELSE d.byHash[c]]
           e == [d EXCEPT !.byHash = f]
<1>1. d \in DbTypes /\ f \in [Blocks -> Values \cup {None}]
  BY LookUpType DEF RecordsFit, DbTypes
<1>2. \A c \in Blocks : f[c] = IF c \in S THEN LookUp(d, c) ELSE d.byHash[c]
  OBVIOUS
<1> HIDE DEF f
<1>3. e \in DbTypes /\ e.rows = d.rows /\ e.at = d.at /\ e.byHash = f
  BY <1>1 DEF DbTypes
<1> HIDE DEF e
<1>4. \A c \in Blocks : LookUp(e, c) = LookUp(d, c)
  BY <1>2, <1>3 DEF LookUp
<1>5. RecordsFit(e)
  BY <1>3, <1>4, OnOwnChain DEF RecordsFit
<1> QED BY <1>3, <1>4, <1>5 DEF e, f

-----------------------------------------------------------------------------
(* What rewinding and writing do to an index: its records, its marker and  *)
(* its running state.                                                      *)

ByBlock == {"filter", "coinstats"}
Fit(k, x) ==
    /\ x = [db |-> x.db, best |-> x.best, running |-> x.running]
    /\ RecordsFit(x.db) /\ x.best \in Blocks \cup {None} /\ x.running \in Record \cup {None}
    /\ k \in ByBlock /\ x.best # None => LookUp(x.db, x.best) # None
    /\ x.running # None => x.best # None /\ x.running = [block |-> x.best, value |-> Ones(x.best)]
    /\ k # "spender" => x.db.rows = {}

(* No record is lost.                                                      *)
Keeps(x, y) == \A c \in Blocks : LookUp(x.db, c) # None => LookUp(y.db, c) # None

LEMMA BecomesIs ==
    ASSUME NEW x, Becomes(x), x = [db |-> x.db, best |-> x.best, running |-> x.running]
    PROVE  Index' = x
BY DEF Becomes, Index

LEMMA WhereSet ==
    ASSUME NEW d, RecordsFit(d), NEW w \in [Txs -> Blocks \cup {None}]
    PROVE  LET e == [d EXCEPT !.where = w] IN
           /\ RecordsFit(e) /\ e.where = w /\ e.rows = d.rows
           /\ \A c \in Blocks : LookUp(e, c) = LookUp(d, c)
<1> DEFINE e == [d EXCEPT !.where = w]
<1>1. e \in DbTypes /\ e.where = w /\ e.rows = d.rows /\ e.at = d.at /\ e.byHash = d.byHash
  BY DEF RecordsFit, DbTypes
<1> HIDE DEF e
<1>2. \A c \in Blocks : LookUp(e, c) = LookUp(d, c)
  BY <1>1 DEF LookUp
<1>3. RecordsFit(e)
  BY <1>1, <1>2, OnOwnChain DEF RecordsFit
<1> QED BY <1>1, <1>2, <1>3 DEF e

LEMMA RowsSet ==
    ASSUME NEW d, RecordsFit(d), NEW r \in SUBSET Blocks
    PROVE  LET e == [d EXCEPT !.rows = r] IN
           /\ RecordsFit(e) /\ e.rows = r /\ e.where = d.where
           /\ \A c \in Blocks : LookUp(e, c) = LookUp(d, c)
<1> DEFINE e == [d EXCEPT !.rows = r]
<1>1. e \in DbTypes /\ e.where = d.where /\ e.rows = r /\ e.at = d.at /\ e.byHash = d.byHash
  BY DEF RecordsFit, DbTypes
<1> HIDE DEF e
<1>2. \A c \in Blocks : LookUp(e, c) = LookUp(d, c)
  BY <1>1 DEF LookUp
<1>3. RecordsFit(e)
  BY <1>1, <1>2, OnOwnChain DEF RecordsFit
<1> QED BY <1>1, <1>2, <1>3 DEF e

(* A record with new records and a new marker.                             *)
LEMMA TwoSet ==
    ASSUME NEW x, x = [db |-> x.db, best |-> x.best, running |-> x.running], NEW d, NEW m
    PROVE  [[x EXCEPT !.db = d] EXCEPT !.best = m] = [db |-> d, best |-> m, running |-> x.running]
<1>1. [x EXCEPT !.db = d] = [db |-> d, best |-> x.best, running |-> x.running]
  OBVIOUS
<1>2. [[db |-> d, best |-> x.best, running |-> x.running] EXCEPT !.best = m]
        = [db |-> d, best |-> m, running |-> x.running]
  OBVIOUS
<1> QED BY <1>1, <1>2, Zenon

LEMMA TxWrites ==
    ASSUME NEW x, Fit("tx", x), x.running = None, NEW b \in Blocks
    PROVE  LET y == WriteTx(x, b) IN
           /\ Fit("tx", y) /\ Keeps(x, y) /\ y.best = b /\ y.running = None
           /\ y.db.where = [t \in Txs |-> IF t \in TxsOf[b] THEN b ELSE x.db.where[t]]
<1> DEFINE w == [t \in Txs |-> IF t \in TxsOf[b] THEN b ELSE x.db.where[t]]
           y == WriteTx(x, b)
<1>1. w \in [Txs -> Blocks \cup {None}]
  BY DEF Fit, RecordsFit, DbTypes
<1>2. y = [db |-> [x.db EXCEPT !.where = w], best |-> b, running |-> x.running]
  <2>1. y = [[x EXCEPT !.db = [x.db EXCEPT !.where = w]] EXCEPT !.best = b]
    BY DEF WriteTx
  <2>2. x = [db |-> x.db, best |-> x.best, running |-> x.running]
    BY DEF Fit
  <2> HIDE DEF y, w
  <2> QED BY <2>1, <2>2, TwoSet
<1> HIDE DEF y, w
<1>3. /\ RecordsFit([x.db EXCEPT !.where = w]) /\ [x.db EXCEPT !.where = w].where = w
      /\ [x.db EXCEPT !.where = w].rows = x.db.rows
      /\ \A c \in Blocks : LookUp([x.db EXCEPT !.where = w], c) = LookUp(x.db, c)
  BY <1>1, WhereSet DEF Fit
<1>4. y.db = [x.db EXCEPT !.where = w] /\ y.best = b /\ y.running = x.running
      /\ y = [db |-> y.db, best |-> y.best, running |-> y.running]
  BY <1>2
<1>5. Fit("tx", y)
  BY <1>3, <1>4 DEF Fit, ByBlock
<1>6. Keeps(x, y)
  BY <1>3, <1>4 DEF Keeps
<1> QED BY <1>3, <1>4, <1>5, <1>6 DEF y, w

LEMMA SpenderWrites ==
    ASSUME NEW x, Fit("spender", x), x.running = None, NEW b \in Blocks
    PROVE  LET y == AddSpends(x, b) IN
           /\ Fit("spender", y) /\ Keeps(x, y) /\ y.best = b /\ y.running = None
           /\ y.db.rows = x.db.rows \cup {b}
<1> DEFINE r == x.db.rows \cup {b}
           y == AddSpends(x, b)
<1>1. r \in SUBSET Blocks
  BY DEF Fit, RecordsFit, DbTypes
<1>2. y = [db |-> [x.db EXCEPT !.rows = r], best |-> b, running |-> x.running]
  <2>1. y = [[x EXCEPT !.db = [x.db EXCEPT !.rows = r]] EXCEPT !.best = b]
    BY DEF AddSpends
  <2>2. x = [db |-> x.db, best |-> x.best, running |-> x.running]
    BY DEF Fit
  <2> HIDE DEF y, r
  <2> QED BY <2>1, <2>2, TwoSet
<1> HIDE DEF y, r
<1>3. /\ RecordsFit([x.db EXCEPT !.rows = r]) /\ [x.db EXCEPT !.rows = r].rows = r
      /\ \A c \in Blocks : LookUp([x.db EXCEPT !.rows = r], c) = LookUp(x.db, c)
  BY <1>1, RowsSet DEF Fit
<1>4. y.db = [x.db EXCEPT !.rows = r] /\ y.best = b /\ y.running = x.running
      /\ y = [db |-> y.db, best |-> y.best, running |-> y.running]
  BY <1>2
<1>5. Fit("spender", y)
  BY <1>3, <1>4 DEF Fit, ByBlock
<1>6. Keeps(x, y)
  BY <1>3, <1>4 DEF Keeps
<1> QED BY <1>3, <1>4, <1>5, <1>6 DEF y, r

LEMMA FilterWrites ==
    ASSUME NEW x, Fit("filter", x), x.running = None, NEW b \in Blocks, x.best = None => b = Genesis
    PROVE  LET y == WriteFilter(x, b) IN
           /\ Fit("filter", y) /\ Keeps(x, y) /\ y.best \in {x.best, b} /\ y.running = None
           /\ y = x \/ y.best = b
           /\ x.best = None \/ (b # Genesis /\ LookUp(x.db, Parent[b]) # None) => y.best = b
<1> DEFINE y == WriteFilter(x, b)
           prev == IF b = Genesis THEN None ELSE LookUp(x.db, Parent[b])
           v == Plus(IF prev = None THEN Nothing ELSE prev, b)
           e == WriteRecord(x.db, b, v)
<1>1. CASE prev = None /\ x.best # None
  <2>1. y = x
    BY <1>1 DEF WriteFilter
  <2>2. b = Genesis \/ LookUp(x.db, Parent[b]) = None
    BY <1>1
  <2> HIDE DEF y
  <2> QED BY <1>1, <2>1, <2>2 DEF Keeps, y
<1>2. CASE ~(prev = None /\ x.best # None)
  <2>1. b # Genesis => prev # None /\ prev = LookUp(x.db, Parent[b]) /\ Parent[b] \in Blocks
    BY <1>2, Branch
  <2>2. v = Ones(b)
    <3>1. CASE b = Genesis
      BY <3>1, OnesFold
    <3>2. CASE b # Genesis
      BY <2>1, <3>2, OnesFold DEF Fit, RecordsFit
    <3> QED BY <3>1, <3>2
  <2>3. y = [[x EXCEPT !.db = e] EXCEPT !.best = b]
    BY <1>2 DEF WriteFilter
  <2> HIDE DEF y, e, v, prev
  <2>4. y = [db |-> e, best |-> b, running |-> x.running]
    BY <2>3, TwoSet DEF Fit
  <2>5. RecordsFit(e) /\ LookUp(e, b) # None /\ e.rows = x.db.rows
        /\ \A c \in Blocks : LookUp(x.db, c) # None => LookUp(e, c) # None
    <3>1. b # Genesis => LookUp(x.db, Parent[b]) # None
      BY <2>1
    <3>2. RecordsFit(x.db) /\ e = WriteRecord(x.db, b, Ones(b))
      BY <2>2 DEF Fit, e
    <3> QED BY <3>1, <3>2, WriteFits
  <2>6. y.db = e /\ y.best = b /\ y.running = x.running
        /\ y = [db |-> y.db, best |-> y.best, running |-> y.running]
    BY <2>4
  <2>7. Fit("filter", y)
    BY <2>5, <2>6 DEF Fit, ByBlock
  <2>8. Keeps(x, y)
    BY <2>5, <2>6 DEF Keeps
  <2> QED BY <2>6, <2>7, <2>8 DEF y
<1> QED BY <1>1, <1>2

LEMMA CoinstatsWrites ==
    ASSUME NEW x, Fit("coinstats", x), x.best # None => x.running # None,
           NEW b \in Blocks, x.best = None => b = Genesis
    PROVE  LET y == WriteCoinstats(x, b) IN
           /\ Fit("coinstats", y) /\ Keeps(x, y) /\ y.best \in {x.best, b} /\ y.running # None
           /\ y = x \/ y.best = b
           /\ b = Genesis \/ x.best = Parent[b] => y.best = b
<1> DEFINE y == WriteCoinstats(x, b)
           v == Plus(IF b = Genesis THEN Nothing ELSE x.running.value, b)
           e == WriteRecord(x.db, b, v)
<1>1. x.running # None => x.best # None /\ x.running.block = x.best /\ x.running.value = Ones(x.best)
  BY DEF Fit
<1>2. CASE b # Genesis /\ (x.running = None \/ x.running.block # Parent[b])
  <2>1. y = x
    BY <1>2 DEF WriteCoinstats
  <2>2. x.running # None /\ x.best # Parent[b]
    BY <1>1, <1>2
  <2> QED BY <1>2, <2>1, <2>2 DEF Keeps
<1>3. CASE ~(b # Genesis /\ (x.running = None \/ x.running.block # Parent[b]))
  <2>1. b # Genesis => x.running # None /\ x.best = Parent[b] /\ LookUp(x.db, Parent[b]) # None
    BY <1>1, <1>3 DEF Fit, ByBlock
  <2>2. v = Ones(b)
    BY <1>1, <2>1, OnesFold
  <2>3. y = [db |-> e, best |-> b, running |-> [block |-> b, value |-> v]]
    BY <1>3 DEF WriteCoinstats
  <2> HIDE DEF y, e, v
  <2>4. RecordsFit(e) /\ LookUp(e, b) # None /\ e.rows = x.db.rows
        /\ \A c \in Blocks : LookUp(x.db, c) # None => LookUp(e, c) # None
    <3>1. RecordsFit(x.db) /\ e = WriteRecord(x.db, b, Ones(b))
      BY <2>2 DEF Fit, e
    <3> QED BY <2>1, <3>1, WriteFits
  <2>5. y.db = e /\ y.best = b /\ y.running = [block |-> b, value |-> Ones(b)]
        /\ y = [db |-> y.db, best |-> y.best, running |-> y.running]
    BY <2>2, <2>3
  <2>6. y.running \in Record /\ y.running # None /\ b # None
    BY <2>5, OnesFold, NoneAssumption, TreeAssumption DEF Record
  <2>7. Fit("coinstats", y)
    BY <2>4, <2>5, <2>6 DEF Fit, ByBlock
  <2>8. Keeps(x, y)
    BY <2>4, <2>5 DEF Keeps
  <2> QED BY <2>5, <2>6, <2>7, <2>8 DEF y
<1> QED BY <1>2, <1>3

(* What is taken back is the end of a branch.                              *)
LEMMA TakenBackIsTop ==
    ASSUME tip \in Blocks, NEW x, x.best \in Blocks, NEW good
    PROVE  LET gone == TakenBack(x, good)
               b == Highest(Chain[x.best] \ gone) IN
           /\ gone \subseteq Chain[x.best] \ Chain[tip] /\ gone \subseteq good
           /\ b \in Chain[x.best] /\ b \in Blocks /\ gone = Chain[x.best] \ Chain[b]
           /\ gone = Chain[x.best] \ Chain[tip] => b = Fork(x.best, tip)
           /\ Chain[x.best] \ Chain[tip] \subseteq good => gone = Chain[x.best] \ Chain[tip]
<1> DEFINE m == x.best
           gone == TakenBack(x, good)
           b == Highest(Chain[m] \ gone)
<1>1. gone = {c \in Chain[m] \ Chain[tip] : \A d \in Chain[m] \ Chain[tip] : Height[d] >= Height[c] => d \in good}
  BY DEF TakenBack, Above, Abandoned
<1>2. Chain[m] \subseteq Blocks /\ Genesis \in Chain[tip] /\ Chain[tip] \subseteq Blocks
  BY OnOwnChain
<1> HIDE DEF gone, m
<1>3. \A c \in Chain[m] : Height[c] \in Nat
  BY <1>2, TreeAssumption
<1>4. gone \subseteq Chain[m] \ Chain[tip] /\ gone \subseteq good
  BY <1>1, <1>3
<1>5. b = Highest(Chain[m] \cap (Blocks \ gone))
  <2>1. Chain[m] \cap (Blocks \ gone) = Chain[m] \ gone
    BY <1>2
  <2> QED BY <2>1
<1>6. b \in Chain[m] \ gone /\ b \in Blocks /\ \A c \in Chain[m] \ gone : c \in Chain[b]
  <2>1. Genesis \in Blocks \ gone /\ m \in Blocks
    BY <1>2, <1>4, TreeAssumption DEF m
  <2>2. b \in Chain[m] \cap (Blocks \ gone) /\ b \in Blocks
        /\ \A c \in Chain[m] \cap (Blocks \ gone) : Height[c] <= Height[b] /\ c \in Chain[b]
    <3> DEFINE S == Blocks \ gone
    <3>1. Genesis \in S
      BY <2>1
    <3> HIDE DEF S, b
    <3>2. Highest(Chain[m] \cap S) = b
      BY <1>5 DEF S
    <3>3. b \in Chain[m] \cap S /\ b \in Blocks
          /\ \A c \in Chain[m] \cap S : Height[c] <= Height[b] /\ c \in Chain[b]
      BY <2>1, <3>1, <3>2, HighestOnChain
    <3> QED BY <3>3 DEF S
  <2> HIDE DEF b
  <2> QED BY <1>2, <2>2
<1> HIDE DEF b
<1>7. ASSUME NEW c \in gone, c \in Chain[b] PROVE FALSE
  <2>1. b \notin Chain[tip]
    BY <1>4, <1>7, ChainsNest, <1>2
  <2>2. PICK d \in Chain[m] \ Chain[tip] : Height[d] >= Height[b] /\ d \notin good
    BY <1>1, <1>6, <2>1
  <2>3. Height[c] <= Height[b]
    BY <1>6, <1>7, Below
  <2>4. c \in Chain[m] /\ Height[c] \in Nat /\ Height[b] \in Nat /\ Height[d] \in Nat
    BY <1>3, <1>4, <1>6, <1>7, <2>2
  <2> QED BY <1>1, <1>7, <2>2, <2>3, <2>4
<1>8. gone = Chain[m] \ Chain[b]
  BY <1>4, <1>6, <1>7
<1>9. gone = Chain[m] \ Chain[tip] => b = Fork(m, tip)
  <2> SUFFICES ASSUME gone = Chain[m] \ Chain[tip] PROVE b = Fork(m, tip)
    OBVIOUS
  <2>1. Chain[m] \ gone = Chain[m] \cap Chain[tip]
    OBVIOUS
  <2> QED BY <2>1 DEF b, Fork
<1>10. Chain[m] \ Chain[tip] \subseteq good => gone = Chain[m] \ Chain[tip]
  BY <1>1
<1> QED BY <1>4, <1>6, <1>8, <1>9, <1>10 DEF gone, b, m

LEMMA SpenderRewinds ==
    ASSUME tip \in Blocks, NEW x, Fit("spender", x), x.running = None, x.best # None, NEW bodies
    PROVE  LET p == RewindSpender(x, bodies)
               lost == Chain[x.best] \ Chain[tip] IN
           /\ Fit("spender", p.x) /\ Keeps(x, p.x) /\ p.x.running = None
           /\ p.x.best # None
           /\ p.ok => p.x.best = Fork(x.best, tip) /\ p.x.db.rows = x.db.rows \ lost
           /\ lost \subseteq bodies => p.ok
<1> DEFINE gone == TakenBack(x, bodies)
           ok == gone = Abandoned(x)
           m == IF ok THEN Fork(x.best, tip) ELSE x.best
           r == x.db.rows \ gone
           e == [x.db EXCEPT !.rows = r]
           p == RewindSpender(x, bodies)
<1>1. x.best \in Blocks /\ r \in SUBSET Blocks /\ RecordsFit(x.db)
  BY DEF Fit, RecordsFit, DbTypes
<1>2. m \in Blocks /\ m # None
  BY <1>1, ForkIs, TreeAssumption
<1>3. p = [ok |-> ok, x |-> [db |-> e, best |-> m, running |-> x.running]]
  <2>1. p = [ok |-> ok, x |-> [[x EXCEPT !.db = e] EXCEPT !.best = m]]
    BY DEF RewindSpender
  <2>2. [[x EXCEPT !.db = e] EXCEPT !.best = m] = [db |-> e, best |-> m, running |-> x.running]
    <3> HIDE DEF e, m
    <3> QED BY TwoSet DEF Fit
  <2> HIDE DEF p, e, m, ok
  <2> QED BY <2>1, <2>2
<1>4. /\ RecordsFit(e) /\ e.rows = r
      /\ \A c \in Blocks : LookUp(e, c) = LookUp(x.db, c)
  <2> HIDE DEF r
  <2> QED BY <1>1, RowsSet
<1>5. Abandoned(x) = Chain[x.best] \ Chain[tip]
  BY DEF Abandoned
<1>6. Chain[x.best] \ Chain[tip] \subseteq bodies => ok
  BY <1>1, <1>5, TakenBackIsTop
<1> HIDE DEF p, e
<1>7. p.ok = ok /\ p.x.db = e /\ p.x.best = m /\ p.x.running = x.running
      /\ p.x = [db |-> p.x.db, best |-> p.x.best, running |-> p.x.running]
  BY <1>3
<1> HIDE DEF gone, m
<1>8. Fit("spender", p.x)
  BY <1>2, <1>4, <1>7 DEF Fit, ByBlock
<1>9. Keeps(x, p.x)
  BY <1>4, <1>7 DEF Keeps
<1>10. p.ok => p.x.best = Fork(x.best, tip) /\ p.x.db.rows = x.db.rows \ (Chain[x.best] \ Chain[tip])
  BY <1>4, <1>5, <1>7 DEF m
<1> QED BY <1>2, <1>6, <1>7, <1>8, <1>9, <1>10 DEF p

LEMMA FilterRewinds ==
    ASSUME tip \in Blocks, NEW x, Fit("filter", x), x.running = None, x.best # None
    PROVE  LET p == RewindFilter(x) IN
           /\ Fit("filter", p.x) /\ Keeps(x, p.x) /\ p.x.running = None
           /\ p.ok /\ p.x.best = Fork(x.best, tip) /\ p.x.best # None
<1> DEFINE f == Fork(x.best, tip)
           p == RewindFilter(x)
<1>1. x.best \in Blocks /\ RecordsFit(x.db) /\ LookUp(x.db, x.best) # None
  BY DEF Fit, ByBlock
<1>2. f \in Blocks /\ f \in Chain[x.best] /\ f # None
  BY <1>1, ForkIs, TreeAssumption
<1> HIDE DEF f
<1>3. \A b \in Chain[f] : LookUp(x.db, b) # None
  BY <1>1, <1>2 DEF RecordsFit
<1>4. Highest({b \in Chain[f] : LookUp(x.db, b) # None}) = f
  <2>1. {b \in Chain[f] : LookUp(x.db, b) # None} = Chain[f] \cap Chain[f]
    BY <1>3
  <2>2. Highest(Chain[f] \cap Chain[f]) = Fork(f, f)
    BY DEF Fork
  <2> QED BY <1>2, <2>1, <2>2, OnOwnChain, ForkOnChain
<1>5. p = [ok |-> TRUE, x |-> [x EXCEPT !.best = f]]
  BY <1>4 DEF RewindFilter, f
<1>6. [x EXCEPT !.best = f] = [db |-> x.db, best |-> f, running |-> x.running]
  BY DEF Fit
<1> HIDE DEF p
<1>7. p.ok /\ p.x.db = x.db /\ p.x.best = f /\ p.x.running = x.running
      /\ p.x = [db |-> p.x.db, best |-> p.x.best, running |-> p.x.running]
  BY <1>5, <1>6
<1>8. LookUp(x.db, f) # None
  BY <1>2, <1>3, OnOwnChain
<1>9. Fit("filter", p.x)
  BY <1>2, <1>7, <1>8 DEF Fit, ByBlock
<1> QED BY <1>2, <1>7, <1>9 DEF Keeps, p, f

LEMMA CoinstatsRewinds ==
    ASSUME tip \in Blocks, NEW x, Fit("coinstats", x), x.best # None, x.running # None, NEW bodies
    PROVE  LET p == RewindCoinstats(x, bodies)
               lost == Chain[x.best] \ Chain[tip] IN
           /\ Fit("coinstats", p.x) /\ Keeps(x, p.x) /\ p.x.running # None /\ p.x.best # None
           /\ p.ok => p.x.best = Fork(x.best, tip) /\ lost \subseteq bodies
           /\ lost \subseteq bodies => p.ok
<1> DEFINE m == x.best
           good == {b \in bodies : Reverts(x, b)}
           gone == TakenBack(x, good)
           b == Highest(Chain[x.best] \ gone)
           e == [x.db EXCEPT !.byHash = [c \in Blocks |-> IF c \in gone THEN LookUp(x.db, c) ELSE x.db.byHash[c]]]
           v == Minus(x.running.value, gone)
           p == RewindCoinstats(x, bodies)
           lost == Chain[m] \ Chain[tip]
<1>1. /\ m \in Blocks /\ RecordsFit(x.db) /\ LookUp(x.db, m) # None
      /\ x.running.block = m /\ x.running.value = Ones(m)
  BY DEF Fit, ByBlock
<1>2. Abandoned(x) = lost
  BY DEF Abandoned
<1>3. p = [ok |-> gone = lost, x |-> [db |-> e, best |-> b, running |-> [block |-> b, value |-> v]]]
  BY <1>1, <1>2 DEF RewindCoinstats
<1>4. /\ gone \subseteq lost /\ gone \subseteq good
      /\ b \in Chain[m] /\ b \in Blocks /\ gone = Chain[m] \ Chain[b]
      /\ gone = lost => b = Fork(m, tip)
      /\ lost \subseteq good => gone = lost
  <2> HIDE DEF good
  <2> QED BY <1>1, TakenBackIsTop
<1>5. v = Ones(b)
  <2> HIDE DEF b, gone
  <2> QED BY <1>1, <1>4, OnesUnfold
<1>6. RecordsFit(e) /\ e.rows = x.db.rows /\ \A c \in Blocks : LookUp(e, c) = LookUp(x.db, c)
  <2>1. gone \in SUBSET Blocks
    BY <1>1, <1>4, OnOwnChain
  <2> HIDE DEF gone
  <2> QED BY <1>1, <2>1, MovedToHash
<1>7. ASSUME NEW c \in lost PROVE Reverts(x, c)
  <2>1. c \in Blocks \ {Genesis} /\ c \in Chain[m] /\ c \notin Chain[tip]
    BY <1>1, OnOwnChain
  <2>2. /\ Parent[c] \in Blocks /\ Height[c] = Height[Parent[c]] + 1 /\ Height[Parent[c]] \in Nat
        /\ Parent[c] \in Chain[c]
    BY <2>1, Branch, OnOwnChain
  <2>3. Parent[c] \in Chain[m]
    BY <1>1, <2>1, <2>2, ChainsNest
  <2>4. Above(x, c) = Chain[m] \ Chain[Parent[c]]
    <3>1. Above(x, c) = {d \in lost : Height[d] >= Height[c]}
      BY <1>2 DEF Above
    <3>2. ASSUME NEW d \in lost, Height[d] >= Height[c] PROVE d \notin Chain[Parent[c]]
      <4>1. d \in Blocks /\ Height[d] \in Nat
        BY <1>1, OnOwnChain, TreeAssumption
      <4> QED BY <2>2, <3>2, <4>1, Below
    <3>3. ASSUME NEW d \in Chain[m] \ Chain[Parent[c]] PROVE d \in lost /\ Height[d] >= Height[c]
      <4>1. d \in Blocks /\ Height[d] \in Nat
        BY <1>1, OnOwnChain, TreeAssumption
      <4>2. Height[d] > Height[Parent[c]]
        BY <1>1, <2>2, <2>3, <3>3, <4>1, ChainOrder
      <4>3. Height[d] >= Height[c] /\ c \in Chain[d]
        BY <1>1, <2>1, <2>2, <3>3, <4>1, <4>2, ChainOrder
      <4>4. d \notin Chain[tip]
        BY <2>1, <4>3, ChainsNest
      <4> QED BY <4>3, <4>4
    <3> QED BY <3>1, <3>2, <3>3
  <2>5. Minus(Ones(m), Above(x, c)) = Ones(Parent[c])
    BY <1>1, <2>3, <2>4, OnesUnfold
  <2>6. LookUp(x.db, Parent[c]) = Ones(Parent[c])
    BY <1>1, <2>2, <2>3 DEF RecordsFit
  <2> QED BY <1>1, <2>5, <2>6 DEF Reverts
<1>8. lost \subseteq bodies => lost \subseteq good
  BY <1>7
<1>9. gone = lost => lost \subseteq bodies
  BY <1>4
<1> HIDE DEF p, e, v, b, gone, good, lost
<1>10. p.ok = (gone = lost) /\ p.x.db = e /\ p.x.best = b /\ p.x.running = [block |-> b, value |-> Ones(b)]
       /\ p.x = [db |-> p.x.db, best |-> p.x.best, running |-> p.x.running]
  BY <1>3, <1>5
<1>11. p.x.running \in Record /\ p.x.running # None /\ b # None
  BY <1>4, <1>10, OnesFold, NoneAssumption, TreeAssumption DEF Record
<1>12. LookUp(x.db, b) # None
  BY <1>1, <1>4 DEF RecordsFit
<1>13. Fit("coinstats", p.x)
  <2>1. "coinstats" # "spender" => x.db.rows = {}
    BY DEF Fit
  <2> QED BY <1>4, <1>6, <1>10, <1>11, <1>12, <2>1 DEF Fit, ByBlock
<1>14. Keeps(x, p.x)
  BY <1>6, <1>10 DEF Keeps
<1> QED BY <1>4, <1>8, <1>9, <1>10, <1>11, <1>13, <1>14 DEF p, lost, m

-----------------------------------------------------------------------------
(* Rewinding and writing, whichever the kind.                              *)

Ran(x) ==
    IF kind = "coinstats" THEN x.best # None => x.running # None ELSE x.running = None

LEMMA PreparedIs ==
    ASSUME tip \in Blocks, kind \in Kinds, NEW x, Fit(kind, x), Ran(x), NEW bodies
    PROVE  LET p == Prepared(x, bodies)
               lost == Chain[x.best] \ Chain[tip] IN
           /\ Fit(kind, p.x) /\ Ran(p.x) /\ Keeps(x, p.x)
           /\ x.best = None => p.x.best = None
           /\ x.best # None => p.x.best # None
           /\ x.best = None \/ x.best \in Chain[tip] \/ kind = "tx" => p.ok /\ p.x = x
           /\ x.best # None /\ kind # "tx" /\ p.ok => p.x.best = Fork(x.best, tip)
           /\ x.best # None /\ kind = "spender" /\ p.ok => p.x.db.rows = x.db.rows \ lost
           /\ x.best # None /\ kind = "coinstats" /\ p.ok => lost \subseteq bodies
           /\ x.best # None /\ lost \subseteq bodies => p.ok
           /\ kind \in {"tx", "filter"} => p.ok
<1> DEFINE p == Prepared(x, bodies)
           lost == Chain[x.best] \ Chain[tip]
<1>1. CASE x.best = None \/ OnChain(x.best)
  <2>1. p = [ok |-> TRUE, x |-> x]
    BY <1>1 DEF Prepared
  <2>2. x.best # None => x.best \in Chain[tip] /\ x.best \in Blocks /\ Fork(x.best, tip) = x.best /\ lost = {}
    BY <1>1, ForkOnChain, ChainsNest DEF OnChain, Fit
  <2>3. x.best # None => x.db.rows = x.db.rows \ lost
    BY <2>2
  <2> HIDE DEF p, lost
  <2> QED BY <2>1, <2>2, <2>3 DEF Keeps, p, lost
<1>2. CASE x.best # None /\ ~OnChain(x.best)
  <2>1. CASE kind = "tx"
    <3>1. p = [ok |-> TRUE, x |-> x]
      BY <1>2, <2>1 DEF Prepared
    <3> HIDE DEF p, lost
    <3> QED BY <1>2, <2>1, <3>1 DEF Keeps, p, lost
  <2>2. CASE kind = "spender"
    <3>1. p = RewindSpender(x, bodies)
      BY <1>2, <2>2 DEF Prepared
    <3>2. /\ Fit("spender", p.x) /\ Keeps(x, p.x) /\ p.x.running = None
          /\ p.x.best # None
          /\ p.ok => p.x.best = Fork(x.best, tip) /\ p.x.db.rows = x.db.rows \ lost
          /\ lost \subseteq bodies => p.ok
      <4>1. x.running = None
        BY <2>2 DEF Ran
      <4> HIDE DEF p
      <4> QED BY <1>2, <2>2, <3>1, <4>1, SpenderRewinds
    <3> HIDE DEF p, lost
    <3> QED BY <1>2, <2>2, <3>2 DEF Ran, OnChain, p, lost
  <2>3. CASE kind = "filter"
    <3>1. p = RewindFilter(x)
      BY <1>2, <2>3 DEF Prepared
    <3>2. /\ Fit("filter", p.x) /\ Keeps(x, p.x) /\ p.x.running = None
          /\ p.ok /\ p.x.best = Fork(x.best, tip) /\ p.x.best # None
      <4>1. x.running = None
        BY <2>3 DEF Ran
      <4> HIDE DEF p
      <4> QED BY <1>2, <2>3, <3>1, <4>1, FilterRewinds
    <3> HIDE DEF p, lost
    <3> QED BY <1>2, <2>3, <3>2 DEF Ran, OnChain, p, lost
  <2>4. CASE kind = "coinstats"
    <3>1. p = RewindCoinstats(x, bodies)
      BY <1>2, <2>4 DEF Prepared
    <3>2. /\ Fit("coinstats", p.x) /\ Keeps(x, p.x) /\ p.x.running # None /\ p.x.best # None
          /\ p.ok => p.x.best = Fork(x.best, tip) /\ lost \subseteq bodies
          /\ lost \subseteq bodies => p.ok
      <4>1. x.running # None
        BY <1>2, <2>4 DEF Ran
      <4> HIDE DEF p
      <4> QED BY <1>2, <2>4, <3>1, <4>1, CoinstatsRewinds
    <3> HIDE DEF p, lost
    <3> QED BY <1>2, <2>4, <3>2 DEF Ran, OnChain, p, lost
  <2> QED BY <2>1, <2>2, <2>3, <2>4, KindAssumption
<1> QED BY <1>1, <1>2

LEMMA WrittenIs ==
    ASSUME tip \in Blocks, kind \in Kinds, NEW x, Fit(kind, x), Ran(x), NEW b \in Chain[tip],
           x.best = None => b = Genesis
    PROVE  LET y == Written(x, b) IN
           /\ Fit(kind, y) /\ Ran(y) /\ Keeps(x, y)
           /\ y = x \/ y.best = b
           /\ kind = "tx" => /\ y.best = b
                             /\ y.db.where = [t \in Txs |-> IF t \in TxsOf[b] THEN b ELSE x.db.where[t]]
           /\ kind = "spender" => y = x \/ y.db.rows = x.db.rows \cup {b}
           /\ x.best = None \/ (b # Genesis /\ x.best = Parent[b]) => y.best = b
<1> DEFINE y == Written(x, b)
<1>0. b \in Blocks
  BY OnOwnChain
<1>1. CASE kind = "tx"
  <2>1. y = WriteTx(x, b)
    BY <1>1 DEF Written
  <2>2. x.running = None
    BY <1>1 DEF Ran
  <2> HIDE DEF y
  <2>3. /\ Fit("tx", y) /\ Keeps(x, y) /\ y.best = b /\ y.running = None
        /\ y.db.where = [t \in Txs |-> IF t \in TxsOf[b] THEN b ELSE x.db.where[t]]
    BY <1>0, <1>1, <2>1, <2>2, TxWrites
  <2> QED BY <1>1, <2>3 DEF Ran, y
<1>2. CASE kind = "spender"
  <2>1. y = x \/ y = AddSpends(x, b)
    BY <1>2 DEF Written, WriteSpender
  <2>2. x.best = None \/ (b # Genesis /\ x.best = Parent[b]) => y = AddSpends(x, b)
    <3>1. ASSUME x.best = None PROVE y = AddSpends(x, b)
      <4>1. ChainHeight(x.best) = -1
        BY <3>1 DEF ChainHeight
      <4> QED BY <1>2, <4>1 DEF Written, WriteSpender
    <3>2. ASSUME b # Genesis, x.best = Parent[b] PROVE y = AddSpends(x, b)
      <4>1. x.best \in Blocks /\ x.best \in Chain[tip] /\ Height[b] = Height[x.best] + 1 /\ Height[x.best] \in Nat
        BY <1>0, <3>2, Branch, ChainsNest, OnOwnChain
      <4>2. ChainHeight(x.best) = Height[x.best]
        BY <4>1, ForkOnChain, TreeAssumption DEF ChainHeight
      <4>3. ~(ChainHeight(x.best) >= 0 /\ Height[b] > ChainHeight(x.best) + 1)
        BY <4>1, <4>2
      <4> QED BY <1>2, <4>3 DEF Written, WriteSpender
    <3> QED BY <3>1, <3>2
  <2> HIDE DEF y
  <2>3. CASE y = AddSpends(x, b)
    <3>1. x.running = None
      BY <1>2 DEF Ran
    <3>2. /\ Fit("spender", y) /\ Keeps(x, y) /\ y.best = b /\ y.running = None
          /\ y.db.rows = x.db.rows \cup {b}
      BY <1>0, <1>2, <2>3, <3>1, SpenderWrites
    <3> QED BY <1>2, <3>2 DEF Ran, y
  <2>4. CASE y = x
    <3>1. Keeps(x, y)
      BY <2>4 DEF Keeps
    <3>2. x.best = None \/ (b # Genesis /\ x.best = Parent[b]) => y.best = b
      <4>1. y = AddSpends(x, b) => y.best = b
        BY <1>0, <1>2, SpenderWrites DEF Ran
      <4> QED BY <2>2, <4>1
    <3> QED BY <1>2, <2>4, <3>1, <3>2 DEF y
  <2> QED BY <2>1, <2>3, <2>4
<1>3. CASE kind = "filter"
  <2>1. y = WriteFilter(x, b)
    BY <1>3 DEF Written
  <2>2. x.running = None
    BY <1>3 DEF Ran
  <2>3. b # Genesis /\ x.best = Parent[b] => LookUp(x.db, Parent[b]) # None
    BY <1>0, <1>3, Branch, TreeAssumption DEF Fit, ByBlock
  <2> HIDE DEF y
  <2>4. /\ Fit("filter", y) /\ Keeps(x, y) /\ y.best \in {x.best, b} /\ y.running = None
        /\ y = x \/ y.best = b
        /\ x.best = None \/ (b # Genesis /\ LookUp(x.db, Parent[b]) # None) => y.best = b
    BY <1>0, <1>3, <2>1, <2>2, FilterWrites
  <2> QED BY <1>3, <2>3, <2>4 DEF Ran, y
<1>4. CASE kind = "coinstats"
  <2>1. y = WriteCoinstats(x, b)
    BY <1>4 DEF Written
  <2>2. x.best # None => x.running # None
    BY <1>4 DEF Ran
  <2> HIDE DEF y
  <2>3. /\ Fit("coinstats", y) /\ Keeps(x, y) /\ y.best \in {x.best, b} /\ y.running # None
        /\ y = x \/ y.best = b
        /\ b = Genesis \/ x.best = Parent[b] => y.best = b
    BY <1>0, <1>4, <2>1, <2>2, CoinstatsWrites
  <2> QED BY <1>4, <2>3 DEF Ran, y
<1> QED BY <1>1, <1>2, <1>3, <1>4, KindAssumption

-----------------------------------------------------------------------------
(* The inductive invariant.  What does not depend on writes and reads      *)
(* succeeding comes first.                                                 *)

Statuses == {"down", "sync", "up", "refused", "aborted"}
SavedTypes == [known : SUBSET Blocks, tip : Blocks, best : Blocks \cup {None},
               mu : Values \cup {None}]

TypeOK ==
    /\ kind \in Kinds /\ status \in Statuses /\ flushing \in {"no", "index", "tip"}
    /\ known \subseteq Blocks /\ tip \in Blocks /\ tell \subseteq Blocks
    /\ saved \in SavedTypes /\ cap \in Nat \cup {None}
    /\ pruned \in Nat /\ scan \in Nat /\ fails \in Nat /\ crashes \in Nat
    /\ left \subseteq Blocks

(* What the node has in memory and on disk, and the block up to which the  *)
(* events are told.                                                        *)
ToldOf(S, t) == CHOOSE p \in Chain[t] : S = Chain[t] \ Chain[p]
Told == ToldOf(tell, tip)
ChainOK ==
    /\ Chain[tip] \subseteq known /\ saved.known \subseteq known
    /\ Chain[saved.tip] \subseteq saved.known
    /\ \E p \in Chain[tip] : tell = Chain[tip] \ Chain[p]
    /\ status # "up" => flushing = "no"
    /\ status \in {"down", "sync", "refused"} =>
          known = saved.known /\ tip = saved.tip /\ tell = {} /\ cap = None
    /\ flushing # "no" => tell = {} /\ saved.known = known
    /\ flushing = "tip" => saved.tip = tip

(* The markers.                                                            *)
BestOK ==
    /\ saved.best # None => saved.best \in saved.known
    /\ status = "up" => best # None /\ saved.best # None
    /\ status \in {"sync", "up"} /\ best # None => best \in known
    /\ status \in {"down", "refused"} => best = saved.best /\ running = None

(* The index's records, and what was committed of them.                    *)
IndexOK ==
    /\ Fit(kind, Index)
    /\ status \in {"sync", "up"} => Ran(Index)
    /\ kind # "coinstats" => running = None
    /\ kind \in ByBlock /\ saved.best # None => LookUp(db, saved.best) # None
    /\ kind = "coinstats" /\ saved.best # None => saved.mu = Ones(saved.best)

(* What is pruned.                                                         *)
PrunedOK ==
    /\ kind \notin ByBlock => pruned = 0
    /\ saved.best = None => pruned = 0
    /\ pruned <= Height[saved.tip]
    /\ status # "aborted" => pruned <= Height[Told]

(* The start-up sync of an index that goes block by block.                 *)
SyncOK ==
    status = "sync" /\ kind # "tx" =>
        \/ best = None /\ scan = 0 /\ pruned = 0
        \/ best \in Chain[tip] /\ scan = Height[best] + 1 /\ pruned <= Height[best]

(* Where the index is while the node runs, and the lock that keeps it.     *)
Guarded(b) == b \in Chain[tip] \/ (cap # None /\ cap <= Height[Fork(b, tip)])
LockOK ==
    status = "up" /\ kind \in ByBlock =>
        /\ Guarded(best)
        /\ \A b \in {best, Fork(best, tip)} : Height[b] > 0 => pruned <= Height[b]

Base == TypeOK /\ ChainOK /\ BestOK /\ IndexOK /\ PrunedOK /\ SyncOK /\ LockOK

-----------------------------------------------------------------------------
(* What is told, what can be read, what is committed.                      *)

LEMMA GenesisAlone == \A b \in Blocks : Height[b] = 0 => b = Genesis
BY OnOwnChain, OneAtHeight, TreeAssumption

LEMMA ToldIs ==
    ASSUME NEW t \in Blocks, NEW p \in Chain[t]
    PROVE  ToldOf(Chain[t] \ Chain[p], t) = p
<1> DEFINE q == ToldOf(Chain[t] \ Chain[p], t)
<1>1. q \in Chain[t] /\ Chain[t] \ Chain[p] = Chain[t] \ Chain[q]
  BY DEF ToldOf
<1> HIDE DEF q
<1>2. p \in Blocks /\ q \in Blocks /\ p \in Chain[q] /\ q \in Chain[p]
  BY <1>1, OnOwnChain
<1>3. p = q
  <2>1. Height[p] <= Height[q] /\ Height[q] <= Height[p] /\ Height[p] \in Nat /\ Height[q] \in Nat
    BY <1>2, Below, TreeAssumption
  <2> QED BY <1>1, <2>1, OneAtHeight
<1> QED BY <1>3 DEF q

LEMMA ToldAll == ASSUME NEW t \in Blocks PROVE ToldOf({}, t) = t
<1>1. Chain[t] \ Chain[t] = {} /\ t \in Chain[t]
  BY OnOwnChain
<1> QED BY <1>1, ToldIs

(* The block of the next event follows the last one told.                  *)
LEMMA DueIs ==
    ASSUME TypeOK, ChainOK, NEW b \in Blocks, Due(b)
    PROVE  /\ b \in Chain[tip] /\ b # Genesis /\ Told = Parent[b] /\ Parent[b] \in Chain[tip]
           /\ tell \ {b} = Chain[tip] \ Chain[b] /\ ToldOf(tell \ {b}, tip) = b
<1>1. tip \in Blocks /\ b \in tell /\ \A c \in tell : Height[b] <= Height[c]
  BY DEF TypeOK, Due
<1>2. PICK p \in Chain[tip] : tell = Chain[tip] \ Chain[p]
  BY DEF ChainOK
<1>3. p \in Blocks /\ Height[p] \in Nat /\ Height[b] \in Nat
  BY <1>1, <1>2, OnOwnChain, TreeAssumption
<1>4. b \in Chain[tip] /\ b # Genesis /\ b \notin Chain[p]
  BY <1>1, <1>2, <1>3, OnOwnChain
<1>5. /\ Parent[b] \in Blocks /\ Chain[b] = Chain[Parent[b]] \cup {b}
      /\ b \notin Chain[Parent[b]] /\ Height[b] = Height[Parent[b]] + 1 /\ Height[Parent[b]] \in Nat
  BY <1>4, Branch
<1>6. Parent[b] \in Chain[tip] /\ Chain[b] \subseteq Chain[tip]
  BY <1>1, <1>4, <1>5, ChainsNest, OnOwnChain
<1>7. Height[p] < Height[b]
  BY <1>1, <1>3, <1>4, ChainOrder
<1>8. Parent[b] \in Chain[p]
  BY <1>1, <1>2, <1>5, <1>6
<1>9. Height[Parent[b]] <= Height[p]
  BY <1>3, <1>8, Below
<1>10. Parent[b] = p
  BY <1>1, <1>3, <1>5, <1>6, <1>7, <1>9, OneAtHeight
<1>11. tell \ {b} = Chain[tip] \ Chain[b]
  BY <1>2, <1>5, <1>10
<1> QED BY <1>1, <1>2, <1>4, <1>6, <1>10, <1>11, ToldIs DEF Told

(* What is readable of a branch says how high pruning went.                *)
LEMMA BranchReadable ==
    ASSUME NEW a \in Blocks, NEW b \in Blocks, pruned \in Nat
    PROVE  /\ a \notin Chain[b] /\ (\A c \in Chain[a] \ Chain[b] : Readable(c)) => pruned <= Height[Fork(a, b)]
           /\ pruned <= Height[Fork(a, b)] => \A c \in Chain[a] \ Chain[b] : c \in Bodies
<1> DEFINE f == Fork(a, b)
<1>1. f \in Chain[a] \cap Chain[b] /\ f \in Blocks /\ Height[f] \in Nat /\ Height[a] \in Nat
  BY ForkIs, TreeAssumption
<1> HIDE DEF f
<1>2. ASSUME a \notin Chain[b], \A c \in Chain[a] \ Chain[b] : Readable(c) PROVE pruned <= Height[f]
  <2>1. a \in Chain[a] /\ Height[f] < Height[a]
    BY <1>1, <1>2, Below, OnOwnChain
  <2>2. PICK c \in Chain[a] : Height[c] = Height[f] + 1
    BY <1>1, <2>1, EveryHeight, TreeAssumption
  <2>3. c \in Blocks
    BY OnOwnChain
  <2>4. c \notin Chain[b]
    BY <1>1, <2>2, ForkIs DEF f
  <2>5. Height[c] > pruned
    BY <1>1, <1>2, <2>2, <2>3, <2>4, TreeAssumption DEF Readable
  <2> QED BY <1>1, <2>2, <2>5
<1>3. ASSUME pruned <= Height[f], NEW c \in Chain[a] \ Chain[b] PROVE c \in Bodies
  <2>1. c \in Blocks /\ Height[c] \in Nat /\ Height[c] > Height[f]
    BY <1>1, OnOwnChain, AboveFork, TreeAssumption
  <2> QED BY <1>1, <1>3, <2>1 DEF Bodies, Readable
<1> QED BY <1>2, <1>3 DEF f

LEMMA CommittedIs ==
    ASSUME NEW d \in SavedTypes, NEW k, NEW x, Fit(k, x)
    PROVE  LET s == Committed(d, x) IN
           /\ s \in SavedTypes /\ s.known = d.known /\ s.tip = d.tip /\ s.best = x.best
           /\ s.mu = IF x.running = None THEN d.mu ELSE x.running.value
<1> DEFINE mu == IF x.running = None THEN d.mu ELSE x.running.value
           s == Committed(d, x)
<1>1. mu \in Values \cup {None} /\ x.best \in Blocks \cup {None}
  BY DEF Fit, Record, SavedTypes
<1>2. s = [known |-> d.known, tip |-> d.tip, best |-> x.best, mu |-> mu]
  <2>1. s = [d EXCEPT !.best = x.best, !.mu = mu]
    BY DEF Committed
  <2>2. [d EXCEPT !.best = x.best] = [known |-> d.known, tip |-> d.tip, best |-> x.best, mu |-> d.mu]
    BY DEF SavedTypes
  <2>3. [[known |-> d.known, tip |-> d.tip, best |-> x.best, mu |-> d.mu] EXCEPT !.mu = mu]
          = [known |-> d.known, tip |-> d.tip, best |-> x.best, mu |-> mu]
    OBVIOUS
  <2> HIDE DEF s, mu
  <2>4. [[d EXCEPT !.best = x.best] EXCEPT !.mu = mu] = [known |-> d.known, tip |-> d.tip, best |-> x.best, mu |-> mu]
    BY <2>2, <2>3, Zenon
  <2> QED BY <2>1, <2>4
<1> HIDE DEF s, mu
<1>3. d.known \in SUBSET Blocks /\ d.tip \in Blocks
  BY DEF SavedTypes
<1>4. s \in SavedTypes
  BY <1>1, <1>2, <1>3 DEF SavedTypes
<1> QED BY <1>2, <1>4 DEF s, mu

LEMMA BecomesFit ==
    ASSUME NEW x, Fit(kind, x), Becomes(x), kind' = kind
    PROVE  Index' = x /\ Fit(kind, Index)' /\ (Ran(x) => Ran(Index)')
<1>1. Index' = x
  BY BecomesIs DEF Fit
<1> QED BY <1>1 DEF Ran

LEMMA SameIndex ==
    ASSUME UNCHANGED <<kind, memory, db>>
    PROVE  Index' = Index /\ (Fit(kind, Index) => Fit(kind, Index)') /\ (Ran(Index) => Ran(Index)')
<1>1. Index' = Index /\ kind' = kind
  BY DEF Index, memory
<1> QED BY <1>1 DEF Ran

LEMMA SameTold == ASSUME UNCHANGED chain PROVE Told' = Told
BY DEF Told, chain

-----------------------------------------------------------------------------
(* Every step keeps it.                                                    *)

LEMMA BaseInit == Init => Base
<1> SUFFICES ASSUME Init PROVE Base
  OBVIOUS
<1> DEFINE d == [at |-> [h \in Heights |-> None], byHash |-> [b \in Blocks |-> None],
                 rows |-> {}, where |-> [t \in Txs |-> None]]
<1>1. d \in DbTypes /\ (\A h \in Heights : d.at[h] = None) /\ (\A b \in Blocks : d.byHash[b] = None) /\ d.rows = {}
  BY DEF DbTypes
<1> HIDE DEF d
<1>2. db = d /\ best = None /\ running = None
  BY DEF Init, d
<1>3. \A b \in Blocks : LookUp(db, b) = None
  BY <1>1, <1>2 DEF LookUp, Heights
<1>4. RecordsFit(db)
  BY <1>1, <1>2, <1>3 DEF RecordsFit
<1>5. Fit(kind, Index) /\ Ran(Index)
  <2>1. Index.db = db /\ Index.best = None /\ Index.running = None
        /\ Index = [db |-> Index.db, best |-> Index.best, running |-> Index.running]
    BY <1>2 DEF Index
  <2> QED BY <1>1, <1>2, <1>4, <2>1 DEF Fit, Ran
<1>6. TypeOK
  BY NoneAssumption, TreeAssumption DEF Init, TypeOK, Statuses, SavedTypes
<1>7. ChainOK /\ BestOK
  BY TreeAssumption DEF Init, ChainOK, BestOK
<1>8. IndexOK
  BY <1>5 DEF IndexOK, Init
<1>9. PrunedOK
  BY ToldAll, TreeAssumption DEF PrunedOK, Init, Told
<1>10. SyncOK /\ LockOK
  BY DEF SyncOK, LockOK, Init
<1> QED BY <1>6, <1>7, <1>8, <1>9, <1>10 DEF Base

LEMMA RefuseBase == Base /\ Refuse => Base'
<1> SUFFICES ASSUME Base, Refuse PROVE Base'
  OBVIOUS
<1> USE DEF Base, Refuse
<1>1. TypeOK'
  BY DEF TypeOK, Statuses, chain
<1>2. ChainOK'
  BY DEF ChainOK, chain
<1>3. BestOK'
  BY DEF BestOK, chain, memory
<1>4. IndexOK'
  BY SameIndex DEF IndexOK, memory
<1>5. PrunedOK'
  BY SameTold DEF PrunedOK
<1>6. SyncOK' /\ LockOK'
  BY DEF SyncOK, LockOK
<1> QED BY <1>1, <1>2, <1>3, <1>4, <1>5, <1>6

(* What a start finds and makes of it.                                     *)
LEMMA LoadedIs ==
    ASSUME Base, status = "down"
    PROVE  /\ Fit(kind, Loaded) /\ Ran(Loaded) /\ Loaded.db = db /\ Loaded.best = best
           /\ best = saved.best /\ tip = saved.tip /\ known = saved.known
<1>1. /\ best = saved.best /\ running = None /\ Fit(kind, Index) /\ saved \in SavedTypes
      /\ kind \in ByBlock /\ saved.best # None => LookUp(db, saved.best) # None
      /\ kind = "coinstats" /\ saved.best # None => saved.mu = Ones(saved.best)
      /\ tip = saved.tip /\ known = saved.known
  BY DEF Base, BestOK, IndexOK, TypeOK, ChainOK
<1> DEFINE r == IF kind = "coinstats" /\ best # None THEN [block |-> best, value |-> saved.mu] ELSE None
<1>2. Loaded = [db |-> db, best |-> best, running |-> r]
  BY DEF Loaded, Index
<1>3. /\ Index.db = db /\ Index.best = best /\ Index.running = running
  BY DEF Index
<1>4. r # None => kind = "coinstats" /\ best # None /\ r = [block |-> best, value |-> Ones(best)]
  BY <1>1
<1>5. best \in Blocks \cup {None}
  BY <1>1, <1>3 DEF Fit
<1>6. r \in Record \cup {None} /\ (kind = "coinstats" /\ best # None => r # None)
  <2>1. CASE kind = "coinstats" /\ best # None
    <3>1. best \in Blocks /\ saved.mu \in Values
      BY <1>1, <1>5, <2>1, OnesFold
    <3> QED BY <2>1, <3>1, NoneAssumption DEF Record
  <2>2. CASE ~(kind = "coinstats" /\ best # None)
    BY <2>2
  <2> QED BY <2>1, <2>2
<1>7. kind # "coinstats" => r = None
  OBVIOUS
<1> HIDE DEF r
<1>8. Loaded.db = db /\ Loaded.best = best /\ Loaded.running = r
      /\ Loaded = [db |-> Loaded.db, best |-> Loaded.best, running |-> Loaded.running]
  BY <1>2
<1>9. Fit(kind, Loaded)
  BY <1>1, <1>3, <1>4, <1>6, <1>8 DEF Fit
<1>10. Ran(Loaded)
  BY <1>6, <1>7, <1>8 DEF Ran
<1> QED BY <1>1, <1>8, <1>9, <1>10

LEMMA StartIs ==
    ASSUME Base, StartSync
    PROVE  LET p == Prepared(Loaded, Bodies) IN
           /\ Index' = p.x /\ Fit(kind, p.x) /\ Ran(p.x) /\ Keeps(Index, p.x)
           /\ best = None => p.x.best = None
           /\ best # None => p.x.best # None
           /\ best = None \/ best \in Chain[tip] \/ kind = "tx" => p.ok /\ p.x = Loaded
           /\ best # None /\ kind # "tx" /\ p.ok => p.x.best = Fork(best, tip)
           /\ best # None /\ kind = "spender" /\ p.ok => p.x.db.rows = db.rows \ (Chain[best] \ Chain[tip])
           /\ best # None /\ kind = "coinstats" /\ p.ok => Chain[best] \ Chain[tip] \subseteq Bodies
           /\ best # None /\ Chain[best] \ Chain[tip] \subseteq Bodies => p.ok
           /\ kind \in {"tx", "filter"} => p.ok
<1> DEFINE p == Prepared(Loaded, Bodies)
<1>1. /\ tip \in Blocks /\ kind \in Kinds /\ kind' = kind
      /\ Becomes(p.x) /\ status = "down"
  BY DEF Base, TypeOK, StartSync
<1>2. /\ Fit(kind, Loaded) /\ Ran(Loaded) /\ Loaded.db = db /\ Loaded.best = best
  BY <1>1, LoadedIs
<1> HIDE DEF p
<1>3. /\ Fit(kind, p.x) /\ Ran(p.x) /\ Keeps(Loaded, p.x)
      /\ best = None => p.x.best = None
      /\ best # None => p.x.best # None
      /\ best = None \/ best \in Chain[tip] \/ kind = "tx" => p.ok /\ p.x = Loaded
      /\ best # None /\ kind # "tx" /\ p.ok => p.x.best = Fork(best, tip)
      /\ best # None /\ kind = "spender" /\ p.ok => p.x.db.rows = db.rows \ (Chain[best] \ Chain[tip])
      /\ best # None /\ kind = "coinstats" /\ p.ok => Chain[best] \ Chain[tip] \subseteq Bodies
      /\ best # None /\ Chain[best] \ Chain[tip] \subseteq Bodies => p.ok
      /\ kind \in {"tx", "filter"} => p.ok
  BY <1>1, <1>2, PreparedIs DEF p
<1>4. Keeps(Index, p.x)
  BY <1>2, <1>3 DEF Keeps, Index
<1>5. Index' = p.x
  BY <1>1, <1>3, BecomesFit
<1> QED BY <1>3, <1>4, <1>5 DEF p

LEMMA StartBase == Base /\ StartSync => Base'
<1> SUFFICES ASSUME Base, StartSync PROVE Base'
  OBVIOUS
<1> DEFINE p == Prepared(Loaded, Bodies)
<1>1. /\ Index' = p.x /\ Fit(kind, p.x) /\ Ran(p.x) /\ Keeps(Index, p.x)
      /\ best = None => p.x.best = None
      /\ best # None => p.x.best # None
      /\ best = None \/ best \in Chain[tip] \/ kind = "tx" => p.ok /\ p.x = Loaded
      /\ best # None /\ kind # "tx" /\ p.ok => p.x.best = Fork(best, tip)
      /\ best # None /\ kind = "coinstats" /\ p.ok => Chain[best] \ Chain[tip] \subseteq Bodies
  BY StartIs
<1>2. /\ status = "down" /\ (best = None \/ best \in known) /\ ~BeyondPruned /\ cap' = None
      /\ status' = IF p.ok THEN "sync" ELSE "aborted"
      /\ scan' = ScanFrom(p.x)
      /\ UNCHANGED <<kind, chain, flushing, saved, pruned, fails, crashes, left>>
  BY DEF StartSync
<1>3. /\ Loaded.best = best /\ best = saved.best /\ tip = saved.tip /\ known = saved.known
  BY <1>2, LoadedIs
<1>4. db' = p.x.db /\ best' = p.x.best /\ running' = p.x.running
  BY <1>1 DEF StartSync, Becomes
<1> HIDE DEF p
<1>5. /\ tip \in Blocks /\ best \in Blocks \cup {None} /\ pruned \in Nat /\ kind \in Kinds
  BY DEF Base, TypeOK, IndexOK, Fit, Index
<1>6. best # None => /\ Fork(best, tip) \in Chain[tip] /\ Fork(best, tip) \in Blocks /\ Height[Fork(best, tip)] \in Nat
                     /\ Height[Fork(best, tip)] <= Height[best] /\ Height[best] \in Nat
  BY <1>5, ForkIs, Below, TreeAssumption
<1>7. TypeOK'
  <2>1. scan' \in Nat
    <3>1. CASE kind = "tx"
      <4>1. TxResume \in Nat
        BY <1>5, <1>6 DEF TxResume
      <4> QED BY <1>2, <3>1, <4>1 DEF ScanFrom
    <3>2. CASE kind # "tx"
      <4>1. p.x.best # None => Height[p.x.best] \in Nat
        BY <1>1, TreeAssumption DEF Fit
      <4> QED BY <1>2, <3>2, <4>1 DEF ScanFrom
    <3> QED BY <3>1, <3>2
  <2> QED BY <1>2, <2>1 DEF Base, TypeOK, Statuses, chain
<1>8. ChainOK'
  BY <1>2 DEF Base, ChainOK, chain
<1>9. BestOK'
  <2>1. p.ok /\ p.x.best # None => p.x.best \in known
    BY <1>1, <1>2, <1>3, <1>6 DEF Base, ChainOK
  <2> QED BY <1>2, <1>4, <2>1 DEF Base, BestOK, chain
<1>10. IndexOK'
  <2>1. Fit(kind, Index)' /\ Ran(Index)'
    BY <1>1, <1>2 DEF Ran
  <2>2. kind \in ByBlock /\ saved.best # None => LookUp(db', saved.best) # None
    BY <1>1, <1>4, <1>5, <1>3 DEF Base, IndexOK, Keeps, Index
  <2>3. kind # "coinstats" => running' = None
    BY <1>1, <1>4 DEF Ran
  <2> QED BY <1>2, <2>1, <2>2, <2>3 DEF Base, IndexOK
<1>11. PrunedOK'
  BY <1>2, SameTold DEF Base, PrunedOK
<1>12. SyncOK'
  <2> SUFFICES ASSUME p.ok, kind # "tx"
               PROVE  \/ best' = None /\ scan' = 0 /\ pruned = 0
                      \/ best' \in Chain[tip] /\ scan' = Height[best'] + 1 /\ pruned <= Height[best']
    BY <1>2 DEF SyncOK, chain
  <2>1. CASE best = None
    BY <1>1, <1>2, <1>3, <1>4, <2>1 DEF ScanFrom, Base, PrunedOK
  <2>2. CASE best # None
    <3>1. best' = Fork(best, tip) /\ scan' = Height[best'] + 1
      BY <1>1, <1>2, <1>4, <2>2 DEF ScanFrom
    <3>2. CASE pruned = 0
      BY <1>6, <2>2, <3>1, <3>2
    <3>3. CASE pruned # 0
      <4>1. kind \in ByBlock /\ Height[tip] > 0 /\ Height[tip] \in Nat
        BY <1>3, <1>5, <3>3, TreeAssumption DEF Base, PrunedOK
      <4>2. LowestOnDisk = pruned + 1 /\ ~(IndexHeight(Index) + 1 < LowestOnDisk)
        BY <1>2, <1>5, <3>3, <4>1 DEF LowestOnDisk, BeyondPruned
      <4>3. CASE kind = "filter"
        <5>1. IndexHeight(Index) = Height[Fork(best, tip)]
          BY <2>2, <4>3 DEF IndexHeight, ChainHeight, Index
        <5> QED BY <1>5, <1>6, <2>2, <3>1, <4>2, <5>1
      <4>4. CASE kind = "coinstats"
        <5>1. IndexHeight(Index) = Height[best]
          BY <2>2, <4>4 DEF IndexHeight, Index
        <5>2. CASE best \in Chain[tip]
          BY <1>5, <1>6, <2>2, <3>1, <4>2, <5>1, <5>2, ForkOnChain
        <5>3. CASE best \notin Chain[tip]
          <6>1. \A c \in Chain[best] \ Chain[tip] : Readable(c)
            BY <1>1, <2>2, <4>4 DEF Bodies
          <6> QED BY <1>5, <1>6, <2>2, <3>1, <5>3, <6>1, BranchReadable
        <5> QED BY <5>2, <5>3
      <4> QED BY <4>1, <4>3, <4>4 DEF ByBlock
    <3> QED BY <3>2, <3>3
  <2> QED BY <2>1, <2>2
<1>13. LockOK'
  BY <1>2 DEF LockOK
<1> QED BY <1>7, <1>8, <1>9, <1>10, <1>11, <1>12, <1>13 DEF Base

(* One block of the start-up sync, which never ends early.                 *)
LEMMA SyncIs ==
    ASSUME Base, SyncBlock
    PROVE  LET b == AtHeight(scan) IN
           /\ b \in Chain[tip] /\ b \in Blocks /\ Height[b] = scan /\ scan' = scan + 1
           /\ Fit(kind, Index)' /\ Ran(Index)' /\ Keeps(Index, Index')
           /\ kind # "tx" => best' = b /\ pruned <= Height[b]
           /\ kind # "tx" => (best = None /\ b = Genesis) \/ (b # Genesis /\ best = Parent[b])
           /\ kind = "tx" => /\ best' = best
                             /\ \/ db' = db
                                \/ db'.where = [t \in Txs |-> IF t \in TxsOf[b] THEN b ELSE db.where[t]]
           /\ kind = "spender" => db'.rows = db.rows \cup {b}
<1> DEFINE b == AtHeight(scan)
<1>1. /\ tip \in Blocks /\ scan \in Nat /\ kind \in Kinds /\ pruned \in Nat
      /\ status = "sync" /\ scan <= Height[tip] /\ kind' = kind
  BY DEF Base, TypeOK, SyncBlock
<1>2. b \in Chain[tip] /\ b \in Blocks /\ Height[b] = scan
  BY <1>1, AtHeightIs
<1>3. Fit(kind, Index) /\ Ran(Index)
  BY <1>1 DEF Base, IndexOK
<1>4. Index.db = db /\ Index.best = best /\ Index.running = running
      /\ Index = [db |-> Index.db, best |-> Index.best, running |-> Index.running]
  BY DEF Index
<1> HIDE DEF b
<1>5. CASE kind = "tx"
  <2>1. pruned = 0 /\ Readable(b)
    <3>1. pruned = 0
      BY <1>5 DEF Base, PrunedOK, ByBlock
    <3>2. Height[b] = 0 => b = Genesis
      BY <1>2, GenesisAlone
    <3> QED BY <1>1, <1>2, <3>1, <3>2 DEF Readable
  <2>2. Becomes(ReadTx(Index, b)) /\ scan' = scan + 1
    BY <1>5, <2>1 DEF SyncBlock, b
  <2>3. CASE b = Genesis \/ Recorded(Index, b)
    <3>1. Becomes(Index)
      BY <2>2, <2>3 DEF ReadTx
    <3>2. Index' = Index /\ Fit(kind, Index)' /\ Ran(Index)'
      BY <1>1, <1>3, <3>1, BecomesFit
    <3> QED BY <1>2, <1>4, <1>5, <2>2, <2>3, <3>1, <3>2 DEF Keeps, Becomes, b
  <2>4. CASE ~(b = Genesis \/ Recorded(Index, b))
    <3> DEFINE w == WriteTx(Index, b)
               y == [w EXCEPT !.best = best]
    <3>1. /\ Fit("tx", w) /\ Keeps(Index, w) /\ w.running = None
          /\ w.db.where = [t \in Txs |-> IF t \in TxsOf[b] THEN b ELSE db.where[t]]
      BY <1>2, <1>3, <1>4, <1>5, TxWrites DEF Ran
    <3>2. Becomes(y)
      BY <1>4, <2>2, <2>4 DEF ReadTx
    <3> HIDE DEF w
    <3>3. y = [db |-> w.db, best |-> best, running |-> None]
      BY <3>1 DEF Fit
    <3> HIDE DEF y
    <3>4. y.db = w.db /\ y.best = best /\ y.running = None
          /\ y = [db |-> y.db, best |-> y.best, running |-> y.running]
      BY <3>3
    <3>5. Fit(kind, y)
      BY <1>3, <1>4, <1>5, <3>1, <3>4 DEF Fit, ByBlock
    <3>6. Index' = y /\ Fit(kind, Index)' /\ Ran(Index)'
      BY <1>1, <1>5, <3>2, <3>4, <3>5, BecomesFit DEF Ran
    <3>7. Keeps(Index, Index')
      BY <3>1, <3>4, <3>6 DEF Keeps
    <3>8. db' = w.db /\ best' = best
      BY <3>2, <3>4 DEF Becomes
    <3> QED BY <1>2, <1>5, <2>2, <2>4, <3>1, <3>6, <3>7, <3>8 DEF b
  <2> QED BY <2>3, <2>4
<1>6. CASE kind # "tx"
  <2>1. \/ best = None /\ scan = 0 /\ pruned = 0
        \/ best \in Chain[tip] /\ scan = Height[best] + 1 /\ pruned <= Height[best]
    BY <1>1, <1>6 DEF Base, SyncOK
  <2>2. /\ (best = None /\ b = Genesis) \/ (b # Genesis /\ best # None /\ best = Parent[b])
        /\ Readable(b) /\ pruned <= Height[b]
    <3>1. CASE best = None /\ scan = 0 /\ pruned = 0
      BY <1>1, <1>2, <3>1, GenesisAlone DEF Readable
    <3>2. CASE best \in Chain[tip] /\ scan = Height[best] + 1 /\ pruned <= Height[best]
      <4>1. best \in Blocks /\ Height[best] \in Nat /\ best # None
        BY <1>1, <3>2, OnOwnChain, TreeAssumption
      <4>2. b # Genesis
        BY <1>2, <3>2, <4>1, TreeAssumption
      <4>3. Parent[b] \in Blocks /\ Height[b] = Height[Parent[b]] + 1 /\ Parent[b] \in Chain[tip] /\ Height[Parent[b]] \in Nat
        BY <1>1, <1>2, <4>2, Branch, OnOwnChain, ChainsNest
      <4>4. best = Parent[b]
        <5>1. Height[best] = Height[Parent[b]]
          BY <1>2, <3>2, <4>1, <4>3
        <5> QED BY <1>1, <3>2, <4>3, <5>1, OneAtHeight
      <4> QED BY <1>1, <1>2, <3>2, <4>1, <4>2, <4>4 DEF Readable
    <3> QED BY <2>1, <3>1, <3>2
  <2> DEFINE y == Written(Index, b)
  <2>3. /\ Fit(kind, y) /\ Ran(y) /\ Keeps(Index, y) /\ y.best = b
        /\ kind = "spender" => y = Index \/ y.db.rows = db.rows \cup {b}
    BY <1>1, <1>2, <1>3, <1>4, <2>2, WrittenIs
  <2> HIDE DEF y
  <2>4. y # Index
    <3>1. best # b
      BY <1>2, <2>2, Branch, OnOwnChain, TreeAssumption
    <3> QED BY <1>4, <2>3, <3>1
  <2>5. Becomes(y) /\ scan' = scan + 1
    BY <1>6, <2>2, <2>4 DEF SyncBlock, b, y
  <2>6. Index' = y /\ Fit(kind, Index)' /\ Ran(Index)'
    BY <1>1, <2>3, <2>5, BecomesFit
  <2>7. best' = b /\ db' = y.db
    BY <2>3, <2>5 DEF Becomes
  <2> QED BY <1>2, <1>6, <2>2, <2>3, <2>4, <2>5, <2>6, <2>7 DEF b
<1> QED BY <1>5, <1>6

LEMMA SyncBase == Base /\ SyncBlock => Base'
<1> SUFFICES ASSUME Base, SyncBlock PROVE Base'
  OBVIOUS
<1> DEFINE b == AtHeight(scan)
<1>1. /\ b \in Chain[tip] /\ b \in Blocks /\ Height[b] = scan /\ scan' = scan + 1
      /\ Fit(kind, Index)' /\ Ran(Index)' /\ Keeps(Index, Index')
      /\ kind # "tx" => best' = b /\ pruned <= Height[b]
      /\ kind = "tx" => best' = best
  BY SyncIs
<1>2. /\ status = "sync"
      /\ UNCHANGED <<kind, status, chain, flushing, saved, pruned, cap, fails, crashes, left>>
  BY DEF SyncBlock
<1> HIDE DEF b
<1>3. Index.db = db /\ Index'.db = db' /\ Index'.running = running'
  BY DEF Index
<1>4. TypeOK'
  BY <1>1, <1>2 DEF Base, TypeOK, chain
<1>5. ChainOK'
  BY <1>2 DEF Base, ChainOK, chain
<1>6. BestOK'
  BY <1>1, <1>2 DEF Base, BestOK, ChainOK, chain
<1>7. IndexOK'
  <2>1. kind \in ByBlock /\ saved.best # None => LookUp(db', saved.best) # None
    <3>1. saved.best \in Blocks \cup {None}
      BY DEF Base, TypeOK, SavedTypes
    <3> QED BY <1>1, <1>3, <3>1 DEF Base, IndexOK, Keeps
  <2>2. kind # "coinstats" => running' = None
    BY <1>1, <1>2, <1>3 DEF Ran
  <2> QED BY <1>1, <1>2, <2>1, <2>2 DEF Base, IndexOK
<1>8. PrunedOK'
  BY <1>2, SameTold DEF Base, PrunedOK
<1>9. SyncOK'
  BY <1>1, <1>2 DEF SyncOK, chain
<1>10. LockOK'
  BY <1>2 DEF LockOK
<1> QED BY <1>4, <1>5, <1>6, <1>7, <1>8, <1>9, <1>10 DEF Base

(* At its end the sync has reached the tip.                                *)
LEMMA SyncEndIs ==
    ASSUME Base, SyncEnd
    PROVE  /\ best' = tip /\ tell = {} /\ saved.tip = tip
           /\ Fit(kind, Index)' /\ Ran(Index)' /\ Index'.db = db
           /\ saved' \in SavedTypes /\ saved'.known = saved.known /\ saved'.tip = saved.tip /\ saved'.best = tip
           /\ kind = "coinstats" => saved'.mu = Ones(tip)
<1>1. /\ tip \in Blocks /\ scan \in Nat /\ kind \in Kinds /\ pruned \in Nat
      /\ status = "sync" /\ scan > Height[tip] /\ saved \in SavedTypes
      /\ UNCHANGED <<kind, chain, flushing, pruned, cap, running, db, fails, crashes, left>>
      /\ tell = {} /\ saved.tip = tip
  BY DEF Base, TypeOK, SyncEnd, ChainOK
<1>2. Fit(kind, Index) /\ Ran(Index) /\ Index.db = db /\ Index.best = best /\ Index.running = running
  BY <1>1 DEF Base, IndexOK, Index
<1>3. best' = tip /\ (kind # "tx" => best = tip)
  <2>1. CASE kind = "tx"
    BY <2>1 DEF SyncEnd
  <2>2. CASE kind # "tx"
    <3>1. best' = best
      BY <2>2 DEF SyncEnd
    <3>2. Height[tip] \in Nat
      BY <1>1, TreeAssumption
    <3>3. best \in Chain[tip] /\ scan = Height[best] + 1
      BY <1>1, <2>2, <3>2 DEF Base, SyncOK
    <3>4. best \in Blocks /\ Height[best] \in Nat /\ Height[best] <= Height[tip] /\ (best # tip => Height[best] < Height[tip])
      BY <1>1, <3>3, OnOwnChain, Below, TreeAssumption
    <3>5. best = tip
      BY <1>1, <3>2, <3>3, <3>4
    <3> QED BY <3>1, <3>5
  <2> QED BY <2>1, <2>2
<1> DEFINE y == [db |-> db, best |-> tip, running |-> running]
<1>4. y.db = db /\ y.best = tip /\ y.running = running /\ y = [db |-> y.db, best |-> y.best, running |-> y.running]
  OBVIOUS
<1>5. Index' = y
  BY <1>1, <1>3 DEF Index
<1>6. [Index EXCEPT !.best = best'] = y
  BY <1>3 DEF Index
<1> HIDE DEF y
<1>7. Fit(kind, y) /\ Ran(y)
  <2>1. CASE kind = "tx"
    <3>1. tip \in Blocks \cup {None} /\ running = None
      BY <1>1, <1>2, <2>1 DEF Ran
    <3> QED BY <1>2, <1>4, <2>1, <3>1 DEF Fit, ByBlock, Ran
  <2>2. CASE kind # "tx"
    <3>1. y = Index
      BY <1>2, <1>3, <1>4, <2>2 DEF Index
    <3> QED BY <1>2, <3>1
  <2> QED BY <2>1, <2>2
<1>8. saved' = Committed(saved, y)
  BY <1>6 DEF SyncEnd
<1>9. /\ saved' \in SavedTypes /\ saved'.known = saved.known /\ saved'.tip = saved.tip /\ saved'.best = tip
      /\ saved'.mu = IF running = None THEN saved.mu ELSE running.value
  BY <1>1, <1>4, <1>7, <1>8, CommittedIs
<1>10. kind = "coinstats" => saved'.mu = Ones(tip)
  BY <1>1, <1>4, <1>7, <1>9, TreeAssumption DEF Fit, Ran
<1> QED BY <1>1, <1>3, <1>4, <1>5, <1>7, <1>9, <1>10 DEF Ran

LEMMA SyncEndBase == Base /\ SyncEnd => Base'
<1> SUFFICES ASSUME Base, SyncEnd PROVE Base'
  OBVIOUS
<1>1. /\ best' = tip /\ tell = {} /\ saved.tip = tip
      /\ Fit(kind, Index)' /\ Ran(Index)' /\ Index'.db = db
      /\ saved' \in SavedTypes /\ saved'.known = saved.known /\ saved'.tip = saved.tip /\ saved'.best = tip
      /\ kind = "coinstats" => saved'.mu = Ones(tip)
  BY SyncEndIs
<1>2. /\ status = "sync" /\ status' = "up" /\ scan' = 0
      /\ UNCHANGED <<kind, chain, flushing, pruned, cap, running, db, fails, crashes, left>>
  BY DEF SyncEnd
<1>3. tip \in Blocks /\ tip # None /\ tip \in Chain[tip] /\ Height[tip] \in Nat /\ pruned \in Nat
  BY OnOwnChain, TreeAssumption DEF Base, TypeOK
<1>4. pruned <= Height[tip]
  BY <1>1 DEF Base, PrunedOK
<1>5. TypeOK'
  BY <1>1, <1>2 DEF Base, TypeOK, Statuses, chain
<1>6. ChainOK'
  BY <1>1, <1>2 DEF Base, ChainOK, chain
<1>7. BestOK'
  BY <1>1, <1>2, <1>3 DEF Base, BestOK, ChainOK, chain
<1>8. IndexOK'
  <2>1. kind \in ByBlock => LookUp(db, tip) # None
    <3>1. Index'.best = best'
      BY DEF Index
    <3> QED BY <1>1, <1>2, <1>3, <3>1 DEF Fit
  <2>2. kind # "coinstats" => running' = None
    BY <1>2 DEF Base, IndexOK
  <2> QED BY <1>1, <1>2, <2>1, <2>2 DEF IndexOK
<1>9. PrunedOK'
  BY <1>1, <1>2, <1>3, <1>4, SameTold DEF Base, PrunedOK
<1>10. SyncOK'
  BY <1>2 DEF SyncOK
<1>11. LockOK'
  <2>1. Fork(tip, tip) = tip
    BY <1>3, ForkOnChain
  <2> QED BY <1>1, <1>2, <1>3, <1>4, <2>1 DEF LockOK, Guarded, chain
<1> QED BY <1>5, <1>6, <1>7, <1>8, <1>9, <1>10, <1>11 DEF Base

-----------------------------------------------------------------------------
(* The tip moves.                                                          *)

(* How far a block's branch stays readable when it does.                   *)
LEMMA ForkMoves ==
    ASSUME TypeOK, NEW b \in Blocks, NEW m \in Blocks,
           \A c \in (Chain[tip] \ Chain[b]) \cup (Chain[b] \ Chain[tip]) : Readable(c)
    PROVE  \/ Fork(m, b) = Fork(m, tip)
           \/ pruned <= Height[Fork(m, b)]
<1> DEFINE f == Fork(tip, b)
           g == Fork(m, b)
           k == Fork(m, tip)
<1>1. tip \in Blocks /\ pruned \in Nat
  BY DEF TypeOK
<1>2. /\ f \in Chain[tip] /\ f \in Chain[b] /\ f \in Blocks /\ Height[f] \in Nat
      /\ \A c \in Chain[tip] \cap Chain[b] : Height[c] <= Height[f] /\ c \in Chain[f]
  BY <1>1, ForkIs
<1>3. /\ g \in Chain[m] /\ g \in Chain[b] /\ g \in Blocks /\ Height[g] \in Nat
      /\ \A c \in Chain[m] \cap Chain[b] : Height[c] <= Height[g] /\ c \in Chain[g]
  BY <1>1, ForkIs
<1>4. /\ k \in Chain[m] /\ k \in Chain[tip] /\ k \in Blocks /\ Height[k] \in Nat
      /\ \A c \in Chain[m] \cap Chain[tip] : Height[c] <= Height[k] /\ c \in Chain[k]
  BY <1>1, ForkIs
<1>5. pruned <= Height[f] \/ f = tip
  <2>1. tip \in Chain[b] => f = tip
    BY ForkOnChain
  <2>2. tip \notin Chain[b] => pruned <= Height[f]
    BY <1>1, BranchReadable
  <2> QED BY <2>1, <2>2
<1> HIDE DEF f, g, k
<1>6. CASE g \notin Chain[tip]
  <2>1. g # Genesis /\ Readable(g)
    BY <1>1, <1>3, <1>6, OnOwnChain
  <2> QED BY <1>1, <1>3, <2>1 DEF Readable, g
<1>7. CASE g \in Chain[tip] /\ k \in Chain[b]
  <2>1. Height[g] <= Height[k] /\ Height[k] <= Height[g]
    BY <1>3, <1>4, <1>7
  <2>2. g = k
    BY <1>3, <1>4, <2>1, OneAtHeight
  <2> QED BY <2>2 DEF g, k
<1>8. CASE g \in Chain[tip] /\ k \notin Chain[b]
  <2>1. g \in Chain[f] /\ Height[g] <= Height[f]
    BY <1>2, <1>3, <1>8
  <2>2. f # tip
    BY <1>1, <1>2, <1>4, <1>8, ChainsNest
  <2>3. f \in Chain[k]
    <3>1. k \notin Chain[f]
      BY <1>2, <1>8, ChainsNest
    <3> QED BY <1>1, <1>2, <1>4, <3>1, ChainOrder
  <2>4. f \in Chain[g] /\ Height[f] <= Height[g]
    BY <1>2, <1>3, <1>4, <2>3, ChainsNest
  <2>5. Height[f] = Height[g]
    BY <1>2, <1>3, <2>1, <2>4
  <2> QED BY <1>5, <2>2, <2>5 DEF g
<1> QED BY <1>6, <1>7, <1>8

(* The lock of a block on a branch the tip leaves stands below the branch. *)
LEMMA CapMoves ==
    ASSUME TypeOK, NEW b \in Blocks, NEW m \in Blocks, Guarded(m),
           best \in Blocks, Height[best] > 0,
           m \in Chain[tip] => m \in Chain[best],
           cap # None /\ m \notin Chain[tip] => cap < Height[best],
           tip \notin Chain[b] => cap' = LET f == Height[Fork(tip, b)] IN
                                         IF LockHeight # None /\ LockHeight > f THEN f
                                         ELSE IF Lowered THEN cap ELSE None,
           tip \in Chain[b] => cap' = cap, tip' = b
    PROVE  Guarded(m)'
<1> DEFINE f == Fork(tip, b)
           g == Fork(m, b)
           k == Fork(m, tip)
<1>1. tip \in Blocks /\ cap \in Nat \cup {None} /\ Height[best] \in Nat /\ Height[m] \in Nat
  BY TreeAssumption DEF TypeOK
<1>2. /\ f \in Chain[tip] /\ f \in Chain[b] /\ f \in Blocks /\ Height[f] \in Nat
      /\ \A c \in Chain[tip] \cap Chain[b] : Height[c] <= Height[f] /\ c \in Chain[f]
  BY <1>1, ForkIs
<1>3. /\ g \in Chain[m] /\ g \in Chain[b] /\ g \in Blocks /\ Height[g] \in Nat
      /\ \A c \in Chain[m] \cap Chain[b] : Height[c] <= Height[g] /\ c \in Chain[g]
  BY <1>1, ForkIs
<1>4. /\ k \in Chain[m] /\ k \in Chain[tip] /\ k \in Blocks /\ Height[k] \in Nat
  BY <1>1, ForkIs
<1>5. Height[k] <= Height[g] \/ Height[f] <= Height[g]
  BY <1>1, ForkTriangle
<1>6. tip \notin Chain[b] => cap' = IF LockHeight # None /\ LockHeight > Height[f] THEN Height[f]
                                    ELSE IF Lowered THEN cap ELSE None
  OBVIOUS
<1> HIDE DEF f
<1>7. SUFFICES ASSUME m \notin Chain[b] PROVE cap' # None /\ cap' <= Height[g]
  BY DEF Guarded
<1> HIDE DEF g
<1>8. IndexHeightForLock = Height[best] /\ Height[best] # None /\ Height[f] # None
  BY <1>1, <1>2, NoneAssumption, TreeAssumption DEF IndexHeightForLock
<1>9. CASE tip \in Chain[b]
  <2>1. cap # None /\ cap <= Height[k] /\ k \in Chain[b]
    BY <1>1, <1>4, <1>7, <1>9, ChainsNest DEF Guarded
  <2>2. Height[k] <= Height[g]
    BY <1>3, <1>4, <2>1
  <2> QED BY <1>1, <1>3, <1>4, <1>9, <2>1, <2>2
<1>10. CASE tip \notin Chain[b] /\ m \in Chain[tip]
  <2>1. f \in Chain[m] /\ Height[f] < Height[m]
    <3>1. m \notin Chain[f]
      BY <1>2, <1>7, ChainsNest
    <3>2. f \in Chain[m]
      BY <1>1, <1>2, <1>10, <3>1, ChainOrder
    <3>3. f # m
      BY <1>2, <1>7
    <3> QED BY <3>2, <3>3, Below
  <2>2. Height[f] <= Height[g]
    BY <1>2, <1>3, <2>1
  <2>3. Height[m] <= Height[best]
    BY <1>10, Below
  <2>4. cap' # None /\ cap' <= Height[f]
    <3>1. CASE LockHeight # None /\ LockHeight > Height[f]
      BY <1>2, <1>6, <1>8, <1>10, <3>1
    <3>2. CASE ~(LockHeight # None /\ LockHeight > Height[f])
      <4>1. Lowered
        BY <1>1, <1>2, <1>8, <2>1, <2>3, <3>2 DEF LockHeight
      <4>2. LockHeight = cap /\ cap # None /\ cap \in Nat
        BY <1>1, <4>1 DEF LockHeight, Lowered
      <4> QED BY <1>2, <1>6, <1>10, <3>2, <4>1, <4>2
    <3> QED BY <3>1, <3>2
  <2>5. cap' \in Nat
    BY <1>1, <1>2, <1>6, <1>10, <2>4
  <2> QED BY <1>2, <1>3, <2>2, <2>4, <2>5
<1>11. CASE tip \notin Chain[b] /\ m \notin Chain[tip]
  <2>1. cap # None /\ cap \in Nat /\ cap <= Height[k] /\ cap < Height[best]
    BY <1>1, <1>11 DEF Guarded
  <2>2. Lowered /\ LockHeight = cap
    BY <1>1, <1>8, <2>1 DEF Lowered, LockHeight
  <2>3. cap' = IF cap > Height[f] THEN Height[f] ELSE cap
    BY <1>6, <1>11, <2>1, <2>2
  <2>4. cap' \in Nat /\ cap' <= Height[f] /\ cap' <= Height[k]
    BY <1>2, <1>4, <2>1, <2>3
  <2>5. cap' <= Height[g]
    BY <1>2, <1>3, <1>4, <1>5, <2>4 DEF f
  <2>6. cap' # None
    BY <2>4, NoneAssumption
  <2> QED BY <2>5, <2>6
<1> QED BY <1>9, <1>10, <1>11

LEMMA MoveIs ==
    ASSUME Base, NEW b \in Blocks, Move(b)
    PROVE  /\ status = "up" /\ tell = {} /\ flushing = "no" /\ Told = tip /\ Told' = Fork(tip, b)
           /\ tip' = b /\ known' = known \cup Chain[b] /\ tell' = Chain[b] \ Chain[Fork(tip, b)]
           /\ Fork(tip, b) \in Chain[b] /\ pruned <= Height[Fork(tip, b)]
           /\ UNCHANGED <<kind, status, flushing, saved, pruned, memory, db, scan, fails, crashes, left>>
<1> DEFINE f == Fork(tip, b)
<1>1. tip \in Blocks /\ pruned \in Nat
  BY DEF Base, TypeOK
<1>2. /\ status = "up" /\ tell = {} /\ flushing = "no"
      /\ \A c \in (Chain[tip] \ Chain[b]) \cup (Chain[b] \ Chain[tip]) : Readable(c)
      /\ tip' = b /\ known' = known \cup Chain[b] /\ tell' = Chain[b] \ Chain[tip]
      /\ UNCHANGED <<kind, status, flushing, saved, pruned, memory, db, scan, fails, crashes, left>>
  BY DEF Move, Quiet
<1>3. f \in Chain[b] /\ f \in Chain[tip] /\ \A c \in Chain[tip] \cap Chain[b] : c \in Chain[f]
  BY <1>1, ForkIs
<1>4. Told = tip
  BY <1>1, <1>2, ToldAll DEF Told
<1>5. pruned <= Height[f]
  <2>1. CASE tip \in Chain[b]
    <3>1. f = tip
      BY <2>1, ForkOnChain
    <3> QED BY <1>2, <1>4, <3>1 DEF Base, PrunedOK
  <2>2. CASE tip \notin Chain[b]
    BY <1>1, <1>2, <2>2, BranchReadable
  <2> QED BY <2>1, <2>2
<1> HIDE DEF f
<1>6. tell' = Chain[b] \ Chain[f]
  <2>1. Chain[f] \subseteq Chain[tip]
    BY <1>1, <1>3, ChainsNest
  <2> QED BY <1>2, <1>3, <2>1
<1>7. Told' = f
  BY <1>2, <1>3, <1>6, ToldIs DEF Told
<1> QED BY <1>2, <1>3, <1>4, <1>5, <1>6, <1>7 DEF f

LEMMA MoveBase == ASSUME NEW b \in Blocks PROVE Base /\ Move(b) => Base'
<1> SUFFICES ASSUME Base, Move(b) PROVE Base'
  OBVIOUS
<1> DEFINE f == Fork(tip, b)
<1>1. /\ status = "up" /\ tell = {} /\ flushing = "no" /\ Told = tip /\ Told' = f
      /\ tip' = b /\ known' = known \cup Chain[b] /\ tell' = Chain[b] \ Chain[f]
      /\ f \in Chain[b] /\ pruned <= Height[f]
      /\ UNCHANGED <<kind, status, flushing, saved, pruned, memory, db, scan, fails, crashes, left>>
  BY MoveIs
<1>2. cap' = IF tip \in Chain[b] THEN cap
             ELSE IF LockHeight # None /\ LockHeight > Height[f] THEN Height[f]
             ELSE IF Lowered THEN cap ELSE None
  BY DEF Move
<1>3. tip \in Blocks /\ f \in Blocks /\ Height[f] \in Nat
  BY ForkIs, TreeAssumption DEF Base, TypeOK
<1>4. \A c \in (Chain[tip] \ Chain[b]) \cup (Chain[b] \ Chain[tip]) : Readable(c)
  BY DEF Move
<1> HIDE DEF f
<1>5. TypeOK'
  <2>1. Chain[b] \subseteq Blocks
    BY OnOwnChain
  <2> QED BY <1>1, <1>2, <1>3, <2>1 DEF Base, TypeOK
<1>6. ChainOK'
  <2>1. \E p \in Chain[b] : tell' = Chain[b] \ Chain[p]
    BY <1>1
  <2> QED BY <1>1, <2>1 DEF Base, ChainOK
<1>7. BestOK'
  BY <1>1 DEF Base, BestOK, memory
<1>8. IndexOK'
  BY <1>1, SameIndex DEF Base, IndexOK, memory
<1>9. PrunedOK'
  BY <1>1 DEF Base, PrunedOK
<1>10. SyncOK'
  BY <1>1 DEF SyncOK
<1>11. LockOK'
  <2> SUFFICES ASSUME kind \in ByBlock
               PROVE  /\ Guarded(best)'
                      /\ \A m \in {best, Fork(best, b)} : Height[m] > 0 => pruned <= Height[m]
    BY <1>1 DEF LockOK, memory
  <2>1. best \in Blocks /\ best # None /\ Height[best] \in Nat
    BY <1>1, TreeAssumption DEF Base, BestOK, IndexOK, Fit, Index
  <2>2. Guarded(best) /\ \A m \in {best, Fork(best, tip)} : Height[m] > 0 => pruned <= Height[m]
    BY <1>1 DEF Base, LockOK
  <2>3. Guarded(best)'
    <3>1. CASE Height[best] = 0
      BY <1>1, <2>1, <3>1, GenesisAlone, OnOwnChain DEF Guarded, memory
    <3>2. CASE Height[best] > 0
      <4>1. cap # None /\ best \notin Chain[tip] => cap < Height[best]
        <5> SUFFICES ASSUME cap # None, best \notin Chain[tip] PROVE cap < Height[best]
          OBVIOUS
        <5>1. cap \in Nat /\ cap <= Height[Fork(best, tip)]
          BY <2>2 DEF Guarded, Base, TypeOK
        <5>2. Fork(best, tip) \in Chain[best] /\ Fork(best, tip) # best /\ Height[Fork(best, tip)] \in Nat
          BY <1>3, <2>1, ForkIs
        <5>3. Height[Fork(best, tip)] < Height[best]
          BY <2>1, <5>2, Below
        <5> QED BY <2>1, <5>1, <5>2, <5>3
      <4>2. best \in Chain[best]
        BY <2>1, OnOwnChain
      <4>3. TypeOK
        BY DEF Base
      <4>4. tip \notin Chain[b] => cap' = IF LockHeight # None /\ LockHeight > Height[Fork(tip, b)] THEN Height[Fork(tip, b)]
                                         ELSE IF Lowered THEN cap ELSE None
        BY <1>2 DEF f
      <4>5. tip \in Chain[b] => cap' = cap
        BY <1>2
      <4>6. best' = best
        BY <1>1 DEF memory
      <4>7. \A m \in Blocks : m = best => Guarded(m)'
        BY <1>1, <2>1, <2>2, <3>2, <4>1, <4>2, <4>3, <4>4, <4>5, CapMoves
      <4> QED BY <2>1, <4>6, <4>7 DEF Guarded
    <3> QED BY <2>1, <3>1, <3>2
  <2>4. Fork(best, b) = Fork(best, tip) \/ pruned <= Height[Fork(best, b)]
    BY <1>4, <2>1, ForkMoves DEF Base
  <2> QED BY <2>2, <2>3, <2>4
<1> QED BY <1>5, <1>6, <1>7, <1>8, <1>9, <1>10, <1>11 DEF Base

-----------------------------------------------------------------------------
(* A block is told of.  Rewinding leaves the index at the block before it, *)
(* where the two branches part, or, if it had the block already, where it  *)
(* was.                                                                    *)

LEMMA RewoundIs ==
    ASSUME Base, status = "up", NEW b \in Blocks, Due(b), NEW bodies
    PROVE  LET r == Rewound(b, bodies)
               lost == Chain[best] \ Chain[tip] IN
           /\ best \in Blocks /\ best # None
           /\ Fit(kind, r.x) /\ Ran(r.x) /\ Keeps(Index, r.x) /\ r.x.best # None
           /\ r.ok /\ kind # "tx" => r.x.best \in Chain[tip] /\ r.x.best = Fork(best, tip)
           /\ kind = "tx" => r.ok /\ r.x = Index
           /\ r.ok /\ kind = "spender" => r.x.db.rows = db.rows \ lost
           /\ lost \subseteq bodies => r.ok
<1> DEFINE r == Rewound(b, bodies)
           lost == Chain[best] \ Chain[tip]
<1>1. /\ tip \in Blocks /\ kind \in Kinds /\ Fit(kind, Index) /\ Ran(Index) /\ best # None
  BY DEF Base, TypeOK, IndexOK, BestOK
<1>2. Index.db = db /\ Index.best = best /\ Index.running = running
  BY DEF Index
<1>3. best \in Blocks
  BY <1>1, <1>2 DEF Fit
<1>4. CASE best = Parent[b]
  <2>1. r = [ok |-> TRUE, x |-> Index]
    BY <1>4 DEF Rewound
  <2>2. best \in Chain[tip]
    BY <1>4, DueIs DEF Base
  <2>3. best = Fork(best, tip) /\ lost = {}
    BY <1>1, <1>3, <2>2, ForkOnChain, ChainsNest
  <2> HIDE DEF r, lost
  <2>4. r.ok /\ r.x = Index /\ Keeps(Index, Index)
    BY <2>1 DEF Keeps
  <2> QED BY <1>1, <1>2, <1>3, <2>2, <2>3, <2>4 DEF r, lost
<1>5. CASE best # Parent[b]
  <2>1. r = Prepared(Index, bodies)
    BY <1>1, <1>5 DEF Rewound
  <2> HIDE DEF r
  <2>2. /\ Fit(kind, r.x) /\ Ran(r.x) /\ Keeps(Index, r.x)
        /\ r.x.best # None
        /\ kind = "tx" => r.ok /\ r.x = Index
        /\ kind # "tx" /\ r.ok => r.x.best = Fork(best, tip)
        /\ kind = "spender" /\ r.ok => r.x.db.rows = db.rows \ lost
        /\ lost \subseteq bodies => r.ok
    BY <1>1, <1>2, <2>1, PreparedIs
  <2>3. Fork(best, tip) \in Chain[tip]
    BY <1>1, <1>3, ForkIs
  <2> QED BY <1>1, <1>3, <2>2, <2>3 DEF r
<1> QED BY <1>4, <1>5

LEMMA TellBase ==
    ASSUME Base, status = "up", NEW b \in Blocks, Due(b), NEW x, Becomes(x),
           Fit(kind, x), Ran(x), Keeps(Index, x), x.best \in known,
           kind # "tx" => x.best \in Chain[tip] /\ (x.best = b \/ x.best = Fork(best, tip)),
           tell' = tell \ {b}, fails' \in Nat, crashes' \in Nat,
           UNCHANGED <<kind, status, known, tip, flushing, saved, pruned, cap, scan, left>>
    PROVE  Base'
<1>1. /\ b \in Chain[tip] /\ b # Genesis /\ Told = Parent[b] /\ Parent[b] \in Chain[tip]
      /\ tell \ {b} = Chain[tip] \ Chain[b] /\ ToldOf(tell \ {b}, tip) = b
  BY DueIs DEF Base
<1>2. Index' = x /\ Fit(kind, Index)' /\ Ran(Index)'
  BY BecomesFit
<1>3. db' = x.db /\ best' = x.best /\ running' = x.running /\ Index.db = db
  BY DEF Becomes, Index
<1>4. tip \in Blocks /\ known \subseteq Blocks /\ None \notin Blocks /\ pruned \in Nat
  BY TreeAssumption DEF Base, TypeOK
<1>5. Told' = b
  BY <1>1 DEF Told
<1>6. pruned <= Height[b]
  <2>1. Height[b] = Height[Parent[b]] + 1 /\ Height[Parent[b]] \in Nat
    BY <1>1, Branch
  <2>2. pruned <= Height[Parent[b]]
    BY <1>1 DEF Base, PrunedOK
  <2> QED BY <1>4, <2>1, <2>2
<1>7. TypeOK'
  BY <1>4 DEF Base, TypeOK
<1>8. ChainOK'
  <2>1. tell # {}
    BY DEF Due
  <2>2. flushing = "no"
    BY <2>1 DEF Base, ChainOK, TypeOK
  <2>3. \E p \in Chain[tip] : tell' = Chain[tip] \ Chain[p]
    BY <1>1
  <2> QED BY <2>2, <2>3 DEF Base, ChainOK
<1>9. BestOK'
  BY <1>3, <1>4 DEF Base, BestOK
<1>10. IndexOK'
  <2>1. kind \in ByBlock /\ saved.best # None => LookUp(db', saved.best) # None
    <3>1. saved.best \in Blocks \cup {None}
      BY DEF Base, TypeOK, SavedTypes
    <3> QED BY <1>3, <3>1 DEF Base, IndexOK, Keeps
  <2>2. kind # "coinstats" => running' = None
    BY <1>3 DEF Ran
  <2> QED BY <1>2, <2>1, <2>2 DEF Base, IndexOK
<1>11. PrunedOK'
  BY <1>5, <1>6 DEF Base, PrunedOK
<1>12. SyncOK'
  BY DEF SyncOK
<1>13. LockOK'
  <2> SUFFICES ASSUME kind \in ByBlock
               PROVE  /\ Guarded(best)'
                      /\ \A m \in {best', Fork(best', tip)} : Height[m] > 0 => pruned <= Height[m]
    BY DEF LockOK
  <2>1. best' \in Chain[tip] /\ (best' = b \/ best' = Fork(best, tip))
    BY <1>3 DEF ByBlock
  <2>2. Fork(best', tip) = best'
    BY <1>4, <2>1, ForkOnChain
  <2>3. Height[best'] > 0 => pruned <= Height[best']
    BY <1>6, <2>1 DEF Base, LockOK
  <2> QED BY <2>1, <2>2, <2>3 DEF Guarded
<1> QED BY <1>7, <1>8, <1>9, <1>10, <1>11, <1>12, <1>13 DEF Base

(* A rewind that succeeds ends on a block the node knows.                  *)
LEMMA RewoundKnown ==
    ASSUME Base, status = "up", NEW b \in Blocks, Due(b), NEW bodies, Rewound(b, bodies).ok
    PROVE  Rewound(b, bodies).x.best \in known
<1>1. Chain[tip] \subseteq known /\ best \in known
  BY DEF Base, ChainOK, BestOK
<1>2. Index.best = best
  BY DEF Index
<1> QED BY <1>1, <1>2, RewoundIs

LEMMA ConnectedIs ==
    ASSUME Base, NEW b \in Blocks, Connected(b)
    PROVE  LET r == Rewound(b, Bodies)
               y == Written(r.x, b) IN
           /\ status = "up" /\ Due(b) /\ r.ok /\ Becomes(y)
           /\ Fit(kind, y) /\ Ran(y) /\ Keeps(Index, y)
           /\ y = r.x \/ y.best = b
           /\ r.x.best = Parent[b] => y.best = b
           /\ kind = "tx" => /\ y.best = b
                             /\ y.db.where = [t \in Txs |-> IF t \in TxsOf[b] THEN b ELSE db.where[t]]
           /\ kind = "spender" => y = r.x \/ y.db.rows = r.x.db.rows \cup {b}
<1> DEFINE r == Rewound(b, Bodies)
           y == Written(r.x, b)
<1>1. status = "up" /\ Due(b) /\ r.ok /\ Becomes(y)
  BY DEF Connected
<1>2. /\ Fit(kind, r.x) /\ Ran(r.x) /\ Keeps(Index, r.x) /\ r.x.best # None
      /\ kind = "tx" => r.x = Index
  BY <1>1, RewoundIs
<1>3. tip \in Blocks /\ kind \in Kinds /\ b \in Chain[tip] /\ b # Genesis
  BY <1>1, DueIs DEF Base, TypeOK
<1> HIDE DEF y, r
<1>4. /\ Fit(kind, y) /\ Ran(y) /\ Keeps(r.x, y)
      /\ y = r.x \/ y.best = b
      /\ kind = "tx" => /\ y.best = b
                        /\ y.db.where = [t \in Txs |-> IF t \in TxsOf[b] THEN b ELSE r.x.db.where[t]]
      /\ kind = "spender" => y = r.x \/ y.db.rows = r.x.db.rows \cup {b}
      /\ r.x.best = Parent[b] => y.best = b
  BY <1>2, <1>3, WrittenIs DEF y
<1>5. Keeps(Index, y)
  BY <1>2, <1>4 DEF Keeps
<1>6. kind = "tx" => y.db.where = [t \in Txs |-> IF t \in TxsOf[b] THEN b ELSE db.where[t]]
  BY <1>2, <1>4 DEF Index
<1> QED BY <1>1, <1>4, <1>5, <1>6 DEF y, r

LEMMA ConnectedBase == ASSUME NEW b \in Blocks PROVE Base /\ Connected(b) => Base'
<1> SUFFICES ASSUME Base, Connected(b) PROVE Base'
  OBVIOUS
<1> DEFINE r == Rewound(b, Bodies)
           y == Written(r.x, b)
<1>1. /\ status = "up" /\ Due(b) /\ r.ok /\ Becomes(y)
      /\ Fit(kind, y) /\ Ran(y) /\ Keeps(Index, y)
      /\ y = r.x \/ y.best = b
  BY ConnectedIs
<1>2. /\ tell' = tell \ {b} /\ fails' = fails /\ crashes' = crashes
      /\ UNCHANGED <<kind, status, known, tip, flushing, saved, pruned, cap, scan, left>>
  BY DEF Connected
<1>3. b \in Chain[tip] /\ b \in known
  BY <1>1, DueIs DEF Base, ChainOK
<1>4. y.best \in known
  BY <1>1, <1>3, RewoundKnown
<1>5. kind # "tx" => y.best \in Chain[tip] /\ (y.best = b \/ y.best = Fork(best, tip))
  BY <1>1, <1>3, RewoundIs
<1>6. fails' \in Nat /\ crashes' \in Nat
  BY <1>2 DEF Base, TypeOK
<1> HIDE DEF y
<1> QED BY <1>1, <1>2, <1>4, <1>5, <1>6, TellBase

LEMMA WriteFailsBase == ASSUME NEW b \in Blocks PROVE Base /\ WriteFails(b) => Base'
<1> SUFFICES ASSUME Base, WriteFails(b) PROVE Base'
  OBVIOUS
<1> DEFINE y == Rewound(b, Bodies).x
<1>1. /\ status = "up" /\ Due(b) /\ Rewound(b, Bodies).ok /\ Becomes(y)
      /\ tell' = tell \ {b} /\ fails' = fails + 1 /\ crashes' = crashes
      /\ UNCHANGED <<kind, status, known, tip, flushing, saved, pruned, cap, scan, left>>
  BY DEF WriteFails
<1>2. /\ Fit(kind, y) /\ Ran(y) /\ Keeps(Index, y)
      /\ kind # "tx" => y.best \in Chain[tip] /\ (y.best = b \/ y.best = Fork(best, tip))
  BY <1>1, RewoundIs
<1>3. y.best \in known
  BY <1>1, RewoundKnown
<1>4. fails' \in Nat /\ crashes' \in Nat
  BY <1>1 DEF Base, TypeOK
<1> HIDE DEF y
<1> QED BY <1>1, <1>2, <1>3, <1>4, TellBase

LEMMA RewindFailsBase ==
    ASSUME NEW b \in Blocks, NEW lost \in {{}} \cup {{c} : c \in Blocks}
    PROVE  Base /\ RewindFails(b, lost) => Base'
<1> SUFFICES ASSUME Base, RewindFails(b, lost) PROVE Base'
  OBVIOUS
<1> DEFINE y == Rewound(b, Bodies \ lost).x
<1>1. /\ status = "up" /\ Due(b) /\ Becomes(y)
      /\ fails' = fails + Cardinality(lost) /\ status' = "aborted"
      /\ UNCHANGED <<kind, chain, flushing, saved, pruned, cap, scan, crashes, left>>
  BY DEF RewindFails
<1>2. Fit(kind, y) /\ Ran(y) /\ Keeps(Index, y)
  BY <1>1, RewoundIs
<1>3. Cardinality(lost) \in Nat
  <2>1. IsFiniteSet(lost)
    BY FS_EmptySet, FS_Singleton
  <2> QED BY <2>1, FS_CardinalityType
<1> HIDE DEF y
<1>4. Index' = y /\ Fit(kind, Index)' /\ Ran(Index)'
  BY <1>1, <1>2, BecomesFit
<1>5. db' = y.db /\ best' = y.best /\ running' = y.running /\ Index.db = db
  BY <1>1 DEF Becomes, Index
<1>6. TypeOK'
  BY <1>1, <1>3 DEF Base, TypeOK, Statuses, chain
<1>7. ChainOK'
  <2>1. tell # {}
    BY <1>1 DEF Due
  <2>2. flushing = "no"
    BY <2>1 DEF Base, ChainOK, TypeOK
  <2> QED BY <1>1, <2>2 DEF Base, ChainOK, chain
<1>8. BestOK'
  BY <1>1 DEF Base, BestOK, chain
<1>9. IndexOK'
  <2>1. kind \in ByBlock /\ saved.best # None => LookUp(db', saved.best) # None
    <3>1. saved.best \in Blocks \cup {None}
      BY DEF Base, TypeOK, SavedTypes
    <3> QED BY <1>2, <1>5, <3>1 DEF Base, IndexOK, Keeps
  <2>2. kind # "coinstats" => running' = None
    BY <1>2, <1>5 DEF Ran
  <2> QED BY <1>1, <1>4, <2>1, <2>2 DEF Base, IndexOK
<1>10. PrunedOK'
  BY <1>1 DEF Base, PrunedOK
<1>11. SyncOK' /\ LockOK'
  BY <1>1 DEF SyncOK, LockOK
<1> QED BY <1>6, <1>7, <1>8, <1>9, <1>10, <1>11 DEF Base

-----------------------------------------------------------------------------
(* Flushing, pruning and restarting.                                       *)

LEMMA QuietIs == ASSUME TypeOK, Quiet PROVE status = "up" /\ tell = {} /\ flushing = "no" /\ Told = tip
BY ToldAll DEF Quiet, Told, TypeOK

LEMMA FlushIndexBase == Base /\ FlushIndex => Base'
<1> SUFFICES ASSUME Base, FlushIndex PROVE Base'
  OBVIOUS
<1>1. /\ status = "up" /\ tell = {} /\ flushing' = "index"
      /\ saved' = [saved EXCEPT !.known = known]
      /\ UNCHANGED <<kind, status, chain, pruned, cap, memory, db, scan, fails, crashes, left>>
  BY DEF FlushIndex, Quiet
<1>2. /\ saved' \in SavedTypes /\ saved'.known = known /\ saved'.tip = saved.tip
      /\ saved'.best = saved.best /\ saved'.mu = saved.mu
  BY <1>1 DEF Base, TypeOK, SavedTypes
<1>3. TypeOK'
  BY <1>1, <1>2 DEF Base, TypeOK, chain
<1>4. ChainOK'
  BY <1>1, <1>2 DEF Base, ChainOK, chain
<1>5. BestOK'
  BY <1>1, <1>2 DEF Base, BestOK, ChainOK, chain, memory
<1>6. IndexOK'
  BY <1>1, <1>2, SameIndex DEF Base, IndexOK, memory
<1>7. PrunedOK'
  BY <1>1, <1>2, SameTold DEF Base, PrunedOK
<1>8. SyncOK' /\ LockOK'
  BY <1>1 DEF Base, SyncOK, LockOK, Guarded, memory, chain
<1> QED BY <1>3, <1>4, <1>5, <1>6, <1>7, <1>8 DEF Base

LEMMA FlushTipBase == Base /\ FlushTip => Base'
<1> SUFFICES ASSUME Base, FlushTip PROVE Base'
  OBVIOUS
<1>1. /\ status = "up" /\ flushing = "index" /\ flushing' = "tip"
      /\ saved' = [saved EXCEPT !.tip = tip]
      /\ UNCHANGED <<kind, status, chain, pruned, cap, memory, db, scan, fails, crashes, left>>
  BY DEF FlushTip
<1>2. /\ saved' \in SavedTypes /\ saved'.known = saved.known /\ saved'.tip = tip
      /\ saved'.best = saved.best /\ saved'.mu = saved.mu
  BY DEF Base, TypeOK, SavedTypes, FlushTip
<1>3. Told = tip /\ tell = {} /\ saved.known = known
  BY <1>1, ToldAll DEF Base, ChainOK, TypeOK, Told
<1>4. TypeOK'
  BY <1>1, <1>2 DEF Base, TypeOK, chain
<1>5. ChainOK'
  BY <1>1, <1>2, <1>3 DEF Base, ChainOK, chain
<1>6. BestOK'
  BY <1>1, <1>2 DEF Base, BestOK, chain, memory
<1>7. IndexOK'
  BY <1>1, <1>2, SameIndex DEF Base, IndexOK, memory
<1>8. PrunedOK'
  BY <1>1, <1>2, <1>3, SameTold DEF Base, PrunedOK
<1>9. SyncOK' /\ LockOK'
  BY <1>1 DEF Base, SyncOK, LockOK, Guarded, memory, chain
<1> QED BY <1>4, <1>5, <1>6, <1>7, <1>8, <1>9 DEF Base

(* What a commit writes.                                                   *)
LEMMA CommitIs ==
    ASSUME Base, status = "up", NEW d \in SavedTypes
    PROVE  LET s == Committed(d, Index) IN
           /\ s \in SavedTypes /\ s.known = d.known /\ s.tip = d.tip /\ s.best = best
           /\ kind = "coinstats" => s.mu = Ones(best)
           /\ best \in known /\ best # None /\ best \in Blocks
           /\ kind \in ByBlock => LookUp(db, best) # None
<1>1. Fit(kind, Index) /\ Ran(Index) /\ best # None /\ best \in known
  BY DEF Base, IndexOK, BestOK
<1>2. Index.db = db /\ Index.best = best /\ Index.running = running
  BY DEF Index
<1> DEFINE s == Committed(d, Index)
<1>3. /\ s \in SavedTypes /\ s.known = d.known /\ s.tip = d.tip /\ s.best = best
      /\ s.mu = IF running = None THEN d.mu ELSE running.value
  BY <1>1, <1>2, CommittedIs
<1> HIDE DEF s
<1>4. kind = "coinstats" => running # None /\ running.value = Ones(best)
  BY <1>1, <1>2 DEF Ran, Fit
<1>5. best \in Blocks /\ (kind \in ByBlock => LookUp(db, best) # None)
  BY <1>1, <1>2 DEF Fit
<1> QED BY <1>1, <1>3, <1>4, <1>5 DEF s

LEMMA FlushMarkerBase == Base /\ FlushMarker => Base'
<1> SUFFICES ASSUME Base, FlushMarker PROVE Base'
  OBVIOUS
<1>1. /\ status = "up" /\ flushing = "tip" /\ flushing' = "no" /\ saved \in SavedTypes
      /\ UNCHANGED <<kind, status, chain, pruned, cap, memory, db, scan, fails, crashes, left>>
      /\ tell = {} /\ saved.known = known /\ saved.tip = tip
  BY DEF Base, FlushMarker, TypeOK, ChainOK
<1>2. /\ saved' \in SavedTypes /\ saved'.known = saved.known /\ saved'.tip = saved.tip
      /\ saved'.best # None /\ saved'.best \in saved.known
      /\ kind \in ByBlock => LookUp(db, saved'.best) # None
      /\ kind = "coinstats" => saved'.mu = Ones(saved'.best)
  <2>1. CASE MayCommit
    <3>1. saved' = Committed(saved, Index)
      BY <2>1 DEF FlushMarker
    <3> QED BY <1>1, <3>1, CommitIs
  <2>2. CASE ~MayCommit
    BY <1>1, <2>2 DEF FlushMarker, Base, BestOK, IndexOK
  <2> QED BY <2>1, <2>2
<1>3. TypeOK'
  BY <1>1, <1>2 DEF Base, TypeOK, chain
<1>4. ChainOK'
  BY <1>1, <1>2 DEF Base, ChainOK, chain
<1>5. BestOK'
  BY <1>1, <1>2 DEF Base, BestOK, chain, memory
<1>6. IndexOK'
  BY <1>1, <1>2, SameIndex DEF Base, IndexOK, memory
<1>7. PrunedOK'
  BY <1>1, <1>2, SameTold DEF Base, PrunedOK
<1>8. SyncOK' /\ LockOK'
  BY <1>1 DEF Base, SyncOK, LockOK, Guarded, memory, chain
<1> QED BY <1>3, <1>4, <1>5, <1>6, <1>7, <1>8 DEF Base

(* A cap that is in force stays, and pruning stays below the lock.         *)
LEMMA PruneIs ==
    ASSUME TypeOK, NEW h \in Heights, Prune(h), NEW m \in Blocks, Guarded(m),
           best \in Blocks, Height[best] > 0,
           m \notin Chain[tip] => cap < Height[best]
    PROVE  /\ Guarded(m)'
           /\ m \notin Chain[tip] => h = 1 \/ h <= Height[Fork(m, tip)]
           /\ h = 1 \/ h <= Height[best]
<1>1. /\ cap \in Nat \cup {None} /\ Height[best] \in Nat /\ tip \in Blocks /\ h \in Nat
      /\ Height[tip] \in Nat /\ PruneBuffer \in Nat /\ pruned \in Nat /\ pruned < h /\ h <= Ceiling
      /\ cap' = IF Lowered THEN cap ELSE None
      /\ UNCHANGED chain
  BY TreeAssumption, BoundAssumption DEF TypeOK, Heights, Prune
<1>2. IndexHeightForLock = Height[best] /\ Height[best] # None
  BY <1>1, NoneAssumption, TreeAssumption DEF IndexHeightForLock
<1>3. LockHeight \in Nat /\ LockHeight # None /\ LockHeight <= Height[best]
  BY <1>1, <1>2, NoneAssumption DEF LockHeight, Lowered
<1>4. h = 1 \/ h <= LockHeight
  BY <1>1, <1>3 DEF Ceiling
<1>5. ASSUME m \notin Chain[tip]
      PROVE  Lowered /\ LockHeight = cap /\ cap # None /\ cap <= Height[Fork(m, tip)]
  BY <1>1, <1>2, <1>5 DEF Lowered, LockHeight, Guarded
<1>6. Guarded(m)'
  BY <1>1, <1>5 DEF Guarded, chain
<1>7. Height[Fork(m, tip)] \in Nat
  BY <1>1, ForkIs
<1>8. m \notin Chain[tip] => h = 1 \/ h <= Height[Fork(m, tip)]
  BY <1>1, <1>4, <1>5, <1>7
<1>9. h = 1 \/ h <= Height[best]
  BY <1>1, <1>3, <1>4
<1> QED BY <1>6, <1>8, <1>9

LEMMA PruneBase == ASSUME NEW h \in Heights PROVE Base /\ Prune(h) => Base'
<1> SUFFICES ASSUME Base, Prune(h) PROVE Base'
  OBVIOUS
<1>1. /\ status = "up" /\ tell = {} /\ flushing = "no" /\ Told = tip
      /\ kind \in ByBlock /\ tip \in Blocks /\ Height[tip] \in Nat
  BY QuietIs, TreeAssumption DEF Base, TypeOK, Prune, ByBlock
<1>2. /\ pruned < h /\ h <= Height[tip] - PruneKeep /\ h <= Ceiling /\ h <= Height[saved.tip]
      /\ pruned' = h /\ cap' = IF Lowered THEN cap ELSE None
      /\ UNCHANGED <<kind, status, chain, flushing, saved, memory, db, scan, fails, crashes, left>>
  BY DEF Prune
<1>3. h \in Nat /\ h <= Height[tip]
  BY <1>1, <1>2, TreeAssumption, BoundAssumption DEF Heights
<1>4. TypeOK'
  BY <1>2, <1>3 DEF Base, TypeOK, chain
<1>5. ChainOK'
  BY <1>1, <1>2 DEF Base, ChainOK, chain
<1>6. BestOK'
  BY <1>2 DEF Base, BestOK, chain, memory
<1>7. IndexOK'
  BY <1>2, SameIndex DEF Base, IndexOK, memory
<1>8. PrunedOK'
  <2>1. saved.best # None
    BY <1>1 DEF Base, BestOK
  <2> QED BY <1>1, <1>2, <1>3, <2>1, SameTold DEF PrunedOK
<1>9. SyncOK'
  BY <1>1, <1>2 DEF SyncOK
<1>10. LockOK'
  <2>1. best \in Blocks /\ best # None /\ Height[best] \in Nat
    BY <1>1, TreeAssumption DEF Base, BestOK, IndexOK, Fit, Index
  <2>2. Guarded(best) /\ best' = best /\ tip' = tip
    BY <1>1, <1>2 DEF Base, LockOK, memory, chain
  <2>3. /\ Fork(best, tip) \in Chain[best] /\ Height[Fork(best, tip)] \in Nat
        /\ Height[Fork(best, tip)] <= Height[best]
        /\ best \notin Chain[tip] => Height[Fork(best, tip)] < Height[best]
        /\ best \in Chain[tip] => Fork(best, tip) = best
    BY <1>1, <2>1, ForkIs, ForkOnChain, Below
  <2>4. CASE Height[best] = 0
    BY <1>1, <2>1, <2>2, <2>3, <2>4, GenesisAlone, OnOwnChain DEF LockOK, Guarded
  <2>5. CASE Height[best] > 0
    <3>1. best \notin Chain[tip] => cap < Height[best]
      <4>1. cap \in Nat \cup {None}
        BY DEF Base, TypeOK
      <4> QED BY <2>1, <2>2, <2>3, <4>1 DEF Guarded
    <3>2. /\ Guarded(best)'
          /\ best \notin Chain[tip] => h = 1 \/ h <= Height[Fork(best, tip)]
          /\ h = 1 \/ h <= Height[best]
      <4>1. \A m \in Blocks : m = best =>
               /\ Guarded(m)'
               /\ m \notin Chain[tip] => h = 1 \/ h <= Height[Fork(m, tip)]
               /\ h = 1 \/ h <= Height[best]
        <5>1. TypeOK
          BY DEF Base
        <5> QED BY <2>1, <2>2, <2>5, <3>1, <5>1, PruneIs
      <4> QED BY <2>1, <2>2, <4>1 DEF Guarded
    <3>3. \A m \in {best, Fork(best, tip)} : Height[m] > 0 => h <= Height[m]
      BY <1>3, <2>1, <2>3, <3>2
    <3> QED BY <1>2, <2>2, <3>2, <3>3 DEF LockOK
  <2> QED BY <2>1, <2>4, <2>5
<1> QED BY <1>4, <1>5, <1>6, <1>7, <1>8, <1>9, <1>10 DEF Base

(* Whatever was saved is a state to start from.                            *)
LEMMA ForgetBase ==
    ASSUME Base, Forget, saved' \in SavedTypes, crashes' \in Nat,
           Chain[saved'.tip] \subseteq saved'.known,
           saved'.best # None => saved'.best \in saved'.known,
           kind \in ByBlock /\ saved'.best # None => LookUp(db, saved'.best) # None,
           kind = "coinstats" /\ saved'.best # None => saved'.mu = Ones(saved'.best),
           saved'.best = None => pruned = 0, pruned <= Height[saved'.tip]
    PROVE  Base'
<1>1. /\ status' = "down" /\ tell' = {} /\ flushing' = "no" /\ cap' = None
      /\ running' = None /\ best' = saved'.best /\ scan' = 0
      /\ known' = saved'.known /\ tip' = saved'.tip
      /\ left' = left \cup (db.rows \ (IF saved'.best = None THEN {} ELSE Chain[saved'.best]))
      /\ UNCHANGED <<kind, pruned, db, fails>>
  BY DEF Forget
<1>2. saved'.known \subseteq Blocks /\ saved'.tip \in Blocks /\ saved'.best \in Blocks \cup {None}
  BY DEF SavedTypes
<1>3. Fit(kind, Index) /\ Index.db = db
  BY DEF Base, IndexOK, Index
<1>4. Told' = tip'
  BY <1>1, <1>2, ToldAll DEF Told
<1>5. TypeOK'
  <2>1. db.rows \subseteq Blocks
    BY <1>3 DEF Fit, RecordsFit, DbTypes
  <2> QED BY <1>1, <1>2, <2>1 DEF Base, TypeOK, Statuses
<1>6. ChainOK'
  <2>1. tip' \in Chain[tip'] /\ tell' = Chain[tip'] \ Chain[tip']
    BY <1>1, <1>2, OnOwnChain
  <2> QED BY <1>1, <2>1 DEF ChainOK
<1>7. BestOK'
  BY <1>1 DEF BestOK
<1>8. IndexOK'
  <2> DEFINE x == [db |-> db, best |-> saved'.best, running |-> None]
  <2>1. Index' = x /\ kind' = kind
    BY <1>1 DEF Index
  <2>2. x.db = db /\ x.best = saved'.best /\ x.running = None /\ x = [db |-> x.db, best |-> x.best, running |-> x.running]
    OBVIOUS
  <2> HIDE DEF x
  <2>3. Fit(kind, x)
    BY <1>2, <1>3, <2>2 DEF Fit
  <2> QED BY <1>1, <2>1, <2>3 DEF IndexOK
<1>9. PrunedOK'
  BY <1>1, <1>4 DEF Base, PrunedOK
<1>10. SyncOK' /\ LockOK'
  BY <1>1 DEF SyncOK, LockOK
<1> QED BY <1>5, <1>6, <1>7, <1>8, <1>9, <1>10 DEF Base

LEMMA CrashBase == Base /\ Crash => Base'
<1> SUFFICES ASSUME Base, Crash PROVE Base'
  OBVIOUS
<1>1. saved' = saved /\ Forget /\ crashes' \in Nat
  BY DEF Crash, Base, TypeOK
<1> QED BY <1>1, ForgetBase DEF Base, TypeOK, ChainOK, BestOK, IndexOK, PrunedOK

LEMMA StopIs ==
    ASSUME Base, Stop
    PROVE  /\ status = "up" /\ tell = {} /\ flushing = "no" /\ Told = tip
           /\ saved' \in SavedTypes /\ saved'.known = known /\ saved'.tip = tip
           /\ saved'.best # None /\ saved'.best \in known
           /\ MayCommit => saved'.best = best
           /\ kind \in ByBlock => LookUp(db, saved'.best) # None
           /\ kind = "coinstats" => saved'.mu = Ones(saved'.best)
<1>1. status = "up" /\ tell = {} /\ flushing = "no" /\ Told = tip
  BY QuietIs DEF Base, Stop
<1> DEFINE s == [saved EXCEPT !.known = known, !.tip = tip]
<1>2. /\ s \in SavedTypes /\ s.known = known /\ s.tip = tip
      /\ s.best = saved.best /\ s.mu = saved.mu
  <2>1. saved \in SavedTypes /\ known \subseteq Blocks /\ tip \in Blocks
    BY DEF Base, TypeOK
  <2>2. s = [known |-> known, tip |-> tip, best |-> saved.best, mu |-> saved.mu]
    <3>1. [saved EXCEPT !.known = known]
             = [known |-> known, tip |-> saved.tip, best |-> saved.best, mu |-> saved.mu]
      BY <2>1 DEF SavedTypes
    <3>2. [[known |-> known, tip |-> saved.tip, best |-> saved.best, mu |-> saved.mu] EXCEPT !.tip = tip]
             = [known |-> known, tip |-> tip, best |-> saved.best, mu |-> saved.mu]
      OBVIOUS
    <3> QED BY <3>1, <3>2, Zenon
  <2> HIDE DEF s
  <2>3. saved.best \in Blocks \cup {None} /\ saved.mu \in Values \cup {None}
    BY <2>1 DEF SavedTypes
  <2> QED BY <2>1, <2>2, <2>3 DEF SavedTypes
<1>3. saved' = IF MayCommit THEN Committed(s, Index) ELSE s
  BY DEF Stop
<1> HIDE DEF s
<1>4. CASE MayCommit
  BY <1>1, <1>2, <1>3, <1>4, CommitIs
<1>5. CASE ~MayCommit
  BY <1>1, <1>2, <1>3, <1>5 DEF Base, BestOK, IndexOK, ChainOK
<1> QED BY <1>1, <1>4, <1>5

LEMMA StopBase == Base /\ Stop => Base'
<1> SUFFICES ASSUME Base, Stop PROVE Base'
  OBVIOUS
<1>1. Forget /\ crashes' \in Nat
  BY DEF Stop, Base, TypeOK
<1>2. pruned <= Height[tip] /\ Chain[tip] \subseteq known
  BY StopIs DEF Base, PrunedOK, ChainOK
<1> QED BY <1>1, <1>2, StopIs, ForgetBase

LEMMA BaseStep == Base /\ [Next]_vars => Base'
<1> SUFFICES ASSUME Base, [Next]_vars PROVE Base'
  OBVIOUS
<1>1. ASSUME UNCHANGED vars PROVE Base'
  <2>1. UNCHANGED <<kind, status, chain, flushing, saved, pruned, cap, memory, db, scan, fails, crashes, left>>
    BY <1>1 DEF vars
  <2>2. TypeOK' /\ ChainOK' /\ BestOK' /\ SyncOK' /\ LockOK'
    BY <2>1 DEF Base, TypeOK, ChainOK, BestOK, SyncOK, LockOK, Guarded, chain, memory
  <2>3. IndexOK' /\ PrunedOK'
    BY <2>1, SameIndex, SameTold DEF Base, IndexOK, PrunedOK, memory
  <2> QED BY <2>2, <2>3 DEF Base
<1>2. ASSUME NEW b \in Blocks, NEW lost \in {{}} \cup {{c} : c \in Blocks}, RewindFails(b, lost) PROVE Base'
  BY <1>2, RewindFailsBase
<1>3. ASSUME NEW b \in Blocks, Move(b) \/ Connected(b) \/ WriteFails(b) PROVE Base'
  BY <1>3, MoveBase, ConnectedBase, WriteFailsBase
<1>4. ASSUME NEW h \in Heights, Prune(h) PROVE Base'
  BY <1>4, PruneBase
<1> QED BY <1>1, <1>2, <1>3, <1>4, RefuseBase, StartBase, SyncBase, SyncEndBase, FlushIndexBase,
           FlushTipBase, FlushMarkerBase, CrashBase, StopBase DEF Next

-----------------------------------------------------------------------------
(* While writes and reads succeed.  For the kinds that can be pruned under *)
(* this asks that all chains share their first block above genesis, see    *)
(* CoversTip below.                                                        *)

OneFirstBlock == \A b, c \in Blocks : Height[b] = 1 /\ Height[c] = 1 => b = c
Smooth == fails = 0 /\ (kind \in ByBlock => OneFirstBlock)

(* The index has every block it was told of, the lock is no higher, and    *)
(* the last flush is not forgotten.                                        *)
Following ==
    status = "up" =>
        /\ Told \in Chain[best]
        /\ cap # None => cap <= Height[Told] /\ cap < Height[best]
        /\ Guarded(saved.tip) /\ pruned <= Height[Fork(saved.tip, tip)]
        /\ flushing # "tip" => saved.tip \in Chain[saved.best]

(* A restart finds the blocks the index needs.                             *)
Startable ==
    /\ status \notin {"refused", "aborted"}
    /\ saved.best # None => pruned <= Height[Fork(saved.best, saved.tip)]

ChainOf(b) == IF b = None THEN {} ELSE Chain[b]
RowsOK == db.rows \subseteq ChainOf(best) \cup left \cup (IF status = "down" THEN {} ELSE Chain[tip])

Going == Following /\ Startable /\ RowsOK

LEMMA GoingInit == Init => Going
BY DEF Init, Going, Following, Startable, RowsOK

(* A start is never refused, and takes an abandoned branch back.           *)
LEMMA RefuseGoing == ASSUME Base, Going, Refuse PROVE FALSE
<1>1. /\ status = "down" /\ best = saved.best /\ known = saved.known /\ tip = saved.tip
      /\ tip \in Blocks /\ pruned \in Nat /\ kind \in Kinds /\ Fit(kind, Index)
      /\ best # None => best \in known
  BY DEF Base, TypeOK, ChainOK, BestOK, IndexOK, Refuse
<1>2. best \in Blocks \cup {None} /\ None \notin Blocks
  BY <1>1, TreeAssumption DEF Fit, Index
<1>3. ~Unreadable
  <2> SUFFICES ASSUME kind = "coinstats", best # None PROVE saved.mu = LookUp(db, best)
    BY DEF Unreadable
  <2>1. LookUp(db, best) # None /\ saved.mu = Ones(best)
    BY <1>1 DEF Base, IndexOK, ByBlock
  <2>2. LookUp(db, best) = Ones(best)
    BY <1>1, <1>2, <2>1 DEF Fit, RecordsFit, Index
  <2> QED BY <2>1, <2>2
<1>4. best # None => /\ Height[Fork(best, tip)] \in Nat /\ Height[best] \in Nat
                     /\ Height[Fork(best, tip)] <= Height[best] /\ pruned <= Height[Fork(best, tip)]
  BY <1>1, <1>2, ForkIs, Below, TreeAssumption DEF Going, Startable
<1>5. best = None => pruned = 0
  BY <1>1 DEF Base, PrunedOK
<1>6. IndexHeight(Index) + 1 >= LowestOnDisk
  <2>1. CASE kind = "tx"
    <3>1. pruned = 0
      BY <2>1 DEF Base, PrunedOK, ByBlock
    <3>2. TxResume \in Nat
      BY <1>4 DEF TxResume
    <3> QED BY <2>1, <3>1, <3>2 DEF IndexHeight, LowestOnDisk
  <2>2. CASE kind \in {"spender", "filter"}
    <3>1. IndexHeight(Index) = IF best = None THEN -1 ELSE Height[Fork(best, tip)]
      BY <2>2 DEF IndexHeight, ChainHeight, Index
    <3> QED BY <1>1, <1>4, <1>5, <3>1 DEF LowestOnDisk
  <2>3. CASE kind = "coinstats"
    <3>1. IndexHeight(Index) = IF best = None THEN -1 ELSE Height[best]
      BY <2>3 DEF IndexHeight, Index
    <3> QED BY <1>1, <1>4, <1>5, <3>1 DEF LowestOnDisk
  <2> QED BY <1>1, <2>1, <2>2, <2>3, KindAssumption
<1>7. IndexHeight(Index) \in Int /\ LowestOnDisk \in Int
  <2>1. TxResume \in Nat
    BY <1>4 DEF TxResume
  <2>2. CASE kind = "tx"
    BY <1>1, <2>1, <2>2 DEF IndexHeight, LowestOnDisk
  <2>3. CASE kind \in {"spender", "filter"}
    <3>1. IndexHeight(Index) = IF best = None THEN -1 ELSE Height[Fork(best, tip)]
      BY <2>3 DEF IndexHeight, ChainHeight, Index
    <3> QED BY <1>1, <1>4, <3>1 DEF LowestOnDisk
  <2>4. CASE kind = "coinstats"
    <3>1. IndexHeight(Index) = IF best = None THEN -1 ELSE Height[best]
      BY <2>4 DEF IndexHeight, Index
    <3> QED BY <1>1, <1>4, <3>1 DEF LowestOnDisk
  <2> QED BY <1>1, <2>2, <2>3, <2>4, KindAssumption
<1>8. ~BeyondPruned
  BY <1>6, <1>7 DEF BeyondPruned
<1> QED BY <1>1, <1>3, <1>8 DEF Refuse

LEMMA StartGoing == ASSUME Base, Going, StartSync PROVE Going' /\ status' = "sync"
<1> DEFINE p == Prepared(Loaded, Bodies)
<1>1. /\ Index' = p.x
      /\ best = None => p.x.best = None
      /\ best = None \/ best \in Chain[tip] \/ kind = "tx" => p.ok /\ p.x = Loaded
      /\ best # None /\ kind # "tx" /\ p.ok => p.x.best = Fork(best, tip)
      /\ best # None /\ kind = "spender" /\ p.ok => p.x.db.rows = db.rows \ (Chain[best] \ Chain[tip])
      /\ best # None /\ Chain[best] \ Chain[tip] \subseteq Bodies => p.ok
      /\ Fit(kind, p.x)
  BY StartIs
<1>2. /\ status = "down" /\ status' = IF p.ok THEN "sync" ELSE "aborted"
      /\ UNCHANGED <<kind, chain, flushing, saved, pruned, fails, crashes, left>>
  BY DEF StartSync
<1>3. best = saved.best /\ tip = saved.tip /\ Loaded.db = db /\ Loaded.best = best
  BY <1>2, LoadedIs
<1> HIDE DEF p
<1>4. /\ tip \in Blocks /\ pruned \in Nat /\ best \in Blocks \cup {None} /\ None \notin Blocks
  BY TreeAssumption DEF Base, TypeOK, IndexOK, Fit, Index
<1>5. p.ok
  <2>1. CASE best = None
    BY <1>1, <2>1
  <2>2. CASE best # None
    <3>1. pruned <= Height[Fork(best, tip)]
      BY <1>3, <2>2 DEF Going, Startable
    <3>2. Chain[best] \ Chain[tip] \subseteq Bodies
      BY <1>4, <2>2, <3>1, BranchReadable
    <3> QED BY <1>1, <2>2, <3>2
  <2> QED BY <2>1, <2>2
<1>6. RowsOK'
  <2>1. db' = p.x.db /\ best' = p.x.best
    BY <1>1 DEF StartSync, Becomes, p
  <2>2. db.rows \subseteq ChainOf(best) \cup left
    BY <1>2 DEF Going, RowsOK
  <2>3. CASE kind = "spender" /\ best # None
    BY <1>1, <1>2, <1>5, <2>1, <2>2, <2>3 DEF RowsOK, ChainOf, chain
  <2>4. CASE kind = "spender" /\ best = None
    BY <1>1, <1>2, <1>3, <2>1, <2>2, <2>4 DEF RowsOK, ChainOf, chain
  <2>5. CASE kind # "spender"
    BY <1>1, <2>1, <2>5 DEF RowsOK, Fit
  <2> QED BY <2>3, <2>4, <2>5
<1> QED BY <1>2, <1>5, <1>6 DEF Going, Following, Startable

LEMMA SyncGoing == ASSUME Base, Going, SyncBlock PROVE Going'
<1> DEFINE b == AtHeight(scan)
<1>1. /\ b \in Chain[tip] /\ Fit(kind, Index)'
      /\ kind # "tx" => best' = b
      /\ kind # "tx" => (best = None /\ b = Genesis) \/ (b # Genesis /\ best = Parent[b])
      /\ kind = "spender" => db'.rows = db.rows \cup {b}
      /\ b \in Blocks
  BY SyncIs
<1>2. status = "sync" /\ UNCHANGED <<kind, status, chain, flushing, saved, pruned, cap, fails, crashes, left>>
  BY DEF SyncBlock
<1> HIDE DEF b
<1>3. RowsOK'
  <2>1. CASE kind = "spender"
    <3>1. db.rows \subseteq ChainOf(best) \cup left \cup Chain[tip]
      BY <1>2 DEF Going, RowsOK
    <3>2. ChainOf(best) \subseteq Chain[tip]
      <4>1. tip \in Blocks
        BY DEF Base, TypeOK
      <4>2. b # Genesis => Parent[b] \in Chain[tip] /\ Parent[b] \in Blocks
        BY <1>1, <4>1, Branch, ChainsNest, OnOwnChain
      <4> QED BY <1>1, <2>1, <4>1, <4>2, ChainsNest DEF ChainOf
    <3> QED BY <1>1, <1>2, <2>1, <3>1, <3>2 DEF RowsOK, chain
  <2>2. CASE kind # "spender"
    BY <1>1, <1>2, <2>2 DEF RowsOK, Fit, Index
  <2> QED BY <2>1, <2>2
<1> QED BY <1>2, <1>3 DEF Going, Following, Startable

LEMMA SyncEndGoing == ASSUME Base, Going, SyncEnd PROVE Going'
<1>1. /\ best' = tip /\ tell = {} /\ saved.tip = tip
      /\ saved'.tip = saved.tip /\ saved'.best = tip /\ Index'.db = db
  BY SyncEndIs
<1>2. /\ status = "sync" /\ status' = "up" /\ cap = None
      /\ UNCHANGED <<kind, chain, flushing, pruned, cap, running, db, fails, crashes, left>>
  BY DEF SyncEnd, Base, ChainOK
<1>3. /\ tip \in Blocks /\ tip \in Chain[tip] /\ Told = tip /\ Fork(tip, tip) = tip /\ tip # None
  BY <1>1, OnOwnChain, ToldAll, ForkOnChain, TreeAssumption DEF Base, TypeOK, Told
<1>4. pruned <= Height[tip]
  BY <1>1 DEF Base, PrunedOK
<1>5. Following'
  BY <1>1, <1>2, <1>3, <1>4, SameTold DEF Following, Guarded, chain
<1>6. Startable'
  BY <1>1, <1>2, <1>3, <1>4 DEF Startable
<1>7. RowsOK'
  <2>1. db.rows \subseteq ChainOf(best) \cup left \cup Chain[tip]
    BY <1>2 DEF Going, RowsOK
  <2>2. kind # "spender" => db.rows = {}
    BY DEF Base, IndexOK, Fit, Index
  <2>3. kind = "spender" => best' = best
    BY DEF SyncEnd
  <2> QED BY <1>1, <1>2, <2>1, <2>2, <2>3 DEF RowsOK, chain
<1> QED BY <1>5, <1>6, <1>7 DEF Going

LEMMA UpIs ==
    ASSUME Base, status = "up"
    PROVE  /\ best \in Blocks /\ best # None /\ Height[best] \in Nat /\ tip \in Blocks /\ Height[tip] \in Nat
           /\ saved.tip \in Blocks /\ saved.best \in Blocks /\ saved.best # None
           /\ pruned \in Nat /\ cap \in Nat \cup {None} /\ None \notin Blocks
           /\ kind # "spender" => db.rows = {}
BY TreeAssumption DEF Base, TypeOK, SavedTypes, BestOK, IndexOK, Fit, Index

LEMMA MoveGoing == ASSUME Base, Going, NEW b \in Blocks, Move(b) PROVE Going'
<1> DEFINE f == Fork(tip, b)
           s == saved.tip
<1>1. /\ status = "up" /\ tell = {} /\ flushing = "no" /\ Told = tip /\ Told' = f
      /\ tip' = b /\ pruned <= Height[f]
      /\ UNCHANGED <<kind, status, flushing, saved, pruned, memory, db, scan, fails, crashes, left>>
  BY MoveIs
<1>2. cap' = IF tip \in Chain[b] THEN cap
             ELSE IF LockHeight # None /\ LockHeight > Height[f] THEN Height[f]
             ELSE IF Lowered THEN cap ELSE None
  BY DEF Move
<1>3. /\ best \in Blocks /\ best # None /\ Height[best] \in Nat /\ tip \in Blocks /\ Height[tip] \in Nat
      /\ s \in Blocks /\ saved.best \in Blocks
      /\ pruned \in Nat /\ cap \in Nat \cup {None} /\ None \notin Blocks
  BY <1>1, UpIs
<1>4. /\ tip \in Chain[best] /\ (cap # None => cap <= Height[tip] /\ cap < Height[best])
      /\ Guarded(s) /\ pruned <= Height[Fork(s, tip)] /\ s \in Chain[saved.best]
  BY <1>1 DEF Going, Following
<1>5. /\ f \in Chain[tip] /\ f \in Blocks /\ Height[f] \in Nat /\ Height[f] <= Height[tip]
      /\ tip \in Chain[b] => f = tip
  BY <1>3, ForkIs, ForkOnChain, Below
<1>6. \A c \in (Chain[tip] \ Chain[b]) \cup (Chain[b] \ Chain[tip]) : Readable(c)
  BY DEF Move
<1>7. tip \notin Chain[b] => cap' = IF LockHeight # None /\ LockHeight > Height[Fork(tip, b)] THEN Height[Fork(tip, b)]
                                    ELSE IF Lowered THEN cap ELSE None
  BY <1>2
<1> HIDE DEF f, s
<1>8. f \in Chain[best]
  BY <1>3, <1>4, <1>5, ChainsNest
<1>9. cap' # None => cap' <= Height[f] /\ cap' < Height[best]
  <2>1. CASE tip \in Chain[b]
    BY <1>2, <1>4, <1>5, <2>1
  <2>2. CASE tip \notin Chain[b]
    <3>1. LockHeight # None => LockHeight \in Nat /\ LockHeight <= Height[best]
      BY <1>3, <1>4, NoneAssumption DEF LockHeight, Lowered, IndexHeightForLock
    <3>2. Lowered => LockHeight = cap /\ cap # None /\ cap \in Nat /\ cap < Height[best]
      BY <1>3, <1>4 DEF LockHeight, Lowered
    <3>3. CASE LockHeight # None /\ LockHeight > Height[f]
      BY <1>2, <1>3, <1>5, <2>2, <3>1, <3>3
    <3>4. CASE ~(LockHeight # None /\ LockHeight > Height[f])
      BY <1>2, <1>3, <1>5, <2>2, <3>2, <3>4
    <3> QED BY <3>3, <3>4
  <2> QED BY <2>1, <2>2
<1>10. Guarded(s)'
  <2>0. s' = s
    BY <1>1 DEF s
  <2>1. CASE Height[best] = 0
    <3>1. Height[tip] = 0 /\ tip = Genesis
      BY <1>3, <1>4, <2>1, Below, GenesisAlone
    <3>2. cap = None
      BY <1>3, <1>4, <2>1
    <3>3. s = Genesis
      <4>1. Chain[tip] = {Genesis}
        BY <3>1, TreeAssumption
      <4> QED BY <1>4, <3>2, <4>1 DEF Guarded
    <3> QED BY <1>1, <2>0, <3>3, OnOwnChain DEF Guarded
  <2>2. CASE Height[best] > 0
    <3>1. Chain[tip] \subseteq Chain[best]
      BY <1>3, <1>4, ChainsNest
    <3>2. \A m \in Blocks : m = s => Guarded(m)'
      <4>1. tip \in Chain[b] => cap' = cap
        BY <1>2
      <4>2. TypeOK
        BY DEF Base
      <4> QED BY <1>1, <1>3, <1>4, <1>7, <2>2, <3>1, <4>1, <4>2, CapMoves
    <3> QED BY <1>3, <2>0, <3>2 DEF Guarded
  <2> QED BY <1>3, <2>1, <2>2
<1>11. pruned <= Height[Fork(s, b)]
  BY <1>3, <1>4, <1>6, ForkMoves DEF Base
<1>12. Following'
  BY <1>1, <1>4, <1>8, <1>9, <1>10, <1>11 DEF Following, memory, s
<1>13. Startable'
  BY <1>1 DEF Going, Startable
<1>14. RowsOK'
  <2>1. Chain[tip] \subseteq Chain[best]
    BY <1>3, <1>4, ChainsNest
  <2> QED BY <1>1, <1>3, <2>1 DEF Going, RowsOK, ChainOf, memory
<1> QED BY <1>12, <1>13, <1>14 DEF Going

LEMMA ConnectedGoing == ASSUME Base, Going, NEW b \in Blocks, Connected(b) PROVE Going'
<1> DEFINE r == Rewound(b, Bodies)
           y == Written(r.x, b)
           lost == Chain[best] \ Chain[tip]
<1>1. /\ status = "up" /\ Due(b) /\ r.ok /\ Becomes(y)
      /\ y = r.x \/ y.best = b
      /\ r.x.best = Parent[b] => y.best = b
      /\ kind = "tx" => y.best = b
      /\ kind = "spender" => y = r.x \/ y.db.rows = r.x.db.rows \cup {b}
      /\ Fit(kind, y)
  BY ConnectedIs
<1>2. UNCHANGED <<kind, status, known, tip, flushing, saved, pruned, cap, scan, fails, crashes, left>>
  BY DEF Connected
<1>3. /\ best \in Blocks /\ best # None /\ Height[best] \in Nat /\ tip \in Blocks
      /\ cap \in Nat \cup {None} /\ None \notin Blocks
  BY <1>1, UpIs
<1>4. /\ b \in Chain[tip] /\ b # Genesis /\ Told = Parent[b] /\ Parent[b] \in Chain[tip] /\ Told' = b
  BY <1>1, <1>2, DueIs DEF Base, Connected, Told
<1>5. /\ Parent[b] \in Blocks /\ Height[b] = Height[Parent[b]] + 1 /\ Height[b] \in Nat /\ Height[Parent[b]] \in Nat
  BY <1>4, Branch
<1>6. /\ Parent[b] \in Chain[best] /\ (cap # None => cap <= Height[Parent[b]] /\ cap < Height[best])
      /\ Guarded(saved.tip) /\ pruned <= Height[Fork(saved.tip, tip)]
      /\ flushing # "tip" => saved.tip \in Chain[saved.best]
  BY <1>1, <1>4 DEF Going, Following
<1>7. /\ kind # "tx" => r.x.best \in Chain[tip] /\ r.x.best = Fork(best, tip)
      /\ kind = "spender" => r.x.db.rows = db.rows \ lost
  BY <1>1, RewoundIs
<1> HIDE DEF y, r
<1>8. b \in Chain[y.best] /\ y.best \in Blocks
  <2>1. CASE y.best = b
    BY <2>1, OnOwnChain
  <2>2. CASE y.best # b
    <3> DEFINE k == Fork(best, tip)
    <3>1. kind # "tx" /\ y.best = k /\ k # Parent[b]
      BY <1>1, <1>7, <2>2
    <3>2. k \in Chain[tip] /\ k \in Blocks /\ Height[k] \in Nat /\ Parent[b] \in Chain[k]
      BY <1>3, <1>4, <1>6, ForkIs
    <3> HIDE DEF k
    <3>3. Height[Parent[b]] < Height[k]
      BY <3>1, <3>2, Below
    <3>4. Height[b] <= Height[k]
      BY <1>5, <3>2, <3>3
    <3> QED BY <1>3, <1>4, <3>1, <3>2, <3>4, ChainOrder
  <2> QED BY <2>1, <2>2
<1>9. Height[b] <= Height[y.best] /\ Height[y.best] \in Nat
  BY <1>8, Below, TreeAssumption
<1>10. best' = y.best /\ db' = y.db
  BY <1>1 DEF Becomes
<1>11. cap # None => cap <= Height[b] /\ cap < Height[y.best]
  BY <1>3, <1>5, <1>6, <1>9
<1>12. Following'
  <2>1. Guarded(saved.tip)'
    BY <1>2, <1>6 DEF Guarded
  <2> QED BY <1>2, <1>4, <1>6, <1>8, <1>10, <1>11, <2>1 DEF Following
<1>13. Startable'
  BY <1>2 DEF Going, Startable
<1>14. RowsOK'
  <2>1. CASE kind = "spender"
    <3>1. db.rows \subseteq Chain[best] \cup left \cup Chain[tip]
      BY <1>1, <1>3 DEF Going, RowsOK, ChainOf
    <3>2. r.x.db.rows \subseteq left \cup Chain[tip]
      BY <1>7, <2>1, <3>1
    <3>3. y.db.rows \subseteq left \cup Chain[tip]
      BY <1>1, <1>4, <2>1, <3>2
    <3> QED BY <1>1, <1>2, <1>10, <3>3 DEF RowsOK
  <2>2. CASE kind # "spender"
    BY <1>1, <1>10, <2>2 DEF RowsOK, Fit
  <2> QED BY <2>1, <2>2
<1> QED BY <1>12, <1>13, <1>14 DEF Going

LEMMA RewindFailsGoing ==
    ASSUME Base, Going, NEW b \in Blocks, NEW lost \in {{}} \cup {{c} : c \in Blocks},
           RewindFails(b, lost), fails = 0
    PROVE  fails' # 0
<1> SUFFICES ASSUME fails' = 0 PROVE FALSE
  OBVIOUS
<1>1. status = "up" /\ Due(b) /\ ~Rewound(b, Bodies \ lost).ok /\ fails' = fails + Cardinality(lost)
  BY DEF RewindFails
<1>2. lost = {}
  <2> SUFFICES ASSUME NEW c \in Blocks, lost = {c} PROVE FALSE
    OBVIOUS
  <2>1. Cardinality(lost) = 1
    BY FS_Singleton
  <2> QED BY <1>1, <2>1
<1>3. Bodies \ lost = Bodies
  BY <1>2
<1>4. /\ best \in Blocks /\ tip \in Blocks /\ pruned \in Nat
  BY <1>1, UpIs
<1>5. Told = Parent[b] /\ Parent[b] \in Chain[tip] /\ Parent[b] \in Chain[best]
  BY <1>1, DueIs DEF Base, Going, Following
<1>6. pruned <= Height[Fork(best, tip)]
  <2>1. Height[Parent[b]] <= Height[Fork(best, tip)] /\ Height[Fork(best, tip)] \in Nat
    BY <1>4, <1>5, ForkIs
  <2>2. pruned <= Height[Parent[b]] /\ Height[Parent[b]] \in Nat
    BY <1>1, <1>4, <1>5, OnOwnChain, TreeAssumption DEF Base, PrunedOK
  <2> QED BY <1>4, <2>1, <2>2
<1>7. Chain[best] \ Chain[tip] \subseteq Bodies
  BY <1>4, <1>6, BranchReadable
<1>8. Rewound(b, Bodies).ok
  BY <1>1, <1>7, RewoundIs
<1> QED BY <1>1, <1>3, <1>8

LEMMA FlushIndexGoing == ASSUME Base, Going, FlushIndex PROVE Going'
<1>1. /\ status = "up" /\ tell = {} /\ flushing = "no" /\ flushing' = "index"
      /\ saved' = [saved EXCEPT !.known = known] /\ saved \in SavedTypes
      /\ UNCHANGED <<kind, status, chain, pruned, cap, memory, db, scan, fails, crashes, left>>
  BY DEF FlushIndex, Quiet, Base, TypeOK
<1>2. saved'.tip = saved.tip /\ saved'.best = saved.best
  BY <1>1 DEF SavedTypes
<1>3. Following'
  BY <1>1, <1>2, SameTold DEF Going, Following, Guarded, chain, memory
<1>4. Startable' /\ RowsOK'
  BY <1>1, <1>2 DEF Going, Startable, RowsOK, chain, memory
<1> QED BY <1>3, <1>4 DEF Going

LEMMA FlushTipGoing == ASSUME Base, Going, FlushTip PROVE Going'
<1>1. /\ status = "up" /\ flushing = "index" /\ flushing' = "tip" /\ tell = {}
      /\ saved' = [saved EXCEPT !.tip = tip] /\ saved \in SavedTypes
      /\ UNCHANGED <<kind, status, chain, pruned, cap, memory, db, scan, fails, crashes, left>>
  BY DEF FlushTip, Base, TypeOK, ChainOK
<1>2. saved'.tip = tip /\ saved'.best = saved.best
  BY <1>1 DEF SavedTypes
<1>3. /\ tip \in Blocks /\ saved.tip \in Blocks /\ saved.best \in Blocks /\ pruned \in Nat
      /\ tip \in Chain[tip] /\ Fork(tip, tip) = tip /\ Told = tip
  BY <1>1, UpIs, OnOwnChain, ForkOnChain, ToldAll DEF Told
<1>4. pruned <= Height[tip]
  BY <1>1, <1>3 DEF Base, PrunedOK
<1>5. Following'
  BY <1>1, <1>2, <1>3, <1>4, SameTold DEF Going, Following, Guarded, chain, memory
<1>6. pruned <= Height[Fork(saved.best, tip)]
  <2>1. /\ Fork(saved.tip, tip) \in Chain[saved.tip] /\ Fork(saved.tip, tip) \in Chain[tip]
        /\ Height[Fork(saved.tip, tip)] \in Nat
    BY <1>3, ForkIs
  <2>2. saved.tip \in Chain[saved.best] /\ pruned <= Height[Fork(saved.tip, tip)]
    BY <1>1 DEF Going, Following
  <2>3. Fork(saved.tip, tip) \in Chain[saved.best]
    BY <1>3, <2>1, <2>2, ChainsNest
  <2>4. Height[Fork(saved.tip, tip)] <= Height[Fork(saved.best, tip)] /\ Height[Fork(saved.best, tip)] \in Nat
    BY <1>3, <2>1, <2>3, ForkIs
  <2> QED BY <1>3, <2>1, <2>2, <2>4
<1>7. Startable' /\ RowsOK'
  BY <1>1, <1>2, <1>6 DEF Going, Startable, RowsOK, chain, memory
<1> QED BY <1>5, <1>7 DEF Going

(* Every event was told: the flush commits what the index is at.           *)
LEMMA FlushMarkerGoing == ASSUME Base, Going, FlushMarker PROVE Going'
<1>1. /\ status = "up" /\ flushing = "tip" /\ flushing' = "no" /\ tell = {} /\ saved.tip = tip
      /\ saved' = IF MayCommit THEN Committed(saved, Index) ELSE saved
      /\ saved \in SavedTypes
      /\ UNCHANGED <<kind, status, chain, pruned, cap, memory, db, scan, fails, crashes, left>>
  BY DEF FlushMarker, Base, TypeOK, ChainOK
<1>2. /\ tip \in Blocks /\ best \in Blocks /\ best # None /\ pruned \in Nat /\ Told = tip
  BY <1>1, UpIs, ToldAll DEF Told
<1>3. tip \in Chain[best] /\ Fork(best, tip) = tip /\ pruned <= Height[tip]
  BY <1>1, <1>2, ForkOnChain DEF Going, Following, Base, PrunedOK
<1>4. saved'.tip = tip /\ saved'.best = best
  BY <1>1, <1>2, <1>3, CommitIs DEF MayCommit
<1>5. Following'
  BY <1>1, <1>3, <1>4, SameTold DEF Going, Following, Guarded, chain, memory
<1>6. Startable' /\ RowsOK'
  BY <1>1, <1>3, <1>4 DEF Going, Startable, RowsOK, chain, memory
<1> QED BY <1>5, <1>6 DEF Going

LEMMA PruneGoing == ASSUME Base, Going, OneFirstBlock, NEW h \in Heights, Prune(h) PROVE Going'
<1>1. /\ status = "up" /\ tell = {} /\ flushing = "no" /\ Told = tip
      /\ pruned < h /\ h <= Height[tip] - PruneKeep /\ h <= Height[saved.tip]
      /\ pruned' = h /\ cap' = IF Lowered THEN cap ELSE None
      /\ UNCHANGED <<kind, status, chain, flushing, saved, memory, db, scan, fails, crashes, left>>
  BY QuietIs DEF Base, Prune
<1>2. /\ best \in Blocks /\ best # None /\ Height[best] \in Nat /\ tip \in Blocks /\ Height[tip] \in Nat
      /\ saved.tip \in Blocks /\ saved.best \in Blocks /\ pruned \in Nat /\ cap \in Nat \cup {None}
      /\ None \notin Blocks /\ Height[saved.tip] \in Nat
  BY <1>1, UpIs, TreeAssumption
<1>3. /\ tip \in Chain[best] /\ (cap # None => cap <= Height[tip] /\ cap < Height[best])
      /\ Guarded(saved.tip) /\ saved.tip \in Chain[saved.best]
  BY <1>1 DEF Going, Following
<1>4. h \in Nat /\ h >= 1 /\ h <= Height[tip]
  BY <1>1, <1>2, TreeAssumption, BoundAssumption DEF Heights
<1>5. Height[best] > 0
  <2>1. Height[tip] <= Height[best]
    BY <1>2, <1>3, Below
  <2> QED BY <1>2, <1>4, <2>1
<1>6. /\ Guarded(saved.tip)'
      /\ saved.tip \notin Chain[tip] => h = 1 \/ h <= Height[Fork(saved.tip, tip)]
  <2>1. \A m \in Blocks : m = saved.tip =>
           /\ Guarded(m)'
           /\ m \notin Chain[tip] => h = 1 \/ h <= Height[Fork(m, tip)]
    <3>1. TypeOK
      BY DEF Base
    <3>2. saved.tip \notin Chain[tip] => cap < Height[best]
      BY <1>3 DEF Guarded
    <3> QED BY <1>2, <1>3, <1>5, <3>1, <3>2, PruneIs
  <2> QED BY <1>1, <1>2, <2>1 DEF Guarded
<1>7. h <= Height[Fork(saved.tip, tip)]
  <2>1. CASE saved.tip \in Chain[tip]
    BY <1>1, <1>2, <2>1, ForkOnChain
  <2>2. CASE saved.tip \notin Chain[tip] /\ h = 1
    <3>0. ASSUME NEW t \in Blocks, 1 <= Height[t] PROVE \E b \in Chain[t] : Height[b] = 1
      BY <3>0, EveryHeight, TreeAssumption
    <3>1. PICK b \in Chain[tip] : Height[b] = 1
      BY <1>2, <1>4, <3>0
    <3>2. PICK c \in Chain[saved.tip] : Height[c] = 1
      <4>1. 1 <= Height[saved.tip]
        BY <1>1, <2>2
      <4> QED BY <1>2, <3>0, <4>1
    <3>3. b = c
      BY <1>2, <3>1, <3>2, OnOwnChain DEF OneFirstBlock
    <3>4. Height[b] <= Height[Fork(saved.tip, tip)]
      BY <1>2, <3>1, <3>2, <3>3, ForkIs
    <3> QED BY <2>2, <3>1, <3>4
  <2> QED BY <1>6, <2>1, <2>2
<1>8. Following'
  BY <1>1, <1>3, <1>6, <1>7, SameTold DEF Following, chain, memory
<1>9. Startable'
  BY <1>1, <1>2, <1>3, ForkOnChain DEF Going, Startable
<1>10. RowsOK'
  BY <1>1 DEF Going, RowsOK, chain, memory
<1> QED BY <1>8, <1>9, <1>10 DEF Going

LEMMA ForgetRows ==
    ASSUME Forget PROVE RowsOK'
BY DEF Forget, RowsOK, ChainOf

LEMMA CrashGoing == ASSUME Base, Going, Crash PROVE Going'
<1>1. saved' = saved /\ pruned' = pruned /\ status' = "down" /\ Forget
  BY DEF Crash, Forget
<1> QED BY <1>1, ForgetRows DEF Going, Following, Startable

LEMMA StopGoing == ASSUME Base, Going, Stop PROVE Going' /\ best' = best /\ saved'.best = best /\ saved'.tip = tip /\ tip \in Chain[best]
<1>1. /\ status = "up" /\ Told = tip /\ saved'.tip = tip
      /\ MayCommit => saved'.best = best
  BY StopIs
<1>2. Forget /\ status' = "down" /\ pruned' = pruned /\ best' = saved'.best
  BY DEF Stop, Forget
<1>3. tip \in Chain[best] /\ best \in Blocks /\ best # None /\ pruned <= Height[tip]
  BY <1>1, UpIs DEF Going, Following, Base, PrunedOK
<1>4. saved'.best = best /\ Fork(best, tip) = tip
  BY <1>1, <1>3, ForkOnChain DEF MayCommit
<1> QED BY <1>1, <1>2, <1>3, <1>4, ForgetRows DEF Going, Following, Startable

LEMMA GoingStep ==
    ASSUME Base, Smooth => Going, [Next]_vars
    PROVE  Smooth' => Going'
<1> SUFFICES ASSUME Smooth' PROVE Going'
  OBVIOUS
<1>1. Smooth /\ kind' = kind
  <2>1. fails \in Nat
    BY DEF Base, TypeOK
  <2>2. \A lost \in {{}} \cup {{c} : c \in Blocks} : Cardinality(lost) \in Nat
    <3> TAKE lost \in {{}} \cup {{c} : c \in Blocks}
    <3>1. CASE lost = {}
      BY <3>1, FS_EmptySet
    <3>2. ASSUME NEW c \in Blocks, lost = {c} PROVE Cardinality(lost) \in Nat
      BY <3>2, FS_Singleton
    <3> QED BY <3>1, <3>2
  <2>3. kind' = kind /\ \E n \in Nat : fails' = fails + n
    <3>1. ASSUME NEW b \in Blocks, NEW lost \in {{}} \cup {{c} : c \in Blocks}, RewindFails(b, lost)
          PROVE  kind' = kind /\ \E n \in Nat : fails' = fails + n
      BY <2>2, <3>1 DEF RewindFails
    <3>2. ASSUME NEW b \in Blocks, WriteFails(b)
          PROVE  kind' = kind /\ \E n \in Nat : fails' = fails + n
      BY <3>2 DEF WriteFails
    <3>3. ASSUME kind' = kind, fails' = fails PROVE kind' = kind /\ \E n \in Nat : fails' = fails + n
      <4>1. fails' = fails + 0 /\ 0 \in Nat
        BY <2>1, <3>3
      <4> QED BY <3>3, <4>1
    <3>4. Next \/ UNCHANGED vars
      OBVIOUS
    <3>5. ASSUME \/ Refuse \/ StartSync \/ SyncBlock \/ SyncEnd
                 \/ \E b \in Blocks : Move(b) \/ Connected(b)
                 \/ FlushIndex \/ FlushTip \/ FlushMarker \/ (\E h \in Heights : Prune(h)) \/ Crash \/ Stop
                 \/ UNCHANGED vars
          PROVE  kind' = kind /\ fails' = fails
      BY <3>5 DEF Refuse, StartSync, SyncBlock, SyncEnd, Move, Connected, FlushIndex, FlushTip, FlushMarker,
                  Prune, Crash, Stop, Forget, vars
    <3> QED BY <3>1, <3>2, <3>3, <3>4, <3>5 DEF Next
  <2>4. fails' = 0
    BY DEF Smooth
  <2> QED BY <2>1, <2>3, <2>4 DEF Smooth
<1>2. Going /\ fails = 0 /\ fails' = 0
  BY <1>1 DEF Smooth
<1>3. ASSUME UNCHANGED vars PROVE Going'
  <2>1. UNCHANGED <<kind, status, chain, flushing, saved, pruned, cap, memory, db, left>>
    BY <1>3 DEF vars
  <2> QED BY <1>2, <2>1, SameTold DEF Going, Following, Startable, RowsOK, Guarded, chain, memory
<1>4. ASSUME NEW b \in Blocks, NEW lost \in {{}} \cup {{c} : c \in Blocks}, RewindFails(b, lost) PROVE FALSE
  BY <1>2, <1>4, RewindFailsGoing
<1>5. ASSUME NEW b \in Blocks, WriteFails(b) PROVE FALSE
  BY <1>2, <1>5 DEF WriteFails
<1>6. ASSUME NEW b \in Blocks, Move(b) \/ Connected(b) PROVE Going'
  BY <1>2, <1>6, MoveGoing, ConnectedGoing
<1>7. ASSUME NEW h \in Heights, Prune(h) PROVE Going'
  <2>1. OneFirstBlock
    BY <1>1, <1>7 DEF Prune, Smooth, ByBlock
  <2> QED BY <1>2, <1>7, <2>1, PruneGoing
<1>8. Next \/ UNCHANGED vars
  OBVIOUS
<1> QED BY <1>2, <1>3, <1>4, <1>5, <1>6, <1>7, <1>8, RefuseGoing, StartGoing, SyncGoing, SyncEndGoing,
           FlushIndexGoing, FlushTipGoing, FlushMarkerGoing, CrashGoing, StopGoing DEF Next

-----------------------------------------------------------------------------
(* While nothing crashes either, no block of the transaction and spender   *)
(* indexes is missing.                                                     *)

Faultless == fails + crashes = 0 /\ kind \notin ByBlock

Saved == saved.best # None => status = "up" \/ saved.tip \in Chain[saved.best]
Spends == kind = "spender" /\ best # None => Chain[best] \ {Genesis} \subseteq db.rows
Located == kind = "tx" => \A c \in ChainOf(best) \ {Genesis} : \A t \in TxsOf[c] : db.where[t] = c
Starts ==
    kind = "tx" /\ status # "up" => IF best = None THEN tip = Genesis ELSE tip \in Chain[best]
Complete == Saved /\ Spends /\ Located /\ Starts

LEMMA CompleteInit == Init => Complete
BY DEF Init, Complete, Saved, Spends, Located, Starts, ChainOf

LEMMA StartComplete == ASSUME Base, Going, Complete, StartSync PROVE Complete'
<1> DEFINE p == Prepared(Loaded, Bodies)
<1>1. /\ Index' = p.x
      /\ best = None => p.x.best = None
      /\ best = None \/ best \in Chain[tip] \/ kind = "tx" => p.ok /\ p.x = Loaded
      /\ best # None /\ kind # "tx" /\ p.ok => p.x.best = Fork(best, tip)
      /\ best # None /\ kind = "spender" /\ p.ok => p.x.db.rows = db.rows \ (Chain[best] \ Chain[tip])
  BY StartIs
<1>2. /\ status = "down" /\ status' = "sync" /\ p.ok /\ Becomes(p.x) /\ scan' = ScanFrom(p.x)
      /\ UNCHANGED <<kind, chain, flushing, saved, pruned, fails, crashes, left>>
  <2>1. status' = "sync"
    BY StartGoing
  <2> QED BY <2>1 DEF StartSync
<1>3. best = saved.best /\ tip = saved.tip /\ Loaded.db = db /\ Loaded.best = best
  BY <1>2, LoadedIs
<1> HIDE DEF p
<1>4. tip \in Blocks /\ best \in Blocks \cup {None}
  BY DEF Base, TypeOK, IndexOK, Fit, Index
<1>5. db' = p.x.db /\ best' = p.x.best
  BY <1>2 DEF Becomes
<1>6. Saved'
  BY <1>2 DEF Complete, Saved, chain
<1>7. Spends'
  <2> SUFFICES ASSUME kind = "spender", best' # None PROVE Chain[best'] \ {Genesis} \subseteq db'.rows
    BY <1>2 DEF Spends
  <2>1. best # None /\ best \in Blocks
    BY <1>1, <1>4, <1>5
  <2>2. best' = Fork(best, tip) /\ db'.rows = db.rows \ (Chain[best] \ Chain[tip])
    BY <1>1, <1>2, <1>5, <2>1
  <2>3. Chain[best'] \subseteq Chain[best] /\ Chain[best'] \subseteq Chain[tip]
    BY <1>4, <2>1, <2>2, ForkIs, ChainsNest
  <2> QED BY <2>1, <2>2, <2>3 DEF Complete, Spends
<1>8. kind = "tx" => db' = db /\ best' = best
  BY <1>1, <1>3, <1>5
<1>9. Located' /\ Starts'
  BY <1>2, <1>8 DEF Complete, Located, Starts, ChainOf, chain
<1> QED BY <1>6, <1>7, <1>9 DEF Complete

(* A later block of a chain has none of the transactions of the others.    *)
LEMMA WhereKept ==
    ASSUME NEW b \in Blocks, NEW c \in Chain[b], NEW t \in TxsOf[c], NEW w, NEW v, t \in Txs,
           w = [u \in Txs |-> IF u \in TxsOf[b] THEN b ELSE v[u]],
           c = b \/ v[t] = c
    PROVE  w[t] = c
<1>1. w[t] = IF t \in TxsOf[b] THEN b ELSE v[t]
  OBVIOUS
<1>2. CASE c = b
  BY <1>1, <1>2
<1>3. CASE c # b
  <2>1. t \notin TxsOf[b]
    BY <1>3, TxAssumption
  <2> QED BY <1>1, <1>3, <2>1
<1> QED BY <1>2, <1>3

LEMMA TxsAre == ASSUME NEW b \in Blocks, NEW t \in TxsOf[b] PROVE t \in Txs
BY TxAssumption

LEMMA TxOnce ==
    ASSUME NEW y \in Blocks, NEW b \in Chain[y], NEW c \in Chain[y], NEW t \in TxsOf[b], t \in TxsOf[c]
    PROVE  b = c
<1>1. b \in Blocks /\ c \in Blocks /\ Height[b] \in Nat /\ Height[c] \in Nat
  BY OnOwnChain, TreeAssumption
<1>2. b \in Chain[c] \/ c \in Chain[b]
  <2>1. Height[b] <= Height[c] \/ Height[c] <= Height[b]
    BY <1>1
  <2> QED BY <2>1, ChainOrder
<1> QED BY <1>1, <1>2, TxAssumption

LEMMA SyncComplete == ASSUME Base, Complete, SyncBlock PROVE Complete'
<1> DEFINE b == AtHeight(scan)
<1>1. /\ b \in Chain[tip] /\ b \in Blocks /\ Height[b] = scan /\ scan' = scan + 1
      /\ kind # "tx" => best' = b
      /\ kind # "tx" => (best = None /\ b = Genesis) \/ (b # Genesis /\ best = Parent[b])
      /\ kind = "tx" => /\ best' = best
                        /\ \/ db' = db
                           \/ db'.where = [t \in Txs |-> IF t \in TxsOf[b] THEN b ELSE db.where[t]]
      /\ kind = "spender" => db'.rows = db.rows \cup {b}
  BY SyncIs
<1>2. status = "sync" /\ UNCHANGED <<kind, status, chain, flushing, saved, pruned, cap, fails, crashes, left>>
  BY DEF SyncBlock
<1> HIDE DEF b
<1>3. tip \in Blocks /\ scan \in Nat /\ None \notin Blocks
  BY TreeAssumption DEF Base, TypeOK
<1>4. Saved'
  BY <1>2 DEF Complete, Saved
<1>5. Spends'
  <2> SUFFICES ASSUME kind = "spender" PROVE Chain[b] \ {Genesis} \subseteq db'.rows
    BY <1>1, <1>2 DEF Spends
  <2>1. CASE b = Genesis
    BY <2>1, TreeAssumption
  <2>2. CASE b # Genesis
    <3>1. best = Parent[b] /\ best \in Blocks /\ Chain[b] = Chain[best] \cup {b}
      BY <1>1, <2>2, Branch
    <3> QED BY <1>1, <1>3, <3>1 DEF Complete, Spends
  <2> QED BY <2>1, <2>2
<1>6. Located'
  <2> SUFFICES ASSUME kind = "tx", NEW c \in ChainOf(best) \ {Genesis}, NEW t \in TxsOf[c]
               PROVE  db'.where[t] = c
    BY <1>1, <1>2 DEF Located, ChainOf
  <2>1. best \in Blocks /\ c \in Chain[best] /\ tip \in Chain[best]
    BY <1>2 DEF ChainOf, Complete, Starts, Base, TypeOK, IndexOK, Fit, Index
  <2>2. b \in Chain[best] /\ c \in Blocks /\ t \in Txs
    BY <1>1, <1>3, <2>1, ChainsNest, OnOwnChain, TxsAre
  <2>3. db.where[t] = c
    BY DEF Complete, Located
  <2>4. t \in TxsOf[b] => b = c
    BY <1>1, <2>1, <2>2, TxOnce
  <2> QED BY <1>1, <2>2, <2>3, <2>4
<1>7. Starts'
  BY <1>1, <1>2 DEF Complete, Starts, chain
<1> QED BY <1>4, <1>5, <1>6, <1>7 DEF Complete

LEMMA SyncEndComplete == ASSUME Base, Complete, SyncEnd PROVE Complete'
<1>1. best' = tip
  BY SyncEndIs
<1>2. /\ status = "sync" /\ status' = "up" /\ scan > Height[tip]
      /\ UNCHANGED <<kind, chain, db>> /\ (kind = "spender" => best' = best)
  BY DEF SyncEnd
<1>3. best \in Blocks \cup {None} /\ Chain[Genesis] = {Genesis}
  BY TreeAssumption DEF Base, TypeOK, IndexOK, Fit, Index
<1>4. Located'
  <2>1. kind = "tx" => Chain[tip] \ {Genesis} \subseteq ChainOf(best)
    BY <1>2, <1>3, ChainsNest DEF Complete, Starts, ChainOf
  <2> QED BY <1>1, <1>2, <2>1 DEF Complete, Located, ChainOf
<1>5. Saved' /\ Spends' /\ Starts'
  BY <1>2 DEF Complete, Saved, Spends, Starts
<1> QED BY <1>4, <1>5 DEF Complete

LEMMA ConnectedComplete == ASSUME Base, Going, Complete, NEW b \in Blocks, Connected(b) PROVE Complete'
<1> DEFINE r == Rewound(b, Bodies)
           y == Written(r.x, b)
           k == Fork(best, tip)
           lost == Chain[best] \ Chain[tip]
<1>1. /\ status = "up" /\ Due(b) /\ r.ok /\ Becomes(y)
      /\ y = r.x \/ y.best = b
      /\ kind = "tx" => /\ y.best = b
                        /\ y.db.where = [t \in Txs |-> IF t \in TxsOf[b] THEN b ELSE db.where[t]]
      /\ kind = "spender" => y = r.x \/ y.db.rows = r.x.db.rows \cup {b}
  BY ConnectedIs
<1>2. UNCHANGED <<kind, status, known, tip, flushing, saved, pruned, cap, scan, fails, crashes, left>>
  BY DEF Connected
<1>3. best \in Blocks /\ best # None /\ tip \in Blocks
  BY <1>1, UpIs
<1>4. b \in Chain[tip] /\ b # Genesis /\ Told = Parent[b] /\ Parent[b] \in Chain[tip]
  BY <1>1, DueIs DEF Base
<1>5. Parent[b] \in Blocks /\ Chain[b] = Chain[Parent[b]] \cup {b} /\ Parent[b] \in Chain[best]
  BY <1>1, <1>4, Branch DEF Going, Following
<1>6. /\ r.ok /\ kind # "tx" => r.x.best = Fork(best, tip)
      /\ r.ok /\ kind = "spender" => r.x.db.rows = db.rows \ lost
  BY <1>1, RewoundIs
<1> HIDE DEF y, r
<1>7. best' = y.best /\ db' = y.db
  BY <1>1 DEF Becomes
<1>8. Saved'
  BY <1>1, <1>2 DEF Saved
<1>9. Spends'
  <2> SUFFICES ASSUME kind = "spender" PROVE Chain[y.best] \ {Genesis} \subseteq y.db.rows
    BY <1>2, <1>7 DEF Spends
  <2>1. r.x.best = k /\ r.x.db.rows = db.rows \ lost
    BY <1>1, <1>6
  <2>2. k \in Chain[best] /\ k \in Chain[tip] /\ Parent[b] \in Chain[k] /\ k \in Blocks
    BY <1>3, <1>4, <1>5, ForkIs
  <2>3. Chain[k] \subseteq Chain[best] /\ Chain[k] \subseteq Chain[tip] /\ Chain[Parent[b]] \subseteq Chain[k]
    BY <1>3, <2>2, ChainsNest
  <2>4. Chain[best] \ {Genesis} \subseteq db.rows
    BY <1>3 DEF Complete, Spends
  <2>5. Chain[k] \ {Genesis} \subseteq r.x.db.rows
    BY <2>1, <2>3, <2>4
  <2>6. CASE y = r.x
    BY <2>1, <2>5, <2>6
  <2>7. CASE y # r.x
    <3>1. y.best = b /\ y.db.rows = r.x.db.rows \cup {b}
      BY <1>1, <2>7
    <3> QED BY <1>5, <2>3, <2>5, <3>1
  <2> QED BY <2>6, <2>7
<1>10. Located'
  <2> SUFFICES ASSUME kind = "tx", NEW c \in Chain[b] \ {Genesis}, NEW t \in TxsOf[c] PROVE y.db.where[t] = c
    BY <1>1, <1>2, <1>7 DEF Located, ChainOf
  <2>1. c \in Blocks /\ t \in Txs
    BY OnOwnChain, TxsAre
  <2>2. c # b => db.where[t] = c
    <3>1. c # b => c \in Chain[best]
      BY <1>3, <1>5, ChainsNest
    <3> QED BY <1>1, <1>3, <3>1 DEF Complete, Located, ChainOf
  <2> QED BY <1>1, <2>1, <2>2, WhereKept
<1>11. Starts'
  BY <1>1, <1>2 DEF Starts
<1> QED BY <1>8, <1>9, <1>10, <1>11 DEF Complete

LEMMA StopComplete == ASSUME Base, Going, Complete, Stop PROVE Complete'
<1>1. best' = best /\ saved'.best = best /\ saved'.tip = tip /\ tip \in Chain[best]
  BY StopGoing
<1>2. UNCHANGED <<kind, db>> /\ status = "up" /\ status' = "down"
  BY StopIs DEF Stop, Forget
<1>3. tip' = tip /\ best # None
  BY <1>1, <1>2, UpIs DEF Stop, Forget
<1> QED BY <1>1, <1>2, <1>3 DEF Complete, Saved, Spends, Located, Starts, ChainOf

LEMMA CompleteStep ==
    ASSUME Base, Smooth => Going, Faultless => Complete, [Next]_vars
    PROVE  Faultless' => Complete'
<1> SUFFICES ASSUME Faultless' PROVE Complete'
  OBVIOUS
<1>1. fails \in Nat /\ crashes \in Nat /\ fails' + crashes' = 0 /\ kind' \notin ByBlock
  BY DEF Base, TypeOK, Faultless
<1>2. ASSUME NEW b \in Blocks, WriteFails(b) PROVE FALSE
  BY <1>1, <1>2 DEF WriteFails
<1>3. ASSUME Crash PROVE FALSE
  BY <1>1, <1>3 DEF Crash, Forget
<1>4. ASSUME NEW b \in Blocks, NEW lost \in {{}} \cup {{c} : c \in Blocks}, RewindFails(b, lost) PROVE FALSE
  <2>1. Cardinality(lost) \in Nat
    <3>1. IsFiniteSet(lost)
      BY FS_EmptySet, FS_Singleton
    <3> QED BY <3>1, FS_CardinalityType
  <2>2. fails = 0 /\ fails' = 0 /\ kind' = kind
    <3>1. fails' = fails + Cardinality(lost) /\ crashes' = crashes /\ kind' = kind
      BY <1>4 DEF RewindFails
    <3> DEFINE n == Cardinality(lost)
    <3>2. n \in Nat /\ fails' = fails + n /\ fails' + crashes = 0
      BY <1>1, <2>1, <3>1
    <3> HIDE DEF n
    <3>3. fails = 0 /\ fails' = 0
      BY <1>1, <3>2
    <3> QED BY <3>1, <3>3
  <2>3. Going
    BY <1>1, <2>2 DEF Smooth
  <2> QED BY <1>4, <2>2, <2>3, RewindFailsGoing
<1>5. ASSUME \/ Refuse \/ StartSync \/ SyncBlock \/ SyncEnd
             \/ \E b \in Blocks : Move(b) \/ Connected(b)
             \/ FlushIndex \/ FlushTip \/ FlushMarker \/ (\E h \in Heights : Prune(h)) \/ Stop
             \/ UNCHANGED vars
      PROVE  kind' = kind /\ fails' = fails /\ crashes' = crashes
  BY <1>5 DEF Refuse, StartSync, SyncBlock, SyncEnd, Move, Connected, FlushIndex, FlushTip, FlushMarker,
              Prune, Stop, Forget, vars
<1>6. \/ Refuse \/ StartSync \/ SyncBlock \/ SyncEnd
      \/ \E b \in Blocks : Move(b) \/ Connected(b)
      \/ FlushIndex \/ FlushTip \/ FlushMarker \/ (\E h \in Heights : Prune(h)) \/ Stop
      \/ UNCHANGED vars
  BY <1>2, <1>3, <1>4 DEF Next
<1>7. Complete /\ Going
  BY <1>1, <1>5, <1>6 DEF Faultless, Smooth
<1>8. ASSUME UNCHANGED <<kind, status, chain, scan, memory, db>>,
             saved'.best = saved.best, saved'.tip = saved.tip \/ status = "up"
      PROVE  Complete'
  BY <1>7, <1>8 DEF Complete, Saved, Spends, Located, Starts, chain, memory
<1>9. ASSUME UNCHANGED vars PROVE Complete'
  BY <1>7, <1>8, <1>9 DEF vars
<1>10. ASSUME status = "up", UNCHANGED <<kind, status, memory, db>> PROVE Complete'
  BY <1>7, <1>10 DEF Complete, Saved, Spends, Located, Starts, memory
<1>11. ASSUME NEW b \in Blocks, Move(b) \/ Connected(b) PROVE Complete'
  BY <1>7, <1>10, <1>11, ConnectedComplete DEF Move, Quiet
<1>12. ASSUME FlushIndex \/ FlushTip \/ FlushMarker \/ \E h \in Heights : Prune(h) PROVE Complete'
  BY <1>10, <1>12 DEF FlushIndex, FlushTip, FlushMarker, Prune, Quiet
<1>13. ASSUME Refuse PROVE FALSE
  BY <1>7, <1>13, RefuseGoing
<1> QED BY <1>6, <1>7, <1>9, <1>11, <1>12, <1>13, StartComplete, SyncComplete, SyncEndComplete, StopComplete

-----------------------------------------------------------------------------
(* The theorems.                                                           *)

(* Base whatever fails; Going once every write and read of the driver      *)
(* succeeds; Complete when nothing fails and nothing dies.                 *)
Inv == Base /\ (Smooth => Going) /\ (Faultless => Complete)

(* The inductive invariant: what each kind of index holds on disk and in   *)
(* memory, where it stands against the tip, and what pruning has left it.  *)
THEOREM InvHolds == Spec => []Inv
<1>1. Init => Inv
  BY BaseInit, GoingInit, CompleteInit DEF Inv
<1>2. Inv /\ [Next]_vars => Inv'
  BY BaseStep, GoingStep, CompleteStep DEF Inv
<1> QED BY <1>1, <1>2, PTL DEF Spec

LEMMA RecordsFollow == ASSUME Inv PROVE RecordsRight
<1>1. Fit(kind, Index) /\ Index.db = db
  BY DEF Inv, Base, IndexOK, Index
<1>2. ValuesRight
  BY <1>1 DEF ValuesRight, Fit, RecordsFit, Ones
<1>3. NoStaleSpend
  <2> SUFFICES ASSUME best # None, status = "up", fails = 0
               PROVE  db.rows \subseteq Chain[best] \cup Chain[tip] \cup left
    BY DEF NoStaleSpend
  <2>1. CASE kind = "spender"
    <3>1. RowsOK
      BY <2>1 DEF Inv, Smooth, Going, ByBlock
    <3> QED BY <3>1 DEF RowsOK, ChainOf
  <2>2. CASE kind # "spender"
    BY <1>1, <2>2 DEF Fit
  <2> QED BY <2>1, <2>2
<1> QED BY <1>2, <1>3 DEF RecordsRight

(* What a filter header or a UTXO statistic says of a block is the fold of *)
(* that block's own chain, whatever fails and wherever the process dies,   *)
(* and no spend of an abandoned branch stays answered for                  *)
(* (blockfilterindex-add-block, coinstatsindex-add-block and the rewinds). *)
THEOREM RecordsStayRight == Spec => []RecordsRight
<1>1. Inv => RecordsRight
  BY RecordsFollow
<1> QED BY <1>1, InvHolds, PTL

LEMMA GapFollows == ASSUME Inv PROVE NoGapOtherwise
<1> SUFFICES ASSUME ~(kind \in {"tx", "spender"} /\ fails + crashes > 0),
                    status = "up", best # None, NEW b \in Chain[best] \ {Genesis}
             PROVE  Indexed(b)
  BY DEF NoGapOtherwise, NoGap
<1>1. /\ kind \in Kinds /\ Fit(kind, Index) /\ Index.db = db /\ Index.best = best
      /\ fails \in Nat /\ crashes \in Nat /\ best \in Blocks
  BY UpIs DEF Inv, Base, TypeOK, IndexOK, Index
<1>2. CASE kind \in ByBlock
  <2>1. LookUp(db, b) # None
    BY <1>1, <1>2 DEF Fit, RecordsFit
  <2> QED BY <1>2, <2>1 DEF Indexed, ByBlock
<1>3. CASE kind \notin ByBlock
  <2>1. kind = "tx" \/ kind = "spender"
    BY <1>1, <1>3, KindAssumption DEF ByBlock
  <2>2. fails + crashes = 0
    BY <1>1, <2>1
  <2>3. Complete
    BY <1>3, <2>2 DEF Inv, Faultless
  <2>4. CASE kind = "spender"
    BY <2>3, <2>4 DEF Complete, Spends, Indexed
  <2>5. CASE kind = "tx"
    <3>1. b \in Blocks /\ None \notin Blocks /\ b \in ChainOf(best)
      BY <1>1, OnOwnChain, TreeAssumption DEF ChainOf
    <3>2. \A t \in TxsOf[b] : db.where[t] = b
      BY <2>3, <2>5, <3>1 DEF Complete, Located
    <3> QED BY <2>5, <3>1, <3>2 DEF Indexed
  <2> QED BY <2>1, <2>4, <2>5
<1> QED BY <1>2, <1>3

(* Every block up to the one an index says it is at can be looked up: for  *)
(* the filter and coinstats indexes whatever fails, for the others while   *)
(* nothing does (the height an index reports, index-base.lisp).            *)
THEOREM NoGapEver == Spec => []NoGapOtherwise
<1>1. Inv => NoGapOtherwise
  BY GapFollows
<1> QED BY <1>1, InvHolds, PTL

LEMMA LockFollows == ASSUME Inv PROVE LockHolds
<1> SUFFICES ASSUME kind \in {"filter", "coinstats"}, status = "up", best # None, Height[best] > 0,
                    NEW b \in Chain[tip], Height[b] > Height[best]
             PROVE  Readable(b)
  BY DEF LockHolds
<1>1. pruned <= Height[best]
  BY DEF Inv, Base, LockOK, ByBlock
<1>2. /\ b \in Blocks /\ Height[b] \in Nat /\ Height[best] \in Nat /\ pruned \in Nat
  BY UpIs, OnOwnChain, TreeAssumption DEF Inv
<1> QED BY <1>1, <1>2 DEF Readable

(* Pruning leaves what an index behind the tip has still to read: its lock *)
(* and the cap a reorganisation puts on it hold (%prune-lock-height,       *)
(* move-prune-locks-back, prune-lock-ceiling).                             *)
THEOREM LockAlwaysHolds == Spec => []LockHolds
<1>1. Inv => LockHolds
  BY LockFollows
<1> QED BY <1>1, InvHolds, PTL

LEMMA CoverFollows == ASSUME OneFirstBlock, Inv PROVE CoversTip
<1> SUFFICES ASSUME fails = 0
             PROVE  /\ status \notin {"refused", "aborted"}
                    /\ status = "up" /\ tell = {} => best # None /\ tip \in Chain[best]
  BY DEF CoversTip
<1>1. Base /\ Going
  BY DEF Inv, Smooth
<1>2. ASSUME status = "up", tell = {} PROVE best # None /\ tip \in Chain[best]
  <2>1. best # None /\ tip \in Blocks
    BY <1>1, <1>2, UpIs
  <2>2. Told = tip
    BY <1>2, <2>1, ToldAll DEF Told
  <2> QED BY <1>1, <1>2, <2>1, <2>2 DEF Going, Following
<1> QED BY <1>1, <1>2 DEF Going, Startable

(* An index whose writes and reads succeed has the whole active chain once *)
(* its events are delivered, and never stops the node.  The first block    *)
(* above genesis has to be one and the same: prune-lock-ceiling lets a     *)
(* lock at genesis go up to height one, and a crash between the flush of   *)
(* the chainstate and that of the markers then finds the body of an        *)
(* abandoned first block gone.                                             *)
THEOREM TipIsCovered == ASSUME OneFirstBlock PROVE Spec => []CoversTip
<1>1. Inv => CoversTip
  BY CoverFollows
<1> QED BY <1>1, InvHolds, PTL
=============================================================================
