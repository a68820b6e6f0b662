-------------------------- MODULE OwnershipProofs ---------------------------
(***************************************************************************)
(* Proofs about who has a key: the node that owns it on the hash ring and  *)
(* the handle that holds its lock.                                         *)
(*                                                                         *)
(* The hash ring, for any nodes, keys, number of hashes and number of      *)
(* virtual nodes, as long as no two virtual nodes have the same hash. What *)
(* the slice and the map hold, who owns a key and how that changes, and    *)
(* which nodes GetNodes names.                                             *)
(*                                                                         *)
(* The lock engine, for any keys, callers, TTLs and retry counts and       *)
(* without a bound on the clock or on the acquisitions. OneHolder and      *)
(* HolderHasNewestToken speak about handles only, and what Release and     *)
(* Extend do depends on the engine's entries. The inductive invariant ties *)
(* the two together: every entry stands for the newest handle of its key,  *)
(* with the deadline that handle was told, and every lease in force has    *)
(* its entry.                                                              *)
(***************************************************************************)
EXTENDS LockEngine, HashRing, FiniteSetTheorems, WellFoundedInduction, TLAPS

\* Every leaf is small; the provers get more than their default of 5 seconds
\* so that a slow machine does not matter.
USE SMTT(30), ZenonT(30)

-----------------------------------------------------------------------------
\* The hash ring

RingType ==
  /\ copies \in [Hashes -> Nat]
  /\ hashMap \in [Hashes -> Nodes \cup {NoNode}]
  /\ members \subseteq Nodes

RingInv == RingType /\ RingMatchesMembers

-----------------------------------------------------------------------------
\* Points

LEMMA PointsType ==
  ASSUME NEW n \in Nodes
  PROVE  Points(n) \subseteq Hashes /\ Points(n) # {}
<1>1. NodeHash[n] \in [1 .. VNodes -> Hashes] BY NodeHashAssumption, Zenon
<1>2. 1 \in 1 .. VNodes BY RingSizeAssumption
<1>3. ASSUME NEW h \in Points(n) PROVE h \in Hashes
  <2>1. PICK i \in 1 .. VNodes : h = NodeHash[n][i] BY Zenon DEF Points
  <2> QED BY <1>1, <2>1, Zenon
<1>4. NodeHash[n][1] \in Points(n) BY <1>2, Zenon DEF Points
<1> QED BY <1>3, <1>4, Zenon

LEMMA PointsApart ==
  ASSUME NoCollisions, NEW n \in Nodes, NEW p \in Nodes, NEW h \in Points(n), h \in Points(p)
  PROVE  n = p
BY DEF NoCollisions, Points

\* A node has at most one virtual node at a hash.
LEMMA OneOccurrence ==
  ASSUME NoCollisions, NEW n \in Nodes, NEW h \in Hashes
  PROVE  Occurrences(n, h) = IF h \in Points(n) THEN 1 ELSE 0
<1> DEFINE At == {i \in 1 .. VNodes : NodeHash[n][i] = h}
<1>1. CASE h \in Points(n)
  <2>1. PICK i \in 1 .. VNodes : NodeHash[n][i] = h BY <1>1, Zenon DEF Points
  <2>2. At = {i} BY <2>1, Zenon DEF NoCollisions
  <2>3. Cardinality({i}) = 1 BY FS_Singleton, Zenon
  <2> QED BY <1>1, <2>2, <2>3, Zenon DEF Occurrences
<1>2. CASE h \notin Points(n)
  <2>1. At = {} BY <1>2, Zenon DEF Points
  <2>2. Cardinality({}) = 0 BY FS_EmptySet, Zenon
  <2> QED BY <1>2, <2>1, <2>2, Zenon DEF Occurrences
<1> QED BY <1>1, <1>2, Zenon

-----------------------------------------------------------------------------
\* The slice and the map follow the members

LEMMA AddNodeKeeps ==
  ASSUME NoCollisions, RingInv, NEW n \in Nodes, AddNode(n)
  PROVE  RingInv'
<1>1. Points(n) \subseteq Hashes BY PointsType, Zenon
<1>2. \A h \in Hashes : copies'[h] = copies[h] + (IF h \in Points(n) THEN 1 ELSE 0)
  BY OneOccurrence, Zenon DEF AddNode
<1>3. RingType'
  <2>1. \A h \in Hashes : copies'[h] \in Nat BY <1>2 DEF RingInv, RingType
  <2>2. copies' = [h \in Hashes |-> copies'[h]] BY Zenon DEF AddNode
  <2> QED BY <2>1, <2>2, Zenon DEF RingInv, RingType, AddNode
<1>4. ASSUME NEW h \in Hashes
      PROVE  copies'[h] = IF \E p \in members' : h \in Points(p) THEN 1 ELSE 0
  <2>1. CASE h \in Points(n)
    <3>1. ~ \E p \in members : h \in Points(p)
      BY <2>1, PointsApart, Zenon DEF AddNode, RingInv, RingType
    <3>2. copies[h] = 0 BY <3>1, Zenon DEF RingInv, RingMatchesMembers
    <3>3. n \in members' BY Zenon DEF AddNode
    <3> QED BY <1>2, <2>1, <3>2, <3>3
  <2>2. CASE h \notin Points(n)
    <3>1. (\E p \in members' : h \in Points(p)) <=> (\E p \in members : h \in Points(p))
      BY <2>2, Zenon DEF AddNode
    <3>2. copies'[h] = copies[h] BY <1>2, <2>2 DEF RingInv, RingType
    <3> QED BY <3>1, <3>2, Zenon DEF RingInv, RingMatchesMembers
  <2> QED BY <2>1, <2>2, Zenon
<1>5. ASSUME NEW p \in members', NEW h \in Points(p)
      PROVE  hashMap'[h] = p
  <2>1. p \in Nodes /\ h \in Hashes BY PointsType, Zenon DEF AddNode, RingInv, RingType
  <2>2. CASE p = n BY <2>1, <2>2, Zenon DEF AddNode
  <2>3. CASE p # n
    <3>1. p \in members /\ hashMap[h] = p BY <2>3, Zenon DEF AddNode, RingInv, RingMatchesMembers
    <3>2. h \notin Points(n) BY <2>1, <2>3, PointsApart, Zenon
    <3> QED BY <2>1, <3>1, <3>2, Zenon DEF AddNode
  <2> QED BY <2>2, <2>3, Zenon
<1> QED BY <1>3, <1>4, <1>5, Zenon DEF RingInv, RingMatchesMembers

\* The loop of RemoveNode finds the points of the node and no others.
LEMMA RemoveNodeKeeps ==
  ASSUME NoCollisions, RingInv, NEW n \in Nodes, RemoveNode(n)
  PROVE  RingInv'
<1> DEFINE mine == {h \in Hashes : copies[h] > 0 /\ hashMap[h] = n}
<1>1. mine = Points(n)
  <2>1. n \in members /\ Points(n) \subseteq Hashes BY PointsType, Zenon DEF RemoveNode
  <2>2. ASSUME NEW h \in mine PROVE h \in Points(n)
    <3>1. PICK p \in members : h \in Points(p) BY DEF RingInv, RingMatchesMembers
    <3> QED BY <3>1, Zenon DEF RingInv, RingMatchesMembers
  <2>3. ASSUME NEW h \in Points(n) PROVE h \in mine
    BY <2>1 DEF RingInv, RingMatchesMembers
  <2> QED BY <2>2, <2>3, Zenon
<1>2. /\ members' = members \ {n}
      /\ copies' = [h \in Hashes |-> IF h \in Points(n) THEN copies[h] - 1 ELSE copies[h]]
      /\ hashMap' = [h \in Hashes |-> IF h \in Points(n) THEN NoNode ELSE hashMap[h]]
  BY <1>1, Zenon DEF RemoveNode
<1>3. ASSUME NEW h \in Points(n) PROVE h \in Hashes /\ copies[h] = 1
  BY PointsType, Zenon DEF RingInv, RingMatchesMembers, RemoveNode
<1>4. RingType' BY <1>2, <1>3 DEF RingInv, RingType
<1>5. ASSUME NEW h \in Hashes
      PROVE  copies'[h] = IF \E p \in members' : h \in Points(p) THEN 1 ELSE 0
  <2>1. CASE h \in Points(n)
    <3>1. ~ \E p \in members' : h \in Points(p)
      BY <1>2, <2>1, PointsApart, Zenon DEF RingInv, RingType
    <3> QED BY <1>2, <1>3, <2>1, <3>1
  <2>2. CASE h \notin Points(n)
    <3>1. (\E p \in members' : h \in Points(p)) <=> (\E p \in members : h \in Points(p))
      BY <1>2, <2>2, Zenon
    <3>2. copies'[h] = copies[h] BY <1>2, <2>2, Zenon
    <3> QED BY <3>1, <3>2 DEF RingInv, RingMatchesMembers
  <2> QED BY <2>1, <2>2
<1>6. ASSUME NEW p \in members', NEW h \in Points(p)
      PROVE  hashMap'[h] = p
  <2>1. p \in members /\ p \in Nodes /\ p # n /\ h \in Hashes
    BY <1>2, PointsType, Zenon DEF RingInv, RingType
  <2>2. h \notin Points(n) BY <2>1, PointsApart, Zenon
  <2> QED BY <1>2, <2>1, <2>2, Zenon DEF RingInv, RingMatchesMembers
<1> QED BY <1>4, <1>5, <1>6 DEF RingInv, RingMatchesMembers

LEMMA RingInvInit == RingInit => RingInv
BY DEF RingInit, RingInv, RingType, RingMatchesMembers

LEMMA RingInvNext == ASSUME NoCollisions, RingInv, [RingNext]_ringVars PROVE RingInv'
<1>1. CASE UNCHANGED ringVars
  BY <1>1, Zenon DEF ringVars, RingInv, RingType, RingMatchesMembers
<1>2. CASE RingNext BY <1>2, AddNodeKeeps, RemoveNodeKeeps, Zenon DEF RingNext
<1> QED BY <1>1, <1>2, Zenon

LEMMA RingInvariant == ASSUME NoCollisions PROVE RingSpec => []RingInv
<1>1. RingInv /\ [RingNext]_ringVars => RingInv' BY RingInvNext, Zenon
<1> QED BY <1>1, RingInvInit, PTL DEF RingSpec

\* With no two virtual nodes at the same hash, sortedHashes and hashMap hold
\* the virtual nodes of the members and nothing else (AddNode, RemoveNode).
THEOREM RingCorrect == ASSUME NoCollisions PROVE RingSpec => []RingMatchesMembers
<1>1. RingInv => RingMatchesMembers BY Zenon DEF RingInv
<1> QED BY <1>1, RingInvariant, PTL

-----------------------------------------------------------------------------
\* Lookups

Base(c, x) ==
  LET above == {h \in Slice(c) : h >= x} IN IF above = {} THEN Slice(c) ELSE above

Least(S, h) == h \in S /\ \A g \in S : h <= g

LEMMA LeastExists ==
  ASSUME NEW S \in SUBSET Nat, S # {}
  PROVE  \E h \in S : Least(S, h)
<1> DEFINE R == {ss \in Nat \X Nat : ss[1] < ss[2]}
<1>1. IsWellFoundedOn(R, Nat) BY NatLessThanWellFounded, Zenon DEF OpToRel
<1>2. \A g, h \in Nat : g < h => <<g, h>> \in R BY Zenon
<1> HIDE DEF R
<1>3. PICK h \in S : \A g \in S : ~ (<<g, h>> \in R) BY <1>1, WFMin, Zenon
<1>4. ASSUME NEW g \in S PROVE h <= g
  <2>1. g \in Nat /\ h \in Nat BY Zenon
  <2>2. ~ (g < h) BY <1>2, <1>3, <2>1, Zenon
  <2> QED BY <2>1, <2>2
<1> QED BY <1>3, <1>4, Zenon DEF Least

LEMMA LeastUnique ==
  ASSUME NEW S \in SUBSET Nat, NEW g, NEW h, Least(S, g), Least(S, h)
  PROVE  g = h
<1>1. g \in Nat /\ h \in Nat /\ g <= h /\ h <= g BY Zenon DEF Least
<1> QED BY <1>1

LEMMA BaseType ==
  ASSUME NEW c, NEW x, Slice(c) # {}
  PROVE  Base(c, x) \in SUBSET Nat /\ Base(c, x) \subseteq Slice(c) /\ Base(c, x) # {}
<1>1. Slice(c) \subseteq Nat BY RingSizeAssumption DEF Slice, Hashes
<1>2. Base(c, x) \subseteq Slice(c) /\ Base(c, x) # {} BY Zenon DEF Base
<1> QED BY <1>1, <1>2, Zenon

\* The search finds the least hash not below x, or the least one of all.
LEMMA SuccessorIsLeast ==
  ASSUME NEW c, NEW x, Slice(c) # {}
  PROVE  Least(Base(c, x), Successor(c, x))
<1>1. \E h \in Base(c, x) : \A g \in Base(c, x) : h <= g
  BY BaseType, LeastExists, Zenon DEF Least
<1>2. Successor(c, x) = CHOOSE h \in Base(c, x) : \A g \in Base(c, x) : h <= g
  BY Zenon DEF Successor, Base
<1> QED BY <1>1, <1>2, Zenon DEF Least

\* The slice of a ring that matches its members.
LEMMA SliceIsPoints ==
  ASSUME RingInv
  PROVE  /\ \A h : h \in Slice(copies) <=> \E n \in members : h \in Points(n)
         /\ Slice(copies) = {} <=> members = {}
<1>1. \A n \in members : Points(n) \subseteq Hashes /\ Points(n) # {}
  BY PointsType, Zenon DEF RingInv, RingType
<1>2. ASSUME NEW h PROVE h \in Slice(copies) <=> \E n \in members : h \in Points(n)
  <2>1. ASSUME h \in Slice(copies) PROVE \E n \in members : h \in Points(n)
    BY <2>1 DEF Slice, RingInv, RingMatchesMembers
  <2>2. ASSUME NEW n \in members, h \in Points(n) PROVE h \in Slice(copies)
    <3>1. h \in Hashes BY <1>1, <2>2, Zenon
    <3>2. copies[h] = 1 BY <2>2, <3>1, Zenon DEF RingInv, RingMatchesMembers
    <3> QED BY <3>1, <3>2 DEF Slice
  <2> QED BY <2>1, <2>2, Zenon
<1>3. Slice(copies) = {} <=> members = {} BY <1>1, <1>2, Zenon
<1> QED BY <1>2, <1>3, Zenon

\* The owner is the member whose virtual node the search finds.
LEMMA OwnerOfPoint ==
  ASSUME RingInv, members # {}, NEW k \in Keys
  PROVE  /\ Owner(k) \in members
         /\ \A n \in members : Successor(copies, KeyHash[k]) \in Points(n) => Owner(k) = n
         /\ Successor(copies, KeyHash[k]) \in Points(Owner(k))
         /\ Successor(copies, KeyHash[k]) \in Slice(copies)
<1> DEFINE succ == Successor(copies, KeyHash[k])
<1>1. Slice(copies) # {} BY SliceIsPoints, Zenon
<1>2. succ \in Slice(copies) BY <1>1, SuccessorIsLeast, BaseType, Zenon DEF Least
<1>3. PICK n \in members : succ \in Points(n) BY <1>2, SliceIsPoints, Zenon
<1>4. Owner(k) = hashMap[succ] BY <1>1, Zenon DEF Owner, GetNode
<1>5. \A p \in members : succ \in Points(p) => hashMap[succ] = p
  BY Zenon DEF RingInv, RingMatchesMembers
<1> HIDE DEF succ
<1>6. Owner(k) = n BY <1>3, <1>4, <1>5, Zenon
<1> QED BY <1>2, <1>3, <1>4, <1>5, <1>6, Zenon DEF succ

\* GetNode returns "" if the ring is empty and a member otherwise.
THEOREM OwnerCorrect == ASSUME NoCollisions PROVE RingSpec => []OwnerIsMember
<1>1. ASSUME RingInv PROVE OwnerIsMember
  <2>1. ASSUME members = {}, NEW k \in Keys PROVE Owner(k) = NoNode
    BY <1>1, <2>1, SliceIsPoints, Zenon DEF Owner, GetNode
  <2>2. ASSUME members # {}, NEW k \in Keys PROVE Owner(k) \in members
    BY <1>1, <2>2, OwnerOfPoint, Zenon
  <2> QED BY <2>1, <2>2, Zenon DEF OwnerIsMember
<1> QED BY <1>1, RingInvariant, PTL

-----------------------------------------------------------------------------
\* Who loses keys

\* What the lookups of a key tell of the ring, as one fact about a state.
Located(k) ==
  /\ members = {} <=> Slice(copies) = {}
  /\ \A h : h \in Slice(copies) <=> \E n \in members : h \in Points(n)
  /\ members = {} => Owner(k) = NoNode
  /\ members # {} =>
       /\ Owner(k) \in members
       /\ Least(Base(copies, KeyHash[k]), Successor(copies, KeyHash[k]))
       /\ Successor(copies, KeyHash[k]) \in Slice(copies)
       /\ Successor(copies, KeyHash[k]) \in Points(Owner(k))
       /\ \A n \in members : Successor(copies, KeyHash[k]) \in Points(n) => Owner(k) = n

LEMMA RingLocates == RingInv => \A k \in Keys : Located(k)
<1> SUFFICES ASSUME RingInv, NEW k \in Keys PROVE Located(k) BY Zenon
<1>1. members = {} => Owner(k) = NoNode BY SliceIsPoints, Zenon DEF Owner, GetNode
<1>2. members # {} => Least(Base(copies, KeyHash[k]), Successor(copies, KeyHash[k]))
  BY SliceIsPoints, SuccessorIsLeast, Zenon
<1> QED BY <1>1, <1>2, SliceIsPoints, OwnerOfPoint, Zenon DEF Located

LEMMA RingLocatesNext == RingInv' => \A k \in Keys : Located(k)'
<1>1. (RingInv => \A k \in Keys : Located(k))' BY RingLocates, PTL
<1> QED BY <1>1, Zenon

\* What the search finds in a slice d it also finds in any part c of d that
\* still holds it.
LEMMA SearchAgrees ==
  ASSUME NEW c, NEW d, NEW x \in Nat, NEW g, NEW h,
         Slice(c) \subseteq Slice(d),
         Least(Base(c, x), g), Least(Base(d, x), h), h \in Slice(c)
  PROVE  g = h
<1>1. Slice(d) \subseteq Nat BY RingSizeAssumption DEF Slice, Hashes
<1>2. Least(Base(c, x), h)
  <2>1. CASE \A f \in Slice(c) : ~ (f >= x)
    <3>1. Base(c, x) = Slice(c) BY <2>1, Zenon DEF Base
    <3>2. Base(d, x) = Slice(d) BY <2>1, Zenon DEF Base, Least
    <3> QED BY <3>1, <3>2, Zenon DEF Least
  <2>2. CASE \E f \in Slice(c) : f >= x
    <3>1. Base(c, x) = {f \in Slice(c) : f >= x} BY <2>2, Zenon DEF Base
    <3>2. Base(d, x) = {f \in Slice(d) : f >= x} BY <2>2, Zenon DEF Base
    <3> QED BY <3>1, <3>2, Zenon DEF Least
  <2> QED BY <2>1, <2>2, Zenon
<1>3. Slice(c) # {} BY Zenon
<1>4. Base(c, x) \in SUBSET Nat BY <1>3, BaseType, Zenon
<1> QED BY <1>2, <1>4, LeastUnique, Zenon

LEMMA KeyHashNat == ASSUME NEW k \in Keys PROVE KeyHash[k] \in Nat
BY KeyHashAssumption, RingSizeAssumption DEF Hashes

LEMMA AddNodeMoves ==
  ASSUME RingInv, RingInv', NEW n \in Nodes, AddNode(n), NEW k \in Keys
  PROVE  Owner(k)' # Owner(k) => Owner(k)' \in members' \ members
<1> DEFINE next == Successor(copies', KeyHash[k])
<1>1. Located(k) /\ Located(k)' BY RingLocates, RingLocatesNext, Zenon
<1>2. members' # {} /\ members \subseteq members' BY Zenon DEF AddNode
<1>3. /\ Owner(k)' \in members' /\ next \in Points(Owner(k)')
      /\ \A p \in members' : next \in Points(p) => Owner(k)' = p
      /\ Least(Base(copies', KeyHash[k]), next)
  BY <1>1, <1>2, Zenon DEF Located
<1>4. CASE next \in Slice(copies)
  <2>1. members # {} BY <1>1, <1>4, Zenon DEF Located
  <2>2. Slice(copies) \subseteq Slice(copies') BY <1>1, <1>2, Zenon DEF Located
  <2>3. /\ Least(Base(copies, KeyHash[k]), Successor(copies, KeyHash[k]))
        /\ Successor(copies, KeyHash[k]) \in Points(Owner(k))
        /\ Owner(k) \in members
    BY <1>1, <2>1, Zenon DEF Located
  <2>4. Successor(copies, KeyHash[k]) = next
    BY <1>3, <1>4, <2>2, <2>3, KeyHashNat, SearchAgrees, Zenon
  <2> QED BY <1>2, <1>3, <2>3, <2>4, Zenon
<1>5. CASE next \notin Slice(copies)
  BY <1>1, <1>3, <1>5, Zenon DEF Located
<1> QED BY <1>4, <1>5, Zenon

LEMMA RemoveNodeMoves ==
  ASSUME RingInv, RingInv', NEW n \in Nodes, RemoveNode(n), NEW k \in Keys
  PROVE  Owner(k)' # Owner(k) => Owner(k) \notin members'
<1> SUFFICES ASSUME Owner(k) \in members' PROVE Owner(k)' = Owner(k) BY Zenon
<1> DEFINE succ == Successor(copies, KeyHash[k])
<1>1. Located(k) /\ Located(k)' BY RingLocates, RingLocatesNext, Zenon
<1>2. members # {} /\ members' # {} /\ members' \subseteq members BY Zenon DEF RemoveNode
<1>3. succ \in Points(Owner(k)) /\ Least(Base(copies, KeyHash[k]), succ)
  BY <1>1, <1>2, Zenon DEF Located
<1>4. /\ Least(Base(copies', KeyHash[k]), Successor(copies', KeyHash[k]))
      /\ \A p \in members' : Successor(copies', KeyHash[k]) \in Points(p) => Owner(k)' = p
  BY <1>1, <1>2, Zenon DEF Located
<1>5. Slice(copies') \subseteq Slice(copies) BY <1>1, <1>2, Zenon DEF Located
<1>6. succ \in Slice(copies') BY <1>1, <1>3, Zenon DEF Located
<1>7. Successor(copies', KeyHash[k]) = succ
  BY <1>3, <1>4, <1>5, <1>6, KeyHashNat, SearchAgrees, Zenon
<1> QED BY <1>3, <1>4, <1>7, Zenon

\* Only the keys a joining node takes over, and those of a leaving node, change
\* owner (AddNode, RemoveNode, GetNode).
THEOREM MovesCorrect == ASSUME NoCollisions PROVE RingSpec => OnlyNecessaryMoves
<1> DEFINE Step ==
      \A k \in Keys : Owner(k)' # Owner(k) =>
        Owner(k)' \in members' \ members \/ Owner(k) \notin members'
<1>1. ASSUME RingInv, RingInv', [RingNext]_ringVars PROVE [Step]_ringVars
  <2>1. CASE UNCHANGED ringVars BY <2>1, Zenon
  <2>2. CASE RingNext BY <1>1, <2>2, AddNodeMoves, RemoveNodeMoves, Zenon DEF RingNext
  <2> QED BY <1>1, <2>1, <2>2, Zenon
<1> QED BY <1>1, RingInvariant, PTL DEF RingSpec, OnlyNecessaryMoves

-----------------------------------------------------------------------------
\* The replicas of a key

LEMMA MembersFiniteInvariant == RingSpec => []IsFiniteSet(members)
<1>1. RingInit => IsFiniteSet(members) BY FS_EmptySet, Zenon DEF RingInit
<1>2. ASSUME IsFiniteSet(members), [RingNext]_ringVars PROVE IsFiniteSet(members)'
  <2>1. members' = members \/ \E n \in Nodes : members' = members \cup {n} \/ members' = members \ {n}
    BY <1>2, Zenon DEF RingNext, AddNode, RemoveNode, ringVars
  <2>2. ASSUME NEW n PROVE IsFiniteSet(members \cup {n}) /\ IsFiniteSet(members \ {n})
    <3>1. members \ {n} \subseteq members BY Zenon
    <3> QED BY <1>2, <3>1, FS_AddElement, FS_Subset, Zenon
  <2> QED BY <1>2, <2>1, <2>2, Zenon
<1>3. IsFiniteSet(members) /\ [RingNext]_ringVars => IsFiniteSet(members)' BY <1>2, Zenon
<1> QED BY <1>1, <1>3, PTL DEF RingSpec

\* The distance of h from s clockwise, on a ring of size N.
LEMMA Clockwise ==
  ASSUME NEW N \in Nat \ {0}, NEW s \in 0 .. N - 1, NEW h \in 0 .. N - 1
  PROVE  /\ (h + N - s) % N = IF h >= s THEN h - s ELSE h + N - s
         /\ (h + N - s) % N \in 0 .. N - 1
OBVIOUS

\* The walk of GetNodes starts at distance 0 and meets one hash at a time.
LEMMA DistanceFacts ==
  ASSUME Slice(copies) # {}, NEW k \in Keys
  PROVE  LET s == Successor(copies, KeyHash[k]) IN
         /\ s \in Slice(copies) /\ Distance(copies, k, s) = 0
         /\ \A h \in Slice(copies) : Distance(copies, k, h) \in 0 .. NumHashes - 1
         /\ \A g, h \in Slice(copies) :
              Distance(copies, k, g) = Distance(copies, k, h) => g = h
<1>1. PICK s : s = Successor(copies, KeyHash[k]) BY Zenon
<1>2. s \in Slice(copies) BY <1>1, SuccessorIsLeast, BaseType, Zenon DEF Least
<1>3. PICK N \in Nat \ {0} : N = NumHashes BY RingSizeAssumption, Zenon
<1>4. \A h \in Slice(copies) : h \in 0 .. N - 1 BY <1>3, Zenon DEF Slice, Hashes
<1>5. \A h : Distance(copies, k, h) = (h + N - s) % N BY <1>1, <1>3, Zenon DEF Distance
<1>6. s \in 0 .. N - 1 BY <1>2, <1>4, Zenon
<1>7. \A h \in 0 .. N - 1 :
        /\ (h + N - s) % N = IF h >= s THEN h - s ELSE h + N - s
        /\ (h + N - s) % N \in 0 .. N - 1
  BY <1>6, Clockwise, Zenon
<1>8. \A h \in Slice(copies) :
        Distance(copies, k, h) = (IF h >= s THEN h - s ELSE h + N - s)
  BY <1>4, <1>5, <1>7, Zenon
<1>9. \A h \in Slice(copies) : Distance(copies, k, h) \in 0 .. N - 1
  BY <1>4, <1>5, <1>7, Zenon
<1>10. Distance(copies, k, s) = 0 BY <1>2, <1>6, <1>8
<1>11. ASSUME NEW g \in Slice(copies), NEW h \in Slice(copies),
              Distance(copies, k, g) = Distance(copies, k, h)
       PROVE  g = h
  <2>1. g \in 0 .. N - 1 /\ h \in 0 .. N - 1 BY <1>4, Zenon
  <2>2. (IF g >= s THEN g - s ELSE g + N - s) = (IF h >= s THEN h - s ELSE h + N - s)
    BY <1>8, <1>11
  <2> QED BY <1>6, <2>1, <2>2
<1> QED BY <1>1, <1>2, <1>3, <1>9, <1>10, <1>11, Zenon

\* Of the hashes in S, one is met first and one last.
LEMMA FirstAndLast ==
  ASSUME NEW k \in Keys, NEW S \in SUBSET Slice(copies), S # {}
  PROVE  /\ \E h \in S : \A g \in S : Distance(copies, k, h) <= Distance(copies, k, g)
         /\ \E h \in S : \A g \in S : Distance(copies, k, g) <= Distance(copies, k, h)
<1>1. Slice(copies) # {} BY Zenon
<1>2. PICK N \in Nat \ {0} : N = NumHashes BY RingSizeAssumption, Zenon
<1>3. \A h \in S : Distance(copies, k, h) \in 0 .. N - 1 BY <1>1, <1>2, DistanceFacts, Zenon
<1> DEFINE D(h) == Distance(copies, k, h)
<1> HIDE DEF D
<1>4. \A h \in S : D(h) \in Nat /\ N - D(h) \in Nat BY <1>3 DEF D
<1>5. \E h \in S : \A g \in S : D(h) <= D(g)
  <2> DEFINE T == {D(h) : h \in S}
  <2>1. T \in SUBSET Nat /\ T # {} BY <1>4, Zenon
  <2>2. PICK t \in T : Least(T, t) BY <2>1, LeastExists, Zenon
  <2>3. PICK h \in S : t = D(h) BY <2>2, Zenon
  <2>4. \A g \in S : D(g) \in T BY Zenon
  <2> QED BY <2>2, <2>3, <2>4, Zenon DEF Least
<1>6. \E h \in S : \A g \in S : D(g) <= D(h)
  <2> DEFINE T == {N - D(h) : h \in S}
  <2>1. T \in SUBSET Nat /\ T # {} BY <1>4, Zenon
  <2>2. PICK t \in T : Least(T, t) BY <2>1, LeastExists, Zenon
  <2>3. PICK h \in S : t = N - D(h) BY <2>2, Zenon
  <2>4. \A g \in S : N - D(g) \in T BY Zenon
  <2>5. ASSUME NEW g \in S PROVE D(g) <= D(h)
    <3>1. N - D(h) <= N - D(g) BY <2>2, <2>3, <2>4, Zenon DEF Least
    <3> QED BY <1>4, <3>1
  <2> QED BY <2>5, Zenon
<1> QED BY <1>5, <1>6, Zenon DEF D

\* The points of the slice belong to members, and every member has one.
LEMMA SliceBelongs ==
  ASSUME RingInv
  PROVE  /\ \A h \in Slice(copies) : hashMap[h] \in members
         /\ \A p \in members : \E h \in Slice(copies) : hashMap[h] = p
<1>1. \A p \in members : \A h \in Points(p) : hashMap[h] = p
  BY Zenon DEF RingInv, RingMatchesMembers
<1>2. \A p \in members : Points(p) # {} BY PointsType, Zenon DEF RingInv, RingType
<1> QED BY <1>1, <1>2, SliceIsPoints

LEMMA ReplicasOfKey ==
  ASSUME RingInv, IsFiniteSet(members), members # {}, NEW k \in Keys,
         NEW want \in Nat \ {0}, want <= Cardinality(members),
         NEW got,
         got = {hashMap[h] : h \in {g \in Slice(copies) :
                  Cardinality(Met(copies, hashMap, k, g)) <= want}}
  PROVE  got \subseteq members /\ Cardinality(got) = want /\ Owner(k) \in got
<1> DEFINE S == Slice(copies)
           D(h) == Distance(copies, k, h)
           M(h) == Met(copies, hashMap, k, h)
           G == {g \in S : Cardinality(M(g)) <= want}
<1>1. S # {} BY SliceIsPoints, Zenon
<1>2. PICK s : s = Successor(copies, KeyHash[k]) BY Zenon
<1>3. /\ s \in S /\ D(s) = 0
      /\ \A h \in S : D(h) \in Nat
      /\ \A g, h \in S : D(g) = D(h) => g = h
  BY <1>1, <1>2, DistanceFacts
<1>4. /\ \A h \in S : hashMap[h] \in members
      /\ \A p \in members : \E h \in S : hashMap[h] = p
  BY SliceBelongs, Zenon
<1>5. \A h, p : p \in M(h) <=> \E f \in S : D(f) <= D(h) /\ p = hashMap[f]
  BY Zenon DEF Met
<1>6. got = {hashMap[h] : h \in G} BY Zenon
<1>7. \A T \in SUBSET S : T # {} =>
        /\ \E h \in T : \A g \in T : D(h) <= D(g)
        /\ \E h \in T : \A g \in T : D(g) <= D(h)
  BY FirstAndLast, Zenon
<1>8. Owner(k) = hashMap[s] BY <1>1, <1>2, Zenon DEF Owner, GetNode
<1> HIDE DEF S, D, M
<1>9. \A h \in S : M(h) \subseteq members BY <1>4, <1>5
<1>10. \A h \in S : IsFiniteSet(M(h)) /\ Cardinality(M(h)) \in Nat
  BY <1>9, FS_Subset, FS_CardinalityType, Zenon
<1>11. M(s) = {hashMap[s]}
  <2>1. ASSUME NEW f \in S, D(f) <= D(s) PROVE f = s
    <3>1. D(f) = D(s) BY <1>3, <2>1
    <3> QED BY <1>3, <3>1, Zenon
  <2>2. D(s) <= D(s) BY <1>3
  <2> QED BY <1>3, <1>5, <2>1, <2>2, Zenon
<1>12. s \in G
  <2>1. Cardinality(M(s)) = 1 BY <1>11, FS_Singleton, Zenon
  <2> QED BY <1>3, <2>1
<1>13. got \subseteq members /\ Owner(k) \in got BY <1>4, <1>6, <1>8, <1>12, Zenon
<1>14. PICK last \in G : \A g \in G : D(g) <= D(last)
  <2>1. G \in SUBSET S /\ G # {} BY <1>12, Zenon
  <2> QED BY <1>7, <2>1, Zenon
<1>15. \A f \in S : D(f) <= D(last) => f \in G
  <2>1. TAKE f \in S
  <2>2. HAVE D(f) <= D(last)
  <2>3. M(f) \subseteq M(last) BY <1>3, <1>5, <1>14, <2>2
  <2>4. Cardinality(M(f)) <= Cardinality(M(last)) BY <1>10, <1>14, <2>3, FS_Subset, Zenon
  <2> QED BY <1>10, <1>14, <2>4
<1>16. got = M(last)
  BY <1>5, <1>6, <1>14, <1>15
<1>17. IsFiniteSet(got) /\ Cardinality(got) \in Nat /\ Cardinality(got) <= want
  BY <1>10, <1>14, <1>16, Zenon
<1>18. ASSUME Cardinality(got) < want PROVE FALSE
  <2>1. got # members
    <3>1. Cardinality(members) \in Nat BY FS_CardinalityType, Zenon
    <3> QED BY <1>17, <1>18, <3>1
  <2>2. PICK p \in members : p \notin got BY <1>13, <2>1, Zenon
  <2>3. PICK f0 \in S : hashMap[f0] = p BY <1>4, Zenon
  <2> DEFINE U == {f \in S : f \notin G}
  <2>4. f0 \in U BY <1>6, <2>2, <2>3, Zenon
  <2>5. PICK f \in U : \A g \in U : D(f) <= D(g)
    <3>1. U \in SUBSET S /\ U # {} BY <2>4, Zenon
    <3> QED BY <1>7, <3>1, Zenon
  <2>6. M(f) \subseteq got \cup {hashMap[f]}
    <3>1. ASSUME NEW g \in S, D(g) <= D(f) PROVE g \in G \/ g = f
      <4>1. CASE g \in U
        <5>1. D(f) <= D(g) BY <2>5, <4>1, Zenon
        <5>2. D(f) = D(g) BY <1>3, <2>5, <3>1, <5>1
        <5> QED BY <1>3, <2>5, <5>2, Zenon
      <4> QED BY <4>1, Zenon
    <3> QED BY <1>5, <1>6, <2>5, <3>1
  <2>7. /\ IsFiniteSet(got \cup {hashMap[f]})
        /\ Cardinality(got \cup {hashMap[f]}) <= Cardinality(got) + 1
        /\ Cardinality(got \cup {hashMap[f]}) \in Nat
    <3>1. PICK x : x = hashMap[f] BY Zenon
    <3>2. /\ IsFiniteSet(got \cup {x})
          /\ Cardinality(got \cup {x}) = IF x \in got THEN Cardinality(got) ELSE Cardinality(got) + 1
      BY <1>17, FS_AddElement, Zenon
    <3>3. Cardinality(got \cup {x}) <= Cardinality(got) + 1 /\ Cardinality(got \cup {x}) \in Nat
      BY <1>17, <3>2
    <3> QED BY <3>1, <3>2, <3>3, Zenon
  <2>8. Cardinality(M(f)) <= Cardinality(got \cup {hashMap[f]})
    BY <2>6, <2>7, FS_Subset, Zenon
  <2>9. f \in G BY <1>10, <1>17, <1>18, <2>5, <2>7, <2>8
  <2> QED BY <2>5, <2>9, Zenon
<1> QED BY <1>13, <1>17, <1>18

\* GetNodes returns min(n, members) distinct members, the owner among them.
THEOREM ReplicasCorrect == ASSUME NoCollisions PROVE RingSpec => []ReplicasDistinct
<1>1. ASSUME RingInv, IsFiniteSet(members) PROVE ReplicasDistinct
  <2>1. SUFFICES ASSUME NEW k \in Keys, NEW n \in 1 .. Cardinality(Nodes)
                 PROVE LET got == GetNodes(copies, hashMap, k, n) IN
                       /\ got \subseteq members
                       /\ Cardinality(got) = IF n > Cardinality(members) THEN Cardinality(members) ELSE n
                       /\ members # {} => Owner(k) \in got
    BY Zenon DEF ReplicasDistinct
  <2>2. n \in Nat \ {0} OBVIOUS
  <2>3. PICK want : want = IF n > Cardinality(members) THEN Cardinality(members) ELSE n
    BY Zenon
  <2>4. PICK got : got = GetNodes(copies, hashMap, k, n) BY Zenon
  <2>5. got = {hashMap[h] : h \in {g \in Slice(copies) :
                 Cardinality(Met(copies, hashMap, k, g)) <= want}}
    BY <2>3, <2>4, Zenon DEF GetNodes
  <2>6. Cardinality(members) \in Nat BY <1>1, FS_CardinalityType, Zenon
  <2>7. CASE members = {}
    <3>1. Slice(copies) = {} BY <1>1, <2>7, SliceIsPoints, Zenon
    <3>2. got = {} BY <2>5, <3>1, Zenon
    <3>3. Cardinality({}) = 0 BY FS_EmptySet, Zenon
    <3>4. want = 0 BY <2>2, <2>3, <2>7, <3>3
    <3>5. got \subseteq members /\ Cardinality(got) = want BY <2>7, <3>2, <3>3, <3>4, Zenon
    <3> QED BY <2>3, <2>4, <2>7, <3>5, Zenon
  <2>8. CASE members # {}
    <3>1. Cardinality(members) # 0 BY <1>1, <2>8, FS_EmptySet, Zenon
    <3>2. want \in Nat \ {0} /\ want <= Cardinality(members) BY <2>2, <2>3, <2>6, <3>1
    <3>3. got \subseteq members /\ Cardinality(got) = want /\ Owner(k) \in got
      BY <1>1, <2>5, <2>8, <3>2, ReplicasOfKey, Zenon
    <3> QED BY <2>3, <2>4, <3>3, Zenon
  <2> QED BY <2>7, <2>8, Zenon
<1>2. RingInv /\ IsFiniteSet(members) => ReplicasDistinct BY <1>1, Zenon
<1> QED BY <1>2, RingInvariant, MembersFiniteInvariant, PTL

-----------------------------------------------------------------------------
\* The lock engine

\* A handle's token names the handle.
TokensNumbered == \A n \in DOMAIN handles : handles[n].token = Token(n)

\* The entry of k, if there is one, stands for the newest handle of k.
EntryIsNewest ==
  \A k \in LockKeys : locks[k] # NoLock =>
    \E n \in DOMAIN handles :
      /\ locks[k].token = Token(n)
      /\ handles[n].key = k
      /\ ~handles[n].released
      /\ handles[n].deadline = locks[k].expiresAt
      /\ \A m \in DOMAIN handles : handles[m].key = k => m <= n

\* A lease in force has its entry in the engine.
LeaseHasEntry ==
  \A n \in DOMAIN handles : InForce(n) => Owns(handles[n].key, Token(n))

Inv == TypeOK /\ TokensNumbered /\ EntryIsNewest /\ LeaseHasEntry

\* Two tokens are equal only if their numbers are.
LEMMA TokenInjective ==
  ASSUME NEW m \in Nat, NEW n \in Nat, Token(m) = Token(n)
  PROVE  m = n
  BY Zenon DEF Token

LEMMA TokenType ==
  ASSUME NEW n \in Nat
  PROVE  Token(n) \in Tokens
  BY Zenon DEF Token, Tokens

\* The parts of the invariant that the steps below need, in plain form.
LEMMA Facts ==
  ASSUME Inv
  PROVE  /\ \A k \in LockKeys : locks[k] \in LockEntry \cup {NoLock}
         /\ DOMAIN handles = 1 .. Len(handles)
         /\ \A n \in DOMAIN handles : handles[n] \in Handle /\ n \in Nat
         /\ Len(handles) = fencingSeq /\ fencingSeq \in Nat /\ now \in Nat
  BY DEF Inv, TypeOK

LEMMA InitInv == Init => Inv
  BY NoLockAssumption
  DEF Init, Inv, TypeOK, TokensNumbered, EntryIsNewest, LeaseHasEntry, Call, Handle

\* Steps that leave the entries, the handles and the clock alone.
LEMMA QuietStep ==
  ASSUME Inv, TypeOK', UNCHANGED <<locks, handles, now>>
  PROVE  Inv'
  BY Zenon DEF Inv, TokensNumbered, EntryIsNewest, LeaseHasEntry, InForce, Owns

LEMMA LockCallStep ==
  ASSUME Inv, NEW c \in Callers, NEW k \in LockKeys, NEW ttl \in LeaseTTLs,
         NEW r \in RetryCounts, LockCall(c, k, ttl, r)
  PROVE  Inv'
<1>1. call' \in [Callers -> Call]
  BY LockArgumentsAssumption DEF LockCall, Inv, TypeOK, Call
<1>2. TypeOK'
  BY <1>1, Zenon DEF LockCall, Inv, TypeOK, engineVars
<1> QED  BY <1>2, QuietStep, Zenon DEF LockCall, engineVars

\* Acquire: the new handle is the newest of its key, and the key was free.
LEMMA AcquireStep ==
  ASSUME Inv, NEW k \in LockKeys, NEW ttl \in Int, Acquire(k, ttl),
         call' \in [Callers -> Call], UNCHANGED <<cleaning, now>>
  PROVE  Inv'
<1> DEFINE N == fencingSeq + 1
           h == [key |-> k, token |-> Token(N), deadline |-> now + ttl,
                 released |-> FALSE]
           e == [token |-> Token(N), fencingToken |-> N, expiresAt |-> now + ttl]
<1>1. /\ \A j \in LockKeys : locks[j] \in LockEntry \cup {NoLock}
      /\ DOMAIN handles = 1 .. Len(handles)
      /\ \A n \in DOMAIN handles : handles[n] \in Handle /\ n \in Nat
      /\ Len(handles) = fencingSeq /\ fencingSeq \in Nat /\ now \in Nat
      /\ handles \in Seq(Handle)
      /\ locks \in [LockKeys -> LockEntry \cup {NoLock}]
  BY Facts, Zenon DEF Inv, TypeOK
<1>2. Token(N) \in Tokens /\ N \in Nat
  BY <1>1, TokenType
<1>3. h \in Handle /\ e \in LockEntry
  BY <1>1, <1>2 DEF Handle, LockEntry
<1>4. /\ ~IsHeld(k)
      /\ fencingSeq' = N
      /\ locks' = [locks EXCEPT ![k] = e]
      /\ handles' = Append(handles, h)
  BY Zenon DEF Acquire
<1>h. /\ h.key = k /\ h.token = Token(N) /\ h.deadline = now + ttl /\ ~h.released
      /\ e.token = Token(N) /\ e.expiresAt = now + ttl
  BY Zenon
<1> HIDE DEF h, e
<1>5. /\ handles' \in Seq(Handle) /\ Len(handles') = N
      /\ DOMAIN handles' = DOMAIN handles \cup {N}
      /\ handles'[N] = h
      /\ \A n \in DOMAIN handles : handles'[n] = handles[n] /\ n < N
      /\ N \notin DOMAIN handles
  BY <1>1, <1>3, <1>4
<1>6. /\ locks'[k] = e /\ locks' \in [LockKeys -> LockEntry \cup {NoLock}]
      /\ \A j \in LockKeys \ {k} : locks'[j] = locks[j]
  BY <1>1, <1>3, <1>4, Zenon
<1>7. TypeOK'
  BY <1>1, <1>2, <1>4, <1>5, <1>6, Zenon DEF Inv, TypeOK
<1>8. TokensNumbered'
  BY <1>5, <1>h, Zenon DEF Inv, TokensNumbered
<1>9. EntryIsNewest'
  <2> SUFFICES ASSUME NEW j \in LockKeys, locks'[j] # NoLock
               PROVE  \E n \in DOMAIN handles' :
                        /\ locks'[j].token = Token(n)
                        /\ handles'[n].key = j
                        /\ ~handles'[n].released
                        /\ handles'[n].deadline = locks'[j].expiresAt
                        /\ \A m \in DOMAIN handles' : handles'[m].key = j => m <= n
    BY Zenon DEF EntryIsNewest
  <2>1. CASE j = k
    <3>1. \A m \in DOMAIN handles' : m <= N
      BY <1>1, <1>2, <1>5
    <3> QED  BY <2>1, <3>1, <1>5, <1>6, <1>h, Zenon
  <2>2. CASE j # k
    <3>1. PICK n \in DOMAIN handles :
                 /\ locks[j].token = Token(n)
                 /\ handles[n].key = j
                 /\ ~handles[n].released
                 /\ handles[n].deadline = locks[j].expiresAt
                 /\ \A m \in DOMAIN handles : handles[m].key = j => m <= n
      BY <1>6, <2>2 DEF Inv, EntryIsNewest
    <3>2. \A m \in DOMAIN handles' : handles'[m].key = j => m \in DOMAIN handles
      BY <1>5, <1>h, <2>2, Zenon
    <3> QED  BY <1>5, <1>6, <2>2, <3>1, <3>2, Zenon
  <2> QED  BY <2>1, <2>2, Zenon
<1>10. LeaseHasEntry'
  <2> SUFFICES ASSUME NEW n \in DOMAIN handles', InForce(n)'
               PROVE  Owns(handles[n].key, Token(n))'
    BY Zenon DEF LeaseHasEntry
  <2>1. CASE n = N
    BY <2>1, <1>3, <1>5, <1>6, <1>h, NoLockAssumption, Zenon DEF Owns
  <2>2. CASE n # N
    <3>1. n \in DOMAIN handles /\ handles'[n] = handles[n]
      BY <1>5, <2>2, Zenon
    <3>2. InForce(n)
      BY <3>1, Zenon DEF InForce
    <3>3. Owns(handles[n].key, Token(n))
      BY <3>1, <3>2, Zenon DEF Inv, LeaseHasEntry
    <3>4. handles[n].key # k
      <4> SUFFICES ASSUME handles[n].key = k PROVE FALSE
        BY Zenon
      <4>1. locks[k] # NoLock /\ locks[k].token = Token(n)
        BY <3>3, Zenon DEF Owns
      <4>2. PICK m \in DOMAIN handles :
                   locks[k].token = Token(m) /\ handles[m].deadline = locks[k].expiresAt
        BY <4>1, Zenon DEF Inv, EntryIsNewest
      <4>3. m = n
        BY <1>1, <3>1, <4>1, <4>2, TokenInjective, Zenon
      <4>4. now <= locks[k].expiresAt
        BY <3>2, <4>2, <4>3, Zenon DEF InForce
      <4>5. locks[k].expiresAt \in Int
        BY <1>1, <4>1, Zenon DEF LockEntry
      <4> QED  BY <1>1, <1>4, <4>1, <4>4, <4>5 DEF IsHeld, IsExpired
    <3>5. handles[n].key \in LockKeys
      BY <1>1, <3>1, Zenon DEF Handle
    <3> QED  BY <1>6, <3>1, <3>3, <3>4, <3>5, Zenon DEF Owns
  <2> QED  BY <2>1, <2>2, Zenon
<1> QED  BY <1>7, <1>8, <1>9, <1>10, Zenon DEF Inv

LEMMA AttemptStep ==
  ASSUME Inv, NEW c \in Callers, Attempt(c)
  PROVE  Inv'
<1>1. call \in [Callers -> Call] /\ call[c].pc = "attempt"
  BY Zenon DEF Attempt, Inv, TypeOK
<1>2. /\ call[c] \in [pc : {"attempt"}, key : LockKeys, ttl : LeaseTTLs, left : Nat]
      /\ Returned \in Call
  BY <1>1 DEF Call, Returned
<1>3. call[c].key \in LockKeys /\ call[c].ttl \in Int /\ call[c].left \in Nat
  BY <1>2, LockArgumentsAssumption, Zenon
<1>4. CASE Acquire(call[c].key, call[c].ttl) /\ call' = [call EXCEPT ![c] = Returned]
  <2>1. call' \in [Callers -> Call]
    BY <1>1, <1>2, <1>4, Zenon
  <2> QED  BY <1>3, <1>4, <2>1, AcquireStep, Zenon DEF Attempt
<1>5. CASE /\ call' = [call EXCEPT ![c] = IF call[c].left > 0
                                         THEN [call[c] EXCEPT !.left = @ - 1]
                                         ELSE Returned]
           /\ UNCHANGED <<locks, fencingSeq, handles>>
  <2> DEFINE d == IF call[c].left > 0 THEN [call[c] EXCEPT !.left = @ - 1] ELSE Returned
  <2>1. d \in Call
    BY <1>2, <1>3 DEF Call
  <2>2. call' = [call EXCEPT ![c] = d]
    BY <1>5, Zenon
  <2> HIDE DEF d
  <2>3. call' \in [Callers -> Call]
    BY <1>1, <2>1, <2>2, Zenon
  <2>4. TypeOK'
    BY <1>5, <2>3, Zenon DEF Attempt, Inv, TypeOK
  <2> QED  BY <1>5, <2>4, QuietStep, Zenon DEF Attempt
<1> QED  BY <1>4, <1>5, Zenon DEF Attempt

\* The handle whose token the entry of k carries is the newest one of k.
LEMMA OwnerIsNewest ==
  ASSUME Inv, NEW n \in DOMAIN handles, Owns(handles[n].key, handles[n].token)
  PROVE  /\ ~handles[n].released
         /\ handles[n].deadline = locks[handles[n].key].expiresAt
         /\ \A m \in DOMAIN handles : handles[m].key = handles[n].key => m <= n
         /\ \A j \in LockKeys : Owns(j, Token(n)) => j = handles[n].key
<1> DEFINE k == handles[n].key
<1>1. /\ k \in LockKeys /\ n \in Nat
      /\ \A m \in DOMAIN handles : m \in Nat
      /\ handles[n].token = Token(n)
  BY Facts, Zenon DEF Inv, TokensNumbered, Handle
<1>2. \A j \in LockKeys : Owns(j, Token(n)) =>
        /\ handles[n].key = j
        /\ ~handles[n].released
        /\ handles[n].deadline = locks[j].expiresAt
        /\ \A m \in DOMAIN handles : handles[m].key = j => m <= n
  <2> SUFFICES ASSUME NEW j \in LockKeys, Owns(j, Token(n))
               PROVE  /\ handles[n].key = j
                      /\ ~handles[n].released
                      /\ handles[n].deadline = locks[j].expiresAt
                      /\ \A m \in DOMAIN handles : handles[m].key = j => m <= n
    BY Zenon
  <2>1. PICK i \in DOMAIN handles :
               /\ locks[j].token = Token(i)
               /\ handles[i].key = j
               /\ ~handles[i].released
               /\ handles[i].deadline = locks[j].expiresAt
               /\ \A m \in DOMAIN handles : handles[m].key = j => m <= i
    BY Zenon DEF Owns, Inv, EntryIsNewest
  <2>2. i = n
    BY <1>1, <2>1, TokenInjective, Zenon DEF Owns
  <2> QED  BY <2>1, <2>2, Zenon
<1> QED  BY <1>1, <1>2, Zenon

\* Steps that change handle n and the entry of its key, which is n's own:
\* the entry goes and n is released, or both get a new deadline.
LEMMA OwnerStep ==
  ASSUME Inv, NEW n \in DOMAIN handles, Owns(handles[n].key, handles[n].token),
         NEW h \in Handle, NEW e \in LockEntry \cup {NoLock},
         h.key = handles[n].key, h.token = handles[n].token,
         \/ e = NoLock /\ h.released
         \/ /\ e # NoLock /\ e.token = h.token
            /\ ~h.released /\ h.deadline = e.expiresAt,
         handles' = [handles EXCEPT ![n] = h],
         locks' = [locks EXCEPT ![handles[n].key] = e],
         UNCHANGED <<fencingSeq, cleaning, call, now>>
  PROVE  Inv'
<1> DEFINE k == handles[n].key
<1>1. /\ k \in LockKeys
      /\ handles \in Seq(Handle)
      /\ locks \in [LockKeys -> LockEntry \cup {NoLock}]
      /\ \A m \in DOMAIN handles : handles[m].token = Token(m) /\ handles[m].key \in LockKeys
  BY Facts, Zenon DEF Inv, TokensNumbered, TypeOK, Handle
<1>2. /\ \A m \in DOMAIN handles : handles[m].key = k => m <= n
      /\ \A j \in LockKeys : Owns(j, Token(n)) => j = k
  BY OwnerIsNewest, Zenon
<1>3. /\ handles' \in Seq(Handle) /\ Len(handles') = Len(handles)
      /\ DOMAIN handles' = DOMAIN handles
      /\ handles'[n] = h
      /\ \A m \in DOMAIN handles \ {n} : handles'[m] = handles[m]
  BY <1>1
<1>4. /\ locks' \in [LockKeys -> LockEntry \cup {NoLock}]
      /\ locks'[k] = e
      /\ \A j \in LockKeys \ {k} : locks'[j] = locks[j]
  BY <1>1, Zenon
<1>5. \A m \in DOMAIN handles : handles'[m].key = handles[m].key
  BY <1>3, Zenon
<1>6. TypeOK'
  BY <1>3, <1>4, Zenon DEF Inv, TypeOK
<1>7. TokensNumbered'
  BY <1>1, <1>3 DEF TokensNumbered
<1>8. EntryIsNewest'
  <2> SUFFICES ASSUME NEW j \in LockKeys, locks'[j] # NoLock
               PROVE  \E i \in DOMAIN handles' :
                        /\ locks'[j].token = Token(i)
                        /\ handles'[i].key = j
                        /\ ~handles'[i].released
                        /\ handles'[i].deadline = locks'[j].expiresAt
                        /\ \A m \in DOMAIN handles' : handles'[m].key = j => m <= i
    BY Zenon DEF EntryIsNewest
  <2>1. CASE j = k
    <3>1. /\ e # NoLock /\ e.token = Token(n)
          /\ ~h.released /\ h.deadline = e.expiresAt
      BY <1>1, <1>4, <2>1, Zenon
    <3> QED  BY <1>2, <1>3, <1>4, <1>5, <2>1, <3>1, Zenon
  <2>2. CASE j # k
    <3>1. PICK i \in DOMAIN handles :
                 /\ locks[j].token = Token(i)
                 /\ handles[i].key = j
                 /\ ~handles[i].released
                 /\ handles[i].deadline = locks[j].expiresAt
                 /\ \A m \in DOMAIN handles : handles[m].key = j => m <= i
      BY <1>4, <2>2 DEF Inv, EntryIsNewest
    <3>2. i # n
      BY <2>2, <3>1, Zenon
    <3> QED  BY <1>3, <1>4, <1>5, <2>2, <3>1, <3>2, ZenonT(30)
  <2> QED  BY <2>1, <2>2, Zenon
<1>9. LeaseHasEntry'
  <2> SUFFICES ASSUME NEW m \in DOMAIN handles', InForce(m)'
               PROVE  Owns(handles[m].key, Token(m))'
    BY Zenon DEF LeaseHasEntry
  <2>1. CASE m = n
    <3>1. ~h.released
      BY <1>3, <2>1, Zenon DEF InForce
    <3> QED  BY <1>1, <1>3, <1>4, <2>1, <3>1, Zenon DEF Owns
  <2>2. CASE m # n
    <3>1. m \in DOMAIN handles /\ handles'[m] = handles[m]
      BY <1>3, <2>2, Zenon
    <3>2. Owns(handles[m].key, Token(m))
      BY <3>1, Zenon DEF InForce, Inv, LeaseHasEntry
    <3>3. handles[m].key # k
      <4>1. locks[k].token = Token(n)
        BY <1>1, Zenon DEF Owns
      <4>2. m \in Nat /\ n \in Nat
        BY <3>1, Facts, Zenon
      <4> QED  BY <2>2, <3>2, <4>1, <4>2, TokenInjective, Zenon DEF Owns
    <3> QED  BY <1>1, <1>4, <3>1, <3>2, <3>3, Zenon DEF Owns
  <2> QED  BY <2>1, <2>2, Zenon
<1> QED  BY <1>6, <1>7, <1>8, <1>9, Zenon DEF Inv

LEMMA ReleaseStep ==
  ASSUME Inv, NEW n \in DOMAIN handles, Release(n)
  PROVE  Inv'
<1> DEFINE h == [handles[n] EXCEPT !.released = TRUE]
<1>1. handles[n] \in Handle
  BY Facts, Zenon
<1>2. /\ h \in Handle /\ h.released
      /\ h.key = handles[n].key /\ h.token = handles[n].token
  BY <1>1, Zenon DEF Handle
<1>3. /\ Owns(handles[n].key, handles[n].token)
      /\ locks' = [locks EXCEPT ![handles[n].key] = NoLock]
      /\ handles' = [handles EXCEPT ![n] = h]
      /\ UNCHANGED <<fencingSeq, cleaning, call, now>>
  BY Zenon DEF Release
<1> HIDE DEF h
<1> QED  BY <1>2, <1>3, OwnerStep, Zenon

LEMMA ExtendStep ==
  ASSUME Inv, NEW n \in DOMAIN handles, NEW ttl \in LeaseTTLs, Extend(n, ttl)
  PROVE  Inv'
<1> DEFINE k == handles[n].key
           h == [handles[n] EXCEPT !.deadline = now + ttl]
           e == [locks[k] EXCEPT !.expiresAt = now + ttl]
<1>1. /\ handles[n] \in Handle
      /\ \A j \in LockKeys : locks[j] \in LockEntry \cup {NoLock}
      /\ now + ttl \in Int
  BY Facts, LockArgumentsAssumption
<1>2. k \in LockKeys /\ locks[k] # NoLock /\ locks[k].token = handles[n].token
  BY <1>1, Zenon DEF Extend, Owns, Handle
<1>3. ~handles[n].released
  BY OwnerIsNewest, Zenon DEF Extend
<1>4. /\ h \in Handle /\ ~h.released /\ h.deadline = now + ttl
      /\ h.key = k /\ h.token = handles[n].token
  BY <1>1, <1>3, Zenon DEF Handle
<1>5. /\ e \in LockEntry /\ e.token = handles[n].token /\ e.expiresAt = now + ttl
  BY <1>1, <1>2, Zenon DEF LockEntry
<1>6. /\ Owns(k, handles[n].token)
      /\ locks' = [locks EXCEPT ![k] = e]
      /\ handles' = [handles EXCEPT ![n] = h]
      /\ UNCHANGED <<fencingSeq, cleaning, call, now>>
  BY Zenon DEF Extend
<1> HIDE DEF h, e
<1> QED  BY <1>4, <1>5, <1>6, NoLockAssumption, OwnerStep, Zenon

LEMMA CleanupStep ==
  ASSUME Inv, Cleanup
  PROVE  Inv'
<1>1. CASE CleanupStart
  <2>1. TypeOK'
    BY <1>1, Zenon DEF CleanupStart, Inv, TypeOK
  <2> QED  BY <1>1, <2>1, QuietStep, Zenon DEF CleanupStart
<1>2. ASSUME NEW k \in LockKeys, CleanupVisit(k)
      PROVE  Inv'
  <2>1. /\ locks \in [LockKeys -> LockEntry \cup {NoLock}]
        /\ now \in Nat
        /\ \A n \in DOMAIN handles : handles[n] \in Handle /\ n \in Nat
    BY Facts, Zenon DEF Inv, TypeOK
  <2>2. /\ locks' \in [LockKeys -> LockEntry \cup {NoLock}]
        /\ locks'[k] = IF IsExpired(locks[k]) THEN NoLock ELSE locks[k]
        /\ \A j \in LockKeys \ {k} : locks'[j] = locks[j]
        /\ cleaning' \subseteq LockKeys
        /\ UNCHANGED <<fencingSeq, call, handles, now>>
    BY <1>2, <2>1, Zenon DEF CleanupVisit, Inv, TypeOK
  <2>3. TypeOK'
    BY <2>2, Zenon DEF Inv, TypeOK
  <2>4. TokensNumbered' /\ EntryIsNewest'
    BY <2>2 DEF Inv, TokensNumbered, EntryIsNewest
  <2>5. ASSUME NEW n \in DOMAIN handles, InForce(n)
        PROVE  Owns(handles[n].key, Token(n))'
    <3>1. Owns(handles[n].key, Token(n)) /\ handles[n].token = Token(n)
      BY <2>5, Zenon DEF Inv, LeaseHasEntry, TokensNumbered
    <3>2. handles[n].deadline = locks[handles[n].key].expiresAt
      BY <3>1, OwnerIsNewest, Zenon
    <3>3. handles[n].key \in LockKeys /\ handles[n].deadline \in Int
      BY <2>1, Zenon DEF Handle
    <3>4. ~IsExpired(locks[handles[n].key])
      BY <2>1, <2>5, <3>2, <3>3 DEF IsExpired, InForce
    <3> QED  BY <2>2, <3>1, <3>3, <3>4, Zenon DEF Owns
  <2>6. LeaseHasEntry'
    BY <2>2, <2>5, Zenon DEF LeaseHasEntry, InForce
  <2> QED  BY <2>3, <2>4, <2>6, Zenon DEF Inv
<1> QED  BY <1>1, <1>2, Zenon DEF Cleanup

\* Time only ends leases.
LEMMA TickStep ==
  ASSUME Inv, Tick
  PROVE  Inv'
<1>1. TypeOK'
  BY DEF Tick, Inv, TypeOK, engineVars
<1>2. TokensNumbered' /\ EntryIsNewest'
  BY Zenon DEF Tick, Inv, TokensNumbered, EntryIsNewest, engineVars
<1>3. ASSUME NEW n \in DOMAIN handles, now + 1 <= handles[n].deadline
      PROVE  now <= handles[n].deadline
  <2>1. now \in Nat /\ handles[n].deadline \in Int
    BY Facts, Zenon DEF Handle
  <2> QED  BY <1>3, <2>1
<1>4. LeaseHasEntry'
  BY <1>3, Zenon DEF Tick, Inv, LeaseHasEntry, InForce, Owns, engineVars
<1> QED  BY <1>1, <1>2, <1>4, Zenon DEF Inv

LEMMA NextInv == Inv /\ [Next]_vars => Inv'
<1> SUFFICES ASSUME Inv, [Next]_vars PROVE Inv'
  BY Zenon
<1>1. CASE UNCHANGED vars
  <2>1. TypeOK'
    BY <1>1, Zenon DEF vars, Inv, TypeOK
  <2> QED  BY <1>1, <2>1, QuietStep, Zenon DEF vars
<1>2. CASE Tick
  BY <1>2, TickStep, Zenon
<1>3. CASE Cleanup
  BY <1>3, CleanupStep, Zenon
<1>4. ASSUME NEW c \in Callers, Attempt(c)
      PROVE  Inv'
  BY <1>4, AttemptStep, Zenon
<1>5. ASSUME NEW c \in Callers, NEW k \in LockKeys, NEW ttl \in LeaseTTLs,
             NEW r \in RetryCounts, LockCall(c, k, ttl, r)
      PROVE  Inv'
  BY <1>5, LockCallStep, Zenon
<1>6. ASSUME NEW n \in DOMAIN handles, Release(n)
      PROVE  Inv'
  BY <1>6, ReleaseStep, Zenon
<1>7. ASSUME NEW n \in DOMAIN handles, NEW ttl \in LeaseTTLs, Extend(n, ttl)
      PROVE  Inv'
  BY <1>7, ExtendStep, Zenon
<1> QED  BY <1>1, <1>2, <1>3, <1>4, <1>5, <1>6, <1>7, Zenon DEF Next

\* The inductive invariant holds in every reachable state.
THEOREM LockInvariance == Spec => []Inv
  BY InitInv, NextInv, PTL DEF Spec

\* Types, and the numbering of the handles by the fencing sequence.
THEOREM LockTypeCorrect == Spec => []TypeOK
<1>1. Inv => TypeOK
  BY Zenon DEF Inv
<1> QED  BY <1>1, LockInvariance, PTL

\* Fencing: the holder of a lock has the highest token ever issued for it.
THEOREM FencingCorrect == Spec => []HolderHasNewestToken
<1>1. Inv => HolderHasNewestToken
  <2> SUFFICES ASSUME Inv, NEW m \in DOMAIN handles, NEW n \in DOMAIN handles,
                      InForce(n), handles[m].key = handles[n].key
               PROVE  m <= n
    BY Zenon DEF HolderHasNewestToken
  <2>1. Owns(handles[n].key, handles[n].token)
    BY Zenon DEF Inv, LeaseHasEntry, TokensNumbered
  <2> QED  BY <2>1, OwnerIsNewest, Zenon
<1> QED  BY <1>1, LockInvariance, PTL

\* Mutual exclusion of the leases on one key.
THEOREM MutualExclusion == Spec => []OneHolder
<1>1. Inv /\ HolderHasNewestToken => OneHolder
  <2> SUFFICES ASSUME Inv, HolderHasNewestToken,
                      NEW m \in DOMAIN handles, NEW n \in DOMAIN handles,
                      InForce(m), InForce(n), handles[m].key = handles[n].key
               PROVE  m = n
    BY Zenon DEF OneHolder
  <2>1. m <= n /\ n <= m
    BY Zenon DEF HolderHasNewestToken
  <2>2. m \in Nat /\ n \in Nat
    BY Facts, Zenon
  <2> QED  BY <2>1, <2>2
<1> QED  BY <1>1, LockInvariance, FencingCorrect, PTL

\* IsHeld answers exactly whether a lease on the key is in force.
THEOREM IsHeldCorrect == Spec => []IsHeldExact
<1>1. Inv => IsHeldExact
  <2> SUFFICES ASSUME Inv, NEW k \in LockKeys
               PROVE  IsHeld(k) <=> \E n \in DOMAIN handles : handles[n].key = k /\ InForce(n)
    BY Zenon DEF IsHeldExact
  <2>0. /\ now \in Nat
        /\ locks[k] \in LockEntry \cup {NoLock}
        /\ \A n \in DOMAIN handles : handles[n].deadline \in Int
    BY Facts, Zenon DEF Handle
  <2>1. ASSUME IsHeld(k)
        PROVE  \E n \in DOMAIN handles : handles[n].key = k /\ InForce(n)
    <3>1. PICK n \in DOMAIN handles :
                 /\ handles[n].key = k
                 /\ ~handles[n].released
                 /\ handles[n].deadline = locks[k].expiresAt
      BY <2>1, Zenon DEF IsHeld, Inv, EntryIsNewest
    <3>2. now <= handles[n].deadline
      BY <2>0, <2>1, <3>1 DEF IsHeld, IsExpired
    <3> QED  BY <3>1, <3>2, Zenon DEF InForce
  <2>2. ASSUME NEW n \in DOMAIN handles, handles[n].key = k, InForce(n)
        PROVE  IsHeld(k)
    <3>1. Owns(k, handles[n].token)
      BY <2>2, Zenon DEF Inv, LeaseHasEntry, TokensNumbered
    <3>2. handles[n].deadline = locks[k].expiresAt
      BY <2>2, <3>1, OwnerIsNewest, Zenon
    <3> QED  BY <2>0, <2>2, <3>1, <3>2 DEF IsHeld, IsExpired, InForce, Owns
  <2> QED  BY <2>1, <2>2, Zenon
<1> QED  BY <1>1, LockInvariance, PTL
=============================================================================
