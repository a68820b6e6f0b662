------------------------------ MODULE HashRing ------------------------------
(***************************************************************************)
(* The consistent hash ring of src/internal/cluster/hashring.go.           *)
(*                                                                         *)
(* The sorted slice of hashes is a bag: AddNode sorts it and RemoveNode    *)
(* keeps its order, so the slice is determined by how often each hash is   *)
(* in it.  fnv32a is the constant functions KeyHash and NodeHash; nothing  *)
(* keeps two virtual nodes from having the same hash.                      *)
(***************************************************************************)
EXTENDS Naturals, FiniteSets

CONSTANTS
  Nodes,
  Keys,
  NumHashes,  \* hashes are 0 .. NumHashes - 1 (2^32 in the code)
  VNodes,     \* virtual nodes per node (150 in the code)
  KeyHash,    \* KeyHash[k]: hash of a key
  NodeHash,   \* NodeHash[n][i]: hash of the i-th virtual node of n
  NoNode      \* the empty string

Hashes == 0 .. NumHashes - 1

ASSUME RingSizeAssumption == NumHashes \in Nat \ {0} /\ VNodes \in Nat \ {0}
ASSUME KeyHashAssumption == KeyHash \in [Keys -> Hashes]
ASSUME NodeHashAssumption == NodeHash \in [Nodes -> [1 .. VNodes -> Hashes]]
ASSUME NoNodeAssumption == NoNode \notin Nodes

VARIABLES
  copies,   \* copies[h]: how often h is in sortedHashes
  hashMap,  \* hashMap[h]: the node of h, or NoNode
  members

ringVars == <<copies, hashMap, members>>

RingInit ==
  /\ copies = [h \in Hashes |-> 0]
  /\ hashMap = [h \in Hashes |-> NoNode]
  /\ members = {}

-----------------------------------------------------------------------------
\* Membership

\* The hashes of a node's virtual nodes, and how many of them are h.
Points(n) == {NodeHash[n][i] : i \in 1 .. VNodes}

Occurrences(n, h) == Cardinality({i \in 1 .. VNodes : NodeHash[n][i] = h})

\* Mutant: a node that is already a member is added once more.
AddNode_Again(n) ==
  /\ members' = members \cup {n}
  /\ copies' = [h \in Hashes |-> copies[h] + Occurrences(n, h)]
  /\ hashMap' = [h \in Hashes |-> IF h \in Points(n) THEN n ELSE hashMap[h]]

AddNode(n) ==
  /\ n \notin members
  /\ members' = members \cup {n}
  /\ copies' = [h \in Hashes |-> copies[h] + Occurrences(n, h)]
  /\ hashMap' = [h \in Hashes |-> IF h \in Points(n) THEN n ELSE hashMap[h]]

\* The loop deletes the map entry at the first copy of a hash and so takes
\* any further copy for another node's.
RemoveNode(n) ==
  LET mine == {h \in Hashes : copies[h] > 0 /\ hashMap[h] = n} IN
  /\ n \in members
  /\ members' = members \ {n}
  /\ copies' = [h \in Hashes |-> IF h \in mine THEN copies[h] - 1 ELSE copies[h]]
  /\ hashMap' = [h \in Hashes |-> IF h \in mine THEN NoNode ELSE hashMap[h]]

RingNext == \E n \in Nodes : AddNode(n) \/ RemoveNode(n)

RingSpec == RingInit /\ [][RingNext]_ringVars

-----------------------------------------------------------------------------
\* Lookups, in the ring given by a slice c and a map m

Slice(c) == {h \in Hashes : c[h] > 0}

\* Mutant: the index is the hash modulo the length of the slice.
Successor_Modulo(c, x) ==
  CHOOSE h \in Slice(c) :
    Cardinality({g \in Slice(c) : g < h}) = x % Cardinality(Slice(c))

\* sort.Search for the first hash that is not below x, and the wrap around.
Successor(c, x) ==
  LET above == {h \in Slice(c) : h >= x} IN
  CHOOSE h \in (IF above = {} THEN Slice(c) ELSE above) :
    \A g \in (IF above = {} THEN Slice(c) ELSE above) : h <= g

\* Mutant: the search does not wrap around.
GetNode_NoWrap(c, m, k) ==
  IF \A h \in Slice(c) : h < KeyHash[k] THEN NoNode ELSE m[Successor(c, KeyHash[k])]

GetNode(c, m, k) ==
  IF Slice(c) = {} THEN NoNode ELSE m[Successor(c, KeyHash[k])]

\* How far clockwise a hash is from where the walk for k starts.
Distance(c, k, h) == (h + NumHashes - Successor(c, KeyHash[k])) % NumHashes

\* The nodes met on the way round up to and including hash h.
Met(c, m, k, h) == {m[g] : g \in {f \in Slice(c) : Distance(c, k, f) <= Distance(c, k, h)}}

\* Mutant: n positions are taken instead of n nodes.
GetNodes_Positions(c, m, k, n) ==
  LET Place(h) == Cardinality({g \in Slice(c) : Distance(c, k, g) <= Distance(c, k, h)})
  IN  {m[h] : h \in {g \in Slice(c) : Place(g) <= n}}

\* The first n distinct nodes (or all there are) met going round, as a set.
GetNodes(c, m, k, n) ==
  LET want == IF n > Cardinality(members) THEN Cardinality(members) ELSE n
  IN  {m[h] : h \in {g \in Slice(c) : Cardinality(Met(c, m, k, g)) <= want}}

Owner(k) == GetNode(copies, hashMap, k)

-----------------------------------------------------------------------------
\* Properties

\* No two virtual nodes have the same hash.  The code neither ensures nor
\* tests it; without it a node that leaves takes another one's point along.
NoCollisions ==
  \A n, p \in Nodes : \A i, j \in 1 .. VNodes :
    NodeHash[n][i] = NodeHash[p][j] => n = p /\ i = j

\* The slice and the map describe the virtual nodes of the members and
\* nothing else, whatever nodes joined and left before (AddNode, RemoveNode).
\* So the ring depends on who its members are and not on the order in which
\* they joined, and two nodes that agree on the members agree on all owners.
RingMatchesMembers ==
  /\ \A h \in Hashes :
       copies[h] = IF \E n \in members : h \in Points(n) THEN 1 ELSE 0
  /\ \A n \in members : \A h \in Points(n) : hashMap[h] = n

\* GetNode "Returns "" if the ring is empty", and only then: a key has an
\* owner, and it is a member, as long as there is one.
OwnerIsMember ==
  \A k \in Keys : IF members = {} THEN Owner(k) = NoNode ELSE Owner(k) \in members

\* A node that joins takes keys over for itself and a node that leaves gives
\* only its own keys away; no other key changes owner.
OnlyNecessaryMoves ==
  [][\A k \in Keys :
       Owner(k)' # Owner(k) =>
         Owner(k)' \in members' \ members \/ Owner(k) \notin members']_ringVars

\* GetNodes returns as many members as were asked for and there are, each
\* once, and the owner is among them.
ReplicasDistinct ==
  \A k \in Keys, n \in 1 .. Cardinality(Nodes) :
    LET got == GetNodes(copies, hashMap, k, n) IN
    /\ got \subseteq members
    /\ Cardinality(got) = IF n > Cardinality(members) THEN Cardinality(members) ELSE n
    /\ members # {} => Owner(k) \in got
==============================================================================
