------------------------- MODULE MemoryStoreProofs -------------------------
EXTENDS MemoryStore, SequenceTheorems, FiniteSetTheorems, TLAPS

\* Every leaf is small; the provers get more than their default of 5 seconds
\* so that a slow machine does not matter.
USE SMTT(30), ZenonT(30)

\* l without its i-th element.
RemoveAt(l, i) == SubSeq(l, 1, i - 1) \o SubSeq(l, i + 1, Len(l))

\* RemoveAt shifts what follows position i and keeps what precedes it.
LEMMA RemoveAtProps ==
  ASSUME NEW S, NEW l \in Seq(S), NEW i \in 1 .. Len(l)
  PROVE  /\ RemoveAt(l, i) \in Seq(S)
         /\ Len(RemoveAt(l, i)) = Len(l) - 1
         /\ \A j \in 1 .. Len(l) - 1 :
              RemoveAt(l, i)[j] = IF j < i THEN l[j] ELSE l[j + 1]
<1> DEFINE a == SubSeq(l, 1, i - 1)
           b == SubSeq(l, i + 1, Len(l))
<1>1. /\ Len(l) \in Nat
      /\ \A j \in 1 .. Len(l) : l[j] \in S
  BY LenProperties, ElementOfSeq, Zenon
<1>2. /\ a \in Seq(S) /\ Len(a) = i - 1
      /\ \A j \in 1 .. i - 1 : a[j] = l[j]
  BY <1>1, SubSeqProperties
<1>3. /\ b \in Seq(S) /\ Len(b) = Len(l) - i
      /\ \A j \in 1 .. Len(l) - i : b[j] = l[i + j]
  BY <1>1, SubSeqProperties
<1> HIDE DEF a, b
<1>4. /\ a \o b \in Seq(S)
      /\ Len(a \o b) = Len(a) + Len(b)
      /\ \A j \in 1 .. Len(a) + Len(b) :
           (a \o b)[j] = IF j <= Len(a) THEN a[j] ELSE b[j - Len(a)]
  BY <1>2, <1>3, ConcatProperties, Zenon
<1>5. Len(a) + Len(b) = Len(l) - 1
  BY <1>1, <1>2, <1>3
<1>6. ASSUME NEW j \in 1 .. Len(l) - 1
      PROVE  (a \o b)[j] = IF j < i THEN l[j] ELSE l[j + 1]
  <2>1. CASE j < i
    <3>1. j <= Len(a) /\ a[j] = l[j]
      BY <1>1, <1>2, <2>1
    <3> QED  BY <1>4, <1>5, <2>1, <3>1, Zenon
  <2>2. CASE ~(j < i)
    <3>1. ~(j <= Len(a)) /\ j - Len(a) \in 1 .. Len(l) - i
      BY <1>1, <1>2, <2>2
    <3>2. b[j - Len(a)] = l[i + (j - Len(a))] /\ i + (j - Len(a)) = j + 1
      BY <1>1, <1>2, <1>3, <3>1
    <3> QED  BY <1>4, <1>5, <2>2, <3>1, <3>2, Zenon
  <2> QED  BY <2>1, <2>2, Zenon
<1> QED
  BY <1>4, <1>5, <1>6, Zenon DEF RemoveAt, a, b

\* Unlinking an element of a list without duplicates.
LEMMA UnlinkEnumerates ==
  ASSUME NEW l \in Seq(Keys), NEW S, Enumerates(l, S), NEW k \in S
  PROVE  /\ Unlink(l, k) \in Seq(Keys)
         /\ Len(l) \in Nat
         /\ Len(Unlink(l, k)) = Len(l) - 1
         /\ Enumerates(Unlink(l, k), S \ {k})
<1> DEFINE p == CHOOSE i \in DOMAIN l : l[i] = k
           u == Unlink(l, k)
<1>1. Len(l) \in Nat /\ DOMAIN l = 1 .. Len(l)
  BY LenProperties, Zenon
<1>2. p \in 1 .. Len(l) /\ l[p] = k
  BY <1>1, Zenon DEF Enumerates
<1>3. /\ u \in Seq(Keys)
      /\ Len(u) = Len(l) - 1
      /\ \A j \in 1 .. Len(l) - 1 : u[j] = IF j < p THEN l[j] ELSE l[j + 1]
  BY <1>2, RemoveAtProps, Zenon DEF Unlink, RemoveAt
<1> HIDE DEF p, u
<1>4. DOMAIN u = 1 .. Len(l) - 1
  BY <1>3, LenProperties, Zenon
<1>5. \A i \in DOMAIN u : u[i] \in S \ {k}
  BY <1>1, <1>2, <1>3, <1>4 DEF Enumerates
<1>6. ASSUME NEW x \in S \ {k} PROVE \E i \in DOMAIN u : u[i] = x
  <2>1. PICK i \in 1 .. Len(l) : l[i] = x
    BY <1>1, Zenon DEF Enumerates
  <2>2. CASE i < p
    BY <1>1, <1>2, <1>3, <1>4, <2>1, <2>2
  <2>3. CASE i > p
    <3>1. i - 1 \in DOMAIN u /\ u[i - 1] = x
      BY <1>1, <1>2, <1>3, <1>4, <2>1, <2>3
    <3> QED  BY <3>1, Zenon
  <2> QED  BY <1>1, <1>2, <2>1, <2>2, <2>3
<1>7. ASSUME NEW i \in DOMAIN u, NEW j \in DOMAIN u, u[i] = u[j] PROVE i = j
  <2> DEFINE Pos(n) == IF n < p THEN n ELSE n + 1
  <2>1. /\ Pos(i) \in 1 .. Len(l) /\ u[i] = l[Pos(i)]
        /\ Pos(j) \in 1 .. Len(l) /\ u[j] = l[Pos(j)]
    BY <1>1, <1>2, <1>3, <1>4
  <2>2. Pos(i) = Pos(j)
    BY <1>1, <1>7, <2>1, Zenon DEF Enumerates
  <2> QED  BY <1>1, <1>2, <1>4, <2>2
<1> QED
  BY <1>1, <1>3, <1>5, <1>6, <1>7, Zenon DEF Enumerates, u

\* Putting a new element in front of such a list.
LEMMA PushFrontEnumerates ==
  ASSUME NEW l \in Seq(Keys), NEW S, Enumerates(l, S), NEW k \in Keys, k \notin S
  PROVE  /\ <<k>> \o l \in Seq(Keys)
         /\ Len(<<k>> \o l) = Len(l) + 1
         /\ (<<k>> \o l)[1] = k
         /\ Enumerates(<<k>> \o l, S \cup {k})
<1> DEFINE f == <<k>> \o l
<1>1. Len(l) \in Nat /\ DOMAIN l = 1 .. Len(l)
  BY LenProperties, Zenon
<1>2. <<k>> \in Seq(Keys) /\ Len(<<k>>) = 1 /\ <<k>>[1] = k
  OBVIOUS
<1>3. /\ f \in Seq(Keys)
      /\ Len(f) = Len(l) + 1
      /\ \A i \in 1 .. Len(l) + 1 : f[i] = IF i <= 1 THEN <<k>>[i] ELSE l[i - 1]
  BY <1>1, <1>2, ConcatProperties
<1> HIDE DEF f
<1>4. DOMAIN f = 1 .. Len(l) + 1
  BY <1>3, LenProperties, Zenon
<1>5. \A i \in DOMAIN f : f[i] = IF i = 1 THEN k ELSE l[i - 1]
  BY <1>1, <1>2, <1>3, <1>4
<1>6. \A i \in DOMAIN f : f[i] \in S \cup {k}
  BY <1>1, <1>4, <1>5 DEF Enumerates
<1>7. ASSUME NEW x \in S PROVE \E i \in DOMAIN f : f[i] = x
  <2>1. PICK i \in 1 .. Len(l) : l[i] = x
    BY <1>1, Zenon DEF Enumerates
  <2>2. i + 1 \in DOMAIN f /\ f[i + 1] = x
    BY <1>1, <1>4, <1>5, <2>1
  <2> QED  BY <2>2, Zenon
<1>8. 1 \in DOMAIN f /\ f[1] = k
  BY <1>1, <1>4, <1>5
<1>9. ASSUME NEW i \in DOMAIN f, NEW j \in DOMAIN f, f[i] = f[j] PROVE i = j
  BY <1>1, <1>4, <1>5, <1>9 DEF Enumerates
<1> QED
  BY <1>3, <1>6, <1>7, <1>8, <1>9, Zenon DEF Enumerates, f

-----------------------------------------------------------------------------
\* Held and Bytes as functions of the map, for maps between two states.

HeldIn(f, s) == {k \in Keys : ShardOf[k] = s /\ f[k] # NoEntry}

BytesIn(f, s) == UNION {{k} \X (1 .. f[k].size) : k \in HeldIn(f, s)}

Maps == [Keys -> Entry \cup {NoEntry}]

\* An entry of n bytes stands for n bytes.
LEMMA EntryBytes ==
  ASSUME NEW k, NEW n \in Nat
  PROVE  IsFiniteSet({k} \X (1 .. n)) /\ Cardinality({k} \X (1 .. n)) = n
<1>1. IsFiniteSet({k}) /\ Cardinality({k}) = 1
  BY FS_Singleton, Zenon
<1>2. IsFiniteSet(1 .. n) /\ Cardinality(1 .. n) = n
  BY FS_Interval
<1> DEFINE A == {k}
           B == 1 .. n
<1> HIDE DEF A, B
<1>3. IsFiniteSet(A \X B) /\ Cardinality(A \X B) = Cardinality(A) * Cardinality(B)
  BY <1>1, <1>2, FS_Product, Zenon DEF A, B
<1>4. Cardinality(A) * Cardinality(B) = n
  BY <1>1, <1>2 DEF A, B
<1> QED
  BY <1>3, <1>4, Zenon DEF A, B

\* The bytes of a shard, element by element.
LEMMA InBytes ==
  ASSUME NEW f, NEW s, NEW x
  PROVE  x \in BytesIn(f, s) <=>
           \E k \in HeldIn(f, s) : \E n \in 1 .. f[k].size : x = <<k, n>>
BY DEF BytesIn

\* Adding an entry for a key that has none.
LEMMA AddBytes ==
  ASSUME NEW f \in Maps, NEW k \in Keys, f[k] = NoEntry, NEW e \in Entry,
         NEW g \in Maps, g[k] = e, \A j \in Keys \ {k} : g[j] = f[j],
         NEW s \in Shards, IsFiniteSet(BytesIn(f, s))
  PROVE  /\ HeldIn(g, s) = IF s = ShardOf[k] THEN HeldIn(f, s) \cup {k} ELSE HeldIn(f, s)
         /\ IsFiniteSet(BytesIn(g, s))
         /\ Cardinality(BytesIn(g, s)) =
              IF s = ShardOf[k] THEN Cardinality(BytesIn(f, s)) + e.size
              ELSE Cardinality(BytesIn(f, s))
<1> DEFINE B == BytesIn(f, s)
           E == {k} \X (1 .. e.size)
<1>1. e # NoEntry /\ e.size \in Nat
  BY NoEntryAssumption, Zenon DEF Entry
<1>2. /\ HeldIn(g, s) = IF s = ShardOf[k] THEN HeldIn(f, s) \cup {k} ELSE HeldIn(f, s)
      /\ k \notin HeldIn(f, s)
      /\ \A j \in HeldIn(f, s) : g[j] = f[j]
      /\ g[k] = e
  BY <1>1 DEF HeldIn, Maps
<1>3. CASE s # ShardOf[k]
  <2>1. BytesIn(g, s) = B
    BY <1>2, <1>3, Zenon DEF BytesIn
  <2> QED  BY <1>2, <1>3, <2>1, Zenon
<1>4. CASE s = ShardOf[k]
  <2>1. BytesIn(g, s) = B \cup E
    <3>1. ASSUME NEW x PROVE x \in BytesIn(g, s) <=> x \in B \cup E
      <4>1. x \in BytesIn(g, s) <=>
              \E j \in HeldIn(g, s) : \E n \in 1 .. g[j].size : x = <<j, n>>
        BY InBytes
      <4>2. x \in B <=>
              \E j \in HeldIn(f, s) : \E n \in 1 .. f[j].size : x = <<j, n>>
        BY InBytes
      <4>3. x \in E <=> \E n \in 1 .. e.size : x = <<k, n>>
        OBVIOUS
      <4> HIDE DEF B, E
      <4> QED  BY <1>2, <1>4, <4>1, <4>2, <4>3
    <3> QED  BY <3>1, Zenon
  <2>2. B \cap E = {}
    <3>1. \A x : x \in B => \E j \in HeldIn(f, s) : \E n \in 1 .. f[j].size : x = <<j, n>>
      BY InBytes
    <3> HIDE DEF B
    <3> QED  BY <1>2, <3>1
  <2>3. IsFiniteSet(E) /\ Cardinality(E) = e.size
    BY <1>1, EntryBytes, Zenon
  <2>4. Cardinality(B) \in Nat /\ Cardinality({}) = 0
    BY FS_CardinalityType, FS_EmptySet, Zenon
  <2> HIDE DEF B, E
  <2>5. IsFiniteSet(B) BY Zenon DEF B
  <2>6. IsFiniteSet(B \cup E) /\ Cardinality(B \cup E) = Cardinality(B) + e.size
    <3>1. /\ IsFiniteSet(B \cup E)
          /\ Cardinality(B \cup E) = Cardinality(B) + Cardinality(E) - Cardinality(B \cap E)
      BY <2>3, <2>5, FS_Union, Zenon
    <3>2. Cardinality(B \cap E) = 0
      BY <2>2, <2>4, Zenon
    <3>3. Cardinality(B) + Cardinality(E) - Cardinality(B \cap E) = Cardinality(B) + e.size
      BY <1>1, <2>3, <2>4, <3>2
    <3> QED  BY <3>1, <3>3, Zenon
  <2> QED  BY <1>2, <1>4, <2>1, <2>6, Zenon DEF B
<1> QED  BY <1>3, <1>4, Zenon

\* Dropping an entry.
LEMMA DropBytes ==
  ASSUME NEW f \in Maps, NEW k \in Keys, f[k] # NoEntry,
         NEW g \in Maps, g[k] = NoEntry, \A j \in Keys \ {k} : g[j] = f[j],
         NEW s \in Shards, IsFiniteSet(BytesIn(f, s))
  PROVE  /\ HeldIn(g, s) = HeldIn(f, s) \ {k}
         /\ IsFiniteSet(BytesIn(g, s))
         /\ Cardinality(BytesIn(f, s)) =
              IF s = ShardOf[k] THEN Cardinality(BytesIn(g, s)) + f[k].size
              ELSE Cardinality(BytesIn(g, s))
<1>1. f[k] \in Entry
  BY Zenon DEF Maps
<1>2. /\ HeldIn(g, s) = HeldIn(f, s) \ {k}
      /\ \A j \in HeldIn(g, s) : g[j] = f[j]
  BY Zenon DEF HeldIn, Maps
<1>3. BytesIn(g, s) \subseteq BytesIn(f, s)
  <2>1. ASSUME NEW x \in BytesIn(g, s) PROVE x \in BytesIn(f, s)
    BY <1>2, InBytes
  <2> QED  BY <2>1, Zenon
<1>4. IsFiniteSet(BytesIn(g, s))
  BY <1>3, FS_Subset, Zenon
<1>5. Cardinality(BytesIn(f, s)) =
        IF s = ShardOf[k] THEN Cardinality(BytesIn(g, s)) + f[k].size
        ELSE Cardinality(BytesIn(g, s))
  BY <1>1, <1>4, AddBytes
<1> QED  BY <1>2, <1>4, <1>5, Zenon

-----------------------------------------------------------------------------
\* The two updates of a shard: removeLocked and insertLocked

\* The part of the invariant that is about the shards alone.
ShardsInv ==
  /\ items \in Maps
  /\ lru \in [Shards -> Seq(Keys)]
  /\ size \in [Shards -> Nat]
  /\ LRUConsistent
  /\ SizeAccounted

LEMMA HeldBytes ==
  \A s : Held(s) = HeldIn(items, s) /\ Bytes(s) = BytesIn(items, s)
BY Zenon DEF Held, HeldIn, Bytes, BytesIn, Has

LEMMA HeldBytesPrime ==
  \A s : Held(s)' = HeldIn(items', s) /\ Bytes(s)' = BytesIn(items', s)
BY Zenon DEF Held, HeldIn, Bytes, BytesIn, Has

\* Removing an entry keeps list, map and size in step and frees its bytes.
LEMMA RemoveKeepsShards ==
  ASSUME ShardsInv, NEW k \in Keys, Has(k), removeLocked(k)
  PROVE  /\ ShardsInv'
         /\ ~Has(k)'
         /\ \A s \in Shards : size'[s] <= size[s]
         /\ \A s \in Shards \ {ShardOf[k]} : lru'[s] = lru[s] /\ size'[s] = size[s]
         /\ lru'[ShardOf[k]] = Unlink(lru[ShardOf[k]], k)
         /\ \A j \in Keys \ {k} : items'[j] = items[j]
<1> DEFINE S == ShardOf[k]
<1>1. S \in Shards /\ items[k] \in Entry /\ items[k].size \in Nat
  BY ShardOfAssumption, Zenon DEF ShardsInv, Maps, Has, Entry
<1>2. /\ items' \in Maps /\ items'[k] = NoEntry
      /\ \A j \in Keys \ {k} : items'[j] = items[j]
  BY Zenon DEF removeLocked, ShardsInv, Maps
<1>3. /\ lru'[S] = Unlink(lru[S], k)
      /\ \A s \in Shards \ {S} : lru'[s] = lru[s]
      /\ DOMAIN lru' = Shards
      /\ lru' = [s \in Shards |-> lru'[s]]
  BY <1>1, Zenon DEF removeLocked, ShardsInv
<1>4. /\ size'[S] = size[S] - items[k].size
      /\ \A s \in Shards \ {S} : size'[s] = size[s]
      /\ size' = [s \in Shards |-> size'[s]]
  BY <1>1, Zenon DEF removeLocked, ShardsInv
<1>5. ASSUME NEW s \in Shards
      PROVE  /\ HeldIn(items', s) = HeldIn(items, s) \ {k}
             /\ IsFiniteSet(BytesIn(items', s))
             /\ Cardinality(BytesIn(items, s)) =
                  IF s = S THEN Cardinality(BytesIn(items', s)) + items[k].size
                  ELSE Cardinality(BytesIn(items', s))
             /\ Cardinality(BytesIn(items', s)) \in Nat
             /\ size[s] = Cardinality(BytesIn(items, s))
             /\ Enumerates(lru[s], HeldIn(items, s))
             /\ lru[s] \in Seq(Keys)
  <2>1. /\ IsFiniteSet(BytesIn(items, s)) /\ size[s] = Cardinality(BytesIn(items, s))
        /\ Enumerates(lru[s], HeldIn(items, s))
        /\ lru[s] \in Seq(Keys)
    BY HeldBytes, Zenon DEF ShardsInv, SizeAccounted, LRUConsistent
  <2>2. items \in Maps /\ items[k] # NoEntry
    BY Zenon DEF ShardsInv, Has
  <2>3. /\ HeldIn(items', s) = HeldIn(items, s) \ {k}
        /\ IsFiniteSet(BytesIn(items', s))
        /\ Cardinality(BytesIn(items, s)) =
             IF s = S THEN Cardinality(BytesIn(items', s)) + items[k].size
             ELSE Cardinality(BytesIn(items', s))
    BY <1>2, <2>1, <2>2, DropBytes
  <2> QED  BY <2>1, <2>3, FS_CardinalityType, Zenon
<1>6. ASSUME NEW s \in Shards
      PROVE  /\ size'[s] = Cardinality(BytesIn(items', s)) /\ size'[s] \in Nat
             /\ size'[s] <= size[s]
  <2>1. CASE s = S
    BY <1>1, <1>4, <1>5, <2>1
  <2>2. CASE s # S
    BY <1>4, <1>5, <2>2
  <2> QED  BY <2>1, <2>2, Zenon
<1>7. ASSUME NEW s \in Shards
      PROVE  lru'[s] \in Seq(Keys) /\ Enumerates(lru'[s], HeldIn(items', s))
  <2>1. CASE s = S
    <3>1. k \in HeldIn(items, s)
      BY <2>1, Zenon DEF HeldIn, Has
    <3> QED  BY <1>3, <1>5, <2>1, <3>1, UnlinkEnumerates
  <2>2. CASE s # S
    <3>1. HeldIn(items', s) = HeldIn(items, s)
      BY <1>5, <2>2, ZenonT(30) DEF HeldIn
    <3> QED  BY <1>3, <1>5, <2>2, <3>1, Zenon
  <2> QED  BY <2>1, <2>2, Zenon
<1>8. lru' \in [Shards -> Seq(Keys)] /\ size' \in [Shards -> Nat]
  BY <1>3, <1>4, <1>6, <1>7, Zenon
<1>9. LRUConsistent' /\ SizeAccounted'
  BY <1>5, <1>6, <1>7, HeldBytesPrime, Zenon DEF LRUConsistent, SizeAccounted
<1> QED
  BY <1>2, <1>3, <1>4, <1>6, <1>8, <1>9 DEF ShardsInv, Has

\* Moving an element of a list to its front.
LEMMA MoveToFrontEnumerates ==
  ASSUME NEW l \in Seq(Keys), NEW S, Enumerates(l, S), NEW k \in S, k \in Keys
  PROVE  /\ MoveToFront(l, k) \in Seq(Keys)
         /\ Len(MoveToFront(l, k)) = Len(l) /\ Len(l) \in Nat \ {0}
         /\ MoveToFront(l, k)[1] = k
         /\ Enumerates(MoveToFront(l, k), S)
<1> DEFINE u == Unlink(l, k)
<1>1. /\ u \in Seq(Keys) /\ Len(l) \in Nat
      /\ Len(u) = Len(l) - 1
      /\ Enumerates(u, S \ {k})
  BY UnlinkEnumerates, Zenon
<1>2. Len(u) \in Nat
  BY <1>1, LenProperties, Zenon
<1> HIDE DEF u
<1>3. /\ <<k>> \o u \in Seq(Keys)
      /\ Len(<<k>> \o u) = Len(u) + 1
      /\ (<<k>> \o u)[1] = k
      /\ Enumerates(<<k>> \o u, (S \ {k}) \cup {k})
  BY <1>1, PushFrontEnumerates, Zenon
<1>4. (S \ {k}) \cup {k} = S
  BY Zenon
<1>5. Enumerates(<<k>> \o u, S)
  BY <1>3, <1>4, Zenon
<1> QED  BY <1>1, <1>2, <1>3, <1>5 DEF MoveToFront, u

\* Storing an entry, in place of an older one or not, keeps list, map and
\* size in step and puts the key at the front of its list.
LEMMA InsertKeepsShards ==
  ASSUME ShardsInv, NEW c \in Clients, NEW k \in Keys, NEW e \in Entry,
         insertLocked(c, k, e)
  PROVE  /\ ShardsInv'
         /\ items'[k] = e
         /\ \A j \in Keys \ {k} : items'[j] = items[j]
         /\ \A s \in Shards \ {ShardOf[k]} : lru'[s] = lru[s] /\ size'[s] = size[s]
         /\ lru'[ShardOf[k]][1] = k /\ Len(lru'[ShardOf[k]]) > 0
         /\ call' = [call EXCEPT ![c] =
                       IF OverBudget(size'[ShardOf[k]], lru'[ShardOf[k]])
                       THEN [pc |-> "evict", key |-> k] ELSE Idle]
<1> DEFINE S   == ShardOf[k]
           old == IF Has(k) THEN items[k].size ELSE 0
           l   == IF Has(k) THEN MoveToFront(lru[S], k) ELSE <<k>> \o lru[S]
           m   == [items EXCEPT ![k] = NoEntry]
<1>1. S \in Shards /\ e.size \in Nat /\ e # NoEntry
  BY ShardOfAssumption, NoEntryAssumption, Zenon DEF Entry
<1>2. /\ items' \in Maps /\ items'[k] = e
      /\ \A j \in Keys \ {k} : items'[j] = items[j]
  BY Zenon DEF insertLocked, ShardsInv, Maps
<1>3. /\ lru'[S] = l
      /\ \A s \in Shards \ {S} : lru'[s] = lru[s]
      /\ lru' = [s \in Shards |-> lru'[s]]
  BY <1>1, Zenon DEF insertLocked, ShardsInv
<1>4. /\ size'[S] = size[S] - old + e.size
      /\ \A s \in Shards \ {S} : size'[s] = size[s]
      /\ size' = [s \in Shards |-> size'[s]]
  BY <1>1, Zenon DEF insertLocked, ShardsInv
<1>5. /\ items \in Maps
      /\ m \in Maps /\ m[k] = NoEntry /\ \A j \in Keys \ {k} : m[j] = items[j]
  BY Zenon DEF ShardsInv, Maps
<1>6. \A j \in Keys \ {k} : items'[j] = m[j]
  BY <1>2, <1>5, Zenon
<1> HIDE DEF m
<1>7. ASSUME NEW s \in Shards
      PROVE  /\ IsFiniteSet(BytesIn(items, s)) /\ size[s] = Cardinality(BytesIn(items, s))
             /\ Enumerates(lru[s], HeldIn(items, s))
             /\ lru[s] \in Seq(Keys)
  BY HeldBytes, Zenon DEF ShardsInv, SizeAccounted, LRUConsistent
<1>8. ASSUME NEW s \in Shards
      PROVE  /\ IsFiniteSet(BytesIn(m, s)) /\ Cardinality(BytesIn(m, s)) \in Nat
             /\ HeldIn(m, s) = HeldIn(items, s) \ {k}
             /\ size[s] = IF s = S THEN Cardinality(BytesIn(m, s)) + old
                          ELSE Cardinality(BytesIn(m, s))
             /\ old \in Nat
  <2>1. CASE Has(k)
    <3>1. items[k] # NoEntry /\ old = items[k].size /\ items[k] \in Entry
      BY <1>5, <2>1, Zenon DEF Has, Maps
    <3>2. old \in Nat
      BY <3>1, Zenon DEF Entry
    <3>3. /\ IsFiniteSet(BytesIn(m, s))
          /\ HeldIn(m, s) = HeldIn(items, s) \ {k}
          /\ Cardinality(BytesIn(items, s)) =
               IF s = S THEN Cardinality(BytesIn(m, s)) + items[k].size
               ELSE Cardinality(BytesIn(m, s))
      BY <1>5, <1>7, <3>1, DropBytes
    <3> QED  BY <1>7, <3>1, <3>2, <3>3, FS_CardinalityType, Zenon
  <2>2. CASE ~Has(k)
    <3>1. m = items
      BY <2>2, Zenon DEF m, Has, ShardsInv, Maps
    <3>2. HeldIn(items, s) = HeldIn(items, s) \ {k}
      BY <2>2, Zenon DEF HeldIn, Has
    <3>3. Cardinality(BytesIn(items, s)) \in Nat
      BY <1>7, FS_CardinalityType, ZenonT(30)
    <3> QED  BY <1>7, <2>2, <3>1, <3>2, <3>3
  <2> QED  BY <2>1, <2>2, Zenon
<1>9. ASSUME NEW s \in Shards
      PROVE  /\ HeldIn(items', s) = IF s = S THEN HeldIn(m, s) \cup {k} ELSE HeldIn(m, s)
             /\ IsFiniteSet(BytesIn(items', s))
             /\ Cardinality(BytesIn(items', s)) =
                  IF s = S THEN Cardinality(BytesIn(m, s)) + e.size
                  ELSE Cardinality(BytesIn(m, s))
  BY <1>2, <1>5, <1>6, <1>8, AddBytes
<1>10. ASSUME NEW s \in Shards
       PROVE  size'[s] = Cardinality(BytesIn(items', s)) /\ size'[s] \in Nat
  <2>1. CASE s = S
    BY <1>1, <1>4, <1>8, <1>9, <2>1
  <2>2. CASE s # S
    BY <1>4, <1>8, <1>9, <2>2
  <2> QED  BY <2>1, <2>2, Zenon
<1>11. /\ l \in Seq(Keys) /\ l[1] = k /\ Len(l) > 0
       /\ Enumerates(l, HeldIn(items', S))
  <2>1. CASE Has(k)
    <3>1. k \in HeldIn(items, S) /\ HeldIn(items', S) = HeldIn(items, S)
      BY <1>1, <1>8, <1>9, <2>1 DEF HeldIn, Has
    <3> QED  BY <1>1, <1>7, <2>1, <3>1, MoveToFrontEnumerates
  <2>2. CASE ~Has(k)
    <3>1. k \notin HeldIn(items, S) /\ HeldIn(items', S) = HeldIn(items, S) \cup {k}
      BY <1>1, <1>8, <1>9, <2>2, Zenon DEF HeldIn, Has
    <3>2. Len(lru[S]) \in Nat
      BY <1>1, <1>7, LenProperties, Zenon
    <3> QED  BY <1>1, <1>7, <2>2, <3>1, <3>2, PushFrontEnumerates
  <2> QED  BY <2>1, <2>2, Zenon
<1>12. ASSUME NEW s \in Shards
       PROVE  lru'[s] \in Seq(Keys) /\ Enumerates(lru'[s], HeldIn(items', s))
  <2>1. CASE s = S
    BY <1>3, <1>11, <2>1, Zenon
  <2>2. CASE s # S
    <3>1. HeldIn(items', s) = HeldIn(items, s)
      BY <1>8, <1>9, <2>2 DEF HeldIn
    <3> QED  BY <1>3, <1>7, <2>2, <3>1, Zenon
  <2> QED  BY <2>1, <2>2, Zenon
<1>13. lru' \in [Shards -> Seq(Keys)] /\ size' \in [Shards -> Nat]
  BY <1>3, <1>4, <1>10, <1>12, Zenon
<1>14. LRUConsistent' /\ SizeAccounted'
  BY <1>9, <1>10, <1>12, HeldBytesPrime, Zenon DEF LRUConsistent, SizeAccounted
<1>15. call' = [call EXCEPT ![c] = IF OverBudget(size'[S], lru'[S])
                                   THEN [pc |-> "evict", key |-> k] ELSE Idle]
  BY <1>3, <1>4, Zenon DEF insertLocked
<1>16. ShardsInv'
  BY <1>2, <1>13, <1>14, Zenon DEF ShardsInv
<1> HIDE DEF l
<1> QED
  BY <1>2, <1>3, <1>4, <1>11, <1>15, <1>16, ZenonT(30)

-----------------------------------------------------------------------------
\* The inductive invariant

Inv == TypeOK /\ LRUConsistent /\ SizeAccounted /\ WithinBudget /\ EvictLoop

\* The state of the goroutines.
CallsType == call \in [Clients -> Call] /\ sweep \in Sweep /\ now \in Nat \ {0}

LEMMA InvParts == Inv <=> ShardsInv /\ CallsType /\ WithinBudget /\ EvictLoop
BY Zenon DEF Inv, ShardsInv, CallsType, TypeOK, Maps

LEMMA InvPartsPrime == Inv' <=> (ShardsInv /\ CallsType /\ WithinBudget /\ EvictLoop)'
BY InvParts, PTL

\* int64 arithmetic stays within int64.
LEMMA WrapType == \A n \in Int : Wrap(n) \in Counters
BY IntLimitAssumption DEF Wrap, Counters

LEMMA DeadlineType == \A t \in Nat, ttl \in Int : Deadline(t, ttl) \in Nat
BY DEF Deadline, Never

LEMMA NewEntryType ==
  ASSUME NEW k \in Keys, NEW v \in Value, NEW exp \in Nat
  PROVE  NewEntry(k, v, exp) \in Entry
BY LenAssumption DEF NewEntry, EstimateSize, Entry

LEMMA InitInv == Init => Inv
<1> SUFFICES ASSUME Init PROVE Inv
  BY Zenon
<1>1. TypeOK
  BY NumShardsAssumption DEF Init, TypeOK, Call, Sweep, Quiet, Shards
<1>2. \A s : Held(s) = {} /\ Bytes(s) = {}
  BY Zenon DEF Init, Held, Bytes, Has
<1>3. LRUConsistent
  BY <1>2 DEF Init, LRUConsistent, Enumerates
<1>4. SizeAccounted
  BY <1>2, FS_EmptySet, Zenon DEF Init, SizeAccounted
<1>5. WithinBudget
  BY MaxSizeAssumption DEF Init, WithinBudget
<1>6. EvictLoop
  BY Zenon DEF Init, EvictLoop, Idle
<1> QED  BY <1>1, <1>3, <1>4, <1>5, <1>6, Zenon DEF Inv

\* A step that neither enters nor leaves an eviction loop, that touches no
\* shard in such a loop, and that makes no shard bigger.
LEMMA QuietStep ==
  ASSUME Inv, ShardsInv', CallsType',
         \A c \in Clients :
           /\ call'[c].pc = "evict" <=> call[c].pc = "evict"
           /\ call[c].pc = "evict" => call'[c] = call[c],
         sweep'.pc = "scan" => ~Evicting(sweep'.shard),
         \A s \in Shards : size'[s] <= size[s],
         \A s \in Shards : Evicting(s) => lru'[s] = lru[s] /\ size'[s] = size[s]
  PROVE  Inv'
<1>1. ShardsInv /\ CallsType /\ WithinBudget /\ EvictLoop
  BY InvParts, Zenon
<1>2. \A s : Evicting(s)' <=> Evicting(s)
  BY Zenon DEF Evicting
<1>3. WithinBudget'
  BY <1>1, <1>2, MaxSizeAssumption DEF WithinBudget, ShardsInv
<1>4. ASSUME NEW c \in Clients, call'[c].pc = "evict"
      PROVE  LET s == ShardOf[call'[c].key] IN
             /\ OverBudget(size'[s], lru'[s])
             /\ lru'[s][1] = call'[c].key
             /\ \A d \in Clients \ {c} :
                   call'[d].pc = "evict" => ShardOf[call'[d].key] # s
             /\ ~(sweep'.pc = "scan" /\ sweep'.shard = s)
  <2>1. call[c].pc = "evict" /\ call'[c] = call[c]
    BY <1>4, Zenon
  <2>2. call[c].key \in Keys /\ ShardOf[call[c].key] \in Shards
    BY <1>1, <2>1, ShardOfAssumption DEF CallsType, Call, Idle
  <2>3. Evicting(ShardOf[call[c].key])
    BY <2>1, Zenon DEF Evicting
  <2> QED  BY <1>1, <2>1, <2>2, <2>3 DEF EvictLoop
<1>5. EvictLoop'
  BY <1>4, Zenon DEF EvictLoop, OverBudget
<1> QED  BY <1>3, <1>5, InvPartsPrime, Zenon

\* The sweeper and the eviction loops exclude each other.
LEMMA ScanExcludesEvicting == Inv /\ sweep.pc = "scan" => ~Evicting(sweep.shard)
BY Zenon DEF Inv, EvictLoop, Evicting

\* Storing an entry in an unlocked shard.
LEMMA InsertStep ==
  ASSUME Inv, NEW c \in Clients, NEW k \in Keys, NEW e \in Entry,
         Unlocked(ShardOf[k]), call[c].pc # "evict",
         insertLocked(c, k, e), UNCHANGED <<sweep, now>>
  PROVE  Inv'
<1> DEFINE S == ShardOf[k]
<1>1. ShardsInv /\ CallsType /\ WithinBudget /\ EvictLoop
  BY InvParts, Zenon
<1>2. /\ ShardsInv'
      /\ \A s \in Shards \ {S} : lru'[s] = lru[s] /\ size'[s] = size[s]
      /\ lru'[S][1] = k /\ Len(lru'[S]) > 0
      /\ call' = [call EXCEPT ![c] = IF OverBudget(size'[S], lru'[S])
                                     THEN [pc |-> "evict", key |-> k] ELSE Idle]
  BY <1>1, InsertKeepsShards
<1>3. S \in Shards /\ size'[S] \in Nat
  BY <1>2, ShardOfAssumption, Zenon DEF ShardsInv
<1>4. CallsType'
  BY <1>1, <1>2, Zenon DEF CallsType, Call
<1>5. /\ call'[c] = IF OverBudget(size'[S], lru'[S])
                    THEN [pc |-> "evict", key |-> k] ELSE Idle
      /\ \A d \in Clients \ {c} : call'[d] = call[d]
  BY <1>1, <1>2, Zenon DEF CallsType
<1>6. ~Evicting(S) /\ ~(sweep.pc = "scan" /\ sweep.shard = S)
  BY Zenon DEF Unlocked
<1>7. WithinBudget'
  <2> SUFFICES ASSUME NEW s \in Shards, MaxSize > 0, ~Evicting(s)'
               PROVE  size'[s] <= MaxSize
    BY Zenon DEF WithinBudget
  <2>1. CASE s = S
    <3>1. ~(call'[c].pc = "evict" /\ ShardOf[call'[c].key] = S)
      BY <2>1, Zenon DEF Evicting
    <3>2. ~OverBudget(size'[S], lru'[S])
      BY <1>5, <3>1
    <3> QED  BY <1>2, <1>3, <2>1, <3>2, MaxSizeAssumption DEF OverBudget
  <2>2. CASE s # S
    <3>1. ~Evicting(s)
      BY <1>5, Zenon DEF Evicting
    <3> QED  BY <1>1, <1>2, <2>2, <3>1, Zenon DEF WithinBudget
  <2> QED  BY <2>1, <2>2, Zenon
<1>8. ASSUME NEW d \in Clients, call'[d].pc = "evict"
      PROVE  LET s == ShardOf[call'[d].key] IN
             /\ OverBudget(size'[s], lru'[s])
             /\ lru'[s][1] = call'[d].key
             /\ \A b \in Clients \ {d} :
                   call'[b].pc = "evict" => ShardOf[call'[b].key] # s
             /\ ~(sweep'.pc = "scan" /\ sweep'.shard = s)
  <2>1. CASE d = c
    <3>1. call'[c] = [pc |-> "evict", key |-> k] /\ OverBudget(size'[S], lru'[S])
      BY <1>5, <1>8, <2>1 DEF Idle
    <3> QED  BY <1>2, <1>5, <1>6, <2>1, <3>1 DEF Evicting
  <2>2. CASE d # c
    <3>1. call'[d] = call[d] /\ call[d].pc = "evict"
      BY <1>5, <1>8, <2>2, Zenon
    <3>2. ShardOf[call[d].key] # S
      BY <1>6, <3>1, Zenon DEF Evicting
    <3>3. call[d].key \in Keys /\ ShardOf[call[d].key] \in Shards
      BY <1>1, <3>1, ShardOfAssumption DEF CallsType, Call, Idle
    <3>4. call'[c].pc = "evict" => ShardOf[call'[c].key] = S
      BY <1>5 DEF Idle
    <3> DEFINE s == ShardOf[call[d].key]
    <3>5. /\ OverBudget(size[s], lru[s])
          /\ lru[s][1] = call[d].key
          /\ \A b \in Clients \ {d} : call[b].pc = "evict" => ShardOf[call[b].key] # s
          /\ ~(sweep.pc = "scan" /\ sweep.shard = s)
      BY <1>1, <3>1, Zenon DEF EvictLoop
    <3>6. size'[s] = size[s] /\ lru'[s] = lru[s] /\ sweep' = sweep
      BY <1>2, <3>2, <3>3
    <3>7. \A b \in Clients \ {d} : call'[b].pc = "evict" => ShardOf[call'[b].key] # s
      BY <1>5, <3>2, <3>4, <3>5, Zenon
    <3> QED  BY <3>1, <3>5, <3>6, <3>7, Zenon
  <2> QED  BY <2>1, <2>2, Zenon
<1>9. EvictLoop'
  BY <1>8, Zenon DEF EvictLoop, OverBudget
<1> QED  BY <1>2, <1>4, <1>7, <1>9, InvPartsPrime, Zenon

\* An empty list means an empty shard.
LEMMA EmptyShard ==
  ASSUME ShardsInv, NEW s \in Shards, ~(Len(lru[s]) > 0)
  PROVE  size[s] = 0
<1>1. lru[s] \in Seq(Keys) /\ Enumerates(lru[s], Held(s))
  BY Zenon DEF ShardsInv, LRUConsistent
<1>2. DOMAIN lru[s] = {}
  BY <1>1, LenProperties
<1>3. Held(s) = {}
  BY <1>1, <1>2, Zenon DEF Enumerates
<1>4. Bytes(s) = {}
  BY <1>3, Zenon DEF Bytes
<1> QED  BY <1>4, FS_EmptySet, Zenon DEF ShardsInv, SizeAccounted

LEMMA EmptyShardPrime ==
  ASSUME ShardsInv', NEW s \in Shards, ~(Len(lru'[s]) > 0)
  PROVE  size'[s] = 0
<1>1. lru'[s] \in Seq(Keys) /\ Enumerates(lru'[s], Held(s)')
  BY Zenon DEF ShardsInv, LRUConsistent
<1>2. DOMAIN lru'[s] = {}
  BY <1>1, LenProperties
<1>3. Held(s)' = {}
  BY <1>1, <1>2, Zenon DEF Enumerates
<1>4. Bytes(s)' = {}
  BY <1>3, Zenon DEF Bytes
<1> QED  BY <1>4, FS_EmptySet, Zenon DEF ShardsInv, SizeAccounted

\* The victim of an iteration of the eviction loop, and what it leaves.
LEMMA Victim ==
  ASSUME Inv, NEW c \in Clients, EvictOne(c)
  PROVE  LET S == ShardOf[call[c].key]
             k == Back(lru[S])
         IN  /\ call[c].pc = "evict" /\ call[c].key \in Keys /\ S \in Shards
             /\ k \in Keys /\ Has(k) /\ ShardOf[k] = S
             /\ removeLocked(k)
             /\ MaxSize > 0 /\ size[S] > MaxSize
             /\ lru[S][1] = call[c].key
             /\ Len(Unlink(lru[S], k)) > 0 => Unlink(lru[S], k)[1] = call[c].key
             /\ k = call[c].key => Len(lru[S]) = 1
<1> DEFINE S == ShardOf[call[c].key]
           k == Back(lru[S])
           n == Len(lru[S])
<1>1. ShardsInv /\ CallsType /\ EvictLoop
  BY InvParts, Zenon
<1>2. call[c].pc = "evict" /\ removeLocked(k)
  BY Zenon DEF EvictOne
<1>3. call[c].key \in Keys /\ S \in Shards
  BY <1>1, <1>2, ShardOfAssumption DEF CallsType, Call, Idle
<1>4. MaxSize > 0 /\ size[S] > MaxSize /\ n > 0 /\ lru[S][1] = call[c].key
  BY <1>1, <1>2, Zenon DEF EvictLoop, OverBudget
<1>5. lru[S] \in Seq(Keys) /\ Enumerates(lru[S], Held(S))
  BY <1>1, <1>3, Zenon DEF ShardsInv, LRUConsistent
<1>6. n \in Nat /\ DOMAIN lru[S] = 1 .. n
  BY <1>5, LenProperties, Zenon
<1>7. k = lru[S][n] /\ n \in DOMAIN lru[S] /\ 1 \in DOMAIN lru[S]
  <2>1. k = lru[S][n]
    BY Zenon DEF Back
  <2> HIDE DEF S, k, n
  <2>2. n \in DOMAIN lru[S] /\ 1 \in DOMAIN lru[S]
    BY <1>4, <1>6
  <2> QED  BY <2>1, <2>2, Zenon
<1> HIDE DEF k, n
<1>8. k \in Held(S)
  BY <1>5, <1>7, Zenon DEF Enumerates
<1>9. k \in Keys /\ Has(k) /\ ShardOf[k] = S
  BY <1>8, Zenon DEF Held
<1>10. k = call[c].key => n = 1
  BY <1>4, <1>5, <1>7, Zenon DEF Enumerates
<1>11. Len(Unlink(lru[S], k)) > 0 => Unlink(lru[S], k)[1] = call[c].key
  <2> DEFINE p == CHOOSE i \in DOMAIN lru[S] : lru[S][i] = k
  <2>1. p \in DOMAIN lru[S] /\ lru[S][p] = k
    BY <1>7, Zenon
  <2>2. p = n
    BY <1>5, <1>7, <2>1, Zenon DEF Enumerates
  <2> HIDE DEF p
  <2> HIDE DEF S
  <2>3. /\ Len(RemoveAt(lru[S], p)) = n - 1
        /\ \A j \in 1 .. n - 1 :
             RemoveAt(lru[S], p)[j] = IF j < p THEN lru[S][j] ELSE lru[S][j + 1]
    BY <1>5, <1>6, <2>1, RemoveAtProps, Zenon DEF n
  <2>4. n - 1 > 0 => RemoveAt(lru[S], p)[1] = lru[S][1]
    BY <1>6, <2>2, <2>3
  <2> QED  BY <1>4, <2>3, <2>4, Zenon DEF Unlink, RemoveAt, p
<1> QED
  BY <1>2, <1>3, <1>4, <1>9, <1>10, <1>11, Zenon DEF k, n

\* An iteration of the eviction loop.
LEMMA EvictOneStep ==
  ASSUME Inv, NEW c \in Clients, EvictOne(c)
  PROVE  Inv'
<1> DEFINE S == ShardOf[call[c].key]
           k == Back(lru[S])
<1>1. ShardsInv /\ CallsType /\ WithinBudget /\ EvictLoop
  BY InvParts, Zenon
<1>2. /\ call[c].pc = "evict" /\ call[c].key \in Keys /\ S \in Shards
      /\ k \in Keys /\ Has(k) /\ ShardOf[k] = S
      /\ removeLocked(k)
      /\ MaxSize > 0
      /\ Len(Unlink(lru[S], k)) > 0 => Unlink(lru[S], k)[1] = call[c].key
  BY Victim, Zenon
<1>3. /\ call' = [call EXCEPT ![c] = IF OverBudget(size'[S], lru'[S]) THEN @ ELSE Idle]
      /\ UNCHANGED <<sweep, now>>
  BY Zenon DEF EvictOne
<1> HIDE DEF k
<1>4. /\ ShardsInv'
      /\ \A s \in Shards \ {S} : lru'[s] = lru[s] /\ size'[s] = size[s]
      /\ lru'[S] = Unlink(lru[S], k)
  BY <1>1, <1>2, RemoveKeepsShards, Zenon
<1>5. /\ call'[c] = IF OverBudget(size'[S], lru'[S]) THEN call[c] ELSE Idle
      /\ \A d \in Clients \ {c} : call'[d] = call[d]
  BY <1>1, <1>3, Zenon DEF CallsType
<1>6. CallsType'
  BY <1>1, <1>3, Zenon DEF CallsType, Call
<1>7. WithinBudget'
  <2> SUFFICES ASSUME NEW s \in Shards, ~Evicting(s)'
               PROVE  size'[s] <= MaxSize
    BY Zenon DEF WithinBudget
  <2>1. CASE s = S
    <3>1. ~OverBudget(size'[S], lru'[S])
      BY <1>2, <1>5, <2>1, Zenon DEF Evicting
    <3>2. CASE Len(lru'[S]) > 0
      <4>1. size'[S] \in Int
        BY <1>2, <1>4 DEF ShardsInv
      <4>2. ~(size'[S] > MaxSize)
        BY <1>2, <3>1, <3>2, Zenon DEF OverBudget
      <4>3. size'[S] <= MaxSize
        BY <4>1, <4>2, MaxSizeAssumption
      <4> QED  BY <2>1, <4>3, ZenonT(30)
    <3>3. CASE ~(Len(lru'[S]) > 0)
      <4>1. size'[S] = 0
        BY <1>2, <1>4, <3>3, EmptyShardPrime, ZenonT(30)
      <4>2. 0 <= MaxSize
        BY <1>2, MaxSizeAssumption DEF OverBudget
      <4> QED  BY <2>1, <4>1, <4>2, Zenon
    <3> QED  BY <3>2, <3>3, Zenon
  <2>2. CASE s # S
    <3>1. ~Evicting(s)
      BY <1>5, <2>2, Zenon DEF Evicting
    <3> QED  BY <1>1, <1>2, <1>4, <2>2, <3>1 DEF WithinBudget
  <2> QED  BY <2>1, <2>2, Zenon
<1>8. ASSUME NEW d \in Clients, call'[d].pc = "evict"
      PROVE  LET s == ShardOf[call'[d].key] IN
             /\ OverBudget(size'[s], lru'[s])
             /\ lru'[s][1] = call'[d].key
             /\ \A b \in Clients \ {d} :
                   call'[b].pc = "evict" => ShardOf[call'[b].key] # s
             /\ ~(sweep'.pc = "scan" /\ sweep'.shard = s)
  <2>1. call'[d] = call[d] /\ call[d].pc = "evict"
    BY <1>5, <1>8 DEF Idle
  <2> DEFINE s == ShardOf[call[d].key]
  <2>2. /\ OverBudget(size[s], lru[s])
        /\ lru[s][1] = call[d].key
        /\ \A b \in Clients \ {d} : call[b].pc = "evict" => ShardOf[call[b].key] # s
        /\ ~(sweep.pc = "scan" /\ sweep.shard = s)
    BY <1>1, <2>1, ZenonT(30) DEF EvictLoop
  <2>3. \A b \in Clients \ {d} : call'[b].pc = "evict" => ShardOf[call'[b].key] # s
    BY <1>5, <2>2 DEF Idle
  <2>4. OverBudget(size'[s], lru'[s]) /\ lru'[s][1] = call[d].key
    <3>1. CASE d = c
      <4>1. OverBudget(size'[S], lru'[S])
        BY <1>5, <1>8, <3>1 DEF Idle
      <4> QED  BY <1>2, <1>4, <3>1, <4>1, ZenonT(30) DEF OverBudget
    <3>2. CASE d # c
      <4>1. s # S /\ s \in Shards
        BY <1>1, <1>2, <2>1, <2>2, <3>2, ShardOfAssumption DEF CallsType, Call, Idle
      <4> QED  BY <1>4, <2>2, <4>1, ZenonT(30)
    <3> QED  BY <3>1, <3>2, Zenon
  <2> QED  BY <1>3, <2>1, <2>2, <2>3, <2>4, ZenonT(30)
<1>9. EvictLoop'
  BY <1>8, Zenon DEF EvictLoop, OverBudget
<1> QED  BY <1>4, <1>6, <1>7, <1>9, InvPartsPrime, Zenon

\* Removing an entry from a shard that no eviction loop holds, with the
\* goroutines' other moves left open.
LEMMA RemoveStep ==
  ASSUME Inv, NEW k \in Keys, Has(k), removeLocked(k), ~Evicting(ShardOf[k]),
         CallsType',
         \A c \in Clients :
           /\ call'[c].pc = "evict" <=> call[c].pc = "evict"
           /\ call[c].pc = "evict" => call'[c] = call[c],
         sweep'.pc = "scan" => ~Evicting(sweep'.shard)
  PROVE  Inv'
<1>1. ShardsInv
  BY InvParts, Zenon
<1>2. /\ ShardsInv'
      /\ \A s \in Shards : size'[s] <= size[s]
      /\ \A s \in Shards \ {ShardOf[k]} : lru'[s] = lru[s] /\ size'[s] = size[s]
  BY <1>1, RemoveKeepsShards, Zenon
<1>3. \A s \in Shards : Evicting(s) => lru'[s] = lru[s] /\ size'[s] = size[s]
  BY <1>2, Zenon
<1> QED  BY <1>2, <1>3, QuietStep, Zenon

\* A step that leaves the shards as they are.
LEMMA NoShardStep ==
  ASSUME Inv, UNCHANGED shardVars, CallsType',
         \A c \in Clients :
           /\ call'[c].pc = "evict" <=> call[c].pc = "evict"
           /\ call[c].pc = "evict" => call'[c] = call[c],
         sweep'.pc = "scan" => ~Evicting(sweep'.shard)
  PROVE  Inv'
<1>1. ShardsInv
  BY InvParts, Zenon
<1>2. ShardsInv'
  <2>1. items' = items /\ lru' = lru /\ size' = size
    BY Zenon DEF shardVars
  <2>2. \A s : Held(s)' = Held(s) /\ Bytes(s)' = Bytes(s)
    BY <2>1, Zenon DEF Held, Bytes, Has
  <2>3. LRUConsistent' /\ SizeAccounted'
    BY <1>1, <2>1, <2>2, Zenon DEF ShardsInv, LRUConsistent, SizeAccounted
  <2> QED  BY <1>1, <2>1, <2>3, Zenon DEF ShardsInv
<1>3. \A s \in Shards : size'[s] = size[s] /\ lru'[s] = lru[s] /\ size[s] \in Nat
  BY <1>1, Zenon DEF shardVars, ShardsInv
<1> QED  BY <1>2, <1>3, QuietStep

\* Get is one of: nothing there, lazy expiry, a hit that moves to the front.
LEMMA GetStep ==
  ASSUME Inv, NEW k \in Keys, Get(k)
  PROVE  Inv'
<1>1. ShardsInv /\ CallsType
  BY InvParts, Zenon
<1>2. UNCHANGED <<call, sweep, now>> /\ ~Evicting(ShardOf[k])
  BY Zenon DEF Get, Unlocked
<1>3. CallsType' /\ (sweep'.pc = "scan" => ~Evicting(sweep'.shard))
  BY <1>1, <1>2, ScanExcludesEvicting, Zenon DEF CallsType
<1>4. CASE UNCHANGED shardVars
  BY <1>2, <1>3, <1>4, NoShardStep, Zenon
<1>5. CASE Expired(k) /\ removeLocked(k)
  BY <1>2, <1>3, <1>5, RemoveStep, ZenonT(30) DEF Expired
<1>6. CASE /\ Live(k)
           /\ lru' = [lru EXCEPT ![ShardOf[k]] = MoveToFront(@, k)]
           /\ UNCHANGED <<items, size>>
  <2> DEFINE S == ShardOf[k]
  <2>1. S \in Shards /\ k \in Held(S)
    BY <1>6, ShardOfAssumption, Zenon DEF Live, Held
  <2>2. /\ MoveToFront(lru[S], k) \in Seq(Keys)
        /\ Enumerates(MoveToFront(lru[S], k), Held(S))
    BY <1>1, <2>1, MoveToFrontEnumerates, Zenon DEF ShardsInv, LRUConsistent
  <2>3. /\ lru' \in [Shards -> Seq(Keys)]
        /\ \A s \in Shards : lru'[s] = IF s = S THEN MoveToFront(lru[S], k) ELSE lru[s]
    BY <1>1, <1>6, <2>1, <2>2, Zenon DEF ShardsInv
  <2>4. \A s : Held(s)' = Held(s) /\ Bytes(s)' = Bytes(s)
    BY <1>6, Zenon DEF Held, Bytes, Has
  <2>5. LRUConsistent' /\ SizeAccounted'
    BY <1>1, <1>6, <2>2, <2>3, <2>4, ZenonT(30) DEF ShardsInv, LRUConsistent, SizeAccounted
  <2>6. ShardsInv'
    BY <1>1, <1>6, <2>3, <2>5, ZenonT(30) DEF ShardsInv
  <2>7. \A s \in Shards : size'[s] <= size[s]
    BY <1>1, <1>6 DEF ShardsInv
  <2>8. \A s \in Shards : Evicting(s) => lru'[s] = lru[s] /\ size'[s] = size[s]
    BY <1>2, <1>6, <2>3, Zenon
  <2> QED  BY <1>2, <1>3, <2>6, <2>7, <2>8, QuietStep
<1> QED  BY <1>4, <1>5, <1>6, Zenon DEF Get

\* The goroutines' steps.
LEMMA ClientStep ==
  ASSUME Inv, NEW c \in Clients
  PROVE  /\ Continue(c) => Inv'
         /\ \A k \in Keys :
              /\ Exists(c, k) \/ TTL(c, k) => Inv'
              /\ \A v \in Value, ttl \in TTLs : SetCall(c, k, v, ttl) => Inv'
              /\ \A d \in Deltas, ttl \in TTLs : Incr(c, k, d, ttl) => Inv'
<1>1. ShardsInv /\ CallsType
  BY InvParts, Zenon
<1>2. ASSUME SetCommit(c) PROVE Inv'
  <2> DEFINE k == call[c].key
             e == NewEntry(k, call[c].value, call[c].expiresAt)
  <2>1. k \in Keys /\ call[c].value \in Value /\ call[c].expiresAt \in Nat
    BY <1>1, <1>2 DEF SetCommit, CallsType, Call, Idle
  <2>2. e \in Entry
    BY <2>1, NewEntryType, Zenon
  <2> QED  BY <1>2, <2>1, <2>2, InsertStep, ZenonT(30) DEF SetCommit
<1>3. ASSUME EvictOne(c) PROVE Inv'
  BY <1>3, EvictOneStep, Zenon
<1>4. ASSUME Recheck(c) PROVE Inv'
  <2>1. /\ call[c].pc = "recheck" /\ call[c].key \in Keys
        /\ ~Evicting(ShardOf[call[c].key])
        /\ call' = [call EXCEPT ![c] = Idle] /\ UNCHANGED <<sweep, now>>
    BY <1>1, <1>4 DEF Recheck, Unlocked, CallsType, Call, Idle
  <2>2. /\ CallsType' /\ (sweep'.pc = "scan" => ~Evicting(sweep'.shard))
        /\ \A d \in Clients :
             /\ call'[d].pc = "evict" <=> call[d].pc = "evict"
             /\ call[d].pc = "evict" => call'[d] = call[d]
    BY <1>1, <2>1, ScanExcludesEvicting, Zenon DEF CallsType, Call, Idle
  <2>3. CASE UNCHANGED shardVars
    BY <2>2, <2>3, NoShardStep, Zenon
  <2>4. CASE Expired(call[c].key) /\ removeLocked(call[c].key)
    BY <2>1, <2>2, <2>4, RemoveStep, Zenon DEF Expired
  <2> QED  BY <1>4, <2>3, <2>4, ZenonT(30) DEF Recheck
<1>5. ASSUME NEW x \in Call, x.pc # "evict", call[c] = Idle,
             call' = [call EXCEPT ![c] = x], UNCHANGED <<shardVars, sweep, now>>
      PROVE  Inv'
  <2>1. /\ CallsType' /\ (sweep'.pc = "scan" => ~Evicting(sweep'.shard))
        /\ \A d \in Clients :
             /\ call'[d].pc = "evict" <=> call[d].pc = "evict"
             /\ call[d].pc = "evict" => call'[d] = call[d]
    BY <1>1, <1>5, ScanExcludesEvicting DEF CallsType, Idle
  <2> QED  BY <1>5, <2>1, NoShardStep, Zenon
<1>6. ASSUME NEW k \in Keys, NEW answer, ReadThenRecheck(c, k, answer) PROVE Inv'
  <2> DEFINE x == IF Expired(k) THEN [pc |-> "recheck", key |-> k] ELSE Idle
  <2>1. x \in Call /\ x.pc # "evict"
    BY Zenon DEF Call, Idle
  <2> QED  BY <1>5, <1>6, <2>1, Zenon DEF ReadThenRecheck
<1>7. ASSUME NEW k \in Keys, NEW v \in Value, NEW ttl \in TTLs, SetCall(c, k, v, ttl)
      PROVE  Inv'
  <2> DEFINE x == [pc |-> "set", key |-> k, value |-> v, expiresAt |-> Deadline(now, ttl)]
  <2>1. Deadline(now, ttl) \in Nat
    BY <1>1, DeadlineType, ArgumentsAssumption, Zenon DEF CallsType
  <2>2. x \in Call /\ x.pc # "evict"
    BY <2>1, Zenon DEF Call
  <2> QED  BY <1>5, <1>7, <2>2, Zenon DEF SetCall
<1>8. ASSUME NEW k \in Keys, NEW d \in Deltas, NEW ttl \in TTLs, Incr(c, k, d, ttl)
      PROVE  Inv'
  <2>1. /\ call[c] = Idle /\ call[c].pc # "evict" /\ Unlocked(ShardOf[k])
        /\ UNCHANGED <<sweep, now>> /\ d \in Int /\ ttl \in Int /\ now \in Nat
    BY <1>1, <1>8, ArgumentsAssumption DEF Incr, Idle, CallsType
  <2>2. CASE UNCHANGED <<shardVars, call>>
    <3>1. call' = [call EXCEPT ![c] = Idle] /\ Idle \in Call /\ Idle.pc # "evict"
      BY <1>1, <2>1, <2>2, Zenon DEF CallsType, Call, Idle
    <3> QED  BY <1>5, <2>1, <2>2, <3>1, ZenonT(30)
  <2>3. CASE /\ Live(k) /\ items[k].value \in Counters
             /\ insertLocked(c, k, NewEntry(k, Wrap(items[k].value + d),
                                            KeptDeadline(items[k])))
    <3>1. items[k] \in Entry /\ items[k].value \in Int
      BY <1>1, <2>3, IntLimitAssumption DEF ShardsInv, Maps, Live, Has, Counters
    <3>2. Wrap(items[k].value + d) \in Value
      BY <2>1, <3>1, WrapType DEF Value
    <3>3. KeptDeadline(items[k]) \in Nat
      BY <2>1, <3>1 DEF KeptDeadline, Deadline, Never, Entry
    <3> QED  BY <2>1, <2>3, <3>2, <3>3, NewEntryType, InsertStep, ZenonT(30)
  <2>4. CASE insertLocked(c, k, NewEntry(k, Wrap(d), Deadline(now, ttl)))
    <3>1. Wrap(d) \in Value /\ Deadline(now, ttl) \in Nat
      BY <2>1, WrapType, DeadlineType, Zenon DEF Value
    <3> QED  BY <2>1, <2>4, <3>1, NewEntryType, InsertStep, ZenonT(30)
  <2> QED  BY <1>8, <2>2, <2>3, <2>4, ZenonT(30) DEF Incr
<1> QED
  BY <1>2, <1>3, <1>4, <1>6, <1>7, <1>8, ZenonT(30) DEF Continue, Exists, TTL

\* The sweeper's steps.
LEMMA SweeperStep ==
  ASSUME Inv, Sweeper
  PROVE  Inv'
<1>1. ShardsInv /\ CallsType
  BY InvParts, Zenon
<1>2. UNCHANGED <<call, now>>
  BY Zenon DEF Sweeper, SweepStart, SweepLock, SweepUnlock, SweepNextShard, SweepRemove, SweepFire
<1>3. sweep' \in Sweep
  <2>1. /\ sweep \in Sweep /\ now \in Nat /\ 1 \in Shards
        /\ sweep.shard < NumShards => sweep.shard + 1 \in Shards
    BY <1>1, NumShardsAssumption DEF CallsType, Sweep, Shards
  <2>2. CASE SweepStart
    BY <2>1, <2>2, Zenon DEF SweepStart, Quiet, Sweep
  <2>3. CASE SweepLock \/ SweepUnlock
    BY <2>1, <2>3, Zenon DEF SweepLock, SweepUnlock, Sweep
  <2>4. CASE SweepNextShard
    BY <2>1, <2>4, Zenon DEF SweepNextShard, Quiet, Sweep
  <2>5. ASSUME NEW k \in Keys, SweepRemove(k) \/ SweepFire(k) PROVE sweep' \in Sweep
    <3>1. sweep.fire \cup {k} \in SUBSET Keys /\ sweep.fire \ {k} \in SUBSET Keys
      BY <2>1, Zenon DEF Sweep
    <3>2. \/ sweep' = [sweep EXCEPT !.fire = sweep.fire \cup {k}]
          \/ sweep' = [sweep EXCEPT !.fire = sweep.fire \ {k}]
      BY <2>5, Zenon DEF SweepRemove, SweepFire
    <3> QED  BY <2>1, <3>1, <3>2, Zenon DEF Sweep
  <2> QED  BY <2>2, <2>3, <2>4, <2>5, Zenon DEF Sweeper
<1>4. CallsType'
  BY <1>1, <1>2, <1>3, Zenon DEF CallsType
<1>5. sweep'.pc = "scan" => ~Evicting(sweep'.shard)
  <2>1. sweep \in Sweep
    BY <1>1, Zenon DEF CallsType
  <2>2. CASE SweepLock
    BY <2>1, <2>2, Zenon DEF SweepLock, Unlocked, Sweep
  <2>3. CASE SweepStart \/ SweepUnlock \/ SweepNextShard \/ \E k \in Keys : SweepFire(k)
    <3>1. SweepStart => sweep'.pc = "lock"
      BY Zenon DEF SweepStart, Quiet
    <3>2. SweepUnlock => sweep'.pc = "fire"
      BY <2>1, Zenon DEF SweepUnlock, Sweep
    <3>3. SweepNextShard => sweep'.pc \in {"lock", "idle"}
      BY <2>1 DEF SweepNextShard, Quiet, Sweep
    <3>4. \A k \in Keys : SweepFire(k) => sweep'.pc = "fire"
      BY <2>1, Zenon DEF SweepFire, Sweep
    <3> QED  BY <2>3, <3>1, <3>2, <3>3, <3>4, ZenonT(30)
  <2>4. CASE \E k \in Keys : SweepRemove(k)
    BY <2>1, <2>4, ScanExcludesEvicting, Zenon DEF SweepRemove, Sweep
  <2> QED  BY <2>2, <2>3, <2>4 DEF Sweeper
<1>6. CASE \E k \in Keys : SweepRemove(k)
  <2>1. PICK k \in Keys : SweepRemove(k)
    BY <1>6, Zenon
  <2>2. Has(k) /\ removeLocked(k) /\ ~Evicting(ShardOf[k])
    BY <2>1, ScanExcludesEvicting, Zenon DEF SweepRemove, ToSweep
  <2> QED  BY <1>2, <1>4, <1>5, <2>2, RemoveStep, Zenon
<1>7. CASE UNCHANGED shardVars
  BY <1>2, <1>4, <1>5, <1>7, NoShardStep
<1> QED
  BY <1>6, <1>7, Zenon DEF Sweeper, SweepStart, SweepLock, SweepUnlock, SweepNextShard, SweepFire

LEMMA NextInv == Inv /\ [Next]_vars => Inv'
<1> SUFFICES ASSUME Inv, [Next]_vars PROVE Inv'
  BY Zenon
<1>1. ShardsInv /\ CallsType
  BY InvParts, Zenon
<1>2. sweep.pc = "scan" => ~Evicting(sweep.shard)
  BY ScanExcludesEvicting, Zenon
<1>3. CASE Tick
  BY <1>1, <1>2, <1>3, NoShardStep DEF Tick, CallsType
<1>4. CASE Sweeper
  BY <1>4, SweeperStep, Zenon
<1>5. ASSUME NEW k \in Keys, Get(k) PROVE Inv'
  BY <1>5, GetStep, Zenon
<1>6. ASSUME NEW k \in Keys, Delete(k) PROVE Inv'
  <2>1. UNCHANGED <<call, sweep, now>> /\ ~Evicting(ShardOf[k]) /\ CallsType'
    BY <1>1, <1>6, Zenon DEF Delete, Unlocked, CallsType
  <2>2. CASE Has(k) /\ removeLocked(k)
    BY <1>2, <2>1, <2>2, RemoveStep, Zenon
  <2>3. CASE UNCHANGED shardVars
    BY <1>2, <2>1, <2>3, NoShardStep, Zenon
  <2> QED  BY <1>6, <2>2, <2>3, Zenon DEF Delete
<1>7. CASE \/ \E c \in Clients : Continue(c)
           \/ \E c \in Clients, k \in Keys :
                \/ Exists(c, k)
                \/ TTL(c, k)
                \/ \E v \in Value, ttl \in TTLs : SetCall(c, k, v, ttl)
                \/ \E d \in Deltas, ttl \in TTLs : Incr(c, k, d, ttl)
  BY <1>7, ClientStep, Zenon
<1>8. CASE UNCHANGED vars
  <2>1. UNCHANGED shardVars /\ UNCHANGED <<call, sweep, now>>
    BY <1>8, Zenon DEF vars, shardVars
  <2>2. CallsType'
    BY <1>1, <2>1, Zenon DEF CallsType
  <2> QED  BY <1>2, <2>1, <2>2, NoShardStep, Zenon
<1> QED
  BY <1>3, <1>4, <1>5, <1>6, <1>7, <1>8 DEF Next

\* The inductive invariant holds of every behaviour of the store.
THEOREM Invariance == Spec => []Inv
BY InitInv, NextInv, PTL DEF Spec

\* For any number of keys, shards and goroutines and any limit: types, among
\* them that Shard.Size never goes negative.
THEOREM TypeCorrect == Spec => []TypeOK
<1>1. Inv => TypeOK  BY Zenon DEF Inv
<1> QED  BY <1>1, Invariance, PTL

\* The LRU list of every shard holds exactly the keys of its map, each once.
THEOREM LRUCorrect == Spec => []LRUConsistent
<1>1. Inv => LRUConsistent  BY Zenon DEF Inv
<1> QED  BY <1>1, Invariance, PTL

\* Shard.Size is always the number of bytes its entries stand for.
THEOREM SizeCorrect == Spec => []SizeAccounted
<1>1. Inv => SizeAccounted  BY Zenon DEF Inv
<1> QED  BY <1>1, Invariance, PTL

\* Outside the loop of evictLocked every shard is within its limit.
THEOREM BudgetCorrect == Spec => []WithinBudget
<1>1. Inv => WithinBudget  BY Zenon DEF Inv
<1> QED  BY <1>1, Invariance, PTL

\* The loop of evictLocked runs alone on its shard, over the limit, with the
\* entry that started it in front.
THEOREM LoopCorrect == Spec => []EvictLoop
<1>1. Inv => EvictLoop  BY Zenon DEF Inv
<1> QED  BY <1>1, Invariance, PTL

\* In a shard whose list has one element, Shard.Size is the size of its entry.
LEMMA LoneEntry ==
  ASSUME ShardsInv, NEW k \in Keys, Has(k), Len(lru[ShardOf[k]]) = 1
  PROVE  size[ShardOf[k]] = items[k].size
<1> DEFINE S == ShardOf[k]
<1>1. S \in Shards /\ items[k] \in Entry /\ items[k].size \in Nat
  BY ShardOfAssumption, Zenon DEF ShardsInv, Maps, Has, Entry
<1>2. /\ lru[S] \in Seq(Keys) /\ Enumerates(lru[S], Held(S))
      /\ size[S] = Cardinality(Bytes(S))
  BY <1>1, Zenon DEF ShardsInv, LRUConsistent, SizeAccounted
<1>3. DOMAIN lru[S] = {1}
  BY <1>2, LenProperties
<1>4. k \in Held(S)
  BY Zenon DEF Held
<1>5. Held(S) = {k}
  BY <1>2, <1>3, <1>4 DEF Enumerates
<1>6. Bytes(S) = {k} \X (1 .. items[k].size)
  BY <1>5, Zenon DEF Bytes
<1>7. Cardinality({k} \X (1 .. items[k].size)) = items[k].size
  BY <1>1, EntryBytes, Zenon
<1> QED  BY <1>2, <1>6, <1>7, Zenon

\* A Set or Incr never evicts the entry it has just stored, unless that entry
\* alone is over the limit.
THEOREM FreshCorrect == Spec => FreshEntrySurvives
<1>1. ASSUME Inv, NEW c \in Clients, EvictOne(c), items'[call[c].key] = NoEntry
      PROVE  items[call[c].key].size > MaxSize
  <2> DEFINE S == ShardOf[call[c].key]
             k == Back(lru[S])
  <2>1. ShardsInv
    BY <1>1, InvParts, Zenon
  <2>2. /\ call[c].key \in Keys /\ S \in Shards
        /\ k \in Keys /\ Has(k) /\ ShardOf[k] = S
        /\ removeLocked(k)
        /\ size[S] > MaxSize
        /\ lru[S][1] = call[c].key
        /\ k = call[c].key => Len(lru[S]) = 1
    BY <1>1, Victim, Zenon
  <2> HIDE DEF k
  <2>3. \A j \in Keys \ {k} : items'[j] = items[j]
    BY <2>1, <2>2, RemoveKeepsShards, Zenon
  <2>4. Has(call[c].key)
    <3>1. lru[S] \in Seq(Keys) /\ Enumerates(lru[S], Held(S))
      BY <2>1, <2>2, Zenon DEF ShardsInv, LRUConsistent
    <3>2. Len(lru[S]) \in Nat /\ DOMAIN lru[S] = 1 .. Len(lru[S])
      BY <3>1, LenProperties, Zenon
    <3>3. k \in Held(S)
      BY <2>2, Zenon DEF Held
    <3>4. PICK i \in DOMAIN lru[S] : lru[S][i] = k
      BY <3>1, <3>3, Zenon DEF Enumerates
    <3>5. 1 \in DOMAIN lru[S]
      BY <3>2, <3>4
    <3> QED  BY <2>2, <3>1, <3>5, Zenon DEF Enumerates, Held
  <2>5. k = call[c].key
    BY <1>1, <2>2, <2>3, <2>4 DEF Has
  <2>6. size[S] = items[k].size
    BY <2>1, <2>2, <2>5, LoneEntry, Zenon
  <2> QED  BY <2>2, <2>5, <2>6
<1>2. Inv /\ [Next]_vars =>
        [\A c \in Clients :
           EvictOne(c) /\ items'[call[c].key] = NoEntry
             => items[call[c].key].size > MaxSize]_vars
  BY <1>1, Zenon
<1> QED  BY <1>2, Invariance, PTL DEF Spec, FreshEntrySurvives
=============================================================================
