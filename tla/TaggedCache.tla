---------------------------- MODULE TaggedCache ----------------------------
(***************************************************************************)
(* A Cache in local mode (src/cache.go) with its tag index (src/tags.go):  *)
(* the memory store composed with the callers of Cache and with the        *)
(* callbacks that clean up the tags of keys the store has dropped.         *)
(*                                                                         *)
(* SetWithTags, Delete and InvalidateTag change the store first and the    *)
(* index afterwards, under different locks.  evictLocked starts a          *)
(* goroutine for OnEvict, which runs at any later time; OnExpire runs in   *)
(* the sweeper once it has released the shard.  Entries that Get, Exists,  *)
(* TTL and Incr find expired are removed without a callback.               *)
(***************************************************************************)
EXTENDS MemoryStore

CONSTANTS
  Tags,
  MaxCallbacks  \* bound on OnEvict goroutines that wait when a Set or Incr begins

ASSUME MaxCallbacksAssumption == MaxCallbacks \in Nat

VARIABLES
  keyToTags,  \* keyToTags[k]: the tags of k; {} when the map has no k
  tagToKeys,  \* tagToKeys[t]: the keys with tag t; {} when the map has no t
  op,         \* op[c]: the call of Cache that goroutine c is in
  callbacks,  \* callbacks[k]: OnEvict goroutines started for k and not done
  unnoticed   \* history: keys not in the store whose going no cleanup of
              \* their tags will follow

index == <<keyToTags, tagToKeys>>
tagVars == <<vars, index, op, callbacks, unnoticed>>

NoOp == [pc |-> "idle"]

TagInit ==
  /\ Init
  /\ keyToTags = [k \in Keys |-> {}]
  /\ tagToKeys = [t \in Tags |-> {}]
  /\ op = [c \in Clients |-> NoOp]
  /\ callbacks = [k \in Keys |-> 0]
  /\ unnoticed = {}

-----------------------------------------------------------------------------
\* tagIndex

\* Mutant: the tags the key had before stay behind.
Add_KeepsOldTags(k, tags) ==
  /\ keyToTags' = [keyToTags EXCEPT ![k] = tags]
  /\ tagToKeys' = [t \in Tags |-> IF t \in tags THEN tagToKeys[t] \cup {k} ELSE tagToKeys[t]]

Add(k, tags) ==
  /\ keyToTags' = [keyToTags EXCEPT ![k] = tags]
  /\ tagToKeys' = [t \in Tags |->
       IF t \in tags THEN tagToKeys[t] \cup {k}
       ELSE IF t \in keyToTags[k] THEN tagToKeys[t] \ {k} ELSE tagToKeys[t]]

Remove(k) ==
  /\ keyToTags' = [keyToTags EXCEPT ![k] = {}]
  /\ tagToKeys' = [t \in Tags |->
       IF t \in keyToTags[k] THEN tagToKeys[t] \ {k} ELSE tagToKeys[t]]

-----------------------------------------------------------------------------
\* Calls of Cache

Free(c) == op[c] = NoOp /\ call[c] = Idle

\* No callback tells of an entry that a call drops because it is expired.
DropUnnoticed == unnoticed' = {k \in Keys : ~Has(k)' /\ (Has(k) \/ k \in unnoticed)}

MayEvictMore == \A k \in Keys : callbacks[k] <= MaxCallbacks

\* Set (no tags) and SetWithTags: first the store ...
SetWithTags(c, k, v, ttl, tags) ==
  /\ Free(c) /\ MayEvictMore
  /\ SetCall(c, k, v, ttl)
  /\ op' = [op EXCEPT ![c] = [pc |-> "set", key |-> k, tags |-> tags]]
  /\ UNCHANGED <<index, callbacks, unnoticed>>

\* The index is next once the store's Set has returned.
AfterStore(c) ==
  op' = IF op[c].pc = "set" /\ call'[c] = Idle
        THEN [op EXCEPT ![c] = IF @.tags = {} THEN NoOp ELSE [@ EXCEPT !.pc = "add"]]
        ELSE op

StoreStep(c) ==
  /\ SetCommit(c) \/ Recheck(c)
  /\ AfterStore(c)
  /\ DropUnnoticed
  /\ UNCHANGED <<index, callbacks>>

\* evictLocked starts a goroutine with OnEvict for its victim.
EvictStep(c) ==
  /\ EvictOne(c)
  /\ AfterStore(c)
  /\ LET k == Back(lru[ShardOf[call[c].key]]) IN
     callbacks' = [callbacks EXCEPT ![k] = @ + 1]
  /\ UNCHANGED <<index, unnoticed>>

\* ... then the index, where the key may be gone again by now.
AddTags(c) ==
  /\ op[c].pc = "add"
  /\ Add(op[c].key, op[c].tags)
  /\ op' = [op EXCEPT ![c] = NoOp]
  /\ unnoticed' = IF Has(op[c].key) THEN unnoticed ELSE unnoticed \cup {op[c].key}
  /\ UNCHANGED <<vars, callbacks>>

\* Delete is one turn of the loop of InvalidateTag.
DeleteCall(c, k) ==
  /\ Free(c)
  /\ op' = [op EXCEPT ![c] = [pc |-> "delete", todo |-> {k}]]
  /\ UNCHANGED <<vars, index, callbacks, unnoticed>>

InvalidateTag(c, t) ==
  /\ Free(c)
  /\ tagToKeys[t] # {}
  /\ op' = [op EXCEPT ![c] = [pc |-> "delete", todo |-> tagToKeys[t]]]
  /\ UNCHANGED <<vars, index, callbacks, unnoticed>>

DeleteStep(c) ==
  /\ op[c].pc = "delete"
  /\ \E k \in op[c].todo :
       /\ Delete(k)
       /\ op' = [op EXCEPT ![c] = [pc |-> "untag", key |-> k, todo |-> @.todo \ {k}]]
  /\ UNCHANGED <<index, callbacks, unnoticed>>

\* Mutant: Delete leaves the tags to the callbacks.
Untag_Skipped(c) ==
  /\ op[c].pc = "untag"
  /\ op' = [op EXCEPT ![c] = IF @.todo = {} THEN NoOp
                             ELSE [pc |-> "delete", todo |-> @.todo]]
  /\ UNCHANGED <<vars, index, callbacks, unnoticed>>

Untag(c) ==
  /\ op[c].pc = "untag"
  /\ Remove(op[c].key)
  /\ op' = [op EXCEPT ![c] = IF @.todo = {} THEN NoOp
                             ELSE [pc |-> "delete", todo |-> @.todo]]
  /\ UNCHANGED <<vars, callbacks, unnoticed>>

\* Calls that do not touch the index.
PlainCall(c, k) ==
  /\ Free(c)
  /\ \/ Get(k)
     \/ Exists(c, k)
     \/ TTL(c, k)
     \/ MayEvictMore /\ \E d \in Deltas, ttl \in TTLs : Incr(c, k, d, ttl)
  /\ DropUnnoticed
  /\ UNCHANGED <<index, op, callbacks>>

-----------------------------------------------------------------------------
\* Callbacks and background work

EvictCallback(k) ==
  /\ callbacks[k] > 0
  /\ callbacks' = [callbacks EXCEPT ![k] = @ - 1]
  /\ Remove(k)
  /\ UNCHANGED <<vars, op, unnoticed>>

\* OnExpire, in the sweeper.
ExpireCallback(k) ==
  /\ SweepFire(k)
  /\ Remove(k)
  /\ UNCHANGED <<op, callbacks, unnoticed>>

Background ==
  /\ \/ Tick
     \/ SweepStart \/ SweepLock \/ SweepUnlock \/ SweepNextShard
     \/ \E k \in Keys : SweepRemove(k)
  /\ UNCHANGED <<index, op, callbacks, unnoticed>>

\* GetOrSet, MGet and MSet are sequences of these calls, Decr is Incr of -d.
TagNext ==
  \/ Background
  \/ \E k \in Keys : EvictCallback(k) \/ ExpireCallback(k)
  \/ \E c \in Clients :
       \/ StoreStep(c) \/ EvictStep(c) \/ AddTags(c) \/ DeleteStep(c) \/ Untag(c)
       \/ \E t \in Tags : InvalidateTag(c, t)
       \/ \E k \in Keys : DeleteCall(c, k) \/ PlainCall(c, k)
       \/ \E k \in Keys, v \in Value, ttl \in TTLs, tags \in SUBSET Tags :
            SetWithTags(c, k, v, ttl, tags)

TagSpec == TagInit /\ [][TagNext]_tagVars

-----------------------------------------------------------------------------
\* Properties

\* The two maps of the index describe the same relation, whatever order
\* callers and callbacks update it in (tags.go, Add and Remove).
TagIndexConsistent ==
  \A k \in Keys, t \in Tags : t \in keyToTags[k] <=> k \in tagToKeys[t]

AtRest ==
  /\ \A c \in Clients : Free(c)
  /\ \A k \in Keys : callbacks[k] = 0
  /\ sweep.pc = "idle"

\* "When a key is deleted/evicted/expired, its tag associations are
\* automatically cleaned up": when no call and no callback is under way, a key
\* that has tags is in the store.  There are two ways around it and no third:
\* a read or an Incr that drops an expired entry (shard.go fires OnExpire in
\* the sweeper only), and a key that is gone before SetWithTags adds its tags.
TagsFollowKeys ==
  AtRest => \A k \in Keys : keyToTags[k] # {} => Has(k) \/ k \in unnoticed
=============================================================================
