----------------------------- MODULE LockEngine -----------------------------
(***************************************************************************)
(* The lock engine of one node (src/internal/lock/lock.go) and the calls   *)
(* of src/lock.go that use it when the key's owner is this node: Lock with *)
(* its retry loop, and Release and Extend of a LockHandle.                 *)
(*                                                                         *)
(* Each engine call is one critical section of Engine.mu.  The cleanup     *)
(* goroutine keeps the mutex while it visits the entries, and the clock    *)
(* runs meanwhile, so its loop is one action per entry.                    *)
(*                                                                         *)
(* A handle stays with its callers after the lease is over: any goroutine  *)
(* may release or extend it at any time, and more than once.  handles[n]   *)
(* is the handle that carries fencing token n.                             *)
(***************************************************************************)
EXTENDS Integers, Sequences, FiniteSets

CONSTANTS
  LockKeys,
  Callers,      \* goroutines that may be inside Lock at the same time
  LeaseTTLs,    \* TTLs callers pass; nothing in the code requires them > 0
  RetryCounts,
  NoLock,       \* locks[k] when the map has no k
  MaxFencing,   \* bound on the number of acquisitions
  MaxTime       \* bound on the clock

\* generateToken: 16 random bytes in hexadecimal, taken to be fresh.
Token(n) == <<"hex", n>>
Tokens == {"hex"} \X Nat

LockEntry == [token : Tokens, fencingToken : Nat, expiresAt : Int]

ASSUME LockArgumentsAssumption == LeaseTTLs \subseteq Int /\ RetryCounts \subseteq Int
ASSUME NoLockAssumption == NoLock \notin LockEntry
ASSUME LockBoundsAssumption == MaxFencing \in Nat /\ MaxTime \in Nat

VARIABLES
  locks,       \* locks[k]: the entry of k, or NoLock
  fencingSeq,
  cleaning,    \* entries the cleanup loop has still to visit
  call,        \* call[c]: where goroutine c is inside Lock
  handles,     \* handles[n]: the LockHandle with fencing token n
  now

engineVars == <<locks, fencingSeq, cleaning>>
vars == <<locks, fencingSeq, cleaning, call, handles, now>>

Returned == [pc |-> "returned"]

Call == {Returned}
          \cup [pc : {"attempt"}, key : LockKeys, ttl : LeaseTTLs, left : Nat]

\* key and token as in the code; deadline and released record what the last
\* Acquire, Extend or Release that succeeded for the handle told its caller.
Handle == [key : LockKeys, token : Tokens, deadline : Int, released : BOOLEAN]

Init ==
  /\ locks = [k \in LockKeys |-> NoLock]
  /\ fencingSeq = 0
  /\ cleaning = {}
  /\ call = [c \in Callers |-> Returned]
  /\ handles = <<>>
  /\ now = 1

-----------------------------------------------------------------------------
\* The engine

IsExpired(e) == now > e.expiresAt

IsHeld(k) == locks[k] # NoLock /\ ~IsExpired(locks[k])

\* Engine.mu is held across actions only by the cleanup loop.
Unlocked == cleaning = {}

\* Mutant: the fencing token is computed but the sequence is not advanced.
Acquire_SeqNotAdvanced(k, ttl) ==
  /\ ~IsHeld(k)
  /\ locks' = [locks EXCEPT ![k] = [token |-> Token(fencingSeq + 1),
                                    fencingToken |-> fencingSeq + 1,
                                    expiresAt |-> now + ttl]]
  /\ handles' = Append(handles, [key |-> k, token |-> Token(fencingSeq + 1),
                                 deadline |-> now + ttl, released |-> FALSE])
  /\ UNCHANGED fencingSeq

\* Mutant: a lock may be taken over at its deadline already.
Acquire_AtDeadline(k, ttl) ==
  /\ ~(locks[k] # NoLock /\ now < locks[k].expiresAt)
  /\ fencingSeq' = fencingSeq + 1
  /\ locks' = [locks EXCEPT ![k] = [token |-> Token(fencingSeq + 1),
                                    fencingToken |-> fencingSeq + 1,
                                    expiresAt |-> now + ttl]]
  /\ handles' = Append(handles, [key |-> k, token |-> Token(fencingSeq + 1),
                                 deadline |-> now + ttl, released |-> FALSE])

\* Acquire of a key that is not held; an expired entry is overwritten.
Acquire(k, ttl) ==
  /\ ~IsHeld(k)
  /\ fencingSeq' = fencingSeq + 1
  /\ locks' = [locks EXCEPT ![k] = [token |-> Token(fencingSeq + 1),
                                    fencingToken |-> fencingSeq + 1,
                                    expiresAt |-> now + ttl]]
  /\ handles' = Append(handles, [key |-> k, token |-> Token(fencingSeq + 1),
                                 deadline |-> now + ttl, released |-> FALSE])

Owns(k, token) == locks[k] # NoLock /\ locks[k].token = token

-----------------------------------------------------------------------------
\* Lock, with its retry loop

Pending == {c \in Callers : call[c] # Returned}

\* A negative retry count makes no attempt at all.
LockCall(c, k, ttl, retries) ==
  /\ call[c] = Returned
  /\ fencingSeq + Cardinality(Pending) < MaxFencing
  /\ retries >= 0
  /\ call' = [call EXCEPT ![c] = [pc |-> "attempt", key |-> k, ttl |-> ttl,
                                  left |-> retries]]
  /\ UNCHANGED <<engineVars, handles, now>>

\* Mutant: the last retry does not count.
Attempt_Forever(c) ==
  /\ call[c].pc = "attempt"
  /\ Unlocked
  /\ \/ /\ Acquire(call[c].key, call[c].ttl)
        /\ call' = [call EXCEPT ![c] = Returned]
     \/ /\ IsHeld(call[c].key)
        /\ call' = [call EXCEPT ![c].left = IF @ > 0 THEN @ - 1 ELSE 0]
        /\ UNCHANGED <<locks, fencingSeq, handles>>
  /\ UNCHANGED <<cleaning, now>>

\* One iteration: the lock, or another try after RetryDelay, or the error.
Attempt(c) ==
  /\ call[c].pc = "attempt"
  /\ Unlocked
  /\ \/ /\ Acquire(call[c].key, call[c].ttl)
        /\ call' = [call EXCEPT ![c] = Returned]
     \/ /\ IsHeld(call[c].key)
        /\ call' = [call EXCEPT ![c] = IF call[c].left > 0
                                       THEN [call[c] EXCEPT !.left = @ - 1]
                                       ELSE Returned]
        /\ UNCHANGED <<locks, fencingSeq, handles>>
  /\ UNCHANGED <<cleaning, now>>

-----------------------------------------------------------------------------
\* LockHandle.Release and Extend

\* A token that does not match changes nothing.
Release(n) ==
  LET k == handles[n].key IN
  /\ Unlocked
  /\ Owns(k, handles[n].token)
  /\ locks' = [locks EXCEPT ![k] = NoLock]
  /\ handles' = [handles EXCEPT ![n].released = TRUE]
  /\ UNCHANGED <<fencingSeq, cleaning, call, now>>

\* Mutant: a lock that is gone is given back to whoever extends it.
Extend_Revives(n, ttl) ==
  LET k == handles[n].key IN
  /\ Unlocked
  /\ IsHeld(k) => Owns(k, handles[n].token)
  /\ locks' = [locks EXCEPT ![k] = [token |-> handles[n].token, fencingToken |-> n,
                                    expiresAt |-> now + ttl]]
  /\ handles' = [handles EXCEPT ![n].deadline = now + ttl, ![n].released = FALSE]
  /\ UNCHANGED <<fencingSeq, cleaning, call, now>>

\* An expired lock is not extended even if nobody has taken it since.
Extend(n, ttl) ==
  LET k == handles[n].key IN
  /\ Unlocked
  /\ IsHeld(k)
  /\ Owns(k, handles[n].token)
  /\ locks' = [locks EXCEPT ![k].expiresAt = now + ttl]
  /\ handles' = [handles EXCEPT ![n].deadline = now + ttl]
  /\ UNCHANGED <<fencingSeq, cleaning, call, now>>

-----------------------------------------------------------------------------
\* The cleanup goroutine

\* The ticker fires: the mutex is taken if there is anything to visit.
CleanupStart ==
  /\ Unlocked
  /\ cleaning' = {k \in LockKeys : locks[k] # NoLock}
  /\ UNCHANGED <<locks, fencingSeq, call, handles, now>>

\* Mutant: every entry visited is deleted.
CleanupVisit_All(k) ==
  /\ k \in cleaning
  /\ locks' = [locks EXCEPT ![k] = NoLock]
  /\ cleaning' = cleaning \ {k}
  /\ UNCHANGED <<fencingSeq, call, handles, now>>

\* Mutant: no entry visited is deleted.
CleanupVisit_None(k) ==
  /\ k \in cleaning
  /\ cleaning' = cleaning \ {k}
  /\ UNCHANGED <<locks, fencingSeq, call, handles, now>>

CleanupVisit(k) ==
  /\ k \in cleaning
  /\ locks' = [locks EXCEPT ![k] = IF IsExpired(@) THEN NoLock ELSE @]
  /\ cleaning' = cleaning \ {k}
  /\ UNCHANGED <<fencingSeq, call, handles, now>>

Cleanup == CleanupStart \/ \E k \in LockKeys : CleanupVisit(k)

Tick ==
  /\ now < MaxTime
  /\ now' = now + 1
  /\ UNCHANGED <<engineVars, call, handles>>

Next ==
  \/ Tick
  \/ Cleanup
  \/ \E c \in Callers :
       \/ Attempt(c)
       \/ \E k \in LockKeys, ttl \in LeaseTTLs, r \in RetryCounts : LockCall(c, k, ttl, r)
  \/ \E n \in DOMAIN handles :
       \/ Release(n)
       \/ \E ttl \in LeaseTTLs : Extend(n, ttl)

Spec == Init /\ [][Next]_vars

\* Goroutines are scheduled, the ticker keeps firing, and sync.Mutex does not
\* starve a waiter.
Fairness ==
  /\ SF_vars(CleanupStart)
  /\ \A k \in LockKeys : WF_vars(CleanupVisit(k))
  /\ \A c \in Callers : SF_vars(Attempt(c))

FairSpec == Spec /\ Fairness

-----------------------------------------------------------------------------
\* Properties

\* The lease of handle n as its callers know it.
InForce(n) == ~handles[n].released /\ now <= handles[n].deadline

\* Types of the engine's state; handles are numbered by their fencing tokens.
TypeOK ==
  /\ locks \in [LockKeys -> LockEntry \cup {NoLock}]
  /\ fencingSeq \in Nat
  /\ cleaning \subseteq LockKeys
  /\ call \in [Callers -> Call]
  /\ handles \in Seq(Handle)
  /\ now \in Nat
  /\ Len(handles) = fencingSeq

\* Mutual exclusion: no two leases on one key are in force at the same time,
\* whatever stale handles are released or extended meanwhile (lock.go:
\* Acquire, Release, Extend).
OneHolder ==
  \A m, n \in DOMAIN handles :
    InForce(m) /\ InForce(n) /\ handles[m].key = handles[n].key => m = n

\* "Each lock acquisition produces a monotonically increasing uint64 fencing
\* token": whoever holds a lock has the highest token ever issued for it, so
\* a resource that remembers the highest token never rejects the holder.
HolderHasNewestToken ==
  \A m, n \in DOMAIN handles :
    InForce(n) /\ handles[m].key = handles[n].key => m <= n

\* IsHeld tells the truth: a lock is held exactly while some lease on it is
\* in force.  In particular no lease is cut short by the cleanup goroutine or
\* by another handle, and a released lock is free at once.
IsHeldExact ==
  \A k \in LockKeys :
    IsHeld(k) <=> \E n \in DOMAIN handles : handles[n].key = k /\ InForce(n)

\* "A background goroutine ... removes expired locks": an expired entry does
\* not stay for ever, even if nobody asks for its key again.
ExpiredLockReclaimed ==
  \A k \in LockKeys :
    (locks[k] # NoLock /\ IsExpired(locks[k]))
      ~> (locks[k] = NoLock \/ ~IsExpired(locks[k]))

\* Every call of Lock returns, with the lock or with ErrLockNotAcquired.
LockReturns == \A c \in Callers : call[c] # Returned ~> call[c] = Returned
=============================================================================
