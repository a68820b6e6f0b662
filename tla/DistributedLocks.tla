-------------------------- MODULE DistributedLocks --------------------------
(***************************************************************************)
(* Lock, LockHandle.Release and LockHandle.Extend over the nodes of a      *)
(* cluster (src/lock.go, the HandleLock methods of src/distributed.go),    *)
(* for one key.  Each node has a lock engine (LockEngine models one in     *)
(* detail), which is lost when the process ends.                           *)
(*                                                                         *)
(* A remote call is a request in flight, which its target processes at any *)
(* time, and an answer that arrives or does not; a call that times out     *)
(* leaves its request behind.  The random token an engine generates for a  *)
(* lease is named by the attempt that gets it.                             *)
(***************************************************************************)
EXTENDS Membership, FiniteSets

CONSTANTS
  Clients,      \* goroutines that call the cache
  Home,         \* Home[c]: the node on which c runs
  TTL,          \* the TTL of all leases
  RetryCount,
  NoLock,       \* the engine has no entry for the key
  MaxAttempts,  \* bound on the attempts that might get the lock
  MaxRequests,  \* bound on the requests in flight
  MaxTime       \* bound on the clock

ASSUME ClientsAssumption == Home \in [Clients -> Nodes]
ASSUME LockArgumentsAssumption == TTL \in Nat /\ RetryCount \in Nat
ASSUME NoLockAssumption == NoLock \notin [token : Nat, expiresAt : Nat]
ASSUME LockBoundsAssumption == {MaxAttempts, MaxRequests, MaxTime} \subseteq Nat

VARIABLES
  engine,    \* engine[n]: entry and fencingSeq of node n, and which process it is
  attempts,  \* how many of them might get or have got a token
  net,       \* requests in flight
  call,      \* call[c]: what c is doing
  handles,   \* the LockHandles
  now

lockVars == <<engine, attempts, net, call, handles, now>>
vars == <<memberVars, lockVars>>

Over == [pc |-> "over"]

NewEngine(boot) == [entry |-> NoLock, fencingSeq |-> 0, boot |-> boot]

Init ==
  /\ MemberInit
  /\ engine = [n \in Nodes |-> NewEngine(0)]
  /\ attempts = 0
  /\ net = {}
  /\ call = [c \in Clients |-> Over]
  /\ handles = {}
  /\ now = 1

\* A request that is lost is one that is never processed.
Request(op, n, token, c) ==
  [op |-> op, to |-> n, token |-> token, by |-> c, start |-> IF op = "release" THEN 0 ELSE now]

Send(m) ==
  /\ Cardinality(net) < MaxRequests
  /\ m \notin net
  /\ net' = net \cup {m}

Waits(c, op, token) == call[c].pc = "wait" /\ call[c].op = op /\ call[c].token = token

-----------------------------------------------------------------------------
\* The engine of node n

IsHeld(n) == engine[n].entry # NoLock /\ now <= engine[n].entry.expiresAt
Owns(n, token) == engine[n].entry # NoLock /\ engine[n].entry.token = token

Granted(n, token) ==
  [engine EXCEPT ![n].entry = [token |-> token, expiresAt |-> now + TTL],
                 ![n].fencingSeq = @ + 1]

\* Mutant: the token is not compared.
Released_AnyToken(n, token) == [engine EXCEPT ![n].entry = NoLock]

Released(n, token) ==
  IF Owns(n, token) THEN [engine EXCEPT ![n].entry = NoLock] ELSE engine

\* Mutant: a lease that is gone is restored.
Extended_Revives(n, token) ==
  IF IsHeld(n) => Owns(n, token)
  THEN [engine EXCEPT ![n].entry = [token |-> token, expiresAt |-> now + TTL]] ELSE engine

Extended(n, token) ==
  IF IsHeld(n) /\ Owns(n, token)
  THEN [engine EXCEPT ![n].entry.expiresAt = now + TTL] ELSE engine

\* The handle for a lease that engine n grants to an attempt made at start.
\* Its deadline is when a holder who counts from there gives the lock up.
NewHandle(c, n, token, start) ==
  [token |-> token, home |-> Home[c], at |-> n, boot |-> engine[n].boot,
   fencing |-> engine[n].fencingSeq + 1, deadline |-> start + TTL, state |-> "held"]

Handle(token) == CHOOSE h \in handles : h.token = token
Updated(token, h) == {IF g.token = token THEN h ELSE g : g \in handles}
GivenUp(h) == [h EXCEPT !.state = IF @ = "released" THEN @ ELSE "releasing"]
Freed(h) == [h EXCEPT !.state = "released"]
Prolonged(h, start) == [h EXCEPT !.deadline = IF h.state = "held" THEN start + TTL ELSE @]

-----------------------------------------------------------------------------
\* Lock

\* The lock is held: another attempt after RetryDelay, or ErrLockNotAcquired.
Denied(c, left) ==
  [call EXCEPT ![c] = IF left > 0 THEN [pc |-> "again", left |-> left - 1] ELSE Over]

Named(token) == attempts < MaxAttempts /\ attempts' = token

\* An iteration of the loop.  Each asks ownerAddr again.
Attempt(c, left) ==
  LET n == Home[c]
      o == ownerAddr(n)
      token == attempts + 1
  IN  /\ \/ /\ o = n /\ ~IsHeld(n)
            /\ Named(token)
            /\ engine' = Granted(n, token)
            /\ handles' = handles \cup {NewHandle(c, n, token, now)}
            /\ call' = [call EXCEPT ![c] = Over]
            /\ UNCHANGED net
         \/ /\ o = n /\ IsHeld(n)
            /\ call' = Denied(c, left)
            /\ UNCHANGED <<engine, attempts, handles, net>>
         \/ /\ o # n
            /\ Named(token)
            /\ Send(Request("acquire", o, token, c))
            /\ call' = [call EXCEPT ![c] = [pc |-> "wait", op |-> "acquire", token |-> token,
                                            left |-> left]]
            /\ UNCHANGED <<engine, handles>>
      /\ UNCHANGED <<memberVars, now>>

Lock(c) == call[c] = Over /\ up[Home[c]] = "running" /\ Attempt(c, RetryCount)

Retry(c) == call[c].pc = "again" /\ Attempt(c, call[c].left)

-----------------------------------------------------------------------------
\* LockHandle.Release and Extend, which go to the engine that granted the lease

\* A request that c has just made again is not told apart from the first.
Ask(c, op, h) ==
  /\ Send(Request(op, h.at, h.token, c))
  /\ call' = [call EXCEPT ![c] = [pc |-> "wait", op |-> op, token |-> h.token]]

\* The holder no longer relies on the lock once it calls Release.
Release(c, h) ==
  /\ call[c] = Over /\ up[h.home] # "down" /\ Home[c] = h.home
  /\ \/ /\ h.at = h.home
        /\ engine' = Released(h.at, h.token)
        /\ handles' = Updated(h.token, IF Owns(h.at, h.token) THEN Freed(h) ELSE GivenUp(h))
        /\ UNCHANGED <<net, call>>
     \/ /\ h.at # h.home
        /\ Ask(c, "release", h)
        /\ handles' = Updated(h.token, GivenUp(h))
        /\ UNCHANGED engine
  /\ UNCHANGED <<memberVars, attempts, now>>

Extend(c, h) ==
  /\ call[c] = Over /\ up[h.home] # "down" /\ Home[c] = h.home
  /\ \/ /\ h.at = h.home /\ IsHeld(h.at) /\ Owns(h.at, h.token)
        /\ engine' = Extended(h.at, h.token)
        /\ handles' = Updated(h.token, Prolonged(h, now))
        /\ UNCHANGED <<net, call>>
     \/ /\ h.at # h.home
        /\ Ask(c, "extend", h)
        /\ UNCHANGED <<engine, handles>>
  /\ UNCHANGED <<memberVars, attempts, now>>

-----------------------------------------------------------------------------
\* Requests

Processes(m) == m \in net /\ up[m.to] # "down" /\ net' = net \ {m}

Answers(m, answered) == answered /\ Waits(m.by, m.op, m.token)

\* HandleLockAcquire.  A lease whose answer is lost belongs to nobody.
HandleLockAcquire(m, answered) ==
  /\ m.op = "acquire" /\ Processes(m)
  /\ engine' = IF IsHeld(m.to) THEN engine ELSE Granted(m.to, m.token)
  /\ IF Answers(m, answered)
     THEN IF IsHeld(m.to)
          THEN call' = Denied(m.by, call[m.by].left) /\ UNCHANGED handles
          ELSE /\ handles' = handles \cup {NewHandle(m.by, m.to, m.token, m.start)}
               /\ call' = [call EXCEPT ![m.by] = Over]
     ELSE UNCHANGED <<call, handles>>
  /\ UNCHANGED <<memberVars, attempts, now>>

HandleLockRelease(m, answered) ==
  /\ m.op = "release" /\ Processes(m)
  /\ engine' = Released(m.to, m.token)
  /\ IF Answers(m, answered)
     THEN /\ handles' = IF Owns(m.to, m.token)
                        THEN Updated(m.token, Freed(Handle(m.token)))
                        ELSE handles
          /\ call' = [call EXCEPT ![m.by] = Over]
     ELSE UNCHANGED <<call, handles>>
  /\ UNCHANGED <<memberVars, attempts, now>>

HandleLockExtend(m, answered) ==
  /\ m.op = "extend" /\ Processes(m)
  /\ engine' = Extended(m.to, m.token)
  /\ IF Answers(m, answered)
     THEN /\ handles' = IF IsHeld(m.to) /\ Owns(m.to, m.token)
                        THEN Updated(m.token, Prolonged(Handle(m.token), m.start))
                        ELSE handles
          /\ call' = [call EXCEPT ![m.by] = Over]
     ELSE UNCHANGED <<call, handles>>
  /\ UNCHANGED <<memberVars, attempts, now>>

\* No answer in time, or no connection: the call returns the error at once,
\* Lock too, but the request may yet be processed.
CallFails(c) ==
  /\ call[c].pc = "wait"
  /\ call' = [call EXCEPT ![c] = Over]
  /\ UNCHANGED <<memberVars, engine, attempts, net, handles, now>>

-----------------------------------------------------------------------------
\* startCleanup's loop.
Cleanup(n) ==
  /\ up[n] = "running" /\ engine[n].entry # NoLock /\ ~IsHeld(n)
  /\ engine' = [engine EXCEPT ![n].entry = NoLock]
  /\ UNCHANGED <<memberVars, attempts, net, call, handles, now>>

Tick ==
  /\ now < MaxTime
  /\ now' = now + 1
  /\ UNCHANGED <<memberVars, engine, attempts, net, call, handles>>

\* A process ends with its calls and its handles, and so does its engine.
CrashNode(n) ==
  /\ Crash(n)
  /\ engine' = [engine EXCEPT ![n] = NewEngine(@.boot + 1)]
  /\ call' = [c \in Clients |-> IF Home[c] = n THEN Over ELSE call[c]]
  /\ handles' = {h \in handles : h.home # n}
  /\ UNCHANGED <<attempts, net, now>>

Next ==
  \/ Tick
  \/ \E c \in Clients :
       \/ Lock(c) \/ Retry(c) \/ CallFails(c)
       \/ \E h \in handles : Release(c, h) \/ Extend(c, h)
  \/ \E m \in net :
       \E answered \in BOOLEAN :
         \/ HandleLockAcquire(m, answered)
         \/ HandleLockRelease(m, answered)
         \/ HandleLockExtend(m, answered)
  \/ \E n \in Nodes : Cleanup(n) \/ CrashNode(n)
  \/ (MemberNext \/ \E n \in Nodes : Start(n)) /\ UNCHANGED lockVars

Spec == Init /\ [][Next]_vars

-----------------------------------------------------------------------------
\* Properties

InForce(h) == h.state = "held" /\ now <= h.deadline

\* Mutual exclusion and fencing across nodes, as far as the code has them:
\* as long as a holder who counts the TTL from its own call relies on its
\* lease, the engine that granted it holds the key for that lease and has not
\* issued a higher fencing token, whatever requests are processed late or
\* after their callers gave up.  So two holders at a time need two engines:
\* views of the ring that differ, or an owner that was restarted.
LeaseKept ==
  \A h \in handles :
    InForce(h) /\ engine[h.at].boot = h.boot
      => IsHeld(h.at) /\ Owns(h.at, h.token) /\ h.fencing = engine[h.at].fencingSeq

\* A Release that returned nil is final: no late or repeated Extend or Lock
\* request brings the lease back into any engine.
ReleaseIsFinal ==
  \A h \in handles : h.state = "released" => \A n \in Nodes : ~Owns(n, h.token)
=============================================================================
