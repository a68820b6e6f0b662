----------------------- MODULE DistributedLocksProofs -----------------------
(***************************************************************************)
(* Proofs about DistributedLocks and about the membership it builds on,    *)
(* for any nodes, clients, ring, TTL and retry count and for all bounds.   *)
(*                                                                         *)
(* LeaseKept and ReleaseIsFinal relate handles to engines, but late        *)
(* requests act on engines by token.  The inductive invariant says what    *)
(* a token can still do: one that is asked for has not been given out, one *)
(* that was given out names one handle and at most one entry, and a        *)
(* release is under way only for handles nobody relies on.                 *)
(***************************************************************************)
EXTENDS DistributedLocks, TLAPS

\* Every leaf is small; the provers get more than their default of 5 seconds
\* so that a slow machine does not matter.
USE SMTT(30), ZenonT(30)

-----------------------------------------------------------------------------
\* The membership

Events == [type : {"join", "leave"}, node : Nodes]
Statuses == {"unknown", "alive", "left"}

MemberInv ==
  /\ up \in [Nodes -> {"running", "shutdown", "down"}]
  /\ status \in [Nodes -> [Nodes -> Statuses]]
  /\ ring \in [Nodes -> SUBSET Nodes]
  /\ event \in [Nodes -> Events \cup {NoEvent}]
  /\ \A n \in Nodes : event[n] # NoEvent /\ event[n].type = "join"
                        => status[n][event[n].node] # "unknown"
  /\ \A n \in Nodes : up[n] = "down" => event[n] = NoEvent
  /\ RoutableOwners

LEMMA MemberInvInit == MemberInit => MemberInv
<1> SUFFICES ASSUME MemberInit PROVE MemberInv
  BY Zenon
<1>1. ring \in [Nodes -> SUBSET Nodes]
  BY DEF MemberInit
<1>2. /\ status \in [Nodes -> [Nodes -> Statuses]]
      /\ \A n \in Nodes : \A m \in ring[n] : status[n][m] # "unknown"
  BY <1>1, Zenon DEF MemberInit, Knows, Statuses
<1>3. event \in [Nodes -> Events \cup {NoEvent}] /\ \A n \in Nodes : event[n] = NoEvent
  BY Zenon DEF MemberInit
<1>4. up \in [Nodes -> {"running", "shutdown", "down"}]
  BY Zenon DEF MemberInit
<1> QED BY <1>1, <1>2, <1>3, <1>4, Zenon DEF MemberInv, RoutableOwners

\* The callbacks, starts and stops keep the invariant.
LEMMA MemberInvNext ==
  ASSUME MemberInv,
         MemberNext \/ (\E n \in Nodes : Start(n)) \/ (\E n \in Nodes : Crash(n))
                    \/ UNCHANGED memberVars
  PROVE  MemberInv'
<1> USE DEF MemberInv, RoutableOwners, Statuses
<1>1. ASSUME NEW n \in Nodes, UpdateRing(n) PROVE MemberInv'
  BY <1>1 DEF UpdateRing, NoEvent, Events
<1>2. ASSUME NEW n \in Nodes, Shutdown(n) PROVE MemberInv'
  BY <1>2, Zenon DEF Shutdown
<1>3. ASSUME NEW n \in Nodes, NEW m \in Nodes, NotifyJoin(n, m) PROVE MemberInv'
  BY <1>3, Zenon DEF NotifyJoin, NoEvent, Events
<1>4. ASSUME NEW n \in Nodes, NEW m \in Nodes, NotifyLeave(n, m) PROVE MemberInv'
  BY <1>4, Zenon DEF NotifyLeave, NoEvent, Events
<1>5. ASSUME NEW n \in Nodes, Start(n) PROVE MemberInv'
  BY <1>5, Zenon DEF Start, Knows
<1>6. ASSUME NEW n \in Nodes, Crash(n) PROVE MemberInv'
  BY <1>6, Zenon DEF Crash, Knows
<1>7. ASSUME UNCHANGED memberVars PROVE MemberInv'
  BY <1>7, Zenon DEF memberVars
<1> QED BY <1>1, <1>2, <1>3, <1>4, <1>5, <1>6, <1>7, Zenon DEF MemberNext

-----------------------------------------------------------------------------
\* The locks

Entry == [token : Nat, expiresAt : Nat]
Handles == [token : Nat, home : Nodes, at : Nodes, boot : Nat, fencing : Nat,
            deadline : Nat, state : {"held", "releasing", "released"}]
Requests == [op : {"acquire", "release", "extend"}, to : Nodes, token : Nat,
             by : Clients, start : Nat]

TypeInv ==
  /\ engine \in [Nodes -> [entry : Entry \cup {NoLock}, fencingSeq : Nat, boot : Nat]]
  /\ attempts \in Nat /\ now \in Nat
  /\ handles \subseteq Handles
  /\ net \subseteq Requests

\* Tokens are named before they are used, and a handle has its own.
TokenInv ==
  /\ \A h \in handles : h.token <= attempts
  /\ \A m \in net : m.token <= attempts
  /\ \A n \in Nodes : engine[n].entry # NoLock => engine[n].entry.token <= attempts
  /\ \A g, h \in handles : g.token = h.token => g = h

\* What an acquire request asks for has not been given out, nor is it asked
\* for twice.
FreshInv ==
  \A m \in net : m.op = "acquire" =>
    /\ \A h \in handles : h.token # m.token
    /\ \A n \in Nodes : ~Owns(n, m.token)
    /\ \A k \in net : k.token = m.token => k = m

\* An entry with the token of a handle is in the engine of that handle, and
\* no later token was issued there.
OwnInv ==
  \A h \in handles :
    /\ h.boot <= engine[h.at].boot
    /\ \A n \in Nodes : Owns(n, h.token) =>
         n = h.at /\ engine[n].boot = h.boot /\ engine[n].fencingSeq = h.fencing
    /\ h.state = "released" => \A n \in Nodes : ~Owns(n, h.token)

\* The engine keeps a lease at least as long as its holder relies on it.
LeaseInv ==
  \A h \in handles :
    /\ h.deadline <= now + TTL
    /\ InForce(h) /\ engine[h.at].boot = h.boot
         => Owns(h.at, h.token) /\ h.deadline <= engine[h.at].entry.expiresAt

\* Requests come from the past, and a release from a holder that has given up.
NetInv ==
  \A m \in net :
    /\ m.start <= now
    /\ m.op = "release" => \A h \in handles : h.token = m.token => h.state # "held"

LocksInv == TypeInv /\ TokenInv /\ FreshInv /\ OwnInv /\ LeaseInv /\ NetInv

IInv == MemberInv /\ LocksInv

LEMMA LocksInvInit == Init => LocksInv
  BY NoLockAssumption
  DEF Init, NewEngine, LocksInv, TypeInv, TokenInv, FreshInv, OwnInv, LeaseInv, NetInv, Entry

\* Steps that at most take a request out of the network.
LEMMA QuietStep ==
  ASSUME LocksInv, UNCHANGED <<engine, attempts, handles, now>>, net' \subseteq net
  PROVE  LocksInv'
  BY DEF LocksInv, TypeInv, TokenInv, FreshInv, OwnInv, LeaseInv, NetInv, Owns, InForce

LEMMA TickStep ==
  ASSUME LocksInv, Tick
  PROVE  LocksInv'
  BY LockArgumentsAssumption
  DEF Tick, LocksInv, TypeInv, TokenInv, FreshInv, OwnInv, LeaseInv, NetInv, Owns, InForce,
      Handles, Requests

\* Engine n loses an entry that is over, or all it has as its process ends.
LEMMA CleanupStep ==
  ASSUME LocksInv, NEW n \in Nodes, Cleanup(n)
  PROVE  LocksInv'
<1> USE DEF Cleanup, LocksInv, Owns, Entry, Handles
<1>1. TypeInv'
  BY Zenon DEF TypeInv
<1>2. TokenInv' /\ FreshInv' /\ NetInv'
  BY DEF TypeInv, TokenInv, FreshInv, NetInv
<1>3. OwnInv'
  BY DEF TypeInv, OwnInv
<1>4. LeaseInv'
  BY LockArgumentsAssumption DEF TypeInv, LeaseInv, InForce, IsHeld
<1> QED BY <1>1, <1>2, <1>3, <1>4, Zenon

LEMMA CrashStep ==
  ASSUME LocksInv, NEW n \in Nodes, CrashNode(n)
  PROVE  LocksInv'
<1> USE DEF CrashNode, NewEngine, LocksInv, Owns, Entry, Handles
<1>1. TypeInv'
  BY DEF TypeInv
<1>2. TokenInv' /\ FreshInv' /\ NetInv'
  BY DEF TypeInv, TokenInv, FreshInv, NetInv
<1>3. OwnInv'
  BY DEF TypeInv, OwnInv
<1>4. LeaseInv'
  BY DEF TypeInv, OwnInv, LeaseInv, InForce
<1> QED BY <1>1, <1>2, <1>3, <1>4, Zenon

\* Engine n grants a lease under a token that nobody has; the answer reaches
\* its caller or does not.
LEMMA GrantStep ==
  ASSUME LocksInv, NEW n \in Nodes, NEW c \in Clients, NEW t \in Nat, NEW start \in Nat,
         ~IsHeld(n),
         \A h \in handles : h.token # t,
         \A k \in Nodes : ~Owns(k, t),
         \A m \in net' : m.token # t,
         net' \subseteq net,
         attempts' \in Nat, attempts <= attempts', t <= attempts',
         start <= now, now' = now,
         engine' = Granted(n, t),
         handles' = handles \/ handles' = handles \cup {NewHandle(c, n, t, start)}
  PROVE  LocksInv'
<1>0. PICK h0 : h0 = NewHandle(c, n, t, start)
  BY Zenon
<1> USE LockArgumentsAssumption, ClientsAssumption
<1>1. /\ engine'[n].entry = [token |-> t, expiresAt |-> now + TTL]
      /\ engine'[n].fencingSeq = engine[n].fencingSeq + 1
      /\ engine'[n].boot = engine[n].boot
      /\ \A k \in Nodes \ {n} : engine'[k] = engine[k]
      /\ engine' \in [Nodes -> [entry : Entry \cup {NoLock}, fencingSeq : Nat, boot : Nat]]
  BY DEF Granted, LocksInv, TypeInv, Entry
<1>2. /\ h0 \in Handles
      /\ h0.token = t /\ h0.at = n /\ h0.boot = engine[n].boot /\ h0.state = "held"
      /\ h0.fencing = engine[n].fencingSeq + 1 /\ h0.deadline = start + TTL
  BY <1>0 DEF NewHandle, Handles, LocksInv, TypeInv
<1>3. /\ [token |-> t, expiresAt |-> now + TTL] # NoLock
      /\ \A x : Owns(n, x)' <=> x = t
      /\ \A k \in Nodes \ {n} : \A x : Owns(k, x)' <=> Owns(k, x)
  BY <1>1, NoLockAssumption DEF Owns, LocksInv, TypeInv
<1>4. \A h \in handles' : h \in handles \/ h = h0
  BY <1>0, Zenon
<1>5. TypeInv'
  BY <1>1, <1>2, <1>4, Zenon DEF LocksInv, TypeInv
<1>6. TokenInv'
  <2>1. \A h \in handles' : h.token <= attempts'
    BY <1>2, <1>4 DEF LocksInv, TypeInv, TokenInv, Handles
  <2>2. \A m \in net' : m.token <= attempts'
    BY DEF LocksInv, TypeInv, TokenInv, Requests
  <2>3. \A k \in Nodes : engine'[k].entry # NoLock => engine'[k].entry.token <= attempts'
    BY <1>1 DEF LocksInv, TypeInv, TokenInv, Entry
  <2>4. \A g, h \in handles' : g.token = h.token => g = h
    BY <1>2, <1>4, Zenon DEF LocksInv, TokenInv
  <2> QED BY <2>1, <2>2, <2>3, <2>4, Zenon DEF TokenInv
<1>7. FreshInv'
  BY <1>2, <1>3, <1>4 DEF LocksInv, FreshInv
<1>8. OwnInv'
  <2>1. ASSUME NEW h \in handles PROVE OwnInv!(h)'
    BY <1>1, <1>3 DEF LocksInv, OwnInv, TypeInv, Handles
  <2>2. h0.boot <= engine'[h0.at].boot
    BY <1>1, <1>2 DEF LocksInv, TypeInv
  <2>3. \A k \in Nodes : Owns(k, h0.token)' =>
          k = h0.at /\ engine'[k].boot = h0.boot /\ engine'[k].fencingSeq = h0.fencing
    BY <1>1, <1>2, <1>3, Zenon
  <2> QED BY <1>2, <1>4, <2>1, <2>2, <2>3 DEF OwnInv
<1>9. LeaseInv'
  <2>1. ASSUME NEW h \in handles, InForce(h)', engine'[h.at].boot = h.boot
        PROVE  h.at # n /\ Owns(h.at, h.token) /\ h.deadline <= engine[h.at].entry.expiresAt
    <3>1. InForce(h) /\ h \in Handles /\ engine[h.at].boot = h.boot
      BY <1>1, <2>1, Zenon DEF InForce, LocksInv, TypeInv, Handles
    <3>2. Owns(h.at, h.token) /\ h.deadline <= engine[h.at].entry.expiresAt
      BY <3>1, Zenon DEF LocksInv, LeaseInv
    <3>3. h.at \in Nodes /\ engine[h.at].entry \in Entry
      BY <3>1, <3>2, Zenon DEF Handles, LocksInv, TypeInv, Owns
    <3>4. IsHeld(h.at)
      BY <3>1, <3>2, <3>3 DEF IsHeld, InForce, Owns, Handles, Entry, LocksInv, TypeInv
    <3> QED BY <3>2, <3>4, Zenon
  <2>2. ASSUME NEW h \in handles PROVE LeaseInv!(h)'
    BY <1>1, <1>3, <2>1, Zenon DEF LocksInv, LeaseInv, TypeInv, Handles
  <2>3. h0.deadline <= now + TTL
    BY <1>2 DEF LocksInv, TypeInv
  <2>4. Owns(h0.at, h0.token)' /\ h0.deadline <= engine'[h0.at].entry.expiresAt
    BY <1>1, <1>2, <1>3, <2>3
  <2> QED BY <1>4, <2>2, <2>3, <2>4, Zenon DEF LeaseInv
<1>10. NetInv'
  <2>1. ASSUME NEW m \in net' PROVE m.start <= now' 
    BY Zenon DEF LocksInv, NetInv
  <2>2. ASSUME NEW m \in net', m.op = "release", NEW h \in handles', h.token = m.token
        PROVE  h.state # "held"
    BY <1>2, <1>4, <2>2, Zenon DEF LocksInv, NetInv
  <2> QED BY <2>1, <2>2, Zenon DEF NetInv
<1> QED BY <1>5, <1>6, <1>7, <1>8, <1>9, <1>10, Zenon DEF LocksInv

\* A request for a new token.
LEMMA SendAcquireStep ==
  ASSUME LocksInv, NEW n \in Nodes, NEW c \in Clients,
         attempts' = attempts + 1,
         net' = net \cup {Request("acquire", n, attempts + 1, c)},
         UNCHANGED <<engine, handles, now>>
  PROVE  LocksInv'
<1>0. PICK m0 : m0 = Request("acquire", n, attempts + 1, c)
  BY Zenon
<1>1. m0 \in Requests /\ m0.token = attempts + 1 /\ m0.start = now /\ m0.op = "acquire"
  BY <1>0 DEF Request, Requests, LocksInv, TypeInv
<1>2. \A m \in net' : m \in net \/ m = m0
  BY <1>0, Zenon
<1>3. TypeInv'
  BY <1>1, <1>2 DEF LocksInv, TypeInv
<1>4. TokenInv'
  BY <1>1, <1>2 DEF LocksInv, TypeInv, TokenInv, Handles, Requests, Entry
<1>5. FreshInv'
  <2>1. \A h \in handles : h.token # attempts + 1
    BY DEF LocksInv, TypeInv, TokenInv, Handles
  <2>2. \A m \in net : m.token # attempts + 1
    BY DEF LocksInv, TypeInv, TokenInv, Requests
  <2>3. \A k \in Nodes : ~Owns(k, attempts + 1)
    BY DEF LocksInv, TypeInv, TokenInv, Entry, Owns
  <2> QED BY <1>1, <1>2, <2>1, <2>2, <2>3 DEF LocksInv, FreshInv, Owns
<1>6. OwnInv' /\ LeaseInv'
  BY DEF LocksInv, OwnInv, LeaseInv, Owns, InForce
<1>7. NetInv'
  BY <1>1, <1>2 DEF LocksInv, TypeInv, NetInv
<1> QED BY <1>3, <1>4, <1>5, <1>6, <1>7, Zenon DEF LocksInv

\* A request to extend a lease.
LEMMA SendExtendStep ==
  ASSUME LocksInv, NEW h \in handles, NEW c \in Clients,
         net' = net \cup {Request("extend", h.at, h.token, c)},
         UNCHANGED <<engine, attempts, handles, now>>
  PROVE  LocksInv'
<1>0. PICK m0 : m0 = Request("extend", h.at, h.token, c)
  BY Zenon
<1>1. m0 \in Requests /\ m0.token = h.token /\ m0.start = now /\ m0.op = "extend"
  BY <1>0, Zenon DEF Request, Requests, LocksInv, TypeInv, Handles
<1>2. \A m \in net' : m \in net \/ m = m0
  BY <1>0, Zenon
<1>3. TypeInv' /\ TokenInv'
  BY <1>1, <1>2, Zenon DEF LocksInv, TypeInv, TokenInv
<1>4. FreshInv'
  BY <1>1, <1>2 DEF LocksInv, FreshInv, Owns
<1>5. OwnInv' /\ LeaseInv'
  BY DEF LocksInv, OwnInv, LeaseInv, Owns, InForce
<1>6. NetInv'
  BY <1>1, <1>2 DEF LocksInv, TypeInv, NetInv
<1> QED BY <1>3, <1>4, <1>5, <1>6, Zenon DEF LocksInv

-----------------------------------------------------------------------------
\* Steps that change a handle

\* Updated changes one handle, because no other has its token.
LEMMA UpdatedOne ==
  ASSUME LocksInv, NEW h \in handles, NEW g
  PROVE  Updated(h.token, g) = (handles \ {h}) \cup {g}
  BY Zenon DEF Updated, LocksInv, TokenInv

\* Without a handle there is nothing to update.
LEMMA UpdatedNone ==
  ASSUME NEW t, NEW g, \A h \in handles : h.token # t
  PROVE  Updated(t, g) = handles
  BY Zenon DEF Updated

LEMMA HandleIs ==
  ASSUME LocksInv, NEW h \in handles
  PROVE  Handle(h.token) = h
  BY Zenon DEF Handle, LocksInv, TokenInv

\* The holder has called Release: nobody relies on h any longer.
LEMMA GiveUpStep ==
  ASSUME LocksInv, NEW h \in handles, NEW c \in Clients,
         net' = net \cup {Request("release", h.at, h.token, c)},
         handles' = Updated(h.token, GivenUp(h)),
         UNCHANGED <<engine, attempts, now>>
  PROVE  LocksInv'
<1>0. PICK m0, g : /\ m0 = Request("release", h.at, h.token, c)
                   /\ g = GivenUp(h)
  BY Zenon
<1>1. m0 \in Requests /\ m0.token = h.token /\ m0.start = 0 /\ m0.op = "release"
  BY <1>0, Zenon DEF Request, Requests, LocksInv, TypeInv, Handles
<1>2. /\ g \in Handles /\ g.state # "held" /\ (g.state = "released" => h.state = "released")
      /\ g.token = h.token /\ g.at = h.at /\ g.boot = h.boot /\ g.fencing = h.fencing
      /\ g.deadline = h.deadline
  BY <1>0, Zenon DEF Handles, LocksInv, TypeInv, GivenUp
<1>3. \A m \in net' : m \in net \/ m = m0
  BY <1>0, Zenon
<1>4. handles' = (handles \ {h}) \cup {g}
  BY <1>0, UpdatedOne, Zenon
<1>5. \A x \in handles \ {h} : x.token # h.token
  BY Zenon DEF LocksInv, TokenInv
<1>6. TypeInv'
  BY <1>1, <1>2, <1>3, <1>4, Zenon DEF LocksInv, TypeInv
<1>7. TokenInv'
  BY <1>1, <1>2, <1>3, <1>4, <1>5, Zenon DEF LocksInv, TokenInv
<1>8. FreshInv'
  BY <1>1, <1>2, <1>3, <1>4 DEF LocksInv, FreshInv, Owns
<1>9. OwnInv'
  BY <1>2, <1>4 DEF LocksInv, OwnInv, Owns
<1>10. LeaseInv'
  BY <1>2, <1>4, Zenon DEF LocksInv, LeaseInv, Owns, InForce
<1>11. NetInv'
  BY <1>1, <1>2, <1>3, <1>4, <1>5 DEF LocksInv, TypeInv, NetInv
<1> QED BY <1>6, <1>7, <1>8, <1>9, <1>10, <1>11, Zenon DEF LocksInv

\* Engine n is told to release token t, for a handle that the holder gives up
\* or has given up.
LEMMA ReleaseStep ==
  ASSUME LocksInv, NEW n \in Nodes, NEW t \in Nat,
         engine' = Released(n, t), net' \subseteq net, UNCHANGED <<attempts, now>>,
         \/ handles' = handles /\ \A h \in handles : h.token = t => h.state # "held"
         \/ \E h \in handles : h.token = t /\ handles' = Updated(t, GivenUp(h))
         \/ \E h \in handles : h.token = t /\ Owns(n, t) /\ handles' = Updated(t, Freed(h))
  PROVE  LocksInv'
<1>1. /\ engine' \in [Nodes -> [entry : Entry \cup {NoLock}, fencingSeq : Nat, boot : Nat]]
      /\ \A k \in Nodes : /\ engine'[k].boot = engine[k].boot
                          /\ engine'[k].fencingSeq = engine[k].fencingSeq
                          /\ engine'[k].entry = NoLock \/ engine'[k].entry = engine[k].entry
      /\ \A k \in Nodes : ~Owns(k, t) => engine'[k].entry = engine[k].entry
      /\ ~Owns(n, t)'
  BY Zenon DEF Released, Owns, LocksInv, TypeInv
<1>2. \A k \in Nodes : \A x : /\ Owns(k, x)' => Owns(k, x)
                              /\ Owns(k, x) /\ x # t => Owns(k, x)'
  BY <1>1, Zenon DEF Owns
<1> DEFINE Was(x, h) == /\ x \in Handles /\ h \in Handles
                        /\ x.token = h.token /\ x.at = h.at /\ x.boot = h.boot
                        /\ x.fencing = h.fencing /\ x.deadline = h.deadline
                        /\ x.state = "held" => x = h /\ x.token # t
                        /\ x.state = "released"
                             => h.state = "released" \/ (x.token = t /\ Owns(n, t))
<1>3. /\ \A x, y \in handles' : x.token = y.token => x = y
      /\ \A x \in handles' : \E h \in handles : Was(x, h)
  <2>1. CASE handles' = handles /\ \A h \in handles : h.token = t => h.state # "held"
    BY <2>1, Zenon DEF LocksInv, TypeInv, TokenInv
  <2>2. ASSUME NEW h \in handles, NEW g, h.token = t,
               g = GivenUp(h) \/ (g = Freed(h) /\ Owns(n, t)),
               handles' = Updated(t, g)
        PROVE  <1>3
    <3>1. /\ g \in Handles /\ h \in Handles /\ g.state # "held"
          /\ g.state = "released" => h.state = "released" \/ Owns(n, t)
          /\ g.token = t /\ g.at = h.at /\ g.boot = h.boot
          /\ g.fencing = h.fencing /\ g.deadline = h.deadline
      BY <2>2, Zenon DEF LocksInv, TypeInv, Handles, GivenUp, Freed
    <3>2. handles' = (handles \ {h}) \cup {g}
      BY <2>2, UpdatedOne, Zenon
    <3>3. \A x \in handles \ {h} : x.token # t /\ Was(x, x)
      BY <2>2, Zenon DEF LocksInv, TypeInv, TokenInv
    <3>4. Was(g, h)
      BY <2>2, <3>1, Zenon
    <3> HIDE DEF Was
    <3>5. \A x, y \in handles' : x.token = y.token => x = y
      BY <3>1, <3>2, <3>3, Zenon DEF LocksInv, TokenInv
    <3>6. \A x \in handles' : \E k \in handles : Was(x, k)
      BY <3>2, <3>3, <3>4, Zenon
    <3> QED BY <3>5, <3>6, Zenon
  <2> QED BY <2>1, <2>2, Zenon
<1>4. TypeInv'
  BY <1>1, <1>3, Zenon DEF LocksInv, TypeInv
<1>5. TokenInv'
  BY <1>1, <1>3 DEF LocksInv, TypeInv, TokenInv
<1>6. FreshInv'
  BY <1>2, <1>3 DEF LocksInv, FreshInv
<1>7. OwnInv'
  <2>1. SUFFICES ASSUME NEW x \in handles' PROVE OwnInv!(x)'
    BY Zenon DEF OwnInv
  <2>2. PICK h \in handles : Was(x, h)
    BY <1>3, Zenon
  <2> QED BY <1>1, <1>2, <2>2 DEF LocksInv, OwnInv, Handles
<1>8. LeaseInv'
  <2>1. SUFFICES ASSUME NEW x \in handles' PROVE LeaseInv!(x)'
    BY Zenon DEF LeaseInv
  <2>2. PICK h \in handles : Was(x, h)
    BY <1>3
  <2>3. x.deadline <= now' + TTL
    BY <2>2, Zenon DEF LocksInv, LeaseInv
  <2>4. ASSUME InForce(x)', engine'[x.at].boot = x.boot
        PROVE  Owns(x.at, x.token)' /\ x.deadline <= engine'[x.at].entry.expiresAt
    <3>1. x = h /\ x.token # t /\ x.at \in Nodes
      BY <2>2, <2>4, Zenon DEF InForce, Handles
    <3>2. Owns(x.at, x.token) /\ x.deadline <= engine[x.at].entry.expiresAt
      BY <1>1, <2>4, <3>1, Zenon DEF LocksInv, LeaseInv, InForce
    <3> QED BY <1>1, <1>2, <3>1, <3>2, Zenon DEF Owns
  <2> QED BY <2>3, <2>4, Zenon
<1>9. NetInv'
  <2>1. ASSUME NEW m \in net', m.op = "release", NEW x \in handles', x.token = m.token
        PROVE  x.state # "held"
    BY <1>3, <2>1 DEF LocksInv, NetInv
  <2> QED BY <2>1, Zenon DEF LocksInv, NetInv
<1> QED BY <1>4, <1>5, <1>6, <1>7, <1>8, <1>9, Zenon DEF LocksInv

\* Engine n is told to extend token t; the answer reaches the holder, who had
\* asked at start, or does not.
LEMMA ExtendStep ==
  ASSUME LocksInv, NEW n \in Nodes, NEW t \in Nat, NEW start \in Nat, start <= now,
         engine' = Extended(n, t), net' \subseteq net, UNCHANGED <<attempts, now>>,
         \/ handles' = handles
         \/ \E h \in handles : /\ h.token = t /\ IsHeld(n) /\ Owns(n, t)
                               /\ handles' = Updated(t, Prolonged(h, start))
  PROVE  LocksInv'
<1> USE LockArgumentsAssumption
<1>a. CASE ~(IsHeld(n) /\ Owns(n, t))
  BY <1>a, QuietStep, Zenon DEF Extended
<1>b. CASE IsHeld(n) /\ Owns(n, t)
  <2>1. /\ engine' \in [Nodes -> [entry : Entry \cup {NoLock}, fencingSeq : Nat, boot : Nat]]
        /\ \A k \in Nodes : /\ engine'[k].boot = engine[k].boot
                            /\ engine'[k].fencingSeq = engine[k].fencingSeq
        /\ \A k \in Nodes \ {n} : engine'[k] = engine[k]
        /\ engine'[n].entry = [token |-> t, expiresAt |-> now + TTL]
    BY <1>b DEF Extended, Owns, LocksInv, TypeInv, Entry
  <2>2. \A k \in Nodes : \A x : Owns(k, x)' <=> Owns(k, x)
    BY <1>b, <2>1, NoLockAssumption DEF Owns, LocksInv, TypeInv
  <2> DEFINE Was(x, h) == /\ x \in Handles /\ h \in Handles
                          /\ x.token = h.token /\ x.at = h.at /\ x.boot = h.boot
                          /\ x.fencing = h.fencing /\ x.state = h.state
                          /\ x = h \/ (x.token = t /\ x.deadline \in {h.deadline, start + TTL})
  <2>3. /\ \A x, y \in handles' : x.token = y.token => x = y
        /\ \A x \in handles' : \E h \in handles : Was(x, h)
    <3>1. CASE handles' = handles
      BY <3>1, Zenon DEF LocksInv, TypeInv, TokenInv
    <3>2. ASSUME NEW h \in handles, h.token = t, handles' = Updated(t, Prolonged(h, start))
          PROVE  <2>3
      <4>1. PICK g : g = Prolonged(h, start)
        BY Zenon
      <4>2. /\ g \in Handles /\ h \in Handles /\ g.state = h.state
            /\ g.token = t /\ g.at = h.at /\ g.boot = h.boot /\ g.fencing = h.fencing
            /\ g.deadline \in {h.deadline, start + TTL}
        BY <3>2, <4>1 DEF LocksInv, TypeInv, Handles, Prolonged
      <4>3. handles' = (handles \ {h}) \cup {g}
        BY <3>2, <4>1, UpdatedOne, Zenon
      <4>4. \A x \in handles \ {h} : x.token # t /\ Was(x, x)
        BY <3>2, Zenon DEF LocksInv, TypeInv, TokenInv
      <4>5. Was(g, h)
        BY <3>2, <4>2, Zenon
      <4> HIDE DEF Was
      <4>6. \A x, y \in handles' : x.token = y.token => x = y
        BY <4>2, <4>3, <4>4, Zenon DEF LocksInv, TokenInv
      <4>7. \A x \in handles' : \E k \in handles : Was(x, k)
        BY <4>3, <4>4, <4>5, Zenon
      <4> QED BY <4>6, <4>7, Zenon
    <3> QED BY <3>1, <3>2, Zenon
  <2>4. \A x \in handles' : x \in Handles /\ \E h \in handles : Was(x, h)
    BY <2>3, Zenon
  <2>5. TypeInv'
    BY <2>1, <2>4, Zenon DEF LocksInv, TypeInv
  <2>6. TokenInv'
    BY <1>b, <2>1, <2>3, <2>4 DEF LocksInv, TypeInv, TokenInv, Owns
  <2>7. FreshInv' /\ NetInv'
    BY <2>2, <2>4 DEF LocksInv, FreshInv, NetInv
  <2>8. OwnInv'
    BY <2>1, <2>2, <2>4 DEF LocksInv, OwnInv, Handles
  <2>9. LeaseInv'
    <3>1. SUFFICES ASSUME NEW x \in handles' PROVE LeaseInv!(x)'
      BY Zenon DEF LeaseInv
    <3>2. PICK h \in handles : Was(x, h)
      BY <2>4, Zenon
    <3>3. x.deadline <= now + TTL
      BY <3>2 DEF LocksInv, LeaseInv, TypeInv, Handles
    <3>4. ASSUME InForce(x)', engine'[x.at].boot = x.boot
          PROVE  Owns(x.at, x.token)' /\ x.deadline <= engine'[x.at].entry.expiresAt
      <4>1. CASE x.token = t
        <5>1. x.at = n /\ Owns(n, x.token)
          BY <1>b, <3>2, <4>1, Zenon DEF LocksInv, OwnInv
        <5>2. engine'[x.at].entry.expiresAt = now + TTL
          BY <2>1, <5>1
        <5>3. Owns(x.at, x.token)'
          BY <2>2, <5>1, Zenon
        <5> QED BY <3>3, <5>2, <5>3, Zenon
      <4>2. CASE x.token # t
        <5>1. Owns(x.at, x.token) /\ x.deadline <= engine[x.at].entry.expiresAt
          BY <2>1, <3>2, <3>4, <4>2, Zenon DEF LocksInv, LeaseInv, InForce, Handles
        <5>2. x.at \in Nodes \ {n}
          BY <1>b, <3>2, <4>2, <5>1, Zenon DEF Owns, Handles
        <5> QED BY <2>1, <2>2, <5>1, <5>2, Zenon
      <4> QED BY <4>1, <4>2, Zenon
    <3> QED BY <3>3, <3>4, Zenon
  <2> QED BY <2>5, <2>6, <2>7, <2>8, <2>9, Zenon DEF LocksInv
<1> QED BY <1>a, <1>b, Zenon

-----------------------------------------------------------------------------
\* The actions

LEMMA OwnerIsNode ==
  ASSUME MemberInv, NEW n \in Nodes
  PROVE  ownerAddr(n) \in Nodes
  BY OwnerAssumption, Zenon DEF MemberInv, ownerAddr

LEMMA AttemptStep ==
  ASSUME IInv, NEW c \in Clients, NEW left, Attempt(c, left)
  PROVE  LocksInv'
<1> DEFINE n == Home[c]
           o == ownerAddr(n)
<1>0. n \in Nodes /\ o \in Nodes /\ LocksInv /\ attempts \in Nat /\ now \in Nat
  BY OwnerIsNode, ClientsAssumption, Zenon DEF IInv, LocksInv, TypeInv
<1> HIDE DEF n, o
<1>1. CASE /\ ~IsHeld(n) /\ attempts' = attempts + 1 /\ engine' = Granted(n, attempts + 1)
           /\ handles' = handles \cup {NewHandle(c, n, attempts + 1, now)}
           /\ UNCHANGED <<net, now>>
  <2>1. \A h \in handles : h.token # attempts + 1
    BY <1>0 DEF LocksInv, TypeInv, TokenInv, Handles
  <2>2. \A m \in net' : m.token # attempts + 1
    BY <1>0, <1>1 DEF LocksInv, TypeInv, TokenInv, Requests
  <2>3. \A k \in Nodes : ~Owns(k, attempts + 1)
    BY <1>0 DEF LocksInv, TypeInv, TokenInv, Entry, Owns
  <2>4. attempts + 1 \in Nat /\ attempts <= attempts + 1 /\ now <= now
    BY <1>0
  <2> QED BY <1>0, <1>1, <2>1, <2>2, <2>3, <2>4, GrantStep
<1>2. CASE UNCHANGED <<engine, attempts, handles, net, now>>
  BY <1>0, <1>2, QuietStep, Zenon
<1>3. CASE /\ attempts' = attempts + 1
           /\ net' = net \cup {Request("acquire", o, attempts + 1, c)}
           /\ UNCHANGED <<engine, handles, now>>
  BY <1>0, <1>3, SendAcquireStep, Zenon
<1> QED BY <1>1, <1>2, <1>3, Zenon DEF Attempt, Named, Send, n, o

LEMMA ReleaseAction ==
  ASSUME LocksInv, NEW c \in Clients, NEW h \in handles, Release(c, h)
  PROVE  LocksInv'
<1>0. h.at \in Nodes /\ h.token \in Nat
  BY Zenon DEF LocksInv, TypeInv, Handles
<1>1. CASE /\ engine' = Released(h.at, h.token)
           /\ handles' = Updated(h.token, IF Owns(h.at, h.token) THEN Freed(h) ELSE GivenUp(h))
           /\ UNCHANGED <<net, attempts, now>>
  <2>1. net' \subseteq net
    BY <1>1, Zenon
  <2>2. CASE Owns(h.at, h.token)
    BY <1>0, <1>1, <2>1, <2>2, ReleaseStep, Zenon
  <2>3. CASE ~Owns(h.at, h.token)
    BY <1>0, <1>1, <2>1, <2>3, ReleaseStep, Zenon
  <2> QED BY <2>2, <2>3, Zenon
<1>2. CASE /\ net' = net \cup {Request("release", h.at, h.token, c)}
           /\ handles' = Updated(h.token, GivenUp(h))
           /\ UNCHANGED <<engine, attempts, now>>
  BY <1>2, GiveUpStep, Zenon DEF Release
<1> QED BY <1>1, <1>2, Zenon DEF Release, Ask, Send

LEMMA ExtendAction ==
  ASSUME LocksInv, NEW c \in Clients, NEW h \in handles, Extend(c, h)
  PROVE  LocksInv'
<1>0. h.at \in Nodes /\ h.token \in Nat /\ now \in Nat /\ now <= now
  BY DEF LocksInv, TypeInv, Handles
<1>1. CASE /\ IsHeld(h.at) /\ Owns(h.at, h.token)
           /\ engine' = Extended(h.at, h.token)
           /\ handles' = Updated(h.token, Prolonged(h, now))
           /\ UNCHANGED <<net, attempts, now>>
  BY <1>0, <1>1, ExtendStep, Zenon
<1>2. CASE /\ net' = net \cup {Request("extend", h.at, h.token, c)}
           /\ UNCHANGED <<engine, attempts, handles, now>>
  BY <1>2, SendExtendStep, Zenon
<1> QED BY <1>1, <1>2, Zenon DEF Extend, Ask, Send

LEMMA AcquireAction ==
  ASSUME LocksInv, NEW m \in net, NEW answered, HandleLockAcquire(m, answered)
  PROVE  LocksInv'
<1>0. /\ m.to \in Nodes /\ m.token \in Nat /\ m.by \in Clients /\ m.start \in Nat
      /\ m.start <= now /\ m.token <= attempts /\ attempts \in Nat /\ attempts <= attempts
      /\ m.op = "acquire" /\ net' = net \ {m}
      /\ UNCHANGED <<attempts, now>>
  BY DEF LocksInv, TypeInv, TokenInv, NetInv, Requests, HandleLockAcquire, Processes
<1>1. CASE IsHeld(m.to)
  <2>1. engine' = engine /\ handles' = handles
    BY <1>1, Zenon DEF HandleLockAcquire
  <2> QED BY <1>0, <2>1, QuietStep, Zenon
<1>2. CASE ~IsHeld(m.to)
  <2>1. /\ engine' = Granted(m.to, m.token)
        /\ handles' = handles \/ handles' = handles \cup {NewHandle(m.by, m.to, m.token, m.start)}
    BY <1>2, Zenon DEF HandleLockAcquire
  <2>2. \A h \in handles : h.token # m.token
    BY <1>0, Zenon DEF LocksInv, FreshInv
  <2>3. \A k \in Nodes : ~Owns(k, m.token)
    BY <1>0, Zenon DEF LocksInv, FreshInv
  <2>4. net' \subseteq net /\ \A k \in net' : k.token # m.token
    BY <1>0, Zenon DEF LocksInv, FreshInv
  <2> QED BY <1>0, <1>2, <2>1, <2>2, <2>3, <2>4, GrantStep, Zenon
<1> QED BY <1>1, <1>2, Zenon

\* An answer for a token whose handle is gone changes none.
LEMMA ReleaseRequestAction ==
  ASSUME LocksInv, NEW m \in net, NEW answered, HandleLockRelease(m, answered)
  PROVE  LocksInv'
<1>0. /\ m.to \in Nodes /\ m.token \in Nat
      /\ engine' = Released(m.to, m.token) /\ net' \subseteq net
      /\ UNCHANGED <<attempts, now>>
      /\ \A h \in handles : h.token = m.token => h.state # "held"
  BY Zenon DEF LocksInv, TypeInv, NetInv, Requests, HandleLockRelease, Processes
<1>1. CASE handles' = handles
  BY <1>0, <1>1, ReleaseStep, Zenon
<1>2. CASE /\ Owns(m.to, m.token)
           /\ handles' = Updated(m.token, Freed(Handle(m.token)))
  <2>1. CASE \A h \in handles : h.token # m.token
    BY <1>1, <1>2, <2>1, UpdatedNone, Zenon
  <2>2. ASSUME NEW h \in handles, h.token = m.token PROVE LocksInv'
    <3>1. Handle(m.token) = h
      BY <2>2, HandleIs, Zenon
    <3> QED BY <1>0, <1>2, <2>2, <3>1, ReleaseStep, Zenon
  <2> QED BY <2>1, <2>2, Zenon
<1> QED BY <1>1, <1>2, Zenon DEF HandleLockRelease

LEMMA ExtendRequestAction ==
  ASSUME LocksInv, NEW m \in net, NEW answered, HandleLockExtend(m, answered)
  PROVE  LocksInv'
<1>0. /\ m.to \in Nodes /\ m.token \in Nat /\ m.start \in Nat /\ m.start <= now
      /\ engine' = Extended(m.to, m.token) /\ net' \subseteq net
      /\ UNCHANGED <<attempts, now>>
  BY Zenon DEF LocksInv, TypeInv, NetInv, Requests, HandleLockExtend, Processes
<1>1. CASE handles' = handles
  BY <1>0, <1>1, ExtendStep, Zenon
<1>2. CASE /\ IsHeld(m.to) /\ Owns(m.to, m.token)
           /\ handles' = Updated(m.token, Prolonged(Handle(m.token), m.start))
  <2>1. CASE \A h \in handles : h.token # m.token
    BY <1>1, <1>2, <2>1, UpdatedNone, Zenon
  <2>2. ASSUME NEW h \in handles, h.token = m.token PROVE LocksInv'
    <3>1. Handle(m.token) = h
      BY <2>2, HandleIs
    <3>2. \E g \in handles : /\ g.token = m.token /\ IsHeld(m.to) /\ Owns(m.to, m.token)
                             /\ handles' = Updated(m.token, Prolonged(g, m.start))
      BY <1>2, <2>2, <3>1, Zenon
    <3> QED BY <1>0, <3>2, ExtendStep, Zenon
  <2> QED BY <2>1, <2>2
<1> QED BY <1>1, <1>2, Zenon DEF HandleLockExtend

-----------------------------------------------------------------------------
\* The theorems

LEMMA IInvNext == IInv /\ [Next]_vars => IInv'
<1> SUFFICES ASSUME IInv, [Next]_vars PROVE IInv'
  BY Zenon
<1>0. MemberInv /\ LocksInv
  BY Zenon DEF IInv
<1> USE DEF IInv
<1>1. CASE Tick
  BY <1>0, <1>1, TickStep, MemberInvNext, Zenon DEF Tick
<1>2. ASSUME NEW c \in Clients, Lock(c) \/ Retry(c) PROVE IInv'
  <2>1. PICK left : Attempt(c, left)
    BY <1>2, Zenon DEF Lock, Retry
  <2>2. LocksInv'
    BY <2>1, AttemptStep, Zenon
  <2>3. UNCHANGED memberVars
    BY <2>1, Zenon DEF Attempt
  <2> QED BY <1>0, <2>2, <2>3, MemberInvNext, Zenon
<1>3. ASSUME NEW c \in Clients, CallFails(c) PROVE IInv'
  BY <1>0, <1>3, QuietStep, MemberInvNext, Zenon DEF CallFails
<1>4. ASSUME NEW c \in Clients, NEW h \in handles, Release(c, h) PROVE IInv'
  <2>1. UNCHANGED memberVars
    BY <1>4, Zenon DEF Release
  <2> QED BY <1>0, <1>4, <2>1, ReleaseAction, MemberInvNext, Zenon
<1>5. ASSUME NEW c \in Clients, NEW h \in handles, Extend(c, h) PROVE IInv'
  <2>1. UNCHANGED memberVars
    BY <1>5, Zenon DEF Extend
  <2> QED BY <1>0, <1>5, <2>1, ExtendAction, MemberInvNext
<1>6. ASSUME NEW m \in net, NEW answered \in BOOLEAN, HandleLockAcquire(m, answered) PROVE IInv'
  <2>1. UNCHANGED memberVars
    BY <1>6, Zenon DEF HandleLockAcquire
  <2> QED BY <1>0, <1>6, <2>1, AcquireAction, MemberInvNext, Zenon
<1>7. ASSUME NEW m \in net, NEW answered \in BOOLEAN, HandleLockRelease(m, answered) PROVE IInv'
  <2>1. UNCHANGED memberVars
    BY <1>7, Zenon DEF HandleLockRelease
  <2> QED BY <1>0, <1>7, <2>1, ReleaseRequestAction, MemberInvNext
<1>8. ASSUME NEW m \in net, NEW answered \in BOOLEAN, HandleLockExtend(m, answered) PROVE IInv'
  <2>1. UNCHANGED memberVars
    BY <1>8, Zenon DEF HandleLockExtend
  <2> QED BY <1>0, <1>8, <2>1, ExtendRequestAction, MemberInvNext
<1>9. ASSUME NEW n \in Nodes, Cleanup(n) PROVE IInv'
  <2>1. UNCHANGED memberVars
    BY <1>9, Zenon DEF Cleanup
  <2> QED BY <1>0, <1>9, <2>1, CleanupStep, MemberInvNext, Zenon
<1>10. ASSUME NEW n \in Nodes, CrashNode(n) PROVE IInv'
  <2>1. Crash(n)
    BY <1>10, Zenon DEF CrashNode
  <2> QED BY <1>0, <1>10, <2>1, CrashStep, MemberInvNext, Zenon
<1>11. CASE (MemberNext \/ \E n \in Nodes : Start(n)) /\ UNCHANGED lockVars
  <2>1. LocksInv'
    BY <1>0, <1>11, QuietStep, Zenon DEF lockVars
  <2> QED BY <1>0, <1>11, <2>1, MemberInvNext, Zenon
<1>12. CASE UNCHANGED vars
  <2>1. LocksInv'
    BY <1>0, <1>12, QuietStep, Zenon DEF vars, lockVars
  <2>2. UNCHANGED memberVars
    BY <1>12, Zenon DEF vars
  <2> QED BY <1>0, <2>1, <2>2, MemberInvNext, Zenon
<1> QED
  BY <1>1, <1>2, <1>3, <1>4, <1>5, <1>6, <1>7, <1>8, <1>9, <1>10, <1>11, <1>12, Zenon DEF Next

\* The inductive invariant holds throughout.
THEOREM Invariance == Spec => []IInv
<1>1. Init => IInv
  BY MemberInvInit, LocksInvInit, Zenon DEF Init, IInv
<1> QED BY <1>1, IInvNext, PTL DEF Spec

\* What the ring of a node answers has an address in its ClusterState, in the
\* middle of NotifyJoin and NotifyLeave and across Shutdown and restarts:
\* ownerAddr never falls back to the node itself for want of one.
THEOREM OwnersRoutable == Spec => []RoutableOwners
<1>1. IInv => RoutableOwners
  BY Zenon DEF IInv, MemberInv
<1> QED BY <1>1, Invariance, PTL

\* The engine that granted a lease keeps it, under the highest fencing token
\* it has issued, for as long as the holder relies on it, however many clients
\* call Lock, Release and Extend and whatever requests arrive late.
THEOREM LeasesKept == Spec => []LeaseKept
<1>1. ASSUME IInv PROVE LeaseKept
  <2>1. SUFFICES ASSUME NEW h \in handles, InForce(h), engine[h.at].boot = h.boot
                 PROVE  IsHeld(h.at) /\ Owns(h.at, h.token)
                          /\ h.fencing = engine[h.at].fencingSeq
    BY Zenon DEF LeaseKept
  <2>2. Owns(h.at, h.token) /\ h.deadline <= engine[h.at].entry.expiresAt
    BY <1>1, <2>1, Zenon DEF IInv, LocksInv, LeaseInv
  <2>3. h \in Handles /\ h.at \in Nodes /\ engine[h.at].entry \in Entry
    BY <1>1, <2>2, Zenon DEF IInv, LocksInv, TypeInv, Handles, Owns
  <2>4. IsHeld(h.at)
    BY <1>1, <2>1, <2>2, <2>3 DEF IInv, LocksInv, TypeInv, IsHeld, Owns, InForce, Handles, Entry
  <2>5. h.fencing = engine[h.at].fencingSeq
    BY <1>1, <2>2, <2>3, Zenon DEF IInv, LocksInv, OwnInv
  <2> QED BY <2>2, <2>4, <2>5, Zenon
<1> QED BY <1>1, Invariance, PTL

\* No request brings a lease back after a Release that returned nil.
THEOREM ReleasesAreFinal == Spec => []ReleaseIsFinal
<1>1. IInv => ReleaseIsFinal
  BY Zenon DEF IInv, LocksInv, OwnInv, ReleaseIsFinal
<1> QED BY <1>1, Invariance, PTL
=============================================================================
