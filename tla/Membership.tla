----------------------------- MODULE Membership -----------------------------
(***************************************************************************)
(* What each node knows of the cluster: its ClusterState and the members   *)
(* of its hash ring (src/internal/cluster/member.go, state.go), kept up to *)
(* date by the callbacks of the gossip library, and the start, Shutdown    *)
(* and crash of nodes (src/cache.go).                                      *)
(*                                                                         *)
(* The gossip library is external: it tells each node of joins and leaves  *)
(* at its own time, may take a node that is alive for dead, and calls back *)
(* one event at a time.  A callback updates the state and the ring one     *)
(* after the other; calls of the cache look at them in between.  The ring  *)
(* is the set of its members here (HashRing shows that this is all that    *)
(* lookups depend on), and OwnerOf is its GetNode for the key in question. *)
(***************************************************************************)
EXTENDS Naturals

CONSTANTS
  Nodes,
  OwnerOf(_),  \* OwnerOf(S): the node to which a ring of the nodes S maps the key
  MaxChurn     \* bound on the number of membership events, starts and stops

ASSUME OwnerAssumption == \A S \in SUBSET Nodes : S # {} => OwnerOf(S) \in S
ASSUME MaxChurnAssumption == MaxChurn \in Nat

VARIABLES
  up,      \* up[n]: "running", "shutdown" (the process lives on) or "down"
  status,  \* status[n][m]: the Status of m in the ClusterState of n, or "unknown"
  ring,    \* ring[n]: the members of the ring of n
  event,   \* event[n]: the callback of n that has updated its state but not its ring
  churn    \* how many events there have been

memberVars == <<up, status, ring, event, churn>>

NoEvent == [type |-> "none"]

\* What a node that knows the nodes S starts from.
Knows(S) == [m \in Nodes |-> IF m \in S THEN "alive" ELSE "unknown"]

\* A cluster that has formed, or nodes that have not heard of each other yet.
MemberInit ==
  /\ up = [n \in Nodes |-> "running"]
  /\ ring \in {[n \in Nodes |-> Nodes], [n \in Nodes |-> {n}]}
  /\ status = [n \in Nodes |-> Knows(ring[n])]
  /\ event = [n \in Nodes |-> NoEvent]
  /\ churn = 0

Happens == churn < MaxChurn /\ churn' = churn + 1

-----------------------------------------------------------------------------
\* What the cache asks

\* The node to which n sends a call for the key: itself if ownerAddr is "".
ownerAddr(n) ==
  LET o == OwnerOf(ring[n]) IN
  IF ring[n] = {} \/ status[n][o] = "unknown" THEN n ELSE o

LiveNodes(n) == {m \in Nodes : status[n][m] = "alive"}

-----------------------------------------------------------------------------
\* The callbacks, first the state and then the ring

\* Mutant: the ring is updated first.
NotifyJoin_RingFirst(n, m) ==
  /\ Happens
  /\ up[n] = "running" /\ event[n] = NoEvent
  /\ up[m] = "running" /\ m \notin ring[n]
  /\ ring' = [ring EXCEPT ![n] = @ \cup {m}]
  /\ event' = [event EXCEPT ![n] = [type |-> "join", node |-> m]]
  /\ UNCHANGED <<up, status>>

NotifyJoin(n, m) ==
  /\ Happens
  /\ up[n] = "running" /\ event[n] = NoEvent
  /\ up[m] = "running" /\ m \notin ring[n]
  /\ status' = [status EXCEPT ![n][m] = "alive"]
  /\ event' = [event EXCEPT ![n] = [type |-> "join", node |-> m]]
  /\ UNCHANGED <<up, ring>>

NotifyLeave(n, m) ==
  /\ Happens
  /\ up[n] = "running" /\ event[n] = NoEvent
  /\ m \in ring[n] \ {n}
  /\ status' = [status EXCEPT ![n][m] = "left"]
  /\ event' = [event EXCEPT ![n] = [type |-> "leave", node |-> m]]
  /\ UNCHANGED <<up, ring>>

UpdateRing(n) ==
  /\ event[n] # NoEvent
  /\ ring' = [ring EXCEPT ![n] = IF event[n].type = "join" THEN @ \cup {event[n].node}
                                 ELSE @ \ {event[n].node}]
  /\ event' = [event EXCEPT ![n] = NoEvent]
  /\ UNCHANGED <<up, status, churn>>

-----------------------------------------------------------------------------
\* Starting and stopping

\* New: NewMembership puts the node itself into its state and its ring.
Start(n) ==
  /\ Happens
  /\ up[n] = "down"
  /\ up' = [up EXCEPT ![n] = "running"]
  /\ status' = [status EXCEPT ![n] = Knows({n})]
  /\ ring' = [ring EXCEPT ![n] = {n}]
  /\ UNCHANGED event

\* Shutdown leaves the gossip, which calls back for the node itself, and stops
\* the listener.  Connections accepted before are still served.
Shutdown(n) ==
  /\ Happens
  /\ up[n] = "running" /\ event[n] = NoEvent
  /\ up' = [up EXCEPT ![n] = "shutdown"]
  /\ status' = [status EXCEPT ![n][n] = "left"]
  /\ ring' = [ring EXCEPT ![n] = @ \ {n}]
  /\ UNCHANGED event

\* The process ends, with or without Shutdown.
Crash(n) ==
  /\ Happens
  /\ up[n] # "down"
  /\ up' = [up EXCEPT ![n] = "down"]
  /\ status' = [status EXCEPT ![n] = Knows({})]
  /\ ring' = [ring EXCEPT ![n] = {}]
  /\ event' = [event EXCEPT ![n] = NoEvent]

\* The events that leave the stores and the lock engines alone.
MemberNext ==
  \E n \in Nodes :
    \/ UpdateRing(n) \/ Shutdown(n)
    \/ \E m \in Nodes : NotifyJoin(n, m) \/ NotifyLeave(n, m)

-----------------------------------------------------------------------------
\* Properties

\* A call is never taken for a local one because the owner is missing from the
\* ClusterState: whatever the ring can answer while callbacks run has an
\* address (ownerAddr's last test never fails).
RoutableOwners == \A n \in Nodes : \A m \in ring[n] : status[n][m] # "unknown"
=============================================================================
