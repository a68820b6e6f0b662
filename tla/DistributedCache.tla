-------------------------- MODULE DistributedCache --------------------------
(***************************************************************************)
(* Set, Get, Delete, Exists and Incr over the nodes of a cluster, in the   *)
(* three cache modes (src/distributed.go, src/cache.go), for one key.      *)
(*                                                                         *)
(* A value is known by the write that produced it.  A remote call is a     *)
(* request in flight, which its target processes at any time, and an       *)
(* answer that arrives or does not; a call that times out leaves its       *)
(* request behind.  Replication requests have no caller that waits.        *)
(***************************************************************************)
EXTENDS Membership, Sequences, FiniteSets

CONSTANTS
  Modes,      \* the values of Config.Mode to consider
  ChurnModes, \* those in which the membership changes
  Clients,    \* goroutines that call the cache
  Home,       \* Home[c]: the node on which c runs
  NoValue,    \* the store has no value for the key
  MaxWrites   \* bound on the number of writes

ASSUME ModesAssumption == Modes \subseteq {"Partitioned", "Replicated", "NearCache"}
ASSUME HomeAssumption == Home \in [Clients -> Nodes]
ASSUME MaxWritesAssumption == MaxWrites \in Nat
ASSUME NoValueAssumption == NoValue \notin Nat

VARIABLES
  mode,    \* Config.Mode, the same on all nodes
  copy,    \* copy[n]: the write whose value the store of n has, or NoValue
  net,     \* requests in flight
  call,    \* call[c]: what c is doing
  writes,  \* history: writes[w] says how write w was made and what preceded it
  ended,   \* history: the writes that have returned without an error
  blamed,  \* history: nodes whose copies may stay behind, see the properties
  read     \* history: the read that has just returned, if any

dataVars == <<mode, copy, net, call, writes, ended, blamed>>
vars == <<memberVars, dataVars, read>>

Over == [pc |-> "over"]

\* A read by a goroutine of node n: what it got, from the store of which node,
\* and which writes had ended when it began.
Read(n, w, from, seen) == [by |-> n, got |-> w, from |-> from, seen |-> seen]
NoRead == Read(NoValue, NoValue, NoValue, {})

DataInit ==
  /\ mode \in Modes
  /\ copy = [n \in Nodes |-> NoValue]
  /\ net = {}
  /\ call = [c \in Clients |-> Over]
  /\ writes = <<>>
  /\ ended = {}
  /\ blamed = {}
  /\ read = NoRead

Init == MemberInit /\ DataInit

CanCall(c) == call[c] = Over /\ up[Home[c]] = "running"

Request(op, n, w, c) == [op |-> op, to |-> n, write |-> w, by |-> c]

-----------------------------------------------------------------------------
\* Writes

Stored(op, w) == IF op = "delete" THEN NoValue ELSE w

At(n, pcs) == \E c \in Clients : Home[c] = n /\ call[c].pc \in pcs

\* The write that c makes now.  In Replicated mode the nodes that requests of
\* earlier writes have still to reach, and those it is not sent to, may stay
\* behind; in NearCache mode a node that is filling its near copy meanwhile.
NewWrite(c, op, targets) ==
  /\ Len(writes) < MaxWrites
  /\ writes' = Append(writes, [op |-> op, node |-> Home[c], targets |-> targets, after |-> ended])
  /\ blamed' = blamed \cup
       CASE mode = "Replicated" -> {m.to : m \in net} \cup (Nodes \ targets)
         [] mode = "NearCache"  -> IF At(Home[c], {"near", "fill"}) THEN {Home[c]} ELSE {}
         [] OTHER               -> {}

\* Mutant: a Delete is not replicated.
ReplicatedWrite_KeepsDelete(c, op) ==
  LET n == Home[c]
      w == Len(writes) + 1
      others == LiveNodes(n) \ {n}
  IN  /\ CanCall(c) /\ mode = "Replicated"
      /\ NewWrite(c, op, others \cup {n})
      /\ copy' = [copy EXCEPT ![n] = Stored(op, w)]
      /\ net' = net \cup {Request(op, m, w, NoValue) : m \in IF op = "set" THEN others ELSE {}}
      /\ ended' = ended \cup {w}
      /\ UNCHANGED <<memberVars, mode, call>>

\* Replicated: the local store, and a goroutine per other live node.
ReplicatedWrite(c, op) ==
  LET n == Home[c]
      w == Len(writes) + 1
      others == LiveNodes(n) \ {n}
  IN  /\ CanCall(c) /\ mode = "Replicated"
      /\ NewWrite(c, op, others \cup {n})
      /\ copy' = [copy EXCEPT ![n] = Stored(op, w)]
      /\ net' = net \cup {Request(op, m, w, NoValue) : m \in others}
      /\ ended' = ended \cup {w}
      /\ UNCHANGED <<memberVars, mode, call>>

\* Mutant: the call does not wait for the owner.
OwnerWrite_NoWait(c, op) ==
  LET n == Home[c]
      w == Len(writes) + 1
      o == ownerAddr(n)
  IN  /\ CanCall(c) /\ (mode = "Partitioned" \/ op = "incr")
      /\ NewWrite(c, op, {o})
      /\ ended' = ended \cup {w}
      /\ IF o = n
         THEN copy' = [copy EXCEPT ![n] = Stored(op, w)] /\ UNCHANGED net
         ELSE net' = net \cup {Request(op, o, w, NoValue)} /\ UNCHANGED copy
      /\ UNCHANGED <<memberVars, mode, call>>

\* The owner's store, which is the local one if ownerAddr is "".  Incr is
\* routed like this in every mode.
OwnerWrite(c, op) ==
  LET n == Home[c]
      w == Len(writes) + 1
      o == ownerAddr(n)
  IN  /\ CanCall(c) /\ (mode = "Partitioned" \/ op = "incr")
      /\ NewWrite(c, op, {o})
      /\ IF o = n
         THEN /\ copy' = [copy EXCEPT ![n] = Stored(op, w)]
              /\ ended' = ended \cup {w}
              /\ UNCHANGED <<net, call>>
         ELSE /\ net' = net \cup {Request(op, o, w, c)}
              /\ call' = [call EXCEPT ![c] = [pc |-> "write", write |-> w]]
              /\ UNCHANGED <<copy, ended>>
      /\ UNCHANGED <<memberVars, mode>>

\* Mutant: only the owner's store.
NearWrite_OwnerOnly(c, op) ==
  LET n == Home[c]
      w == Len(writes) + 1
      o == ownerAddr(n)
  IN  /\ CanCall(c) /\ mode = "NearCache"
      /\ NewWrite(c, op, {n, o})
      /\ IF o = n
         THEN /\ copy' = [copy EXCEPT ![n] = Stored(op, w)]
              /\ ended' = ended \cup {w}
              /\ UNCHANGED <<net, call>>
         ELSE /\ net' = net \cup {Request(op, o, w, c)}
              /\ call' = [call EXCEPT ![c] = [pc |-> "write", write |-> w]]
              /\ UNCHANGED <<copy, ended>>
      /\ UNCHANGED <<memberVars, mode>>

\* NearCache: the local store, then the owner's.
NearWrite(c, op) ==
  LET n == Home[c]
      w == Len(writes) + 1
      o == ownerAddr(n)
  IN  /\ CanCall(c) /\ mode = "NearCache"
      /\ NewWrite(c, op, {n, o})
      /\ copy' = [copy EXCEPT ![n] = Stored(op, w)]
      /\ IF o = n
         THEN ended' = ended \cup {w} /\ UNCHANGED <<net, call>>
         ELSE /\ net' = net \cup {Request(op, o, w, c)}
              /\ call' = [call EXCEPT ![c] = [pc |-> "write", write |-> w]]
              /\ UNCHANGED ended
      /\ UNCHANGED <<memberVars, mode>>

Set(c) == ReplicatedWrite(c, "set") \/ OwnerWrite(c, "set") \/ NearWrite(c, "set")
Delete(c) == ReplicatedWrite(c, "delete") \/ OwnerWrite(c, "delete") \/ NearWrite(c, "delete")
Incr(c) == OwnerWrite(c, "incr")

-----------------------------------------------------------------------------
\* Reads

\* A read that the local store answers.
LocalRead(n) == read' = Read(n, copy[n], n, ended) /\ UNCHANGED call

Asks(c, pc) == call' = [call EXCEPT ![c] = [pc |-> pc, seen |-> ended]] /\ read' = NoRead

\* Replicated: "all nodes have all data".
LocalGet(c) ==
  /\ CanCall(c) /\ mode = "Replicated"
  /\ LocalRead(Home[c])
  /\ UNCHANGED <<memberVars, mode, copy, net, writes, ended, blamed>>

\* Get asks the owner in Partitioned mode, Exists does in every mode.
OwnerRead(c) ==
  LET n == Home[c]
      o == ownerAddr(n)
  IN  /\ CanCall(c)
      /\ IF o = n
         THEN LocalRead(n) /\ UNCHANGED net
         ELSE /\ Asks(c, "read")
              /\ net' = net \cup {Request("get", o, NoValue, c)}
      /\ UNCHANGED <<memberVars, mode, copy, writes, ended, blamed>>

\* NearCache: the local copy, or else the owner's.
NearGet(c) ==
  LET n == Home[c]
      o == ownerAddr(n)
  IN  /\ CanCall(c) /\ mode = "NearCache"
      /\ IF o = n \/ copy[n] # NoValue
         THEN LocalRead(n) /\ UNCHANGED <<net, blamed>>
         ELSE /\ Asks(c, "near")
              /\ net' = net \cup {Request("get", o, NoValue, c)}
              /\ blamed' = IF At(n, {"write"}) THEN blamed \cup {n} ELSE blamed
      /\ UNCHANGED <<memberVars, mode, copy, writes, ended>>

\* A value fetched from the owner becomes the local copy.
Fill(c) ==
  /\ call[c].pc = "fill"
  /\ copy' = [copy EXCEPT ![Home[c]] = call[c].write]
  /\ call' = [call EXCEPT ![c] = Over]
  /\ UNCHANGED <<memberVars, mode, net, writes, ended, blamed>>

-----------------------------------------------------------------------------
\* Requests

Awaits(c, m) == c \in Clients /\ call[c].pc = "write" /\ call[c].write = m.write

\* HandleSet, HandleDelete and HandleIncr; the answer may be lost.
HandleWrite(m, answered) ==
  /\ m \in net /\ m.op # "get"
  /\ up[m.to] # "down"
  /\ net' = net \ {m}
  /\ copy' = [copy EXCEPT ![m.to] = Stored(m.op, m.write)]
  /\ IF answered /\ Awaits(m.by, m)
     THEN call' = [call EXCEPT ![m.by] = Over] /\ ended' = ended \cup {m.write}
     ELSE UNCHANGED <<call, ended>>
  /\ UNCHANGED <<memberVars, mode, writes, blamed>>

\* HandleGet and HandleExists, and the answer.
HandleRead(m) ==
  LET got == copy[m.to] IN
  /\ m \in net /\ m.op = "get"
  /\ up[m.to] # "down"
  /\ net' = net \ {m}
  /\ read' = Read(Home[m.by], got, m.to, call[m.by].seen)
  /\ call' = [call EXCEPT ![m.by] = IF @.pc = "near" /\ got # NoValue
                                    THEN [pc |-> "fill", write |-> got] ELSE Over]
  /\ UNCHANGED <<memberVars, mode, copy, writes, ended, blamed>>

\* No answer in time, or no connection: a write fails, though its request may
\* yet be processed, and a read finds nothing.
CallFails(c) ==
  /\ call[c].pc \in {"write", "read", "near"}
  /\ call' = [call EXCEPT ![c] = Over]
  /\ net' = {m \in net : ~(m.op = "get" /\ m.by = c)}
  /\ UNCHANGED <<memberVars, mode, copy, writes, ended, blamed>>

\* A write request is lost.
Lost(m) ==
  /\ m \in net /\ m.op # "get"
  /\ net' = net \ {m}
  /\ blamed' = blamed \cup {m.to}
  /\ UNCHANGED <<memberVars, mode, copy, call, writes, ended>>

-----------------------------------------------------------------------------
\* The stores

\* The entry expires or is evicted.
Lose(n) ==
  /\ copy[n] # NoValue
  /\ copy' = [copy EXCEPT ![n] = NoValue]
  /\ UNCHANGED <<memberVars, mode, net, call, writes, ended, blamed>>

\* A process ends with its store and its calls.  A write request to it may be
\* lost, or sent again to the process that is started in its place.
CrashNode(n) ==
  /\ Crash(n)
  /\ copy' = [copy EXCEPT ![n] = NoValue]
  /\ call' = [c \in Clients |-> IF Home[c] = n THEN Over ELSE call[c]]
  /\ net' = {m \in net : ~(m.op = "get" /\ Home[m.by] = n)}
  /\ UNCHANGED <<mode, writes, ended, blamed>>

-----------------------------------------------------------------------------
ReadStep ==
  \/ \E c \in Clients : LocalGet(c) \/ OwnerRead(c) \/ NearGet(c)
  \/ \E m \in net : HandleRead(m)

WriteStep ==
  \/ \E c \in Clients : Set(c) \/ Delete(c) \/ Incr(c) \/ Fill(c) \/ CallFails(c)
  \/ \E m \in net : Lost(m) \/ \E answered \in BOOLEAN : HandleWrite(m, answered)
  \/ \E n \in Nodes : Lose(n)

ChurnStep ==
  /\ mode \in ChurnModes
  /\ \/ \E n \in Nodes : CrashNode(n)
     \/ (MemberNext \/ \E n \in Nodes : Start(n)) /\ UNCHANGED dataVars

Next ==
  \/ ReadStep
  \/ (WriteStep \/ ChurnStep) /\ read' = NoRead

Spec == Init /\ [][Next]_vars

-----------------------------------------------------------------------------
\* Properties

\* Write x began after w had ended, so whoever has seen x should not see w.
Supersedes(x, w) == w \in writes[x].after

\* Partitioned: a hit is out of date only if the newer write went to another
\* node than the read.  So as long as the nodes agree on the owner, nobody
\* reads a value that was overwritten or deleted before the read began,
\* whatever is late, lost or answered too late.
FreshPerOwner ==
  mode = "Partitioned" =>
    \A x \in read.seen : Supersedes(x, read.got) => read.from \notin writes[x].targets

\* NearCache: while the membership does not change, a node reads its own Sets
\* and Deletes: no goroutine of it gets an older value once one of them has
\* returned, unless the node was fetching a near copy at the same time.
OwnWritesSeen ==
  mode = "NearCache" /\ churn = 0 =>
    \A x \in read.seen :
      Supersedes(x, read.got) /\ writes[x].op # "incr" /\ writes[x].node = read.by
        => read.by \in blamed

\* Replicated: once all requests are through, a copy is out of date only on a
\* node that a request did not reach or that a newer write overtook.
ReplicasSettle ==
  mode = "Replicated" /\ net = {} =>
    \A n \in Nodes \ blamed :
      copy[n] # NoValue => ~ \E x \in ended : Supersedes(x, copy[n])
=============================================================================
